--------------------------- MODULE MetaIndexProofs ---------------------------
(***************************************************************************)
(* The list of entries that MetaIndex keeps behaves as the map from paths  *)
(* to entries that the other modules put in its place: every operation the *)
(* program calls keeps the list free of two entries of one path, changes   *)
(* what find_entry returns for its own path the way the map operation      *)
(* does, and leaves all other paths alone.                                 *)
(***************************************************************************)
EXTENDS MetaIndex, TLAPS

CONSTANTS Local, Meta

\* Every entry has a path, whatever else its metadata holds.
MetaIndexEntry == [local_path : Local, received_chunks : SUBSET Nat, meta : Meta]

\* In a list without two entries of one path, find_entry returns the only one.
LEMMA OnlyOne ==
    ASSUME NEW s \in Seq(MetaIndexEntry), IsIndex(s), NEW i \in DOMAIN s
    PROVE  /\ At(s, s[i].meta.path) = {i}
           /\ First(s, s[i].meta.path) = i
           /\ find_entry(s, s[i].meta.path) = s[i]
<1>1. At(s, s[i].meta.path) = {i}
  BY DEF At, IsIndex
<1>2. First(s, s[i].meta.path) = i
  BY <1>1 DEF First
<1> QED
  BY <1>1, <1>2 DEF find_entry

\* A path has an entry, or find_entry returns NoEntry.
LEMMA FoundOrNot ==
    ASSUME NEW s \in Seq(MetaIndexEntry), IsIndex(s), NEW p
    PROVE  \/ /\ At(s, p) = {}
              /\ find_entry(s, p) = NoEntry
           \/ /\ At(s, p) = {First(s, p)}
              /\ First(s, p) \in DOMAIN s
              /\ s[First(s, p)].meta.path = p
              /\ find_entry(s, p) = s[First(s, p)]
<1>1. CASE At(s, p) = {}
  BY <1>1 DEF find_entry
<1>2. CASE At(s, p) # {}
  <2>1. PICK i \in DOMAIN s : s[i].meta.path = p
    BY <1>2 DEF At
  <2> QED
    BY <2>1, OnlyOne
<1> QED
  BY <1>1, <1>2

\* Replacing the entry of a path by another one of the same path.
LEMMA ReplacedActs ==
    ASSUME NEW s \in Seq(MetaIndexEntry), IsIndex(s), NEW p, At(s, p) # {},
           NEW e \in MetaIndexEntry, e.meta.path = p
    PROVE  /\ Replaced(s, p, e) \in Seq(MetaIndexEntry)
           /\ IsIndex(Replaced(s, p, e))
           /\ \A q : find_entry(Replaced(s, p, e), q) = IF q = p THEN e ELSE find_entry(s, q)
<1> DEFINE n == First(s, p)
           t == Replaced(s, p, e)
<1>1. n \in DOMAIN s /\ s[n].meta.path = p
  BY FoundOrNot
<1> HIDE DEF n
<1>2. /\ t \in Seq(MetaIndexEntry)
      /\ DOMAIN t = DOMAIN s
      /\ t[n] = e
      /\ \A i \in DOMAIN s : i # n => t[i] = s[i]
  BY <1>1 DEF Replaced, n
<1>3. \A i \in DOMAIN s : t[i].meta.path = s[i].meta.path
  BY <1>1, <1>2
<1>4. IsIndex(t)
  BY <1>2, <1>3 DEF IsIndex
<1>5. ASSUME NEW q PROVE find_entry(t, q) = IF q = p THEN e ELSE find_entry(s, q)
  <2>1. At(t, q) = At(s, q)
    BY <1>2, <1>3 DEF At
  <2>2. First(t, q) = First(s, q)
    BY <2>1 DEF First
  <2>3. CASE q = p
    BY <2>1, <2>2, <2>3, <1>2 DEF find_entry, n
  <2>4. CASE q # p /\ At(s, q) = {}
    BY <2>1, <2>4 DEF find_entry
  <2>5. CASE q # p /\ At(s, q) # {}
    <3>1. First(s, q) \in DOMAIN s /\ s[First(s, q)].meta.path = q
      BY <2>5, FoundOrNot
    <3>2. First(s, q) # n
      BY <3>1, <1>1, <2>5
    <3> QED
      BY <2>1, <2>2, <2>5, <3>1, <3>2, <1>2 DEF find_entry
  <2> QED
    BY <2>3, <2>4, <2>5
<1> QED
  BY <1>2, <1>4, <1>5

\* add_entry is the update of the map at the entry's path (meta.rs, add_entry
\* and add_for_meta).
THEOREM AddIsUpdate ==
    ASSUME NEW s \in Seq(MetaIndexEntry), IsIndex(s), NEW e \in MetaIndexEntry
    PROVE  /\ add_entry(s, e) \in Seq(MetaIndexEntry)
           /\ IsIndex(add_entry(s, e))
           /\ \A q : find_entry(add_entry(s, e), q) =
                        IF q = e.meta.path THEN e ELSE find_entry(s, q)
<1> DEFINE p == e.meta.path
           t == add_entry(s, e)
<1>1. CASE At(s, p) # {}
  BY <1>1, ReplacedActs DEF add_entry
<1>2. CASE At(s, p) = {}
  <2>1. /\ t \in Seq(MetaIndexEntry)
        /\ DOMAIN t = DOMAIN s \cup {Len(s) + 1}
        /\ Len(s) + 1 \notin DOMAIN s
        /\ t[Len(s) + 1] = e
        /\ \A i \in DOMAIN s : t[i] = s[i]
    BY <1>2 DEF add_entry
  <2>2. \A i \in DOMAIN s : s[i].meta.path # p
    BY <1>2 DEF At
  <2>3. IsIndex(t)
    BY <2>1, <2>2 DEF IsIndex
  <2>4. ASSUME NEW q PROVE find_entry(t, q) = IF q = p THEN e ELSE find_entry(s, q)
    <3>1. CASE q = p
      BY <3>1, <2>1, <2>3, OnlyOne
    <3>2. CASE q # p
      <4>1. At(t, q) = At(s, q)
        BY <2>1, <3>2 DEF At
      <4>2. First(t, q) = First(s, q)
        BY <4>1 DEF First
      <4>3. CASE At(s, q) = {}
        BY <3>2, <4>1, <4>3 DEF find_entry
      <4>4. CASE At(s, q) # {}
        <5>1. First(s, q) \in DOMAIN s
          BY <4>4, FoundOrNot
        <5> QED
          BY <3>2, <4>1, <4>2, <4>4, <5>1, <2>1 DEF find_entry
      <4> QED
        BY <4>3, <4>4
    <3> QED
      BY <3>1, <3>2
  <2> QED
    BY <2>1, <2>3, <2>4
<1> QED
  BY <1>1, <1>2

\* change_local sets the local path and drops the marks of one entry, or does
\* nothing (meta.rs, change_local).
THEOREM ChangeLocalIsUpdate ==
    ASSUME NEW s \in Seq(MetaIndexEntry), IsIndex(s), NEW p, NEW l \in Local
    PROVE  /\ change_local(s, p, l) \in Seq(MetaIndexEntry)
           /\ IsIndex(change_local(s, p, l))
           /\ \A q : find_entry(change_local(s, p, l), q) =
                        IF q = p /\ At(s, p) # {}
                        THEN [find_entry(s, p) EXCEPT !.local_path = l, !.received_chunks = {}]
                        ELSE find_entry(s, q)
<1> DEFINE e == [find_entry(s, p) EXCEPT !.local_path = l, !.received_chunks = {}]
<1>1. CASE At(s, p) = {}
  BY <1>1 DEF change_local
<1>2. CASE At(s, p) # {}
  <2>1. find_entry(s, p) \in MetaIndexEntry /\ find_entry(s, p).meta.path = p
    BY <1>2, FoundOrNot
  <2>2. e \in MetaIndexEntry /\ e.meta = find_entry(s, p).meta
    BY <2>1 DEF MetaIndexEntry
  <2>3. e.meta.path = p
    BY <2>1, <2>2
  <2>4. change_local(s, p, l) = Replaced(s, p, e)
    BY <1>2 DEF change_local
  <2> HIDE DEF e
  <2>5. \A q : find_entry(Replaced(s, p, e), q) = IF q = p THEN e ELSE find_entry(s, q)
    BY <1>2, <2>2, <2>3, ReplacedActs
  <2>6. Replaced(s, p, e) \in Seq(MetaIndexEntry) /\ IsIndex(Replaced(s, p, e))
    BY <1>2, <2>2, <2>3, ReplacedActs
  <2> QED
    BY <1>2, <2>4, <2>5, <2>6 DEF e
<1> QED
  BY <1>1, <1>2

\* mark_received adds one mark to one entry, if the entry has such a chunk
\* (meta.rs, mark_received).
THEOREM MarkIsUpdate ==
    ASSUME NEW s \in Seq(MetaIndexEntry), IsIndex(s), NEW p, NEW k \in Nat
    PROVE  /\ mark_received(s, p, k) \in Seq(MetaIndexEntry)
           /\ IsIndex(mark_received(s, p, k))
           /\ \A q : find_entry(mark_received(s, p, k), q) =
                        IF q = p /\ ~(At(s, p) = {} \/ k >= Len(find_entry(s, p).meta.chunks))
                        THEN [find_entry(s, p) EXCEPT !.received_chunks = @ \cup {k}]
                        ELSE find_entry(s, q)
<1> DEFINE none == At(s, p) = {} \/ k >= Len(find_entry(s, p).meta.chunks)
           e == [find_entry(s, p) EXCEPT !.received_chunks = @ \cup {k}]
<1>1. CASE none
  BY <1>1 DEF mark_received
<1>2. CASE ~none
  <2>1. find_entry(s, p) \in MetaIndexEntry /\ find_entry(s, p).meta.path = p
    BY <1>2, FoundOrNot
  <2>2. e \in MetaIndexEntry /\ e.meta = find_entry(s, p).meta
    BY <2>1 DEF MetaIndexEntry
  <2>3. e.meta.path = p
    BY <2>1, <2>2
  <2>4. mark_received(s, p, k) = Replaced(s, p, e)
    BY <1>2 DEF mark_received
  <2> HIDE DEF e
  <2>5. \A q : find_entry(Replaced(s, p, e), q) = IF q = p THEN e ELSE find_entry(s, q)
    BY <1>2, <2>2, <2>3, ReplacedActs
  <2>6. Replaced(s, p, e) \in Seq(MetaIndexEntry) /\ IsIndex(Replaced(s, p, e))
    BY <1>2, <2>2, <2>3, ReplacedActs
  <2> QED
    BY <1>2, <2>4, <2>5, <2>6 DEF e
<1> QED
  BY <1>1, <1>2

\* remove takes one entry out and keeps the others, in their order (meta.rs,
\* remove: the loop stops at the first entry of the path, which is the only
\* one).
THEOREM RemoveIsUpdate ==
    ASSUME NEW s \in Seq(MetaIndexEntry), IsIndex(s), NEW p
    PROVE  /\ remove(s, p) \in Seq(MetaIndexEntry)
           /\ IsIndex(remove(s, p))
           /\ \A q : find_entry(remove(s, p), q) = IF q = p THEN NoEntry ELSE find_entry(s, q)
<1> DEFINE t == remove(s, p)
<1>1. CASE At(s, p) = {}
  BY <1>1 DEF remove, find_entry
<1>2. CASE At(s, p) # {}
  <2> DEFINE n == First(s, p)
             Old(i) == IF i < n THEN i ELSE i + 1
  <2>1. n \in 1 .. Len(s) /\ s[n].meta.path = p
    BY <1>2, FoundOrNot
  <2>2. \A i \in 1 .. Len(s) : s[i].meta.path = p => i = n
    BY <2>1 DEF IsIndex
  <2>3. t = [i \in 1 .. Len(s) - 1 |-> IF i < n THEN s[i] ELSE s[i + 1]]
    BY <1>2 DEF remove
  <2> HIDE DEF n, t
  <2>4. \A i \in 1 .. Len(s) - 1 : t[i] = s[Old(i)] /\ Old(i) \in 1 .. Len(s) /\ Old(i) # n
    BY <2>1, <2>3
  <2>5. t \in Seq(MetaIndexEntry) /\ DOMAIN t = 1 .. Len(s) - 1
    <3>1. Len(s) - 1 \in Nat
      BY <2>1
    <3>2. \A i \in 1 .. Len(s) - 1 : t[i] \in MetaIndexEntry
      BY <2>4
    <3> QED
      BY <3>1, <3>2, <2>3
  <2>6. IsIndex(t)
    <3> SUFFICES ASSUME NEW i \in 1 .. Len(s) - 1, NEW j \in 1 .. Len(s) - 1,
                        t[i].meta.path = t[j].meta.path
                 PROVE  i = j
      BY <2>5 DEF IsIndex
    <3>1. Old(i) = Old(j)
      BY <2>4 DEF IsIndex
    <3> QED
      BY <3>1, <2>1
  <2>7. ASSUME NEW q PROVE find_entry(t, q) = IF q = p THEN NoEntry ELSE find_entry(s, q)
    <3>1. CASE q = p
      <4>1. At(t, q) = {}
        BY <3>1, <2>2, <2>4, <2>5 DEF At
      <4> QED
        BY <3>1, <4>1 DEF find_entry
    <3>2. CASE q # p /\ At(s, q) = {}
      <4>1. At(t, q) = {}
        BY <3>2, <2>4, <2>5 DEF At
      <4> QED
        BY <3>2, <4>1 DEF find_entry
    <3>3. CASE q # p /\ At(s, q) # {}
      <4>1. PICK j \in 1 .. Len(s) : s[j].meta.path = q
        BY <3>3 DEF At
      <4>2. j # n
        BY <4>1, <3>3, <2>1
      <4>3. PICK i \in 1 .. Len(s) - 1 : Old(i) = j
        <5>1. CASE j < n
          BY <5>1, <2>1, <4>1
        <5>2. CASE j > n
          <6>1. j - 1 \in 1 .. Len(s) - 1 /\ Old(j - 1) = j
            BY <5>2, <2>1, <4>1
          <6> QED
            BY <6>1
        <5> QED
          BY <5>1, <5>2, <4>2, <2>1
      <4>4. t[i] = s[j]
        BY <4>3, <2>4
      <4>5. find_entry(t, q) = s[j]
        BY <4>1, <4>4, <2>5, <2>6, OnlyOne
      <4>6. find_entry(s, q) = s[j]
        BY <4>1, OnlyOne
      <4> QED
        BY <3>3, <4>5, <4>6
    <3> QED
      BY <3>1, <3>2, <3>3
  <2> QED
    BY <2>5, <2>6, <2>7 DEF t
<1> QED
  BY <1>1, <1>2

\* What the server sends to one who asks for metadata newer than t has, for
\* every path, what find_entry returns if that is newer, and nothing if it is
\* not or if there is no entry: no path is named twice in the answer
\* (get_modified_after filters the whole list).
THEOREM NewerIsLookup ==
    ASSUME NEW s \in Seq(MetaIndexEntry), IsIndex(s), NoEntry \notin MetaIndexEntry, NEW t, NEW p
    PROVE  LET r == MetaByPath(get_modified_after(s, t))
               e == find_entry(s, p)
           IN  /\ p \in DOMAIN r <=> e # NoEntry /\ e.meta.meta_modified > t
               /\ p \in DOMAIN r => r[p] = e.meta
<1>1. PICK E : E = get_modified_after(s, t)
  OBVIOUS
<1>2. PICK r : r = MetaByPath(E)
  OBVIOUS
<1>3. PICK e : e = find_entry(s, p)
  OBVIOUS
<1>4. r = [q \in {f.meta.path : f \in E} |-> (CHOOSE f \in E : f.meta.path = q).meta]
  BY <1>2 DEF MetaByPath
<1>5. \A f : f \in E <=> (\E i \in DOMAIN s : f = s[i]) /\ f.meta.meta_modified > t
  BY <1>1 DEF get_modified_after, Entries
<1>6. ASSUME e # NoEntry
      PROVE  /\ e.meta.path = p /\ \E i \in DOMAIN s : e = s[i]
             /\ \A i \in DOMAIN s : s[i].meta.path = p => s[i] = e
  <2>1. At(s, p) = {First(s, p)} /\ First(s, p) \in DOMAIN s /\ s[First(s, p)].meta.path = p /\ e = s[First(s, p)]
    BY <1>3, <1>6, FoundOrNot
  <2> QED BY <2>1 DEF At
<1>7. ASSUME NEW f \in E, f.meta.path = p PROVE e = f /\ e # NoEntry
  <2>1. PICK i \in DOMAIN s : f = s[i]
    BY <1>5
  <2>2. e = f
    BY <1>3, <1>7, <2>1, OnlyOne
  <2>3. s[i] \in MetaIndexEntry
    OBVIOUS
  <2> QED BY <2>1, <2>2, <2>3
<1>8. p \in DOMAIN r <=> \E f \in E : f.meta.path = p
  BY <1>4
<1>9. p \in DOMAIN r <=> e # NoEntry /\ e.meta.meta_modified > t
  BY <1>5, <1>6, <1>7, <1>8
<1>10. ASSUME p \in DOMAIN r PROVE r[p] = e.meta
  <2>1. (CHOOSE f \in E : f.meta.path = p) = e
    BY <1>7, <1>8, <1>10
  <2> QED BY <1>4, <1>10, <2>1
<1> QED BY <1>1, <1>2, <1>3, <1>9, <1>10
=============================================================================
