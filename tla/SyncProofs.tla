------------------------------ MODULE SyncProofs ------------------------------
(***************************************************************************)
(* Proofs about Sync: what the receiver knows, what is on its way and what *)
(* is published always fit together, so that nothing published is missed   *)
(* but by a tie, and nothing received is wiped by old news.                *)
(***************************************************************************)
EXTENDS Sync, ReceiverProofs

MP == INSTANCE MetaIndexProofs WITH Local <- Local \cup {NoPath}

-----------------------------------------------------------------------------
(***************************************************************************)
(* The inductive invariant.                                                *)
(***************************************************************************)

\* The replies to RequestMeta on their way, and the metadata in one.
Replies == {i \in DOMAIN outgoing : outgoing[i].type = "TransmitMeta"}

News(i) == outgoing[i].meta

\* The connection and the published list.
NetInv ==
    /\ published \in Seq(Entry)
    /\ M!IsIndex(published)
    /\ now \in 0 .. MaxTime /\ news \in 0 .. MaxNew
    /\ inbox \in Seq(Message) /\ Len(inbox) <= NetCap
    /\ outgoing \in Seq(ServerMessage) /\ Len(outgoing) <= NetCap
    /\ link \in {"none", "open", "receiver"}

\* No time is later than now.
TimesInv ==
    /\ \A m \in Meta : OnServer(m) => m.path \in Path /\ m.meta_modified <= now
    /\ \A p \in Path : Known(p) => index[p].meta.meta_modified <= now
    /\ \A i \in Replies : \A p \in DOMAIN News(i) : News(i)[p].meta_modified <= now

\* What is known of the path of a published file, or on its way, is not newer.
Outdated(n, m) == n.meta_modified <= m.meta_modified

PublishedInv ==
    \A m \in Meta : OnServer(m) =>
        /\ Known(m.path) => Outdated(index[m.path].meta, m)
        /\ \A i \in Replies : m.path \in DOMAIN News(i) => Outdated(News(i)[m.path], m)

\* News of a file is never older than what the receiver knows of it or will
\* know when the news arrives.
OrderInv ==
    \A i \in Replies : \A p \in DOMAIN News(i) :
        /\ Known(p) => index[p].meta.meta_modified <= News(i)[p].meta_modified
        /\ \A j \in Replies : j < i /\ p \in DOMAIN News(j) =>
              News(j)[p].meta_modified <= News(i)[p].meta_modified

\* Reply i holds the published file m; or neither it, nor a reply before it, nor
\* what is known is newer than m; or it leaves m out, which is no news.
Covers(i, m) ==
    \/ m.path \in DOMAIN News(i) /\ News(i)[m.path] = m
    \/ /\ get_last_updated(index) <= m.meta_modified
       /\ \A j \in Replies : j <= i =>
             \A p \in DOMAIN News(j) : News(j)[p].meta_modified <= m.meta_modified
    \/ m.path \notin DOMAIN News(i) /\ m.meta_modified <= get_last_updated(index)

CompleteInv == \A i \in Replies : \A m \in Meta : OnServer(m) => Covers(i, m)

\* The receiver asks for no less than what is newer than what it knows.
Asks(s, t) == \A i \in DOMAIN s : s[i].type = "RequestMeta" => s[i].after <= t

AskInv ==
    /\ last_updated <= get_last_updated(index)
    /\ Asks(up, get_last_updated(index))
    /\ Asks(inbox, get_last_updated(index))

\* A process that has died holds nothing and has no connection.
DeadInv == state = "Crashed" => up = <<>> /\ inbox = <<>> /\ outgoing = <<>> /\ link = "none"

\* What the receiver asked for since this login, and what it gets, is newer
\* than what it knew then.
AsksNewer(s, t) == \A i \in DOMAIN s : s[i].type = "RequestMeta" => t <= s[i].after

Since ==
    /\ AsksNewer(up, last_updated)
    /\ AsksNewer(inbox, last_updated)
    /\ \A i \in Replies : \A p \in DOMAIN News(i) : last_updated < News(i)[p].meta_modified

HasAsk(s) == \E i \in DOMAIN s : s[i].type = "RequestMeta"

Asked == HasAsk(up) \/ HasAsk(inbox)

Welcomes == {i \in DOMAIN outgoing : outgoing[i].type = "LoginSuccess"}

\* A connection sees one LoginSuccess, before anything is asked for.
LoginInv ==
    /\ state \in {"Idle", "RequestedChunk"} => Since /\ link # "open" /\ Welcomes = {}
    /\ link = "open" => Welcomes = {}
    /\ link = "open" \/ Welcomes # {} => ~Asked /\ Replies = {}
    /\ \A i, j \in Welcomes : i = j

KnowledgeInv == TimesInv /\ PublishedInv /\ OrderInv /\ CompleteInv

SInv == IInv /\ NetInv /\ KnowledgeInv /\ AskInv /\ DeadInv /\ LoginInv

-----------------------------------------------------------------------------
(***************************************************************************)
(* What the receiver knows.                                                *)
(***************************************************************************)

IndexType == [Path -> Entry \cup {NoEntry}]

\* The newest timestamp of an index is one of its timestamps, and there is one
\* unless the index is empty.
LEMMA Newest ==
    ASSUME NEW ix \in IndexType, NEW n \in Nat,
           \A p \in Path : ix[p] # NoEntry => ix[p].meta.meta_modified <= n
    PROVE  /\ get_last_updated(ix) \in Nat \cup {MinTime}
           /\ get_last_updated(ix) <= n
           /\ \A p \in Path : ix[p] # NoEntry => ix[p].meta.meta_modified <= get_last_updated(ix)
           /\ \/ get_last_updated(ix) = MinTime
              \/ \E p \in Path : ix[p] # NoEntry /\ ix[p].meta.meta_modified = get_last_updated(ix)
<1>1. PICK T : T = {ix[p].meta.meta_modified : p \in {q \in Path : ix[q] # NoEntry}}
  OBVIOUS
<1>2. \A p \in Path : ix[p] # NoEntry => ix[p].meta.meta_modified \in T
  BY <1>1
<1>3. T \subseteq Nat /\ \A t \in T : t <= n
  <2>1. \A p \in Path : ix[p] # NoEntry => ix[p].meta \in Meta
    BY DEF IndexType, Entry
  <2> QED BY <1>1, <2>1, MetaAssumption DEF IsMeta
<1>4. PICK g : g = get_last_updated(ix)
  OBVIOUS
<1>5. g = IF \E t \in T : \A u \in T : u <= t
          THEN CHOOSE t \in T : \A u \in T : u <= t ELSE MinTime
  BY <1>1, <1>4 DEF get_last_updated
<1>6. CASE T = {}
  <2>1. g = MinTime
    BY <1>5, <1>6
  <2>2. \A p \in Path : ix[p] = NoEntry
    BY <1>2, <1>6
  <2> QED BY <1>4, <2>1, <2>2 DEF MinTime
<1>7. CASE T # {}
  <2>1. PICK U : U = {u \in Nat : \A t \in T : t <= u}
    OBVIOUS
  <2>2. U \in SUBSET Nat /\ n \in U
    BY <1>3, <2>1
  <2>3. PICK u \in U : \A v \in U : u <= v
    BY <2>2, LeastNumber
  <2>4. u \in T
    <3>1. SUFFICES ASSUME u \notin T PROVE FALSE
      OBVIOUS
    <3>2. PICK t \in T : t <= u
      BY <1>7, <2>1, <2>3
    <3>3. \A v \in T : v < u
      BY <1>3, <2>1, <2>3, <3>1
    <3>4. u - 1 \in Nat
      BY <1>3, <2>1, <3>2, <3>3
    <3>5. \A v \in T : v <= u - 1
      BY <1>3, <2>1, <3>3
    <3>6. u - 1 \in U
      BY <2>1, <3>4, <3>5
    <3> QED BY <2>1, <2>3, <3>6
  <2>5. g \in T /\ \A v \in T : v <= g
    BY <1>5, <2>1, <2>4
  <2>6. PICK p \in Path : ix[p] # NoEntry /\ ix[p].meta.meta_modified = g
    BY <1>1, <2>5
  <2> QED BY <1>2, <1>3, <1>4, <2>5, <2>6
<1> QED BY <1>6, <1>7

\* The same metadata of the same files.
Same(ix, iy) ==
    \A p \in Path : /\ ix[p] # NoEntry <=> iy[p] # NoEntry
                    /\ ix[p] # NoEntry => iy[p].meta = ix[p].meta

\* It has the same newest timestamp.
LEMMA SameNewest ==
    ASSUME NEW ix, NEW iy, Same(ix, iy)
    PROVE  get_last_updated(iy) = get_last_updated(ix)
<1>1. {iy[p].meta.meta_modified : p \in {q \in Path : iy[q] # NoEntry}} =
      {ix[p].meta.meta_modified : p \in {q \in Path : ix[q] # NoEntry}}
  BY DEF Same
<1> QED BY <1>1 DEF get_last_updated

\* What the receiver does other than to take metadata.
Chores ==
    \/ LogInAsReceiver \/ LoggedInAsReceiver \/ DownloadStopped
    \/ \E p \in Path : \E l \in Locals(p) : FileRequested(p, l)
    \/ \E p \in Path : FileResumed(p)
    \/ LoginSuccess \/ SendMessage
    \/ \E t \in Nat : NotifyUpdated(t)
    \/ \E b \in Data : TransmitChunk(b)
    \/ Crash \/ Restart
    \/ UNCHANGED vars

LEMMA ChoresIInv ==
    ASSUME IInv, Chores
    PROVE  IInv'
<1>1. CASE \E t \in Nat : NotifyUpdated(t)
  BY <1>1, MessageIInv
<1>2. CASE ~(\E t \in Nat : NotifyUpdated(t))
  <2>1. [Next]_vars
    BY <1>2 DEF Chores, Next
  <2> QED BY <2>1, NextIInv
<1> QED BY <1>1, <1>2

\* None of this changes the metadata it knows.
LEMMA ChoresSame ==
    ASSUME IInv, Chores
    PROVE  Same(index, index')
<1>t. index \in [Path -> Entry \cup {NoEntry}]
  BY DEF IInv, TypeOK
<1>1. ASSUME NEW q \in Path, NEW d \in Entry, index[q] \in Entry, d.meta = index[q].meta,
             index' = [index EXCEPT ![q] = d]
      PROVE  Same(index, index')
  BY <1>t, <1>1, NoneAssumption DEF Same
<1>2. CASE UNCHANGED index
  BY <1>2 DEF Same
<1>3. CASE \/ LogInAsReceiver \/ LoggedInAsReceiver \/ DownloadStopped
           \/ \E p \in Path : FileResumed(p)
           \/ LoginSuccess \/ SendMessage
           \/ \E t \in Nat : NotifyUpdated(t)
           \/ Crash \/ Restart
           \/ UNCHANGED vars
  BY <1>2, <1>3 DEF LogInAsReceiver, LoggedInAsReceiver, DownloadStopped, FileResumed, LoginSuccess,
     SendMessage, NotifyUpdated, Crash, Restart, vars, Dropped
<1>4. ASSUME NEW p \in Path, NEW l \in Locals(p), FileRequested(p, l), ~UNCHANGED index
      PROVE  Same(index, index')
  <2>1. Known(p) /\ index' = [index EXCEPT ![p] = change_local(index[p], l)]
    BY <1>4 DEF FileRequested, DieInSave
  <2>2. index[p] \in Entry
    BY <2>1, KnownEntry DEF IInv
  <2>3. change_local(index[p], l) \in Entry /\ change_local(index[p], l).meta = index[p].meta
    BY <2>2, LocalAssumption DEF change_local, Entry
  <2> QED BY <1>1, <2>1, <2>2, <2>3
<1>5. ASSUME NEW b \in Data, TransmitChunk(b), ~UNCHANGED index
      PROVE  Same(index, index')
  <2>1. PICK r : r = requesting_chunk
    OBVIOUS
  <2>2. state = "RequestedChunk" /\ Advance(r, index[r.remote_path], b)
    BY <1>5, <2>1 DEF TransmitChunk, WriteError, Dropped, vars
  <2>3. r.remote_path \in Path /\ r.chunk_index \in Nat /\ index[r.remote_path] \in Entry
    BY <2>1, <2>2 DEF IInv, RequestInv, Requesting
  <2>4. PICK e : e = index[r.remote_path]
    OBVIOUS
  <2>5. PICK d : d = mark_received(e, r.chunk_index)
    OBVIOUS
  <2>6. index' = [index EXCEPT ![r.remote_path] = d]
    BY <1>5, <2>2, <2>4, <2>5 DEF Advance, DieInSave
  <2>7. d \in Entry /\ d.meta = e.meta
    BY <2>3, <2>4, <2>5 DEF mark_received, Entry
  <2> QED BY <1>1, <2>3, <2>4, <2>6, <2>7
<1> QED BY <1>2, <1>3, <1>4, <1>5 DEF Chores

-----------------------------------------------------------------------------
(***************************************************************************)
(* What is published.                                                      *)
(***************************************************************************)

\* A published file is one of Meta, and the only one of its path.
LEMMA OnServerFacts ==
    ASSUME NetInv, NEW m, OnServer(m)
    PROVE  /\ m \in Meta /\ m.meta_modified \in Nat
           /\ \A n : OnServer(n) /\ n.path = m.path => n = m
<1>1. PICK i \in DOMAIN published : published[i].meta = m
  BY DEF OnServer
<1>2. published[i] \in Entry
  BY <1>1 DEF NetInv
<1>3. m \in Meta
  BY <1>1, <1>2 DEF Entry
<1>4. ASSUME NEW n, OnServer(n), n.path = m.path PROVE n = m
  <2>1. PICK j \in DOMAIN published : published[j].meta = n
    BY <1>4 DEF OnServer
  <2> QED BY <1>1, <1>4, <2>1 DEF NetInv, M!IsIndex
<1> QED BY <1>3, <1>4, MetaAssumption DEF IsMeta

\* What a list has after an entry is added.
LEMMA AddFacts ==
    ASSUME NetInv, NEW m \in Meta, published' = M!add_for_meta(published, m)
    PROVE  /\ published' \in Seq(Entry)
           /\ M!IsIndex(published')
           /\ \A n : OnServer(n)' => n = m \/ (OnServer(n) /\ n.path # m.path)
<1>1. PICK e : e = [local_path |-> NoPath, received_chunks |-> {}, meta |-> m]
  OBVIOUS
<1>2. e \in Entry /\ e.meta = m
  BY <1>1 DEF Entry
<1>3. MP!MetaIndexEntry = Entry
  BY DEF MP!MetaIndexEntry, Entry
<1>4. published \in Seq(Entry) /\ MP!IsIndex(published)
  BY DEF NetInv, M!IsIndex, MP!IsIndex
<1>5. published' = MP!add_entry(published, e)
  BY <1>1 DEF M!add_for_meta, M!add_entry, M!Replaced, M!First, M!At,
     MP!add_entry, MP!Replaced, MP!First, MP!At
<1>6. /\ published' \in Seq(Entry)
      /\ MP!IsIndex(published')
      /\ \A q : MP!find_entry(published', q) = IF q = m.path THEN e ELSE MP!find_entry(published, q)
  BY <1>2, <1>3, <1>4, <1>5, MP!AddIsUpdate
<1>7. ASSUME NEW n, OnServer(n)' PROVE n = m \/ (OnServer(n) /\ n.path # m.path)
  <2>1. PICK i \in DOMAIN published' : published'[i].meta = n
    BY <1>7 DEF OnServer
  <2>2. MP!find_entry(published', n.path) = published'[i] /\ published'[i] \in Entry
    BY <1>3, <1>6, <2>1, MP!OnlyOne
  <2>3. CASE n.path = m.path
    BY <1>2, <1>6, <2>1, <2>2, <2>3
  <2>4. CASE n.path # m.path
    <3>1. MP!find_entry(published, n.path) = published'[i] /\ published'[i] # NoEntry
      BY <1>6, <2>2, <2>4, NoneAssumption
    <3>2. PICK j \in DOMAIN published : published[j] = published'[i]
      BY <1>3, <1>4, <3>1, MP!FoundOrNot
    <3> QED BY <2>1, <2>4, <3>2 DEF OnServer
  <2> QED BY <2>3, <2>4
<1> QED BY <1>6, <1>7 DEF M!IsIndex, MP!IsIndex

\* After an entry is removed there are only old ones.
LEMMA RemoveFacts ==
    ASSUME NetInv, NEW p, published' = M!remove(published, p)
    PROVE  /\ published' \in Seq(Entry)
           /\ M!IsIndex(published')
           /\ \A n : OnServer(n)' => OnServer(n)
<1>3. MP!MetaIndexEntry = Entry
  BY DEF MP!MetaIndexEntry, Entry
<1>4. published \in Seq(Entry) /\ MP!IsIndex(published)
  BY DEF NetInv, M!IsIndex, MP!IsIndex
<1>5. published' = MP!remove(published, p)
  BY DEF M!remove, M!First, M!At, MP!remove, MP!First, MP!At
<1>6. /\ published' \in Seq(Entry)
      /\ MP!IsIndex(published')
      /\ \A q : MP!find_entry(published', q) = IF q = p THEN NoEntry ELSE MP!find_entry(published, q)
  BY <1>3, <1>4, <1>5, MP!RemoveIsUpdate
<1>7. ASSUME NEW n, OnServer(n)' PROVE OnServer(n)
  <2>1. PICK i \in DOMAIN published' : published'[i].meta = n
    BY <1>7 DEF OnServer
  <2>2. MP!find_entry(published', n.path) = published'[i] /\ published'[i] \in Entry
    BY <1>3, <1>6, <2>1, MP!OnlyOne
  <2>3. MP!find_entry(published, n.path) = published'[i] /\ published'[i] # NoEntry
    BY <1>6, <2>2, NoneAssumption
  <2>4. PICK j \in DOMAIN published : published[j] = published'[i]
    BY <1>3, <1>4, <2>3, MP!FoundOrNot
  <2> QED BY <2>1, <2>4 DEF OnServer
<1> QED BY <1>6, <1>7 DEF M!IsIndex, MP!IsIndex

\* A reply holds the published files newer than the time asked for, all of them
\* and nothing else.
ReplyOf(r, t) ==
    /\ r \in UNION {[P -> Meta] : P \in SUBSET Path}
    /\ \A p \in DOMAIN r : OnServer(r[p]) /\ r[p].path = p /\ t < r[p].meta_modified
    /\ \A m : OnServer(m) /\ t < m.meta_modified => m.path \in DOMAIN r /\ r[m.path] = m

LEMMA NewerFacts ==
    ASSUME NetInv, TimesInv, NEW t
    PROVE  ReplyOf(NewerThan(t).meta, t)
<1>1. PICK E : E = M!get_modified_after(published, t)
  OBVIOUS
<1>2. PICK r : r = M!MetaByPath(E)
  OBVIOUS
<1>3. NewerThan(t).meta = r
  BY <1>1, <1>2 DEF NewerThan
<1>4. E = {e \in {published[i] : i \in DOMAIN published} : e.meta.meta_modified > t}
  BY <1>1 DEF M!get_modified_after, M!Entries
<1>5. \A e \in E : OnServer(e.meta) /\ e.meta.meta_modified > t
  BY <1>4 DEF OnServer
<1>6. \A e, f \in E : e.meta.path = f.meta.path => e = f
  BY <1>4 DEF NetInv, M!IsIndex
<1>7. r = [p \in {e.meta.path : e \in E} |-> (CHOOSE e \in E : e.meta.path = p).meta]
  BY <1>2 DEF M!MetaByPath
<1>8. ASSUME NEW e \in E PROVE e.meta.path \in DOMAIN r /\ r[e.meta.path] = e.meta
  <2>1. (CHOOSE f \in E : f.meta.path = e.meta.path) = e
    BY <1>6
  <2> QED BY <1>7, <2>1
<1>9. \A p \in DOMAIN r : \E e \in E : p = e.meta.path
  BY <1>7
<1>10. \A p \in DOMAIN r : OnServer(r[p]) /\ r[p].path = p /\ t < r[p].meta_modified
  BY <1>5, <1>8, <1>9
<1>11. ASSUME NEW m, OnServer(m), t < m.meta_modified PROVE m.path \in DOMAIN r /\ r[m.path] = m
  <2>1. PICK i \in DOMAIN published : published[i].meta = m
    BY <1>11 DEF OnServer
  <2>2. published[i] \in E
    BY <1>4, <1>11, <2>1
  <2> QED BY <1>8, <2>1, <2>2
<1>12. \A p \in DOMAIN r : r[p] \in Meta /\ p \in Path
  BY <1>10, OnServerFacts DEF TimesInv
<1>13. r \in [DOMAIN r -> Meta] /\ DOMAIN r \in SUBSET Path
  BY <1>7, <1>12
<1> QED BY <1>3, <1>10, <1>11, <1>13 DEF ReplyOf

-----------------------------------------------------------------------------
(***************************************************************************)
(* Knowledge is not disturbed by the rest.                                 *)
(***************************************************************************)

\* The types of what the proofs compare.
LEMMA SyncTypes ==
    ASSUME SInv
    PROVE  /\ index \in IndexType
           /\ now \in Nat
           /\ \A p \in Path : Known(p) => index[p].meta \in Meta
           /\ \A m \in Meta : m.meta_modified \in Nat
           /\ \A i \in Replies : /\ i \in Nat
                                 /\ News(i) \in UNION {[P -> Meta] : P \in SUBSET Path}
                                 /\ \A p \in DOMAIN News(i) : p \in Path /\ News(i)[p] \in Meta
<1>1. index \in IndexType
  BY DEF SInv, IInv, TypeOK, IndexType
<1>2. \A p \in Path : Known(p) => index[p].meta \in Meta
  BY <1>1 DEF IndexType, Known, Entry
<1>3. now \in Nat
  BY SyncBoundAssumption DEF SInv, NetInv
<1>4. \A m \in Meta : m.meta_modified \in Nat
  BY MetaAssumption DEF IsMeta
<1>5. ASSUME NEW i \in Replies
      PROVE  /\ i \in Nat
             /\ News(i) \in UNION {[P -> Meta] : P \in SUBSET Path}
             /\ \A p \in DOMAIN News(i) : p \in Path /\ News(i)[p] \in Meta
  <2>1. i \in Nat /\ outgoing[i] \in ServerMessage /\ outgoing[i].type = "TransmitMeta"
    BY DEF SInv, NetInv, Replies
  <2>2. News(i) \in UNION {[P -> Meta] : P \in SUBSET Path}
    BY <2>1 DEF ServerMessage, News
  <2> QED BY <2>1, <2>2
<1> QED BY <1>1, <1>2, <1>3, <1>4, <1>5

\* What is newest among what the receiver knows.
LEMMA NewestKnown ==
    ASSUME SInv
    PROVE  /\ get_last_updated(index) \in Nat \cup {MinTime}
           /\ get_last_updated(index) <= now
           /\ \A p \in Path : Known(p) => index[p].meta.meta_modified <= get_last_updated(index)
<1>1. index \in IndexType /\ now \in Nat
  BY SyncTypes
<1>2. \A p \in Path : index[p] # NoEntry => index[p].meta.meta_modified <= now
  BY DEF SInv, KnowledgeInv, TimesInv, Known
<1> QED BY <1>1, <1>2, Newest DEF Known

\* The replies that are left are the last ones there were.
RestOfReplies == \E d \in Nat : \A i \in Replies' : i + d \in Replies /\ News(i)' = News(i + d)

\* No step disturbs what is known, on its way and published unless it takes or
\* sends metadata or publishes a file.
LEMMA KnowledgeFrame ==
    ASSUME SInv, NetInv', Same(index, index'), now <= now', RestOfReplies,
           \A m : OnServer(m)' => OnServer(m)
    PROVE  KnowledgeInv'
<1>1. PICK d \in Nat : \A i \in Replies' : i + d \in Replies /\ News(i)' = News(i + d)
  BY DEF RestOfReplies
<1>2. /\ \A p \in Path : Known(p)' <=> Known(p)
      /\ \A p \in Path : Known(p) => index'[p].meta = index[p].meta
      /\ get_last_updated(index') = get_last_updated(index)
  BY SameNewest DEF Same, Known
<1>3. /\ now \in Nat
      /\ \A p \in Path : Known(p) => index[p].meta.meta_modified \in Nat
      /\ \A m \in Meta : m.meta_modified \in Nat
      /\ \A i \in Replies : i \in Nat /\ \A p \in DOMAIN News(i) : /\ p \in Path
                                                                   /\ News(i)[p].meta_modified \in Nat
  BY SyncTypes
<1>4. Replies' \subseteq Int /\ now' \in Nat
  BY SyncBoundAssumption DEF Replies, NetInv
<1>5. \A m \in Meta : OnServer(m)' => m.path \in Path
  BY DEF SInv, KnowledgeInv, TimesInv
<1>6. TimesInv'
  <2>1. \A m \in Meta : OnServer(m)' => m.path \in Path /\ m.meta_modified <= now'
    BY <1>3, <1>4 DEF SInv, KnowledgeInv, TimesInv
  <2>2. \A p \in Path : Known(p)' => index'[p].meta.meta_modified <= now'
    BY <1>2, <1>3, <1>4 DEF SInv, KnowledgeInv, TimesInv
  <2>3. \A i \in Replies' : \A p \in DOMAIN News(i)' : News(i)'[p].meta_modified <= now'
    BY <1>1, <1>3, <1>4 DEF SInv, KnowledgeInv, TimesInv
  <2> QED BY <2>1, <2>2, <2>3 DEF TimesInv
<1>7. PublishedInv'
  BY <1>1, <1>2, <1>5 DEF SInv, KnowledgeInv, PublishedInv, Outdated
<1>8. OrderInv'
  <2> SUFFICES ASSUME NEW i \in Replies', NEW p \in DOMAIN News(i)'
               PROVE  /\ Known(p)' => index'[p].meta.meta_modified <= News(i)'[p].meta_modified
                      /\ \A j \in Replies' : j < i /\ p \in DOMAIN News(j)' =>
                            News(j)'[p].meta_modified <= News(i)'[p].meta_modified
    BY DEF OrderInv
  <2>1. i + d \in Replies /\ News(i)' = News(i + d) /\ p \in Path
    BY <1>1, <1>3
  <2>2. Known(p)' => index'[p].meta.meta_modified <= News(i)'[p].meta_modified
    BY <1>2, <2>1 DEF SInv, KnowledgeInv, OrderInv
  <2>3. ASSUME NEW j \in Replies', j < i, p \in DOMAIN News(j)'
        PROVE  News(j)'[p].meta_modified <= News(i)'[p].meta_modified
    <3>1. j + d \in Replies /\ News(j)' = News(j + d)
      BY <1>1
    <3>2. j + d < i + d
      BY <1>4, <2>3
    <3> QED BY <2>1, <2>3, <3>1, <3>2 DEF SInv, KnowledgeInv, OrderInv
  <2> QED BY <2>2, <2>3
<1>9. CompleteInv'
  <2> SUFFICES ASSUME NEW i \in Replies', NEW m \in Meta, OnServer(m)'
               PROVE  Covers(i, m)'
    BY DEF CompleteInv
  <2>1. i + d \in Replies /\ News(i)' = News(i + d) /\ OnServer(m)
    BY <1>1
  <2>2. Covers(i + d, m)
    BY <2>1 DEF SInv, KnowledgeInv, CompleteInv
  <2>3. ASSUME \A j \in Replies : j <= i + d =>
                  \A p \in DOMAIN News(j) : News(j)[p].meta_modified <= m.meta_modified
        PROVE  \A j \in Replies' : j <= i =>
                  \A p \in DOMAIN News(j)' : News(j)'[p].meta_modified <= m.meta_modified
    <3> SUFFICES ASSUME NEW j \in Replies', j <= i, NEW p \in DOMAIN News(j)'
                 PROVE  News(j)'[p].meta_modified <= m.meta_modified
      OBVIOUS
    <3>1. j + d \in Replies /\ News(j)' = News(j + d)
      BY <1>1
    <3>2. j + d <= i + d
      BY <1>4
    <3> QED BY <2>3, <3>1, <3>2
  <2> QED BY <1>2, <2>1, <2>2, <2>3 DEF Covers
<1> QED BY <1>6, <1>7, <1>8, <1>9 DEF KnowledgeInv

-----------------------------------------------------------------------------
(***************************************************************************)
(* Queues.                                                                 *)
(***************************************************************************)

\* The elements of a queue after one is appended, or the first is taken.
LEMMA QueueFacts ==
    ASSUME NEW S, NEW s \in Seq(S), NEW x \in S
    PROVE  /\ Append(s, x) \in Seq(S)
           /\ Len(Append(s, x)) = Len(s) + 1
           /\ \A i \in DOMAIN Append(s, x) :
                 \/ i \in DOMAIN s /\ Append(s, x)[i] = s[i]
                 \/ i = Len(s) + 1 /\ Append(s, x)[i] = x
           /\ s # <<>> => /\ Tail(s) \in Seq(S)
                          /\ Len(Tail(s)) = Len(s) - 1
                          /\ 1 \in DOMAIN s /\ Head(s) = s[1]
                          /\ \A i \in DOMAIN Tail(s) : i + 1 \in DOMAIN s /\ Tail(s)[i] = s[i + 1]
OBVIOUS

LEMMA EmptyFacts ==
    DOMAIN <<>> = {} /\ Len(<<>>) = 0 /\ \A S : <<>> \in Seq(S)
<1>1. DOMAIN <<>> = {} /\ Len(<<>>) = 0
  OBVIOUS
<1>2. \A S : <<>> \in Seq(S)
  OBVIOUS
<1> QED BY <1>1, <1>2

\* Nothing a reply holds gets lost or changed by what is no reply.
LEMMA OtherReplies ==
    ASSUME NetInv,
           \/ outgoing' = outgoing \/ outgoing' = <<>>
           \/ outgoing # <<>> /\ outgoing' = Tail(outgoing)
           \/ \E m \in ServerMessage : m.type # "TransmitMeta" /\ outgoing' = Append(outgoing, m)
    PROVE  RestOfReplies
<1>1. outgoing \in Seq(ServerMessage)
  BY DEF NetInv
<1>2. CASE outgoing' = outgoing
  <2>1. \A i \in Replies' : i + 0 \in Replies /\ News(i)' = News(i + 0)
    BY <1>1, <1>2 DEF Replies, News
  <2> QED BY <2>1 DEF RestOfReplies
<1>3. CASE outgoing' = <<>>
  <2>1. Replies' = {}
    BY <1>3, EmptyFacts DEF Replies
  <2> QED BY <2>1 DEF RestOfReplies
<1>4. CASE outgoing # <<>> /\ outgoing' = Tail(outgoing)
  <2>1. \A i \in DOMAIN outgoing' : i + 1 \in DOMAIN outgoing /\ outgoing'[i] = outgoing[i + 1]
    BY <1>1, <1>4
  <2>2. \A i \in Replies' : i + 1 \in Replies /\ News(i)' = News(i + 1)
    BY <2>1 DEF Replies, News
  <2> QED BY <2>2 DEF RestOfReplies
<1>5. ASSUME NEW m \in ServerMessage, m.type # "TransmitMeta", outgoing' = Append(outgoing, m)
      PROVE  RestOfReplies
  <2>1. \A i \in DOMAIN outgoing' : \/ i \in DOMAIN outgoing /\ outgoing'[i] = outgoing[i]
                                    \/ outgoing'[i] = m
    BY <1>1, <1>5, QueueFacts
  <2>2. \A i \in Replies' : i \in Nat /\ i \in Replies /\ News(i)' = News(i)
    BY <1>1, <1>5, <2>1 DEF Replies, News
  <2>3. \A i \in Replies' : i + 0 \in Replies /\ News(i)' = News(i + 0)
    BY <2>2
  <2> QED BY <2>3 DEF RestOfReplies
<1> QED BY <1>2, <1>3, <1>4, <1>5

-----------------------------------------------------------------------------
(***************************************************************************)
(* The client's own steps.                                                 *)
(***************************************************************************)

LocalAct ==
    \/ LogInAsReceiver \/ LoggedInAsReceiver \/ DownloadStopped
    \/ \E p \in Path : \E l \in Locals(p) : FileRequested(p, l)
    \/ \E p \in Path : FileResumed(p)
    \/ \E b \in Data : TransmitChunk(b)
    \/ Crash

\* The client goes on and may ask for what is newer than all it knows.
GoesOn ==
    /\ state' # "Crashed" /\ UNCHANGED last_updated
    /\ state' \in {"Idle", "RequestedChunk"} => state \in {"Idle", "RequestedChunk"}
    /\ \/ UNCHANGED up
       \/ \E m \in Message :
             /\ up' = Append(up, m)
             /\ m.type = "RequestMeta" => state = "Idle" /\ m.after = get_last_updated(index)

\* It logs in.
StartsOver ==
    /\ state' = "Initializing"
    /\ last_updated' = get_last_updated(index)
    /\ up' = Append(up, [type |-> "Login"])

LEMMA LocalEffect ==
    ASSUME IInv, LocalAct
    PROVE  GoesOn \/ Die \/ StartsOver
<1>1. CASE LogInAsReceiver
  BY <1>1 DEF LogInAsReceiver, NewReceiver, send_message, StartsOver
<1>2. CASE LoggedInAsReceiver
  <2>1. CASE Die
    BY <2>1
  <2>2. CASE ~Die
    <3>1. PICK m : m = [type |-> "RequestMeta", after |-> get_last_updated(index)]
      OBVIOUS
    <3>2. m \in Message
      BY <3>1, LastUpdatedType DEF IInv, Message
    <3>3. /\ state = "Idle" /\ state' = state /\ UNCHANGED last_updated
          /\ up' = Append(up, m)
      BY <1>2, <2>2, <3>1 DEF LoggedInAsReceiver, request_meta, send_message
    <3>4. m.after = get_last_updated(index)
      BY <3>1
    <3> QED BY <3>2, <3>3, <3>4 DEF GoesOn
  <2> QED BY <2>1, <2>2
<1>a. ASSUME NEW e \in Entry, NEW p \in Path, NEW k \in Nat, k < Len(e.meta.chunks),
             request_chunk(e, p, k), UNCHANGED last_updated, state \in {"Idle", "RequestedChunk"}
      PROVE  GoesOn
  <2>1. PICK m : m = [type |-> "RequestChunk", path |-> p, index |-> k, hash |-> e.meta.chunks[k + 1].hash]
    OBVIOUS
  <2>2. e.meta \in Meta /\ Len(e.meta.chunks) \in Nat
    BY MetaAssumption DEF Entry, IsMeta
  <2>3. k + 1 \in 1 .. Len(e.meta.chunks)
    BY <1>a, <2>2
  <2>4. e.meta.chunks[k + 1].hash \in Seq(Byte)
    BY <2>2, <2>3, ChunkFacts
  <2>5. m \in Message /\ m.type # "RequestMeta"
    BY <2>1, <2>4 DEF Message
  <2>6. up' = Append(up, m) /\ state' = "RequestedChunk"
    BY <1>a, <2>1 DEF request_chunk, send_message
  <2> QED BY <1>a, <2>5, <2>6 DEF GoesOn
<1>b. \A e \in Entry : /\ Len(e.meta.chunks) \in Nat
                       /\ Len(e.meta.chunks) = 0 => e.meta.chunks = <<>>
  BY MetaAssumption DEF Entry, IsMeta
<1>c. ASSUME NEW e \in Entry, NEW k \in 0 .. Len(e.meta.chunks), e.received_chunks = 0 .. k - 1,
             Undownloaded(e) # {}
      PROVE  find_first_undownloaded(e) \in Nat /\ find_first_undownloaded(e) < Len(e.meta.chunks)
  BY <1>b, <1>c, NextChunk
<1>3. CASE DownloadStopped
  <2>1. [type |-> "StopChunk"] \in Message /\ [type |-> "StopChunk"].type # "RequestMeta"
    BY DEF Message
  <2> QED BY <1>3, <2>1 DEF DownloadStopped, send_message, GoesOn
<1>4. ASSUME NEW p \in Path, NEW l \in Locals(p), FileRequested(p, l), ~Die
      PROVE  GoesOn
  <2>1. PICK e : e = change_local(index[p], l)
    OBVIOUS
  <2>2. /\ state = "Idle" /\ Known(p) /\ UNCHANGED last_updated
        /\ e.meta.chunks # <<>> /\ request_chunk(e, p, 0)
    BY <1>4, <2>1 DEF FileRequested, DieInSave
  <2>3. e \in Entry
    <3>1. index[p] \in Entry
      BY <2>2, KnownEntry DEF IInv
    <3> QED BY <2>1, <3>1, LocalAssumption DEF change_local, Entry
  <2> QED BY <1>a, <1>b, <2>2, <2>3
<1>5. ASSUME NEW p \in Path, FileResumed(p), ~Die
      PROVE  GoesOn
  <2>1. PICK e : e = index[p]
    OBVIOUS
  <2>2. /\ state = "Idle" /\ Known(p) /\ UNCHANGED last_updated
        /\ Undownloaded(e) # {} /\ request_chunk(e, p, find_first_undownloaded(e))
    BY <1>5, <2>1 DEF FileResumed
  <2>3. e \in Entry /\ \E k \in 0 .. Len(e.meta.chunks) : e.received_chunks = 0 .. k - 1
    BY <2>1, <2>2, KnownEntry DEF IInv, EntriesInv, GoodEntry
  <2> QED BY <1>a, <1>c, <2>2, <2>3
<1>6. ASSUME NEW b \in Data, TransmitChunk(b), ~Die
      PROVE  GoesOn
  <2>1. CASE /\ UNCHANGED <<state, last_updated, up>> /\ state # "Crashed"
    BY <2>1 DEF GoesOn
  <2>2. CASE ~(UNCHANGED <<state, last_updated, up>> /\ state # "Crashed")
    <3>1. PICK r : r = requesting_chunk
      OBVIOUS
    <3>2. PICK e : e = index[r.remote_path]
      OBVIOUS
    <3>3. PICK d : d = mark_received(e, r.chunk_index)
      OBVIOUS
    <3>4. state = "RequestedChunk" /\ Advance(r, e, b)
      BY <1>6, <2>2, <3>1, <3>2 DEF TransmitChunk, WriteError, Dropped, vars, Running
    <3>5. /\ UNCHANGED last_updated
          /\ \/ Undownloaded(d) # {} /\ request_chunk(d, r.remote_path, find_first_undownloaded(d))
             \/ state' = "Idle" /\ UNCHANGED up
      BY <1>6, <2>2, <3>3, <3>4 DEF Advance, DieInSave
    <3>6. r \in Requesting /\ e \in Entry /\ r.chunk_index \in 0 .. Len(e.meta.chunks) - 1
          /\ e.received_chunks = 0 .. r.chunk_index - 1
      BY <3>1, <3>2, <3>4 DEF IInv, RequestInv, GoodRequest
    <3>7. r.remote_path \in Path /\ r.chunk_index \in Nat
      BY <3>6 DEF Requesting
    <3>8. d \in Entry /\ d.meta = e.meta /\ d.received_chunks = e.received_chunks \cup {r.chunk_index}
      BY <3>3, <3>6, <3>7 DEF mark_received, Entry
    <3>9. r.chunk_index + 1 \in 0 .. Len(d.meta.chunks)
          /\ d.received_chunks = 0 .. (r.chunk_index + 1) - 1
      BY <1>b, <3>6, <3>7, <3>8
    <3>10. Undownloaded(d) # {} => /\ find_first_undownloaded(d) \in Nat
                                   /\ find_first_undownloaded(d) < Len(d.meta.chunks)
      BY <1>c, <3>8, <3>9
    <3>11. CASE Undownloaded(d) # {} /\ request_chunk(d, r.remote_path, find_first_undownloaded(d))
      BY <1>a, <3>4, <3>5, <3>7, <3>8, <3>10, <3>11
    <3>12. CASE state' = "Idle" /\ UNCHANGED up
      BY <3>4, <3>5, <3>12 DEF GoesOn
    <3> QED BY <3>5, <3>11, <3>12
  <2> QED BY <2>1, <2>2
<1>7. CASE Crash
  BY <1>7 DEF Crash
<1> QED BY <1>1, <1>2, <1>3, <1>4, <1>5, <1>6, <1>7 DEF LocalAct

\* Requests among the elements of a queue after one is appended.
LEMMA AskMore ==
    ASSUME NEW s \in Seq(Message), NEW m \in Message, NEW t
    PROVE  /\ Asks(s, t) /\ (m.type = "RequestMeta" => m.after <= t) => Asks(Append(s, m), t)
           /\ AsksNewer(s, t) /\ (m.type = "RequestMeta" => t <= m.after) => AsksNewer(Append(s, m), t)
           /\ HasAsk(Append(s, m)) => HasAsk(s) \/ m.type = "RequestMeta"
<1>1. PICK u : u = Append(s, m)
  OBVIOUS
<1>2. \A i \in DOMAIN u : (i \in DOMAIN s /\ u[i] = s[i]) \/ u[i] = m
  BY <1>1, QueueFacts
<1>3. /\ Asks(s, t) /\ (m.type = "RequestMeta" => m.after <= t) => Asks(u, t)
      /\ AsksNewer(s, t) /\ (m.type = "RequestMeta" => t <= m.after) => AsksNewer(u, t)
      /\ HasAsk(u) => HasAsk(s) \/ m.type = "RequestMeta"
  BY <1>2 DEF Asks, AsksNewer, HasAsk
<1> QED BY <1>1, <1>3

LEMMA AskLess ==
    ASSUME NEW s \in Seq(Message), s # <<>>, NEW t
    PROVE  /\ Asks(s, t) => Asks(Tail(s), t)
           /\ AsksNewer(s, t) => AsksNewer(Tail(s), t)
           /\ Asks(s, t) => (Head(s).type = "RequestMeta" => Head(s).after <= t)
           /\ AsksNewer(s, t) => (Head(s).type = "RequestMeta" => t <= Head(s).after)
           /\ HasAsk(Tail(s)) => HasAsk(s)
           /\ Head(s).type = "RequestMeta" => HasAsk(s)
           /\ Head(s) \in Message
<1>1. PICK u : u = Tail(s)
  OBVIOUS
<1>2. /\ \A i \in DOMAIN u : i + 1 \in DOMAIN s /\ u[i] = s[i + 1]
      /\ 1 \in DOMAIN s /\ Head(s) = s[1] /\ s[1] \in Message
  BY <1>1
<1>3. /\ Asks(s, t) => Asks(u, t)
      /\ AsksNewer(s, t) => AsksNewer(u, t)
      /\ HasAsk(u) => HasAsk(s)
  BY <1>2 DEF Asks, AsksNewer, HasAsk
<1>4. /\ Asks(s, t) => (Head(s).type = "RequestMeta" => Head(s).after <= t)
      /\ AsksNewer(s, t) => (Head(s).type = "RequestMeta" => t <= Head(s).after)
      /\ Head(s).type = "RequestMeta" => HasAsk(s)
      /\ Head(s) \in Message
  BY <1>2 DEF Asks, AsksNewer, HasAsk
<1> QED BY <1>1, <1>3, <1>4

LEMMA AskNothing == ~HasAsk(<<>>) /\ \A t : Asks(<<>>, t) /\ AsksNewer(<<>>, t)
BY EmptyFacts DEF Asks, AsksNewer, HasAsk

\* A step that leaves the metadata and the server alone.
LEMMA LocalKnowledge ==
    ASSUME SInv, NetInv', Same(index, index'), UNCHANGED serverVars,
           \/ outgoing' = outgoing \/ outgoing' = <<>>
           \/ outgoing # <<>> /\ outgoing' = Tail(outgoing)
    PROVE  KnowledgeInv'
<1>1. RestOfReplies
  BY OtherReplies DEF SInv
<1>2. \A m : OnServer(m)' => OnServer(m)
  BY DEF OnServer, serverVars
<1>3. now <= now'
  BY SyncTypes DEF serverVars
<1> QED BY <1>1, <1>2, <1>3, KnowledgeFrame

LEMMA LocalSInv ==
    ASSUME SInv, LocalAct, IF state' = "Crashed" THEN Cut ELSE UNCHANGED netVars,
           UNCHANGED serverVars
    PROVE  SInv'
<1>1. Chores
  BY DEF LocalAct, Chores
<1>2. IInv' /\ Same(index, index')
  BY <1>1, ChoresIInv, ChoresSame DEF SInv
<1>3. PICK g : g = get_last_updated(index)
  OBVIOUS
<1>4. get_last_updated(index') = g
  BY <1>2, <1>3, SameNewest
<1>5. g \in Nat \cup {MinTime} /\ last_updated \in Nat \cup {MinTime} /\ last_updated <= g
  BY <1>3, LastUpdatedType DEF SInv, IInv, TypeOK, AskInv
<1>6. up \in Seq(Message) /\ inbox \in Seq(Message)
  BY DEF SInv, IInv, TypeOK, NetInv
<1>7. Asks(up, g) /\ Asks(inbox, g)
  BY <1>3 DEF SInv, AskInv
<1>8. CASE Die
  <2>1. state' = "Crashed" /\ last_updated' = MinTime /\ up' = <<>>
        /\ link' = "none" /\ inbox' = <<>> /\ outgoing' = <<>>
    BY <1>8 DEF Die, Cut
  <2>2. NetInv'
    BY <2>1, EmptyFacts, SyncBoundAssumption DEF SInv, NetInv, serverVars
  <2>3. KnowledgeInv'
    BY <1>2, <2>1, <2>2, LocalKnowledge
  <2>4. AskInv'
    BY <1>4, <1>5, <2>1, AskNothing DEF AskInv, MinTime
  <2>5. DeadInv'
    BY <2>1 DEF DeadInv
  <2>6. LoginInv'
    <3>1. Welcomes' = {}
      BY <2>1, EmptyFacts DEF Welcomes
    <3> QED BY <2>1, <3>1 DEF LoginInv
  <2> QED BY <1>2, <2>2, <2>3, <2>4, <2>5, <2>6 DEF SInv
<1>9. CASE StartsOver
  <2>1. /\ state' = "Initializing" /\ last_updated' = g /\ UNCHANGED netVars
        /\ up' = Append(up, [type |-> "Login"])
    BY <1>3, <1>9 DEF StartsOver
  <2>2. PICK m : m = [type |-> "Login"]
    OBVIOUS
  <2>3. m \in Message /\ m.type # "RequestMeta"
    BY <2>2 DEF Message
  <2>4. NetInv'
    BY <2>1 DEF SInv, NetInv, netVars, serverVars
  <2>5. KnowledgeInv'
    BY <1>2, <2>1, <2>4, LocalKnowledge DEF netVars
  <2>6. AskInv'
    <3>1. Asks(up', g)
      BY <1>6, <1>7, <2>1, <2>2, <2>3, AskMore
    <3> QED BY <1>4, <1>5, <1>7, <2>1, <3>1 DEF AskInv, netVars
  <2>7. DeadInv'
    BY <2>1 DEF DeadInv
  <2>8. LoginInv'
    <3>1. Asked' => Asked
      BY <1>6, <2>1, <2>2, <2>3, AskMore DEF Asked, netVars
    <3>2. Replies' = Replies /\ Welcomes' = Welcomes
      BY <2>1 DEF Replies, Welcomes, netVars
    <3> QED BY <2>1, <3>1, <3>2 DEF SInv, LoginInv, netVars
  <2> QED BY <1>2, <2>4, <2>5, <2>6, <2>7, <2>8 DEF SInv
<1>10. CASE GoesOn
  <2>1. /\ state' # "Crashed" /\ UNCHANGED last_updated
        /\ state' \in {"Idle", "RequestedChunk"} => state \in {"Idle", "RequestedChunk"}
        /\ UNCHANGED netVars
    BY <1>10 DEF GoesOn
  <2>2. \/ UNCHANGED up
        \/ \E m \in Message : /\ up' = Append(up, m)
                              /\ m.type = "RequestMeta" => state = "Idle" /\ m.after = g
    BY <1>3, <1>10 DEF GoesOn
  <2>4. NetInv'
    BY <2>1 DEF SInv, NetInv, netVars, serverVars
  <2>5. KnowledgeInv'
    BY <1>2, <2>1, <2>4, LocalKnowledge DEF netVars
  <2>6. AskInv'
    <3>1. Asks(up', g)
      <4>1. CASE UNCHANGED up
        BY <1>7, <4>1
      <4>2. ASSUME NEW m \in Message, up' = Append(up, m), m.type = "RequestMeta" => m.after = g
            PROVE  Asks(up', g)
        <5>1. m.type = "RequestMeta" => m.after <= g
          BY <1>5, <4>2 DEF MinTime
        <5> QED BY <1>6, <1>7, <4>2, <5>1, AskMore
      <4> QED BY <2>2, <4>1, <4>2
    <3> QED BY <1>4, <1>5, <1>7, <2>1, <3>1 DEF AskInv, netVars
  <2>7. DeadInv'
    BY <2>1 DEF DeadInv
  <2>8. LoginInv'
    <3>2. Replies' = Replies /\ Welcomes' = Welcomes /\ \A i \in Replies : News(i)' = News(i)
      BY <2>1 DEF Replies, Welcomes, News, netVars
    <3>3. CASE state \in {"Idle", "RequestedChunk"}
      <4>1. Since /\ link # "open" /\ Welcomes = {}
        BY <3>3 DEF SInv, LoginInv
      <4>2. AsksNewer(up', last_updated)
        <5>1. CASE UNCHANGED up
          BY <4>1, <5>1 DEF Since
        <5>2. ASSUME NEW m \in Message, up' = Append(up, m), m.type = "RequestMeta" => m.after = g
              PROVE  AsksNewer(up', last_updated)
          <6>1. m.type = "RequestMeta" => last_updated <= m.after
            BY <1>5, <5>2
          <6>2. AsksNewer(up, last_updated)
            BY <4>1 DEF Since
          <6> QED BY <1>6, <5>2, <6>1, <6>2, AskMore
        <5> QED BY <2>2, <5>1, <5>2
      <4>3. Since'
        BY <2>1, <3>2, <4>1, <4>2 DEF Since, netVars
      <4> QED BY <2>1, <3>2, <4>1, <4>3 DEF LoginInv, netVars
    <3>4. CASE state \notin {"Idle", "RequestedChunk"}
      <4>1. Asked' => Asked
        <5>1. CASE UNCHANGED up
          BY <2>1, <5>1 DEF Asked, netVars
        <5>2. ASSUME NEW m \in Message, up' = Append(up, m), m.type # "RequestMeta"
              PROVE  Asked' => Asked
          BY <1>6, <2>1, <5>2, AskMore DEF Asked, netVars
        <5> QED BY <2>2, <3>4, <5>1, <5>2
      <4> QED BY <2>1, <3>2, <3>4, <4>1 DEF SInv, LoginInv, netVars
    <3> QED BY <3>3, <3>4
  <2> QED BY <1>2, <2>4, <2>5, <2>6, <2>7, <2>8 DEF SInv
<1> QED BY <1>8, <1>9, <1>10, LocalEffect DEF SInv

\* A process that was started connects.
LEMMA ReconnectSInv ==
    ASSUME SInv, Reconnect
    PROVE  SInv'
<1>1. /\ state = "Crashed" /\ state' = "None" /\ link' = "open"
      /\ UNCHANGED <<requesting_chunk, index, last_updated, logged_in, up, serverVars, inbox, outgoing>>
  BY DEF Reconnect, Restart
<1>2. up' = <<>> /\ inbox' = <<>> /\ outgoing' = <<>>
  BY <1>1 DEF SInv, DeadInv
<1>3. IInv' /\ Same(index, index')
  BY ChoresIInv, ChoresSame DEF SInv, Reconnect, Chores
<1>4. NetInv'
  BY <1>1 DEF SInv, NetInv, serverVars
<1>5. KnowledgeInv'
  BY <1>1, <1>3, <1>4, LocalKnowledge
<1>6. AskInv'
  BY <1>1 DEF SInv, AskInv
<1>7. DeadInv' /\ LoginInv'
  BY <1>1, <1>2, EmptyFacts, AskNothing DEF DeadInv, LoginInv, Welcomes, Replies, Asked
<1> QED BY <1>3, <1>4, <1>5, <1>6, <1>7 DEF SInv

\* A message goes from one queue into the next.
LEMMA ClientSendsSInv ==
    ASSUME SInv, ClientSends
    PROVE  SInv'
<1>1. /\ up # <<>> /\ up' = Tail(up) /\ inbox' = Append(inbox, Head(up)) /\ Len(inbox) < NetCap
      /\ link # "none"
      /\ UNCHANGED <<state, index, last_updated, serverVars, outgoing, link>>
  BY DEF ClientSends, SendMessage
<1>2. IInv' /\ Same(index, index')
  BY ChoresIInv, ChoresSame DEF SInv, ClientSends, Chores
<1>3. up \in Seq(Message) /\ inbox \in Seq(Message)
  BY DEF SInv, IInv, TypeOK, NetInv
<1>4. PICK m : m = Head(up)
  OBVIOUS
<1>5. m \in Message /\ \E i \in DOMAIN up : m = up[i]
  BY <1>1, <1>3, <1>4
<1>6. inbox' = Append(inbox, m)
  BY <1>1, <1>4
<1>7. NetInv'
  <2>1. inbox' \in Seq(Message) /\ Len(inbox') = Len(inbox) + 1
    BY <1>3, <1>5, <1>6
  <2>2. Len(inbox') <= NetCap
    BY <1>1, <1>3, <2>1, SyncBoundAssumption
  <2> QED BY <1>1, <2>1, <2>2 DEF SInv, NetInv, serverVars
<1>8. KnowledgeInv'
  BY <1>1, <1>2, <1>7, LocalKnowledge
<1>9. \A t : Asks(up, t) /\ Asks(inbox, t) => Asks(up', t) /\ Asks(inbox', t)
  BY <1>1, <1>3, <1>4, <1>5, <1>6, AskLess, AskMore
<1>10. \A t : AsksNewer(up, t) /\ AsksNewer(inbox, t) => AsksNewer(up', t) /\ AsksNewer(inbox', t)
  BY <1>1, <1>3, <1>4, <1>5, <1>6, AskLess, AskMore
<1>11. AskInv'
  BY <1>1, <1>9 DEF SInv, AskInv
<1>12. DeadInv'
  BY <1>1 DEF SInv, DeadInv
<1>13. Asked' => Asked
  <2>1. HasAsk(up') => HasAsk(up)
    BY <1>1, <1>3, AskLess
  <2>2. HasAsk(inbox') => HasAsk(inbox) \/ HasAsk(up)
    BY <1>1, <1>3, <1>4, <1>5, <1>6, AskLess, AskMore
  <2> QED BY <2>1, <2>2 DEF Asked
<1>14. Replies' = Replies /\ Welcomes' = Welcomes /\ \A i \in Replies : News(i)' = News(i)
  BY <1>1 DEF Replies, Welcomes, News
<1>15. Since => Since'
  BY <1>1, <1>10, <1>14 DEF Since
<1>16. LoginInv'
  BY <1>1, <1>13, <1>14, <1>15 DEF SInv, LoginInv
<1> QED BY <1>2, <1>7, <1>8, <1>11, <1>12, <1>16 DEF SInv

-----------------------------------------------------------------------------
(***************************************************************************)
(* Messages that arrive at the client.                                     *)
(***************************************************************************)

\* What taking the first message leaves.
LEMMA Arrives ==
    ASSUME SInv, outgoing # <<>>, outgoing' = Tail(outgoing),
           UNCHANGED <<serverVars, inbox, link>>
    PROVE  /\ Head(outgoing) \in ServerMessage
           /\ NetInv'
           /\ Replies' \subseteq Nat \ {0} /\ Welcomes' \subseteq Nat \ {0}
           /\ \A i \in Replies' : i + 1 \in Replies /\ News(i)' = News(i + 1)
           /\ \A i \in Welcomes' : i + 1 \in Welcomes
           /\ Head(outgoing).type = "LoginSuccess" => 1 \in Welcomes
           /\ Head(outgoing).type = "TransmitMeta" => 1 \in Replies /\ News(1) = Head(outgoing).meta
           /\ Since => \A i \in Replies' : \A p \in DOMAIN News(i)' : last_updated < News(i)'[p].meta_modified
<1>1. outgoing \in Seq(ServerMessage) /\ Len(outgoing) <= NetCap
  BY DEF SInv, NetInv
<1>2. PICK u : u = Tail(outgoing)
  OBVIOUS
<1>3. /\ u \in Seq(ServerMessage) /\ Len(u) = Len(outgoing) - 1
      /\ 1 \in DOMAIN outgoing /\ Head(outgoing) = outgoing[1] /\ outgoing[1] \in ServerMessage
      /\ DOMAIN u \subseteq Nat \ {0}
      /\ \A i \in DOMAIN u : i + 1 \in DOMAIN outgoing /\ u[i] = outgoing[i + 1]
  BY <1>1, <1>2
<1>4. Len(u) <= NetCap
  BY <1>1, <1>3, SyncBoundAssumption
<1>5. NetInv'
  BY <1>2, <1>3, <1>4 DEF SInv, NetInv, serverVars
<1>6. Replies' \subseteq Nat \ {0} /\ Welcomes' \subseteq Nat \ {0}
  BY <1>2, <1>3 DEF Replies, Welcomes
<1>7. \A i \in Replies' : i + 1 \in Replies /\ News(i)' = News(i + 1)
  BY <1>2, <1>3 DEF Replies, News
<1>8. \A i \in Welcomes' : i + 1 \in Welcomes
  BY <1>2, <1>3 DEF Welcomes
<1>9. Head(outgoing).type = "LoginSuccess" => 1 \in Welcomes
  BY <1>3 DEF Welcomes
<1>10. Head(outgoing).type = "TransmitMeta" => 1 \in Replies /\ News(1) = Head(outgoing).meta
  BY <1>3 DEF Replies, News
<1>11. Since => \A i \in Replies' : \A p \in DOMAIN News(i)' : last_updated < News(i)'[p].meta_modified
  BY <1>7 DEF Since
<1> QED BY <1>3, <1>5, <1>6, <1>7, <1>8, <1>9, <1>10, <1>11

\* A message that changes nothing the client knows.
LEMMA PlainArrival ==
    ASSUME SInv, outgoing # <<>>, outgoing' = Tail(outgoing),
           UNCHANGED <<serverVars, inbox, link>>,
           \/ Head(outgoing).type = "LoginSuccess" /\ LoginSuccess
           \/ \E t \in Nat : NotifyUpdated(t)
           \/ Dropped
    PROVE  SInv'
<1>1. Chores
  BY DEF Chores, Dropped
<1>2. IInv' /\ Same(index, index')
  BY <1>1, ChoresIInv, ChoresSame DEF SInv
<1>3. NetInv'
  BY Arrives
<1>4. KnowledgeInv'
  BY <1>2, <1>3, LocalKnowledge
<1>5. PICK g : g = get_last_updated(index)
  OBVIOUS
<1>6. get_last_updated(index') = g
  BY <1>2, <1>5, SameNewest
<1>7. PICK t : t = last_updated
  OBVIOUS
<1>8. g \in Nat \cup {MinTime} /\ t \in Nat \cup {MinTime} /\ t <= g
  BY <1>5, <1>7, LastUpdatedType DEF SInv, IInv, TypeOK, AskInv
<1>9. Asks(up, g) /\ Asks(inbox, g) /\ up \in Seq(Message)
  BY <1>5 DEF SInv, AskInv, IInv, TypeOK
<1>10. ASSUME last_updated' = t, Asks(up', g) PROVE AskInv'
  BY <1>6, <1>7, <1>8, <1>9, <1>10 DEF AskInv
<1>11. CASE UNCHANGED vars
  <2>1. AskInv'
    BY <1>7, <1>9, <1>10, <1>11 DEF vars
  <2>2. DeadInv'
    <3>1. outgoing # <<>> => state # "Crashed"
      BY DEF SInv, DeadInv
    <3> QED BY <1>11, <3>1 DEF DeadInv, vars
  <2>3. Asked' <=> Asked
    BY <1>11 DEF Asked, vars
  <2>4. Since => Since'
    BY <1>11, Arrives DEF Since, vars
  <2>5. /\ Welcomes = {} => Welcomes' = {}
        /\ Replies = {} => Replies' = {}
        /\ \A i, j \in Welcomes' : i = j
    BY Arrives DEF SInv, LoginInv
  <2>6. LoginInv'
    BY <1>11, <2>3, <2>4, <2>5 DEF SInv, LoginInv, vars
  <2> QED BY <1>2, <1>3, <1>4, <2>1, <2>2, <2>6 DEF SInv
<1>12. CASE Head(outgoing).type = "LoginSuccess" /\ LoginSuccess /\ ~UNCHANGED vars
  <2>1. state' = "Idle" /\ last_updated' = t /\ up' = up
    BY <1>7, <1>12 DEF LoginSuccess, Dropped
  <2>2. AskInv'
    BY <1>9, <1>10, <2>1
  <2>3. DeadInv'
    BY <2>1 DEF DeadInv
  <2>4. 1 \in Welcomes
    BY <1>12, Arrives
  <2>5. ~Asked /\ Replies = {} /\ link # "open" /\ \A i, j \in Welcomes : i = j
    BY <2>4 DEF SInv, LoginInv
  <2>6. Welcomes' = {} /\ Replies' = {}
    BY <2>4, <2>5, Arrives
  <2>7. Since'
    BY <2>1, <2>5, <2>6 DEF Since, Asked, HasAsk, AsksNewer
  <2>8. LoginInv'
    BY <2>1, <2>5, <2>6, <2>7 DEF LoginInv
  <2> QED BY <1>2, <1>3, <1>4, <2>2, <2>3, <2>8 DEF SInv
<1>13. ASSUME NEW s \in Nat, NotifyUpdated(s), ~UNCHANGED vars PROVE SInv'
  <2>1. PICK m : m = [type |-> "RequestMeta", after |-> t]
    OBVIOUS
  <2>2. m \in Message /\ m.after = t
    BY <1>8, <2>1 DEF Message
  <2>3. state = "Idle" /\ state' = "Idle" /\ last_updated' = t /\ up' = Append(up, m)
    BY <1>7, <1>13, <2>1 DEF NotifyUpdated, Dropped, request_meta, send_message
  <2>4. AskInv'
    BY <1>8, <1>9, <1>10, <2>2, <2>3, AskMore
  <2>5. DeadInv'
    BY <2>3 DEF DeadInv
  <2>6. Since /\ link # "open" /\ Welcomes = {}
    BY <2>3 DEF SInv, LoginInv
  <2>7. t <= m.after
    BY <1>8, <2>2 DEF MinTime
  <2>8. AsksNewer(up', t)
    BY <1>7, <1>9, <2>2, <2>3, <2>6, <2>7, AskMore DEF Since
  <2>9. Since' /\ Welcomes' = {}
    BY <1>7, <2>3, <2>6, <2>8, Arrives DEF Since
  <2>10. LoginInv'
    BY <2>3, <2>6, <2>9 DEF LoginInv
  <2> QED BY <1>2, <1>3, <1>4, <2>4, <2>5, <2>10 DEF SInv
<1> QED BY <1>11, <1>12, <1>13 DEF Dropped

\* A reply is taken in.
LEMMA NewsArrives ==
    ASSUME SInv, outgoing # <<>>, outgoing' = Tail(outgoing),
           UNCHANGED <<serverVars, inbox, link>>, state = "Idle",
           Head(outgoing).type = "TransmitMeta", TransmitMeta(Head(outgoing).meta)
    PROVE  SInv'
<1>1. PICK r : r = Head(outgoing).meta
  OBVIOUS
<1>2. 1 \in Replies /\ News(1) = r
  BY <1>1, Arrives
<1>3. /\ r \in UNION {[P -> Meta] : P \in SUBSET Path}
      /\ \A p \in DOMAIN r : p \in Path /\ r[p] \in Meta /\ r[p].meta_modified \in Nat
  BY <1>2, SyncTypes
<1>4. /\ index' = [p \in Path |-> IF p \in DOMAIN r THEN add_for_meta(r[p]) ELSE index[p]]
      /\ UNCHANGED <<state, last_updated, up>>
  BY <1>1, SyncBoundAssumption DEF TransmitMeta, DieInSave, Dropped, vars
<1>5. /\ index \in IndexType /\ now \in Nat
      /\ \A p \in Path : Known(p) => index[p].meta.meta_modified \in Nat
      /\ \A m \in Meta : m.meta_modified \in Nat
      /\ \A i \in Replies : i \in Nat /\ \A p \in DOMAIN News(i) : /\ p \in Path
                                                                   /\ News(i)[p].meta_modified \in Nat
  BY SyncTypes
<1>6. IInv'
  <2>1. \E P \in SUBSET Path : \E ms \in [P -> Meta] : TransmitMeta(ms)
    BY <1>1, <1>3
  <2>2. [Next]_vars
    BY <2>1 DEF Next
  <2> QED BY <2>2, NextIInv DEF SInv
<1>7. NetInv'
  BY Arrives
<1>8. /\ \A p \in DOMAIN r : p \in Path /\ Known(p)' /\ index'[p].meta = r[p]
      /\ \A p \in Path \ DOMAIN r : index'[p] = index[p]
      /\ \A p \in Path \ DOMAIN r : Known(p)' <=> Known(p)
  <2>1. \A p \in DOMAIN r : add_for_meta(r[p]) \in Entry /\ add_for_meta(r[p]).meta = r[p]
    BY <1>3 DEF add_for_meta, Entry
  <2> QED BY <1>3, <1>4, <2>1, NoneAssumption DEF Known
<1>9. /\ Replies' \subseteq Nat \ {0}
      /\ \A i \in Replies' : i + 1 \in Replies /\ News(i)' = News(i + 1) /\ 1 < i + 1
  BY Arrives
<1>10. \A p \in DOMAIN r : Known(p) => index[p].meta.meta_modified <= r[p].meta_modified
  BY <1>2 DEF SInv, KnowledgeInv, OrderInv
<1>11. \A i \in Replies : 1 < i => \A p \in DOMAIN News(i) : p \in DOMAIN r =>
            r[p].meta_modified <= News(i)[p].meta_modified
  BY <1>2 DEF SInv, KnowledgeInv, OrderInv
<1>12. TimesInv'
  <2>1. \A m \in Meta : OnServer(m)' => m.path \in Path /\ m.meta_modified <= now'
    BY DEF SInv, KnowledgeInv, TimesInv, OnServer, serverVars
  <2>2. \A p \in Path : Known(p)' => index'[p].meta.meta_modified <= now'
    BY <1>2, <1>8 DEF SInv, KnowledgeInv, TimesInv, serverVars
  <2>3. \A i \in Replies' : \A p \in DOMAIN News(i)' : News(i)'[p].meta_modified <= now'
    BY <1>9 DEF SInv, KnowledgeInv, TimesInv, serverVars
  <2> QED BY <2>1, <2>2, <2>3 DEF TimesInv
<1>13. PICK g : g = get_last_updated(index)
  OBVIOUS
<1>14. PICK h : h = get_last_updated(index')
  OBVIOUS
<1>15. /\ g \in Nat \cup {MinTime}
       /\ \A p \in Path : Known(p) => index[p].meta.meta_modified <= g
       /\ g = MinTime \/ \E p \in Path : Known(p) /\ index[p].meta.meta_modified = g
  <2>1. \A p \in Path : index[p] # NoEntry => index[p].meta.meta_modified <= now
    BY DEF SInv, KnowledgeInv, TimesInv, Known
  <2> QED BY <1>5, <1>13, <2>1, Newest DEF Known
<1>16. /\ h \in Nat \cup {MinTime}
       /\ \A p \in Path : Known(p)' => index'[p].meta.meta_modified <= h
       /\ h = MinTime \/ \E p \in Path : Known(p)' /\ index'[p].meta.meta_modified = h
  <2>1. \A p \in Path : index'[p] # NoEntry => index'[p].meta.meta_modified <= now
    BY <1>12 DEF TimesInv, Known, serverVars
  <2>2. index' \in IndexType
    BY <1>6 DEF IInv, TypeOK, IndexType
  <2> QED BY <1>5, <1>14, <2>1, <2>2, Newest DEF Known
<1>17. g <= h
  <2>1. CASE g = MinTime
    BY <1>16, <2>1 DEF MinTime
  <2>2. ASSUME NEW p \in Path, Known(p), index[p].meta.meta_modified = g PROVE g <= h
    <3>1. CASE p \in DOMAIN r
      BY <1>3, <1>5, <1>8, <1>10, <1>16, <2>2, <3>1 DEF MinTime
    <3>2. CASE p \notin DOMAIN r
      BY <1>8, <1>16, <2>2, <3>2
    <3> QED BY <3>1, <3>2
  <2> QED BY <1>15, <2>1, <2>2
<1>18. \A m : OnServer(m)' <=> OnServer(m)
  BY DEF OnServer, serverVars
<1>19. \A m \in Meta : OnServer(m) => m.path \in Path
  BY DEF SInv, KnowledgeInv, TimesInv
<1>20. PublishedInv'
  <2> SUFFICES ASSUME NEW m \in Meta, OnServer(m)
               PROVE  /\ Known(m.path)' => Outdated(index'[m.path].meta, m)
                      /\ \A i \in Replies' : m.path \in DOMAIN News(i)' => Outdated(News(i)'[m.path], m)
    BY <1>18 DEF PublishedInv
  <2>1. Known(m.path)' => Outdated(index'[m.path].meta, m)
    BY <1>2, <1>8, <1>19 DEF SInv, KnowledgeInv, PublishedInv
  <2>2. \A i \in Replies' : m.path \in DOMAIN News(i)' => Outdated(News(i)'[m.path], m)
    BY <1>9 DEF SInv, KnowledgeInv, PublishedInv
  <2> QED BY <2>1, <2>2
<1>21. OrderInv'
  <2> SUFFICES ASSUME NEW i \in Replies', NEW p \in DOMAIN News(i)'
               PROVE  /\ Known(p)' => index'[p].meta.meta_modified <= News(i)'[p].meta_modified
                      /\ \A j \in Replies' : j < i /\ p \in DOMAIN News(j)' =>
                            News(j)'[p].meta_modified <= News(i)'[p].meta_modified
    BY DEF OrderInv
  <2>1. i + 1 \in Replies /\ 1 < i + 1 /\ News(i)' = News(i + 1) /\ p \in Path
    BY <1>5, <1>9
  <2>2. Known(p)' => index'[p].meta.meta_modified <= News(i)'[p].meta_modified
    <3>1. CASE p \in DOMAIN r
      BY <1>8, <1>11, <2>1, <3>1
    <3>2. CASE p \notin DOMAIN r
      BY <1>8, <2>1, <3>2 DEF SInv, KnowledgeInv, OrderInv
    <3> QED BY <3>1, <3>2
  <2>3. ASSUME NEW j \in Replies', j < i, p \in DOMAIN News(j)'
        PROVE  News(j)'[p].meta_modified <= News(i)'[p].meta_modified
    <3>1. j + 1 \in Replies /\ News(j)' = News(j + 1) /\ j + 1 < i + 1
      BY <1>9, <2>3
    <3> QED BY <2>1, <2>3, <3>1 DEF SInv, KnowledgeInv, OrderInv
  <2> QED BY <2>2, <2>3
<1>22. h <= g \/ \E p \in DOMAIN r : h = r[p].meta_modified
  <2>1. CASE h = MinTime
    BY <1>15, <2>1 DEF MinTime
  <2>2. ASSUME NEW p \in Path, Known(p)', index'[p].meta.meta_modified = h
        PROVE  h <= g \/ \E q \in DOMAIN r : h = r[q].meta_modified
    BY <1>8, <1>15, <2>2
  <2> QED BY <1>16, <2>1, <2>2
\* What no reply is newer than, and no knowledge, is not older than the newest
\* the receiver now knows.
<1>23. CompleteInv'
  <2> SUFFICES ASSUME NEW i \in Replies', NEW m \in Meta, OnServer(m)
               PROVE  Covers(i, m)'
    BY <1>18 DEF CompleteInv
  <2>1. i + 1 \in Replies /\ News(i)' = News(i + 1) /\ 1 <= i + 1
    BY <1>9
  <2>2. Covers(i + 1, m) /\ m.meta_modified \in Nat
    BY <1>5, <2>1 DEF SInv, KnowledgeInv, CompleteInv
  <2>3. CASE m.path \in DOMAIN News(i + 1) /\ News(i + 1)[m.path] = m
    BY <2>1, <2>3 DEF Covers
  <2>4. CASE /\ g <= m.meta_modified
             /\ \A j \in Replies : j <= i + 1 =>
                   \A p \in DOMAIN News(j) : News(j)[p].meta_modified <= m.meta_modified
    <3>1. h <= m.meta_modified
      <4>1. \A p \in DOMAIN r : r[p].meta_modified <= m.meta_modified
        BY <1>2, <2>1, <2>4
      <4> QED BY <1>15, <1>16, <1>22, <2>2, <2>4, <4>1 DEF MinTime
    <3>2. \A j \in Replies' : j <= i =>
             \A p \in DOMAIN News(j)' : News(j)'[p].meta_modified <= m.meta_modified
      <4> SUFFICES ASSUME NEW j \in Replies', j <= i, NEW p \in DOMAIN News(j)'
                   PROVE  News(j)'[p].meta_modified <= m.meta_modified
        OBVIOUS
      <4>1. j + 1 \in Replies /\ News(j)' = News(j + 1) /\ j + 1 <= i + 1
        BY <1>9
      <4> QED BY <2>4, <4>1
    <3> QED BY <1>14, <3>1, <3>2 DEF Covers
  <2>5. CASE m.path \notin DOMAIN News(i + 1) /\ m.meta_modified <= g
    <3>1. m.meta_modified <= h
      BY <1>15, <1>16, <1>17, <2>2, <2>5 DEF MinTime
    <3> QED BY <1>14, <2>1, <2>5, <3>1 DEF Covers
  <2> QED BY <1>13, <2>2, <2>3, <2>4, <2>5 DEF Covers
<1>25. KnowledgeInv'
  BY <1>12, <1>20, <1>21, <1>23 DEF KnowledgeInv
<1>26. AskInv'
  <2>1. last_updated <= g /\ last_updated \in Nat \cup {MinTime} /\ Asks(up, g) /\ Asks(inbox, g)
    BY <1>13 DEF SInv, AskInv, IInv, TypeOK
  <2>2. \A s \in Seq(Message) : Asks(s, g) => Asks(s, h)
    <3> SUFFICES ASSUME NEW s \in Seq(Message), Asks(s, g), NEW i \in DOMAIN s, s[i].type = "RequestMeta"
                 PROVE  s[i].after <= h
      BY DEF Asks
    <3>1. s[i] \in Message /\ s[i].after <= g
      BY DEF Asks
    <3>2. s[i].after \in Nat \cup {MinTime}
      BY <3>1 DEF Message
    <3> QED BY <1>15, <1>16, <1>17, <3>1, <3>2 DEF MinTime
  <2>3. up \in Seq(Message) /\ inbox \in Seq(Message)
    BY DEF SInv, IInv, TypeOK, NetInv
  <2>4. last_updated <= h
    BY <1>15, <1>16, <1>17, <2>1 DEF MinTime
  <2> QED BY <1>4, <1>14, <2>1, <2>2, <2>3, <2>4 DEF AskInv
<1>27. DeadInv'
  BY <1>4 DEF DeadInv
<1>28. LoginInv'
  <2>1. Since /\ link # "open" /\ Welcomes = {}
    BY DEF SInv, LoginInv
  <2>2. Since' /\ Welcomes' = {}
    BY <1>4, <2>1, Arrives DEF Since
  <2> QED BY <2>1, <2>2 DEF LoginInv
<1> QED BY <1>6, <1>7, <1>25, <1>26, <1>27, <1>28 DEF SInv

LEMMA ClientReceivesSInv ==
    ASSUME SInv, ClientReceives
    PROVE  SInv'
<1>1. /\ outgoing # <<>> /\ outgoing' = Tail(outgoing)
      /\ UNCHANGED <<serverVars, inbox, link>>
  BY DEF ClientReceives
<1>2. PICK m : m = Head(outgoing)
  OBVIOUS
<1>3. \/ m.type = "LoginSuccess" /\ LoginSuccess
      \/ m.type = "NotifyUpdated" /\ NotifyUpdated(m.last_modified)
      \/ m.type = "TransmitMeta" /\ TransmitMeta(m.meta)
  BY <1>2 DEF ClientReceives
<1>4. m \in ServerMessage
  BY <1>1, <1>2, Arrives
<1>5. CASE m.type = "LoginSuccess" /\ LoginSuccess
  BY <1>1, <1>2, <1>5, PlainArrival
<1>6. CASE m.type = "NotifyUpdated" /\ NotifyUpdated(m.last_modified)
  <2>1. m.last_modified \in Nat
    BY <1>4, <1>6, SyncBoundAssumption DEF ServerMessage
  <2> QED BY <1>1, <1>6, <2>1, PlainArrival
<1>7. CASE m.type = "TransmitMeta" /\ TransmitMeta(m.meta)
  <2>1. CASE state = "Idle"
    BY <1>1, <1>2, <1>7, <2>1, NewsArrives
  <2>2. CASE state # "Idle"
    <3>1. Dropped
      BY <1>7, <2>2 DEF TransmitMeta
    <3> QED BY <1>1, <3>1, PlainArrival
  <2> QED BY <2>1, <2>2
<1> QED BY <1>3, <1>5, <1>6, <1>7

-----------------------------------------------------------------------------
(***************************************************************************)
(* The server's steps.                                                     *)
(***************************************************************************)

\* The server leaves the client as it is.
LEMMA ServerFrame ==
    ASSUME SInv, UNCHANGED vars
    PROVE  /\ IInv' /\ Same(index, index')
           /\ Asks(inbox', get_last_updated(index)) => AskInv'
           /\ state # "Crashed" => DeadInv'
<1>1. IInv'
  BY StutterIInv DEF SInv
<1> QED BY <1>1 DEF SInv, AskInv, DeadInv, vars, Same

\* A message that is no reply is sent, or none.
LEMMA ServerAnswers ==
    ASSUME SInv, UNCHANGED <<vars, serverVars>>, inbox # <<>>,
           inbox' = Tail(inbox) \/ inbox' = <<>>,
           \/ outgoing' = outgoing /\ (link' = link \/ link' = "none")
           \/ /\ link = "open" /\ link' = "receiver" /\ Len(outgoing) < NetCap
              /\ outgoing' = Append(outgoing, [type |-> "LoginSuccess"])
    PROVE  SInv'
<1>1. PICK w : w = [type |-> "LoginSuccess"]
  OBVIOUS
<1>2. w \in ServerMessage /\ w.type = "LoginSuccess" /\ w.type # "TransmitMeta"
  BY <1>1 DEF ServerMessage
<1>3. inbox \in Seq(Message) /\ outgoing \in Seq(ServerMessage)
      /\ Len(inbox) <= NetCap /\ Len(outgoing) <= NetCap
  BY DEF SInv, NetInv
<1>4. inbox' \in Seq(Message) /\ Len(inbox') <= NetCap
  <2>1. CASE inbox' = Tail(inbox)
    BY <1>3, <2>1, SyncBoundAssumption
  <2>2. CASE inbox' = <<>>
    BY <2>2, EmptyFacts, SyncBoundAssumption
  <2> QED BY <2>1, <2>2
<1>5. outgoing' \in Seq(ServerMessage) /\ Len(outgoing') <= NetCap
  BY <1>1, <1>2, <1>3, QueueFacts, SyncBoundAssumption
<1>6. NetInv'
  BY <1>4, <1>5 DEF SInv, NetInv, serverVars
<1>7. RestOfReplies
  BY <1>1, <1>2, OtherReplies DEF SInv
<1>8. KnowledgeInv'
  <2>1. \A m : OnServer(m)' => OnServer(m)
    BY DEF OnServer, serverVars
  <2>2. now <= now'
    BY SyncTypes DEF serverVars
  <2> QED BY <1>6, <1>7, <2>1, <2>2, ServerFrame, KnowledgeFrame
<1>9. \A t : /\ Asks(inbox, t) => Asks(inbox', t)
             /\ AsksNewer(inbox, t) => AsksNewer(inbox', t)
             /\ HasAsk(inbox') => HasAsk(inbox)
  BY <1>3, AskLess, AskNothing
<1>10. AskInv'
  BY <1>9, ServerFrame DEF SInv, AskInv
<1>11. DeadInv'
  BY ServerFrame DEF SInv, DeadInv
<1>12. Asked' => Asked
  BY <1>9 DEF Asked, vars
<1>13. CASE outgoing' = outgoing /\ (link' = link \/ link' = "none")
  <2>1. Replies' = Replies /\ Welcomes' = Welcomes /\ \A i \in Replies : News(i)' = News(i)
    BY <1>13 DEF Replies, Welcomes, News
  <2>2. Since => Since'
    BY <1>9, <2>1 DEF Since, vars
  <2>3. LoginInv'
    BY <1>12, <1>13, <2>1, <2>2 DEF SInv, LoginInv, vars
  <2> QED BY <1>6, <1>8, <1>10, <1>11, <2>3, ServerFrame DEF SInv
<1>14. CASE link = "open" /\ link' = "receiver" /\ outgoing' = Append(outgoing, w)
  <2>1. Welcomes = {} /\ ~Asked /\ Replies = {} /\ state \notin {"Idle", "RequestedChunk"}
    BY <1>14 DEF SInv, LoginInv
  <2>2. \A i \in DOMAIN outgoing' : \/ i \in DOMAIN outgoing /\ outgoing'[i] = outgoing[i]
                                    \/ i = Len(outgoing) + 1 /\ outgoing'[i] = w
    BY <1>2, <1>3, <1>14, QueueFacts
  <2>3. Welcomes' \subseteq {Len(outgoing) + 1} /\ Replies' = {}
    BY <1>2, <2>1, <2>2 DEF Welcomes, Replies
  <2>4. LoginInv'
    BY <1>12, <1>14, <2>1, <2>3 DEF LoginInv, vars
  <2> QED BY <1>6, <1>8, <1>10, <1>11, <2>4, ServerFrame DEF SInv
<1> QED BY <1>1, <1>13, <1>14

\* The metadata asked for is sent.
LEMMA ServerReplies ==
    ASSUME SInv, UNCHANGED <<vars, serverVars, link>>, inbox # <<>>, inbox' = Tail(inbox),
           Head(inbox).type = "RequestMeta", Len(outgoing) < NetCap,
           outgoing' = Append(outgoing, NewerThan(Head(inbox).after))
    PROVE  SInv'
<1>1. PICK t : t = Head(inbox).after
  OBVIOUS
<1>2. PICK w : w = NewerThan(t)
  OBVIOUS
<1>3. PICK r : r = w.meta
  OBVIOUS
<1>4. ReplyOf(r, t)
  BY <1>2, <1>3, NewerFacts DEF SInv, KnowledgeInv
<1>5. w.type = "TransmitMeta" /\ w \in ServerMessage
  BY <1>2, <1>3, <1>4 DEF NewerThan, ReplyOf, ServerMessage
<1>6. PICK g : g = get_last_updated(index)
  OBVIOUS
<1>7. inbox \in Seq(Message) /\ outgoing \in Seq(ServerMessage)
      /\ Len(inbox) <= NetCap /\ Len(outgoing) <= NetCap
  BY DEF SInv, NetInv
<1>8. t <= g /\ t \in Nat \cup {MinTime}
  <2>1. Asks(inbox, g)
    BY <1>6 DEF SInv, AskInv
  <2>2. t <= g /\ Head(inbox) \in Message
    BY <1>1, <1>7, <2>1, AskLess
  <2> QED BY <1>1, <2>2 DEF Message
<1>9. g \in Nat \cup {MinTime}
  BY <1>6, NewestKnown
<1>10. PICK k : k = Len(outgoing) + 1
  OBVIOUS
<1>11. /\ outgoing' \in Seq(ServerMessage) /\ Len(outgoing') <= NetCap
       /\ k \in DOMAIN outgoing' /\ outgoing'[k] = w /\ k \in Nat
       /\ \A i \in DOMAIN outgoing : i < k /\ i \in DOMAIN outgoing' /\ outgoing'[i] = outgoing[i]
       /\ \A i \in DOMAIN outgoing' : i \in DOMAIN outgoing \/ i = k
  <2>1. outgoing' = Append(outgoing, w)
    BY <1>1, <1>2
  <2> QED BY <1>5, <1>7, <1>10, <2>1, SyncBoundAssumption
<1>12. /\ Replies' = Replies \cup {k} /\ Welcomes' = Welcomes
       /\ News(k)' = r
       /\ \A i \in Replies : News(i)' = News(i) /\ i < k /\ i \in Nat
  BY <1>3, <1>5, <1>7, <1>11 DEF Replies, Welcomes, News
<1>13. inbox' \in Seq(Message) /\ Len(inbox') <= NetCap
  BY <1>7, SyncBoundAssumption
<1>14. NetInv'
  BY <1>11, <1>13 DEF SInv, NetInv, serverVars
<1>15. /\ \A m : OnServer(m)' <=> OnServer(m)
       /\ \A p : Known(p)' <=> Known(p)
       /\ \A m : Shown(m)' <=> Shown(m)
       /\ index' = index
  BY DEF OnServer, Known, Shown, vars, serverVars
<1>16. \A p \in DOMAIN r : OnServer(r[p]) /\ r[p] \in Meta /\ r[p].path = p /\ t < r[p].meta_modified
                           /\ r[p].meta_modified \in Nat
  BY <1>4, OnServerFacts DEF ReplyOf, SInv
<1>17. TimesInv'
  <2>1. \A m \in Meta : OnServer(m)' => m.path \in Path /\ m.meta_modified <= now'
    BY <1>15 DEF SInv, KnowledgeInv, TimesInv, serverVars
  <2>2. \A p \in Path : Known(p)' => index'[p].meta.meta_modified <= now'
    BY <1>15 DEF SInv, KnowledgeInv, TimesInv, serverVars
  <2>3. \A i \in Replies' : \A p \in DOMAIN News(i)' : News(i)'[p].meta_modified <= now'
    BY <1>12, <1>16 DEF SInv, KnowledgeInv, TimesInv, serverVars
  <2> QED BY <2>1, <2>2, <2>3 DEF TimesInv
<1>18. PublishedInv'
  <2>1. \A m \in Meta : OnServer(m) => (m.path \in DOMAIN r => r[m.path] = m)
    BY <1>16, OnServerFacts DEF SInv
  <2> QED BY <1>12, <1>15, <2>1, SyncTypes DEF SInv, KnowledgeInv, PublishedInv, Outdated
<1>19. OrderInv'
  <2>1. ASSUME NEW n, NEW p \in DOMAIN r, Outdated(n, r[p]), n.meta_modified \in Nat
        PROVE  n.meta_modified <= r[p].meta_modified
    BY <1>16, <2>1 DEF Outdated
  <2>2. \A p \in DOMAIN r : Known(p) => index[p].meta.meta_modified <= r[p].meta_modified
    <3> SUFFICES ASSUME NEW p \in DOMAIN r, Known(p)
                 PROVE  index[p].meta.meta_modified <= r[p].meta_modified
      OBVIOUS
    <3>1. p \in Path /\ OnServer(r[p]) /\ r[p] \in Meta /\ r[p].path = p
      BY <1>16 DEF SInv, KnowledgeInv, TimesInv
    <3>2. Outdated(index[p].meta, r[p])
      BY <3>1 DEF SInv, KnowledgeInv, PublishedInv
    <3>3. index[p].meta.meta_modified \in Nat
      BY <3>1, SyncTypes
    <3> QED BY <2>1, <3>2, <3>3
  <2>3. \A j \in Replies : \A p \in DOMAIN r : p \in DOMAIN News(j) =>
            News(j)[p].meta_modified <= r[p].meta_modified
    <3> SUFFICES ASSUME NEW j \in Replies, NEW p \in DOMAIN r, p \in DOMAIN News(j)
                 PROVE  News(j)[p].meta_modified <= r[p].meta_modified
      OBVIOUS
    <3>1. OnServer(r[p]) /\ r[p] \in Meta /\ r[p].path = p
      BY <1>16
    <3>2. Outdated(News(j)[p], r[p])
      BY <3>1 DEF SInv, KnowledgeInv, PublishedInv
    <3>3. News(j)[p].meta_modified \in Nat
      BY SyncTypes
    <3> QED BY <2>1, <3>2, <3>3
  <2> SUFFICES ASSUME NEW i \in Replies', NEW p \in DOMAIN News(i)'
               PROVE  /\ Known(p)' => index'[p].meta.meta_modified <= News(i)'[p].meta_modified
                      /\ \A j \in Replies' : j < i /\ p \in DOMAIN News(j)' =>
                            News(j)'[p].meta_modified <= News(i)'[p].meta_modified
    BY DEF OrderInv
  <2>4. CASE i = k
    BY <1>11, <1>12, <1>15, <2>2, <2>3, <2>4
  <2>5. CASE i \in Replies
    <3>1. ~(k < i)
      BY <1>11, <1>12, <2>5
    <3> QED BY <1>12, <1>15, <2>5, <3>1 DEF SInv, KnowledgeInv, OrderInv
  <2> QED BY <1>12, <2>4, <2>5
<1>20. CompleteInv'
  <2> SUFFICES ASSUME NEW i \in Replies', NEW m \in Meta, OnServer(m)
               PROVE  Covers(i, m)'
    BY <1>15 DEF CompleteInv
  <2>1. CASE i = k
    <3>1. m.meta_modified \in Nat
      BY OnServerFacts DEF SInv
    <3>2. CASE t < m.meta_modified
      BY <1>4, <1>12, <2>1, <3>2 DEF ReplyOf, Covers
    <3>3. CASE ~(t < m.meta_modified)
      <4>1. m.meta_modified <= g
        BY <1>8, <1>9, <3>1, <3>3 DEF MinTime
      <4>2. m.path \notin DOMAIN r
        BY <1>16, <3>3, OnServerFacts DEF SInv
      <4> QED BY <1>6, <1>12, <1>15, <2>1, <4>1, <4>2 DEF Covers
    <3> QED BY <3>2, <3>3
  <2>2. CASE i \in Replies
    <3>1. Covers(i, m)
      BY <2>2 DEF SInv, KnowledgeInv, CompleteInv
    <3>2. ~(k <= i)
      BY <1>11, <1>12, <2>2
    <3> QED BY <1>12, <1>15, <2>2, <3>1, <3>2 DEF Covers
  <2> QED BY <1>12, <2>1, <2>2
<1>22. KnowledgeInv'
  BY <1>17, <1>18, <1>19, <1>20 DEF KnowledgeInv
<1>23. \A u : /\ Asks(inbox, u) => Asks(inbox', u)
              /\ AsksNewer(inbox, u) => AsksNewer(inbox', u)
              /\ HasAsk(inbox') => HasAsk(inbox)
  BY <1>7, AskLess
<1>24. AskInv'
  BY <1>23, ServerFrame DEF SInv, AskInv
<1>25. DeadInv'
  BY ServerFrame DEF SInv, DeadInv
<1>26. Asked
  BY <1>7, AskLess DEF Asked
<1>27. Since => Since'
  <2> SUFFICES ASSUME Since PROVE Since'
    OBVIOUS
  <2>1. last_updated <= t
    BY <1>1, <1>7, AskLess DEF Since
  <2>2. last_updated \in Nat \cup {MinTime}
    BY DEF SInv, IInv, TypeOK
  <2>3. \A p \in DOMAIN r : last_updated < r[p].meta_modified
    BY <1>8, <1>16, <2>1, <2>2 DEF MinTime
  <2>4. \A i \in Replies' : \A p \in DOMAIN News(i)' : last_updated < News(i)'[p].meta_modified
    BY <1>12, <2>3 DEF Since
  <2> QED BY <1>23, <2>4 DEF Since, vars
<1>28. LoginInv'
  <2>1. link # "open" /\ Welcomes = {} /\ \A i, j \in Welcomes : i = j
    BY <1>26 DEF SInv, LoginInv
  <2> QED BY <1>12, <1>27, <2>1 DEF SInv, LoginInv, vars
<1> QED BY <1>14, <1>22, <1>24, <1>25, <1>28, ServerFrame DEF SInv

LEMMA ServerHandlesSInv ==
    ASSUME SInv, ServerHandles
    PROVE  SInv'
<1>1. inbox # <<>> /\ UNCHANGED <<vars, serverVars>>
  BY DEF ServerHandles
<1>2. CASE Refused
  BY <1>1, <1>2, ServerAnswers DEF Refused
<1>3. CASE link = "open" /\ Reply([type |-> "LoginSuccess"]) /\ link' = "receiver" /\ inbox' = Tail(inbox)
  BY <1>1, <1>3, ServerAnswers DEF Reply
<1>4. CASE Head(inbox).type = "RequestMeta" /\ Reply(NewerThan(Head(inbox).after))
           /\ inbox' = Tail(inbox) /\ UNCHANGED link
  BY <1>1, <1>4, ServerReplies DEF Reply
<1>5. CASE inbox' = Tail(inbox) /\ UNCHANGED <<outgoing, link>>
  BY <1>1, <1>5, ServerAnswers
<1> QED BY <1>2, <1>3, <1>4, <1>5 DEF ServerHandles

\* A file is published no earlier than all there is.
LEMMA PublishSInv ==
    ASSUME SInv, NEW f \in Offer, PublishMeta(f)
    PROVE  SInv'
<1>1. PICK m : m = Stamped(f, now)
  OBVIOUS
<1>2. /\ now' = now /\ news' \in 0 .. MaxNew
      /\ published' = M!add_for_meta(published, m)
      /\ UNCHANGED <<vars, inbox, link>>
      /\ \/ outgoing' = outgoing
         \/ /\ Len(outgoing) < NetCap
            /\ outgoing' = Append(outgoing, [type |-> "NotifyUpdated", last_modified |-> now])
  BY <1>1, SyncBoundAssumption DEF PublishMeta, Reply, SInv, NetInv
<1>3. now \in Nat /\ now \in 0 .. MaxTime
  BY SyncTypes DEF SInv, NetInv
<1>4. m \in Meta
  BY <1>1, <1>3, OfferAssumption DEF Stamped
<1>5. m.meta_modified = now /\ m.path \in Path
  <2>1. f \in [path : Path, size : Nat, meta_modified : Nat, chunks : Seq(Chunk)]
    BY OfferAssumption
  <2> QED BY <1>1, <2>1 DEF Stamped
<1>6. PICK w : w = [type |-> "NotifyUpdated", last_modified |-> now]
  OBVIOUS
<1>7. w \in ServerMessage /\ w.type = "NotifyUpdated"
  BY <1>3, <1>6 DEF ServerMessage
<1>8. outgoing \in Seq(ServerMessage) /\ Len(outgoing) <= NetCap
  BY DEF SInv, NetInv
<1>9. /\ outgoing' \in Seq(ServerMessage) /\ Len(outgoing') <= NetCap
      /\ \A i \in DOMAIN outgoing : i \in DOMAIN outgoing' /\ outgoing'[i] = outgoing[i]
      /\ \A i \in DOMAIN outgoing' : i \in DOMAIN outgoing \/ outgoing'[i] = w
  BY <1>2, <1>6, <1>7, <1>8, SyncBoundAssumption
<1>10. Replies' = Replies /\ Welcomes' = Welcomes /\ \A i \in Replies : News(i)' = News(i)
  BY <1>7, <1>9 DEF Replies, Welcomes, News
<1>11. /\ published' \in Seq(Entry) /\ M!IsIndex(published')
       /\ \A n : OnServer(n)' => n = m \/ (OnServer(n) /\ n.path # m.path)
  BY <1>2, <1>4, AddFacts DEF SInv
<1>12. NetInv'
  BY <1>2, <1>3, <1>9, <1>11 DEF SInv, NetInv
<1>13. /\ \A p \in Path : Known(p) => index[p].meta.meta_modified \in Nat
       /\ \A i \in Replies : \A p \in DOMAIN News(i) : p \in Path /\ News(i)[p].meta_modified \in Nat
       /\ \A n \in Meta : n.meta_modified \in Nat
  BY SyncTypes
<1>14. /\ \A p \in Path : Known(p) => index[p].meta.meta_modified <= now
       /\ \A i \in Replies : \A p \in DOMAIN News(i) : News(i)[p].meta_modified <= now
       /\ \A n \in Meta : OnServer(n) => n.path \in Path /\ n.meta_modified <= now
  BY <1>3, <1>13 DEF SInv, KnowledgeInv, TimesInv
<1>15. /\ \A p : Known(p)' <=> Known(p)
       /\ \A n : Shown(n)' <=> Shown(n)
       /\ index' = index
  BY <1>2 DEF Known, Shown, vars
<1>16. TimesInv'
  <2>1. \A n \in Meta : OnServer(n)' => n.path \in Path /\ n.meta_modified <= now'
    BY <1>2, <1>3, <1>5, <1>11, <1>14
  <2>2. \A p \in Path : Known(p)' => index'[p].meta.meta_modified <= now'
    BY <1>2, <1>3, <1>13, <1>14, <1>15
  <2>3. \A i \in Replies' : \A p \in DOMAIN News(i)' : News(i)'[p].meta_modified <= now'
    BY <1>2, <1>3, <1>10, <1>13, <1>14
  <2> QED BY <2>1, <2>2, <2>3 DEF TimesInv
<1>17. PublishedInv'
  <2> SUFFICES ASSUME NEW n \in Meta, OnServer(n)'
               PROVE  /\ Known(n.path)' => Outdated(index'[n.path].meta, n)
                      /\ \A i \in Replies' : n.path \in DOMAIN News(i)' => Outdated(News(i)'[n.path], n)
    BY DEF PublishedInv
  <2>1. CASE n = m
    BY <1>5, <1>10, <1>14, <1>15, <2>1 DEF Outdated
  <2>2. CASE OnServer(n)
    BY <1>10, <1>15, <2>2 DEF SInv, KnowledgeInv, PublishedInv
  <2> QED BY <1>11, <2>1, <2>2
<1>18. OrderInv'
  BY <1>10, <1>15 DEF SInv, KnowledgeInv, OrderInv
<1>19. CompleteInv'
  <2> SUFFICES ASSUME NEW i \in Replies', NEW n \in Meta, OnServer(n)'
               PROVE  Covers(i, n)'
    BY DEF CompleteInv
  <2>1. CASE n = m
    <3>1. get_last_updated(index) <= n.meta_modified
      BY <1>5, <2>1, NewestKnown
    <3>2. \A j \in Replies : \A p \in DOMAIN News(j) : News(j)[p].meta_modified <= n.meta_modified
      BY <1>5, <1>14, <2>1
    <3> QED BY <1>10, <1>15, <3>1, <3>2 DEF Covers
  <2>2. CASE OnServer(n)
    <3>1. Covers(i, n)
      BY <1>10, <2>2 DEF SInv, KnowledgeInv, CompleteInv
    <3> QED BY <1>10, <1>15, <3>1 DEF Covers
  <2> QED BY <1>11, <2>1, <2>2
<1>21. KnowledgeInv'
  BY <1>16, <1>17, <1>18, <1>19 DEF KnowledgeInv
<1>22. AskInv'
  BY <1>2, ServerFrame DEF SInv, AskInv
<1>23. DeadInv'
  <2>1. link # "receiver" => UNCHANGED outgoing
    BY DEF PublishMeta
  <2> QED BY <1>2, <2>1 DEF SInv, DeadInv, vars
<1>24. LoginInv'
  BY <1>2, <1>10 DEF SInv, LoginInv, Since, Asked, vars
<1> QED BY <1>2, <1>12, <1>21, <1>22, <1>23, <1>24, ServerFrame DEF SInv

\* A file is removed, or time passes.
LEMMA QuietSInv ==
    ASSUME SInv, (\E p \in Path : RemoveMeta(p)) \/ Tick \/ UNCHANGED syncVars
    PROVE  SInv'
<1>1. UNCHANGED <<vars, inbox, outgoing, link>>
  BY DEF RemoveMeta, Tick, syncVars, netVars
<1>2. now' \in 0 .. MaxTime /\ now <= now' /\ news' = news
  BY SyncTypes, SyncBoundAssumption DEF RemoveMeta, Tick, syncVars, serverVars, SInv, NetInv
<1>3. published' \in Seq(Entry) /\ M!IsIndex(published') /\ \A m : OnServer(m)' => OnServer(m)
  <2>1. CASE UNCHANGED published
    BY <2>1 DEF SInv, NetInv, OnServer
  <2>2. ASSUME NEW p \in Path, RemoveMeta(p)
        PROVE  published' \in Seq(Entry) /\ M!IsIndex(published') /\ \A m : OnServer(m)' => OnServer(m)
    BY <2>2, RemoveFacts DEF SInv, RemoveMeta
  <2> QED BY <2>1, <2>2 DEF Tick, syncVars, serverVars
<1>4. NetInv'
  BY <1>1, <1>2, <1>3 DEF SInv, NetInv
<1>5. KnowledgeInv'
  <2>1. RestOfReplies
    BY <1>1, OtherReplies DEF SInv
  <2> QED BY <1>1, <1>2, <1>3, <1>4, <2>1, ServerFrame, KnowledgeFrame
<1>6. AskInv' /\ DeadInv' /\ LoginInv'
  BY <1>1 DEF SInv, AskInv, DeadInv, LoginInv, Since, Asked, Replies, Welcomes, News, vars
<1> QED BY <1>1, <1>4, <1>5, <1>6, ServerFrame DEF SInv

-----------------------------------------------------------------------------
(***************************************************************************)
(* The theorems.                                                           *)
(***************************************************************************)

LEMMA InitSInv == SyncInit => SInv
<1> SUFFICES ASSUME SyncInit PROVE SInv
  OBVIOUS
<1>1. /\ Init /\ published = <<>> /\ now = 0 /\ news = 0 /\ inbox = <<>> /\ outgoing = <<>> /\ link = "open"
  BY DEF SyncInit
<1>2. IInv
  BY <1>1, InitIInv
<1>3. NetInv
  BY <1>1, EmptyFacts, SyncBoundAssumption DEF NetInv, M!IsIndex
<1>4. /\ \A p \in Path : ~Known(p)
      /\ state = "None" /\ up = <<>> /\ last_updated = MinTime
  BY <1>1 DEF Init, Known
<1>5. Replies = {} /\ Welcomes = {} /\ \A m : ~OnServer(m)
  BY <1>1, EmptyFacts DEF Replies, Welcomes, OnServer
<1>6. KnowledgeInv
  BY <1>4, <1>5 DEF KnowledgeInv, TimesInv, PublishedInv, OrderInv, CompleteInv
<1>7. AskInv
  <2>1. PICK g : g = get_last_updated(index)
    OBVIOUS
  <2>2. g \in Nat \cup {MinTime}
    BY <1>2, <2>1, LastUpdatedType DEF IInv
  <2>3. MinTime <= g
    BY <2>2 DEF MinTime
  <2> QED BY <1>1, <1>4, <2>1, <2>3, AskNothing DEF AskInv
<1>8. DeadInv /\ LoginInv
  BY <1>1, <1>4, <1>5, AskNothing DEF DeadInv, LoginInv, Asked
<1> QED BY <1>2, <1>3, <1>6, <1>7, <1>8 DEF SInv

LEMMA NextSInv ==
    ASSUME SInv, [SyncNext]_syncVars
    PROVE  SInv'
<1>2. CASE \/ Client(LogInAsReceiver) \/ Client(LoggedInAsReceiver)
           \/ \E p \in Path : \E l \in Locals(p) : Client(FileRequested(p, l))
           \/ \E p \in Path : Client(FileResumed(p))
           \/ Client(DownloadStopped)
           \/ \E b \in Data : Client(TransmitChunk(b))
           \/ Client(Crash) \/ Closed
  <2>1. /\ LocalAct
        /\ IF state' = "Crashed" THEN Cut ELSE UNCHANGED netVars
        /\ UNCHANGED serverVars
    BY <1>2 DEF Client, Closed, LocalAct
  <2> QED BY <2>1, LocalSInv
<1>3. CASE Reconnect
  BY <1>3, ReconnectSInv
<1>4. CASE ClientSends
  BY <1>4, ClientSendsSInv
<1>5. CASE ClientReceives
  BY <1>5, ClientReceivesSInv
<1>6. CASE ServerHandles
  BY <1>6, ServerHandlesSInv
<1>7. CASE \E m \in Offer : PublishMeta(m)
  BY <1>7, PublishSInv
<1>8. CASE (\E p \in Path : RemoveMeta(p)) \/ Tick \/ UNCHANGED syncVars
  BY <1>8, QuietSInv
<1> QED BY <1>2, <1>3, <1>4, <1>5, <1>6, <1>7, <1>8 DEF SyncNext

\* Knowledge, replies and published files fit together in every state.
THEOREM SyncInvariance == SyncSpec => []SInv
<1>1. SInv /\ [SyncNext]_syncVars => SInv'
  BY NextSInv
<1> QED BY <1>1, InitSInv, PTL DEF SyncSpec

\* The types hold, and the published list never has two entries of one path
\* (add_entry looks for one before it pushes).
THEOREM SyncTypeCorrectness == SyncSpec => []SyncTypeOK
<1>1. SInv => SyncTypeOK
  <2> SUFFICES ASSUME SInv PROVE SyncTypeOK
    OBVIOUS
  <2>1. published \in Seq(Entry)
    BY DEF SInv, NetInv
  <2>2. \A i \in DOMAIN published : published[i] \in Entry
    BY <2>1
  <2>3. \A i \in DOMAIN published : published[i].meta \in Meta
    BY <2>2 DEF Entry
  <2> QED BY <2>3 DEF SInv, IInv, NetInv, SyncTypeOK
<1> QED BY <1>1, SyncInvariance, PTL

\* The step of NothingMissed.
LEMMA MissedByTie ==
    ASSUME SInv, SInv', [SyncNext]_syncVars, NEW m \in Meta, Overlooked(m)', ~Overlooked(m)
    PROVE  m.meta_modified = get_last_updated(index')
<1>1. PICK g : g = get_last_updated(index)
  OBVIOUS
<1>2. PICK h : h = get_last_updated(index')
  OBVIOUS
<1>3. g \in Nat \cup {MinTime} /\ g <= now /\ now \in Nat /\ m.meta_modified \in Nat
  BY <1>1, NewestKnown, SyncTypes
<1>4. h \in Nat \cup {MinTime}
  <2>1. index' \in IndexType /\ now' \in Nat
    BY SyncBoundAssumption DEF SInv, IInv, TypeOK, NetInv, IndexType
  <2>2. \A p \in Path : index'[p] # NoEntry => index'[p].meta.meta_modified <= now'
    BY DEF SInv, KnowledgeInv, TimesInv, Known
  <2> QED BY <1>2, <2>1, <2>2, Newest
<1>5. OnServer(m)' /\ ~Shown(m)' /\ m.meta_modified <= h
  BY <1>2 DEF Overlooked
\* Without a new file, and with the metadata it knows, nothing is overlooked anew.
<1>6. ASSUME Same(index, index'), OnServer(m) PROVE FALSE
  <2>1. h = g
    BY <1>1, <1>2, <1>6, SameNewest
  <2>2. Shown(m)
    BY <1>1, <1>5, <1>6, <2>1 DEF Overlooked
  <2>3. m.path \in Path
    BY <1>6 DEF SInv, KnowledgeInv, TimesInv
  <2> QED BY <1>5, <1>6, <2>2, <2>3 DEF Same, Shown, Known
<1>7. ASSUME NEW f \in Offer, PublishMeta(f) PROVE m.meta_modified = h
  <2>1. index' = index /\ published' = M!add_for_meta(published, Stamped(f, now))
    BY <1>7 DEF PublishMeta, vars
  <2>2. Same(index, index')
    BY <2>1 DEF Same
  <2>3. Stamped(f, now) \in Meta /\ Stamped(f, now).meta_modified = now
    BY <1>3, OfferAssumption DEF Stamped, SInv, NetInv
  <2>4. m = Stamped(f, now)
    BY <1>5, <1>6, <2>1, <2>2, <2>3, AddFacts DEF SInv
  <2> QED BY <1>1, <1>2, <1>3, <1>4, <1>5, <2>1, <2>3, <2>4 DEF MinTime
<1>8. ASSUME ClientReceives, ~Same(index, index') PROVE m.meta_modified = h
  <2>1. PICK w : w = Head(outgoing)
    OBVIOUS
  <2>2. PICK r : r = w.meta
    OBVIOUS
  <2>3. UNCHANGED index => Same(index, index')
    BY DEF Same
  <2>4. /\ outgoing # <<>> /\ outgoing' = Tail(outgoing) /\ UNCHANGED <<serverVars, inbox, link>>
        /\ w.type = "TransmitMeta" /\ TransmitMeta(r)
    BY <1>8, <2>1, <2>2, <2>3 DEF ClientReceives, LoginSuccess, NotifyUpdated, Dropped, vars
  <2>5. index' = [p \in Path |-> IF p \in DOMAIN r THEN add_for_meta(r[p]) ELSE index[p]]
    BY <1>8, <2>3, <2>4 DEF TransmitMeta, DieInSave, Dropped, vars
  <2>6. 1 \in Replies /\ News(1) = r
    BY <2>1, <2>2, <2>4, Arrives
  <2>7. OnServer(m) /\ m.path \in Path
    BY <1>5, <2>4 DEF OnServer, serverVars, SInv, KnowledgeInv, TimesInv
  <2>8. Covers(1, m)
    BY <2>6, <2>7 DEF SInv, KnowledgeInv, CompleteInv
  <2>9. \A p \in DOMAIN r : p \in Path /\ r[p] \in Meta /\ r[p].meta_modified \in Nat
    BY <2>6, SyncTypes
  <2>10. /\ \A p \in DOMAIN r : Known(p)' /\ index'[p].meta = r[p]
         /\ \A p \in Path \ DOMAIN r : index'[p] = index[p]
    <3>1. \A p \in DOMAIN r : add_for_meta(r[p]) \in Entry /\ add_for_meta(r[p]).meta = r[p]
      BY <2>9 DEF add_for_meta, Entry
    <3> QED BY <2>5, <2>9, <3>1, NoneAssumption DEF Known
  <2>11. CASE m.path \in DOMAIN r /\ r[m.path] = m
    BY <1>5, <2>10, <2>11 DEF Shown
  <2>12. CASE g <= m.meta_modified /\ \A p \in DOMAIN r : r[p].meta_modified <= m.meta_modified
    <3>1. \A p \in Path : Known(p) => index[p].meta.meta_modified <= g /\ index[p].meta.meta_modified \in Nat
      BY <1>1, NewestKnown, SyncTypes
    <3>2. \A p \in Path : index'[p] # NoEntry => index'[p].meta.meta_modified <= m.meta_modified
      BY <1>3, <2>10, <2>12, <3>1 DEF Known, MinTime
    <3>3. index' \in IndexType
      BY SyncTypes DEF SInv, IInv, TypeOK, IndexType
    <3>4. h <= m.meta_modified
      BY <1>2, <1>3, <3>2, <3>3, Newest
    <3> QED BY <1>3, <1>4, <1>5, <3>4 DEF MinTime
  <2>13. CASE m.path \notin DOMAIN r /\ m.meta_modified <= g
    <3>1. Shown(m)
      BY <1>1, <2>7, <2>13 DEF Overlooked
    <3> QED BY <1>5, <2>7, <2>10, <2>13, <3>1 DEF Shown, Known
  <2>14. 1 <= 1
    OBVIOUS
  <2> QED BY <1>1, <2>6, <2>8, <2>11, <2>12, <2>13, <2>14 DEF Covers
<1>9. CASE \/ Client(LogInAsReceiver) \/ Client(LoggedInAsReceiver)
           \/ \E p \in Path : \E l \in Locals(p) : Client(FileRequested(p, l))
           \/ \E p \in Path : Client(FileResumed(p))
           \/ Client(DownloadStopped)
           \/ \E b \in Data : Client(TransmitChunk(b))
           \/ Client(Crash) \/ Closed \/ Reconnect \/ ClientSends
  <2>1. Chores /\ UNCHANGED serverVars
    BY <1>9 DEF Client, Closed, Reconnect, ClientSends, Chores
  <2>2. Same(index, index')
    BY <2>1, ChoresSame DEF SInv
  <2>3. OnServer(m)
    BY <1>5, <2>1 DEF OnServer, serverVars
  <2> QED BY <1>6, <2>2, <2>3
<1>10. CASE ServerHandles \/ (\E p \in Path : RemoveMeta(p)) \/ Tick \/ UNCHANGED syncVars
  <2>1. index' = index
    BY <1>10 DEF ServerHandles, RemoveMeta, Tick, syncVars, vars
  <2>2. OnServer(m)
    <3>1. CASE UNCHANGED published
      BY <1>5, <3>1 DEF OnServer
    <3>2. ASSUME NEW p \in Path, RemoveMeta(p) PROVE OnServer(m)
      BY <1>5, <3>2, RemoveFacts DEF RemoveMeta, SInv
    <3> QED BY <1>10, <3>1, <3>2 DEF ServerHandles, Tick, syncVars, serverVars
  <2>3. Same(index, index')
    BY <2>1 DEF Same
  <2> QED BY <1>6, <2>2, <2>3
<1>11. CASE ClientReceives /\ Same(index, index')
  <2>1. OnServer(m)
    BY <1>5, <1>11 DEF ClientReceives, OnServer, serverVars
  <2> QED BY <1>6, <1>11, <2>1
<1> QED BY <1>2, <1>7, <1>8, <1>9, <1>10, <1>11 DEF SyncNext

\* Through lost and dropped replies, crashes and logins, the receiver never
\* believes itself ahead of a published file it does not know, but for one that
\* was published in the same millisecond as the newest it knows (get_last_updated,
\* get_modified_after, handle_publish_meta).
THEOREM NothingMissed == SyncSpec => OverlookedByTie
<1>1. SInv /\ SInv' /\ [SyncNext]_syncVars =>
      [\A m \in Meta : Overlooked(m)' =>
            Overlooked(m) \/ m.meta_modified = get_last_updated(index')]_syncVars
  BY MissedByTie
<1> QED BY <1>1, SyncInvariance, PTL DEF SyncSpec, OverlookedByTie

\* The step of OldProgressIsKept: marks are dropped by request_file, which
\* asks for the first chunk at once, or by metadata newer than the last login
\* (process_transmit_meta).
LEMMA WipedForAReason ==
    ASSUME SInv, [SyncNext]_syncVars, NEW p \in Path, Wiped(p),
           index[p].meta.meta_modified <= last_updated
    PROVE  state' = "RequestedChunk"
<1>1. /\ Known(p) /\ index[p] \in Entry /\ index'[p].meta = index[p].meta
      /\ ~(index[p].received_chunks \subseteq index'[p].received_chunks)
      /\ index \in [Path -> Entry \cup {NoEntry}]
  BY KnownEntry DEF Wiped, SInv, IInv, TypeOK
<1>2. ~UNCHANGED index
  BY <1>1
<1>3. CASE \E q \in Path : \E l \in Locals(q) : FileRequested(q, l)
  <2>a. PICK q \in Path : \E l \in Locals(q) : FileRequested(q, l)
    BY <1>3
  <2>1. PICK l \in Locals(q) : FileRequested(q, l)
    BY <2>a
  <2>2. PICK e : e = change_local(index[q], l)
    OBVIOUS
  <2>3. /\ Known(q) /\ index' = [index EXCEPT ![q] = e]
        /\ e.meta.chunks # <<>> => state' = "RequestedChunk"
    BY <1>2, <2>1, <2>2 DEF FileRequested, DieInSave, request_chunk
  <2>4. q = p
    BY <1>1, <2>3
  <2>5. e.meta = index[p].meta
    BY <1>1, <2>2, <2>4, LocalAssumption DEF change_local, Entry
  <2>6. index[p].meta.chunks # <<>>
    <3>1. PICK k \in 0 .. Len(index[p].meta.chunks) : index[p].received_chunks = 0 .. k - 1
      BY <1>1 DEF SInv, IInv, EntriesInv, GoodEntry
    <3>2. index[p].received_chunks # {}
      BY <1>1
    <3> QED BY <3>1, <3>2, EmptyFacts
  <2> QED BY <2>3, <2>5, <2>6
<1>4. CASE \E b \in Data : TransmitChunk(b)
  <2>1. PICK b \in Data : TransmitChunk(b)
    BY <1>4
  <2>2. PICK r : r = requesting_chunk
    OBVIOUS
  <2>3. PICK d : d = mark_received(index[r.remote_path], r.chunk_index)
    OBVIOUS
  <2>4. index' = [index EXCEPT ![r.remote_path] = d]
    BY <1>2, <2>1, <2>2, <2>3 DEF TransmitChunk, WriteError, Advance, DieInSave, Dropped, vars
  <2>5. r.remote_path = p
    BY <1>1, <2>4
  <2>6. index'[p].received_chunks = index[p].received_chunks \cup {r.chunk_index}
    BY <1>1, <2>3, <2>4, <2>5 DEF mark_received, Entry
  <2> QED BY <1>1, <2>6
<1>5. CASE ClientReceives
  <2>1. PICK m : m = Head(outgoing)
    OBVIOUS
  <2>2. /\ m.type = "TransmitMeta" /\ TransmitMeta(m.meta) /\ outgoing # <<>>
    BY <1>2, <1>5, <2>1 DEF ClientReceives, LoginSuccess, NotifyUpdated, Dropped, vars
  <2>3. /\ state = "Idle"
        /\ index' = [q \in Path |-> IF q \in DOMAIN m.meta THEN add_for_meta(m.meta[q]) ELSE index[q]]
    BY <1>2, <2>2 DEF TransmitMeta, DieInSave, Dropped, vars
  <2>4. p \in DOMAIN m.meta /\ index'[p].meta = m.meta[p]
    BY <1>1, <2>3 DEF add_for_meta
  <2>5. 1 \in Replies /\ News(1) = m.meta
    <3>1. outgoing \in Seq(ServerMessage)
      BY DEF SInv, NetInv
    <3> QED BY <2>1, <2>2, <3>1 DEF Replies, News
  <2>6. last_updated < m.meta[p].meta_modified
    BY <2>3, <2>4, <2>5 DEF SInv, LoginInv, Since
  <2>7. last_updated \in Nat \cup {MinTime} /\ m.meta[p].meta_modified \in Nat
    <3>1. m.meta[p].meta_modified \in Nat
      BY <2>4, <2>5, SyncTypes
    <3> QED BY <3>1 DEF SInv, IInv, TypeOK
  <2> QED BY <1>1, <2>4, <2>6, <2>7 DEF MinTime
<1>6. CASE \/ Client(LogInAsReceiver) \/ Client(LoggedInAsReceiver)
           \/ \E q \in Path : Client(FileResumed(q))
           \/ Client(DownloadStopped) \/ Client(Crash) \/ Closed
           \/ Reconnect \/ ClientSends \/ ServerHandles
           \/ \E m \in Offer : PublishMeta(m)
           \/ \E q \in Path : RemoveMeta(q)
           \/ Tick \/ UNCHANGED syncVars
  BY <1>2, <1>6 DEF Client, Closed, Reconnect, ClientSends, ServerHandles, PublishMeta, RemoveMeta, Tick,
     LogInAsReceiver, LoggedInAsReceiver, FileResumed, DownloadStopped, Crash, Restart, SendMessage,
     syncVars, vars
<1> QED BY <1>3, <1>4, <1>5, <1>6 DEF SyncNext, Client

\* What was received before a login stays received, whatever metadata the
\* server sends, until the file itself is published anew or the user asks for
\* it again (get_modified_after is strict).
THEOREM OldProgressIsKept == SyncSpec => OldProgressKept
<1>1. SInv /\ [SyncNext]_syncVars =>
      [\A p \in Path : Wiped(p) /\ index[p].meta.meta_modified <= last_updated
                           => state' = "RequestedChunk"]_syncVars
  BY WipedForAReason
<1> QED BY <1>1, SyncInvariance, PTL DEF SyncSpec, OldProgressKept

-----------------------------------------------------------------------------
(***************************************************************************)
(* The receiver of Sync is the one of Receiver.                            *)
(***************************************************************************)

\* A time the receiver is told of is that of a file the sender publishes.
Told(t) == \E m \in Meta : m.meta_modified = t

NewsInv == \A i \in DOMAIN outgoing : outgoing[i].type = "NotifyUpdated" => Told(outgoing[i].last_modified)

LEMMA NewsStep ==
    ASSUME SInv, SInv', NewsInv, [SyncNext]_syncVars
    PROVE  NewsInv'
<1>1. outgoing \in Seq(ServerMessage)
  BY DEF SInv, NetInv
<1>2. CASE outgoing' = outgoing
  BY <1>2 DEF NewsInv, Told
<1>3. CASE outgoing' = <<>>
  BY <1>3, EmptyFacts DEF NewsInv
<1>4. ASSUME outgoing # <<>>, outgoing' = Tail(outgoing) PROVE NewsInv'
  BY <1>1, <1>4 DEF NewsInv, Told
<1>5. ASSUME NEW w \in ServerMessage, Reply(w), w.type = "NotifyUpdated" => Told(w.last_modified)
      PROVE  NewsInv'
  <2>1. outgoing' = Append(outgoing, w)
    BY <1>5 DEF Reply
  <2>2. \A i \in DOMAIN outgoing' : (i \in DOMAIN outgoing /\ outgoing'[i] = outgoing[i]) \/ outgoing'[i] = w
    BY <1>1, <2>1, QueueFacts
  <2> QED BY <1>5, <2>2 DEF NewsInv, Told
<1>6. CASE ServerHandles
  <2>1. PICK m : m = Head(inbox)
    OBVIOUS
  <2>2. \/ Reply([type |-> "LoginSuccess"])
        \/ Reply(NewerThan(m.after))
        \/ UNCHANGED outgoing
    BY <1>6, <2>1 DEF ServerHandles, Refused
  <2>3. ASSUME Reply([type |-> "LoginSuccess"]) PROVE NewsInv'
    <3>1. PICK w : w = [type |-> "LoginSuccess"]
      OBVIOUS
    <3>2. w \in ServerMessage /\ w.type # "NotifyUpdated"
      BY <3>1 DEF ServerMessage
    <3> QED BY <1>5, <2>3, <3>1, <3>2
  <2>4. ASSUME Reply(NewerThan(m.after)) PROVE NewsInv'
    <3>1. PICK w : w = NewerThan(m.after)
      OBVIOUS
    <3>2. w.type = "TransmitMeta" /\ w = [type |-> "TransmitMeta", meta |-> w.meta]
      BY <3>1 DEF NewerThan
    <3>3. w.meta \in UNION {[P -> Meta] : P \in SUBSET Path}
      BY <3>1, NewerFacts DEF SInv, KnowledgeInv, ReplyOf
    <3>4. w \in ServerMessage
      BY <3>2, <3>3 DEF ServerMessage
    <3> QED BY <1>5, <2>4, <3>1, <3>2, <3>4
  <2> QED BY <1>2, <2>2, <2>3, <2>4
<1>7. ASSUME NEW m \in Offer, PublishMeta(m) PROVE NewsInv'
  <2>1. PICK w : w = [type |-> "NotifyUpdated", last_modified |-> now]
    OBVIOUS
  <2>2. now \in 0 .. MaxTime
    BY DEF SInv, NetInv
  <2>3. w \in ServerMessage /\ w.last_modified = now
    BY <2>1, <2>2 DEF ServerMessage
  <2>4. PICK n \in Meta : n = [m EXCEPT !.meta_modified = now]
    BY <1>7, <2>2, OfferAssumption
  <2>5. n.meta_modified = now
    BY <2>4, OfferAssumption
  <2>6. Reply(w) \/ UNCHANGED outgoing
    BY <1>7, <2>1 DEF PublishMeta
  <2> QED BY <1>2, <1>5, <2>3, <2>5, <2>6 DEF Told
<1>8. CASE \/ Client(LogInAsReceiver) \/ Client(LoggedInAsReceiver)
           \/ \E p \in Path : \E l \in Locals(p) : Client(FileRequested(p, l))
           \/ \E p \in Path : Client(FileResumed(p))
           \/ Client(DownloadStopped)
           \/ \E b \in Data : Client(TransmitChunk(b))
           \/ Client(Crash) \/ Closed
  <2>1. Cut \/ UNCHANGED netVars
    BY <1>8 DEF Client, Closed
  <2> QED BY <1>2, <1>3, <2>1 DEF Cut, netVars
<1>9. CASE Reconnect \/ ClientSends \/ ClientReceives
  BY <1>2, <1>4, <1>9 DEF Reconnect, ClientSends, ClientReceives
<1>10. CASE (\E p \in Path : RemoveMeta(p)) \/ Tick \/ UNCHANGED syncVars
  BY <1>2, <1>10 DEF RemoveMeta, Tick, syncVars, netVars
<1> QED BY <1>6, <1>7, <1>8, <1>9, <1>10 DEF SyncNext

\* Every step of Sync is a step of Receiver or leaves the receiver alone.
LEMMA SyncActs ==
    ASSUME SInv, NewsInv, [SyncNext]_syncVars
    PROVE  [Next]_vars
<1>1. ASSUME ClientReceives PROVE Next
  <2>1. PICK m : m = Head(outgoing)
    OBVIOUS
  <2>2. outgoing # <<>> /\ outgoing \in Seq(ServerMessage)
    BY <1>1 DEF ClientReceives, SInv, NetInv
  <2>3. m \in ServerMessage /\ m = outgoing[1] /\ 1 \in DOMAIN outgoing
    BY <2>1, <2>2
  <2>4. CASE m.type = "LoginSuccess" /\ LoginSuccess
    BY <2>4 DEF Next
  <2>5. CASE m.type = "NotifyUpdated" /\ NotifyUpdated(m.last_modified)
    <3>1. PICK n \in Meta : n.meta_modified = m.last_modified
      BY <2>3, <2>5 DEF NewsInv, Told
    <3> QED BY <2>5, <3>1 DEF Next
  <2>6. CASE m.type = "TransmitMeta" /\ TransmitMeta(m.meta)
    <3>1. PICK P \in SUBSET Path : m.meta \in [P -> Meta]
      BY <2>3, <2>6 DEF ServerMessage
    <3> QED BY <2>6, <3>1 DEF Next
  <2> QED BY <1>1, <2>1, <2>4, <2>5, <2>6 DEF ClientReceives
<1>2. ASSUME ServerHandles \/ (\E m \in Offer : PublishMeta(m)) \/ (\E p \in Path : RemoveMeta(p)) \/ Tick
             \/ UNCHANGED syncVars
      PROVE  UNCHANGED vars
  BY <1>2 DEF ServerHandles, PublishMeta, RemoveMeta, Tick, syncVars
<1>3. CASE \/ Client(LogInAsReceiver) \/ Client(LoggedInAsReceiver)
           \/ \E p \in Path : \E l \in Locals(p) : Client(FileRequested(p, l))
           \/ \E p \in Path : Client(FileResumed(p))
           \/ Client(DownloadStopped)
           \/ \E b \in Data : Client(TransmitChunk(b))
           \/ Client(Crash) \/ Closed \/ Reconnect \/ ClientSends
  BY <1>3 DEF Client, Closed, Reconnect, ClientSends, Next
<1> QED BY <1>1, <1>2, <1>3 DEF SyncNext

\* What the receiver does between a server that publishes, notifies and forgets
\* and a connection that may end at any time is what Receiver says a receiver
\* does, so that whatever holds of Receiver holds here (process_message,
\* handle_request_meta, handle_publish_meta).
THEOREM SyncIsReceiver == SyncSpec => Spec
<1>1. SyncInit => Init /\ NewsInv
  BY EmptyFacts DEF SyncInit, NewsInv
<1>2. SInv /\ SInv' /\ NewsInv /\ [SyncNext]_syncVars => NewsInv'
  BY NewsStep
<1>3. SInv /\ NewsInv /\ [SyncNext]_syncVars => [Next]_vars
  BY SyncActs
<1> QED BY <1>1, <1>2, <1>3, SyncInvariance, PTL DEF SyncSpec, Spec

\* So the receiver keeps its promise whatever the server sends and loses
\* (process_transmit_meta replaces what it knows of a file as a whole).
THEOREM SyncKeepsPromise == DisjointLocals => (SyncSpec => KeepsPromise)
<1> SUFFICES ASSUME DisjointLocals PROVE SyncSpec => KeepsPromise
  OBVIOUS
<1>1. Spec => KeepsPromise
  BY Implementation
<1> QED BY <1>1, SyncIsReceiver, PTL
=============================================================================
