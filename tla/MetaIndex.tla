------------------------------ MODULE MetaIndex ------------------------------
(***************************************************************************)
(* The operations of MetaIndex (rstr_core/src/meta.rs) on the list of      *)
(* entries it really keeps: a Vec that is searched from the front.         *)
(* Receiver and Server abstract this list to a map from paths to entries;  *)
(* that is sound for lists without two entries of one path (IsIndex),      *)
(* which every operation here preserves (MetaIndexProofs).  change_remote, *)
(* which nothing calls, is left out: it does not look whether there is an  *)
(* entry of the new path already.                                          *)
(***************************************************************************)
EXTENDS Integers, Sequences

CONSTANTS
    NoPath,   \* PathBuf::new()
    NoEntry   \* find_entry returns None

At(s, p) == {i \in DOMAIN s : s[i].meta.path = p}

\* The position of the first entry of p, if there is one.
First(s, p) == CHOOSE i \in At(s, p) : \A j \in At(s, p) : i <= j

find_entry(s, p) == IF At(s, p) = {} THEN NoEntry ELSE s[First(s, p)]

Replaced(s, p, e) == [s EXCEPT ![First(s, p)] = e]

\* Slip: an entry is pushed although there is one of its path.
add_entry_pushing(s, e) == Append(s, e)

add_entry(s, e) ==
    IF At(s, e.meta.path) = {} THEN Append(s, e) ELSE Replaced(s, e.meta.path, e)

add_for_meta(s, m) ==
    add_entry(s, [local_path |-> NoPath, received_chunks |-> {}, meta |-> m])

\* Without an entry of p these two return an error and change nothing.
change_local(s, p, l) ==
    IF At(s, p) = {} THEN s
    ELSE Replaced(s, p, [find_entry(s, p) EXCEPT !.local_path = l, !.received_chunks = {}])

mark_received(s, p, k) ==
    IF At(s, p) = {} \/ k >= Len(find_entry(s, p).meta.chunks) THEN s
    ELSE Replaced(s, p, [find_entry(s, p) EXCEPT !.received_chunks = @ \cup {k}])

remove(s, p) ==
    IF At(s, p) = {} THEN s
    ELSE LET n == First(s, p) IN [i \in 1 .. Len(s) - 1 |-> IF i < n THEN s[i] ELSE s[i + 1]]

Entries(s) == {s[i] : i \in DOMAIN s}

\* Slip: what is as old as the newest the client knows is sent as well.
get_modified_from(s, t) == {e \in Entries(s) : e.meta.meta_modified >= t}

\* A set: who gets these entries does not care about their order.
get_modified_after(s, t) == {e \in Entries(s) : e.meta.meta_modified > t}

-----------------------------------------------------------------------------
IsIndex(s) == \A i, j \in DOMAIN s : s[i].meta.path = s[j].meta.path => i = j

\* The metadata in a set of entries by their paths.
MetaByPath(E) == [p \in {e.meta.path : e \in E} |-> (CHOOSE e \in E : e.meta.path = p).meta]
=============================================================================
