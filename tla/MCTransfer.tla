------------------------------ MODULE MCTransfer ------------------------------
(***************************************************************************)
(* A small instance of Transfer for TLC: one file of two chunks, the first *)
(* one of one block.                                                       *)
(***************************************************************************)
EXTENDS Transfer

CONSTANTS l1, x, y

p1 == <<"file">>

MCPath == {p1}
MCChunks == <<[offset |-> 0, size |-> 1, hash |-> <<x>>], [offset |-> 1, size |-> 2, hash |-> <<y, x>>]>>
MCMeta == {[size |-> 3, meta_modified |-> 0, chunks |-> MCChunks]}
MCOriginal == [l \in {"source"} |-> <<x, y, x>>]
MCListed == [p \in MCPath |-> [local_path |-> "source", meta |-> [size |-> 3, chunks |-> MCChunks]]]
AnyLocals(p) == Local
MCData == {<<x>>, <<y>>, <<x, y>>}
=============================================================================
