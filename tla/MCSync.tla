-------------------------------- MODULE MCSync --------------------------------
(***************************************************************************)
(* Small instances of Sync for TLC: two files of one chunk.                *)
(***************************************************************************)
EXTENDS Sync

CONSTANTS p1, p2, l1, l2, x

MetaAt(p, t) ==
    [path |-> p, size |-> 1, meta_modified |-> t,
     chunks |-> <<[offset |-> 0, size |-> 1, hash |-> <<x>>]>>]

MCMeta == {MetaAt(p, t) : p \in Path, t \in 0 .. MaxTime}

\* The sender's own clock is not the server's.
MCOffer == {MetaAt(p1, 0), MetaAt(p2, MaxTime)}

OwnLocals(p) == IF p = p1 THEN {l1} ELSE {l2}

MCData == {<<x>>}
=============================================================================
