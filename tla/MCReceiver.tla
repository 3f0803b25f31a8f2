------------------------------ MODULE MCReceiver ------------------------------
(***************************************************************************)
(* Small instances of Receiver for TLC.                                    *)
(***************************************************************************)
EXTENDS Receiver

CONSTANTS p1, l1, l2, x, y

\* The metadata of a file of blocks b, cut into chunks of the given sizes.
MetaOf(t, b, sizes) ==
    LET Sum[i \in 0 .. Len(sizes)] == IF i = 0 THEN 0 ELSE Sum[i - 1] + sizes[i] IN
    [size |-> Sum[Len(sizes)],
     meta_modified |-> t,
     chunks |-> [i \in 1 .. Len(sizes) |->
                   [offset |-> Sum[i - 1], size |-> sizes[i], hash |-> [j \in 1 .. sizes[i] |-> b]]]]

\* The user may save any remote file to any local file.
AnyLocals(p) == Local

\* Two versions of a file, of different lengths, and an empty file.
MCMeta == {MetaOf(1, x, <<2, 1>>), MetaOf(2, y, <<1>>), MetaOf(2, y, <<>>)}

\* Blocks of up to two units, among them the empty one of a truncated file.
MCData == {<<>>, <<x>>, <<y>>, <<x, x>>, <<x, y>>}
=============================================================================
