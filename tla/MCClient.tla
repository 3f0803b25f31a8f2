------------------------------- MODULE MCClient -------------------------------
(***************************************************************************)
(* A small instance of Client for TLC: a file of two chunks and an empty   *)
(* one.                                                                    *)
(***************************************************************************)
EXTENDS Client

CONSTANTS big, empty

MCChunkCount == [p \in {big, empty} |-> IF p = big THEN 2 ELSE 0]
MCStored == {[p \in {big, empty} |-> Unknown], [p \in {big, empty} |-> IF p = big THEN 1 ELSE 0]}
=============================================================================
