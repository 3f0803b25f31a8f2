------------------------------- MODULE MCServer -------------------------------
(***************************************************************************)
(* Small instances of Server for TLC.                                      *)
(***************************************************************************)
EXTENDS Server, TLC

\* Safety does not tell one address from another.
Symmetry == Permutations(Addr)
=============================================================================
