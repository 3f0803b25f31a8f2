------------------------------- MODULE Download -------------------------------
(***************************************************************************)
(* What a receiver promises its user (README.md: a transfer can be         *)
(* continued from where it stopped, and the file's integrity is ensured),  *)
(* without messages, requests, offsets, hashes or failures.                *)
(*                                                                         *)
(* For every file that is known there is a copy, a sequence of chunks.  A  *)
(* copy only ever grows, by the next chunk of the file, until it is        *)
(* complete; it starts anew when the user asks for the file or when other  *)
(* metadata of the file arrives.                                           *)
(***************************************************************************)
EXTENDS Naturals, Sequences

CONSTANTS
    Path,     \* remote paths
    Meta,     \* the metadata there may be
    NoEntry   \* nothing is known of a path

VARIABLE shelf  \* for each path its metadata and its copy, or NoEntry

Init == shelf = [p \in Path |-> NoEntry]

\* Metadata of the paths of ms arrives.
Learn(ms) ==
    shelf' = [p \in Path |-> IF p \in DOMAIN ms THEN [meta |-> ms[p], copy |-> <<>>] ELSE shelf[p]]

\* The user asks for a file and chooses where to save it.
Choose(p) ==
    /\ shelf[p] # NoEntry
    /\ shelf' = [shelf EXCEPT ![p].copy = <<>>]

\* The next chunk of a file is there, for good.
Receive(p) ==
    /\ shelf[p] # NoEntry
    /\ LET n == Len(shelf[p].copy) IN
       /\ n < Len(shelf[p].meta.chunks)
       /\ shelf' = [shelf EXCEPT ![p].copy = Append(@, shelf[p].meta.chunks[n + 1].hash)]

Next ==
    \/ \E P \in SUBSET Path : \E ms \in [P -> Meta] : Learn(ms)
    \/ \E p \in Path : Choose(p) \/ Receive(p)

Spec == Init /\ [][Next]_shelf
=============================================================================
