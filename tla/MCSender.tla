------------------------------- MODULE MCSender -------------------------------
(***************************************************************************)
(* Small instances of Sender for TLC.                                      *)
(***************************************************************************)
EXTENDS Sender

CONSTANTS l1, l2, x, y

MCName(l) == IF l = l1 THEN "a" ELSE "b"

\* One file typed with a stray separator.
OnePath == {<<"", "a">>}

\* The root directory.
Root == {<<"">>}

Both == {<<l1, l2>>}

\* A file of a chunk and a half, and a short one.
MCContent == {<<x, y, x>>, <<y>>}

\* A file whose chunks depend on how it happens to be read: of two blocks and
\* one, or of three.
OneContent == {<<x, y, y>>}

OneHash == {<<x, y>>}
LongHash == {<<x, y>>, <<x, y, y>>, <<y>>}
=============================================================================
