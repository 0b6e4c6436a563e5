--------------------------- MODULE MCParseServer ----------------------------
(* Small instances of ParseServer for TLC. *)
EXTENDS ParseServer

CONSTANTS s1, s2, r1, r2, u1, u2, b1, w1

\* One of each quality; a body is named by it.
Itself == [b \in Bodies |-> b]
=============================================================================
