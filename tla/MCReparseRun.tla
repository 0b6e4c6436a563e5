---------------------------- MODULE MCReparseRun ----------------------------
(* Small instances of ReparseRun for TLC. *)
EXTENDS ReparseRun, TLC

CONSTANTS w1, w2, w3, planner

\* Consecutive hashes: neighbours are in different shards.
Hashes == [i \in Items |-> i]

Symm == Permutations(Workers)
=============================================================================
