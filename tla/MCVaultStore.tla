---------------------------- MODULE MCVaultStore ----------------------------
(* A small instance of VaultStore for TLC. *)
EXTENDS VaultStore, TLC

CONSTANTS c1, c2, a1, a2, v1, b1, b2, request, backfill

MC == INSTANCE VaultCalls
Calls == MC!StoreOps

Symm == Permutations(Clients)
=============================================================================
