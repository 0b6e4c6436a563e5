---------------------------- MODULE MCStartLock -----------------------------
(* Small instances of StartLock for TLC. *)
EXTENDS StartLock

CONSTANTS post1, post2, maintain
=============================================================================
