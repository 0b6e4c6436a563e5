--------------------------- MODULE MCVaultClients ---------------------------
(***************************************************************************)
(* Small instances of three calls that must end and give back what they    *)
(* hold, one at a time with the others at rest: a request on the parse     *)
(* server (slot and in-flight entry), a vault call (its retries), a call   *)
(* of the re-parse planner (its start lock).                               *)
(***************************************************************************)
EXTENDS ParseServer

CONSTANTS Clients, Accounts, Versions, CleanVersions, Patches, Sources, StoredBodies, MaxTries, ETags,
          s1, r1, r2, u1, u2, f1, w1, c1, c2, a1, a2, v1, b1, b2, request, post1, post2, maintain,
          Callers, Nobody, TTL, MaxFaults

VARIABLES part,                             \* which of the three runs
          stored, vpc, op, seen, tries, tmp,  \* VaultFallback
          lock, lpc, try, faults              \* StartLock

\* A body is named by its quality, one of each.
Itself == [b \in Bodies |-> b]

Calls == INSTANCE VaultCalls
Vault == INSTANCE VaultFallback WITH obj <- stored, pc <- vpc, Bodies <- StoredBodies, Ops <- Calls!VerdictOps
Lock  == INSTANCE StartLock WITH pc <- lpc

vaultVars == <<stored, vpc, op, seen, tries, tmp>>
lockVars  == <<lock, lpc, try, faults>>
callVars  == <<part, vars, vaultVars, lockVars>>

CallsInit ==
  /\ part \in {"server", "vault", "lock"}
  /\ Init /\ Vault!FallbackInit /\ Lock!Init
  /\ part # "server" => obj = None

CallsNext ==
  \/ part = "server" /\ Next /\ UNCHANGED <<part, vaultVars, lockVars>>
  \/ part = "vault" /\ Vault!FallbackNext /\ UNCHANGED <<part, vars, lockVars>>
  \/ part = "lock" /\ Lock!Next /\ UNCHANGED <<part, vars, vaultVars>>

\* The fairness of ParseServer, VaultFallback and StartLock, each for its own part.
CallsSpec ==
  /\ CallsInit /\ [][CallsNext]_callVars
  /\ \A a \in Actors \ Posts : WF_vars(part = "server" /\ Step(a))
  /\ \A c \in Clients : WF_vaultVars(part = "vault" /\ Vault!FallbackStep(c))
  /\ WF_lockVars(part = "lock" /\ Lock!Tick)
  /\ \A c \in Callers : WF_lockVars(part = "lock" /\ Lock!Step(c)) /\ WF_lockVars(part = "lock" /\ Lock!Call(c))

\* Every vault call ends: MutateMeta's retries are bounded, whoever it competes
\* with.
CallsEnd == Vault!CallsEnd

\* No start lock stays for ever, whoever dies where (lockTTL "bounds how long a
\* crashed caller can keep others out").
LockGoes == Lock!LockGoes
=============================================================================
