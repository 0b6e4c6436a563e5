----------------------------- MODULE StartLock ------------------------------
(***************************************************************************)
(* The planner's start lock (Planner.lock in internal/reparse/plan.go): a  *)
(* conditional create of _vault/runs/<ver>/lock, with a lock older than    *)
(* lockTTL taken over by deleting it and creating it again.                *)
(*                                                                         *)
(* The lock object holds only the time it was written; here that is its    *)
(* age, which stops growing at TTL.  owner is not in the object: it says   *)
(* which call believes that it holds this lock, for the properties.        *)
(***************************************************************************)
EXTENDS Integers

CONSTANTS Callers,   \* POST /vault/reparse on any server, and the maintain machine
          Nobody,    \* the owner of a lock whose call died or was told it exists
          TTL,       \* lockTTL, in ticks
          MaxFaults  \* bound: calls that die and requests that fail

Tries == 2

NoLock == [owner |-> Nobody, age |-> -1]

VARIABLES lock,   \* the lock object, or NoLock
          pc,     \* each caller: idle, the request it sends next, or inside
          try,    \* its round of the loop
          faults

vars == <<lock, pc, try, faults>>

Init ==
  /\ lock = NoLock
  /\ pc = [c \in Callers |-> "idle"]
  /\ try = [c \in Callers |-> 0]
  /\ faults = 0

Fault   == faults < MaxFaults /\ faults' = faults + 1
NoFault == UNCHANGED faults

Goto(c, l) == pc' = [pc EXCEPT ![c] = l]

Call(c) ==
  /\ pc[c] = "idle"
  /\ Goto(c, "create")
  /\ try' = [try EXCEPT ![c] = 0]
  /\ UNCHANGED <<lock, faults>>

\* PutJSONIfAbsent; a lost answer is an error, or the repeated request finds its
\* own lock
Create(c) ==
  /\ pc[c] = "create"
  /\ \/ lock = NoLock /\ lock' = [owner |-> c, age |-> 0] /\ Goto(c, "inside") /\ NoFault
     \/ lock # NoLock /\ Goto(c, "read") /\ UNCHANGED lock /\ NoFault
     \/ /\ lock = NoLock /\ lock' = [owner |-> Nobody, age |-> 0] /\ Fault
        /\ Goto(c, "read") \/ Goto(c, "idle")
  /\ UNCHANGED try

\* Mutant of Read: the age of the lock is not looked at.
Read_NeverStale(c) ==
  /\ pc[c] = "read"
  /\ Goto(c, IF lock # NoLock THEN "idle" ELSE "clear")
  /\ UNCHANGED <<lock, try, faults>>

\* Young: locked = false.  Stale, or gone since the create: delete.
Read(c) ==
  /\ pc[c] = "read"
  /\ Goto(c, IF lock # NoLock /\ lock.age < TTL THEN "idle" ELSE "clear")
  /\ UNCHANGED <<lock, try, faults>>

\* Delete, errors ignored, then the next round of the loop
Clear(c) ==
  /\ pc[c] = "clear"
  /\ \/ lock' = NoLock /\ NoFault
     \/ UNCHANGED lock /\ Fault
  /\ Goto(c, IF try[c] + 1 < Tries THEN "create" ELSE "idle")
  /\ try' = [try EXCEPT ![c] = IF @ + 1 < Tries THEN @ + 1 ELSE 0]

\* The deferred release, errors ignored
Release(c) ==
  /\ pc[c] = "inside"
  /\ Goto(c, "idle")
  /\ try' = [try EXCEPT ![c] = 0]
  /\ \/ lock' = NoLock /\ NoFault
     \/ lock # NoLock /\ lock' = [lock EXCEPT !.owner = IF @ = c THEN Nobody ELSE @] /\ Fault

\* The process dies, or a request before the lock is held fails.
Dies(c) ==
  /\ pc[c] # "idle"
  /\ Goto(c, "idle")
  /\ try' = [try EXCEPT ![c] = 0]
  /\ lock' = [lock EXCEPT !.owner = IF @ = c THEN Nobody ELSE @]
  /\ Fault

Tick ==
  /\ lock # NoLock /\ lock.age < TTL
  /\ lock' = [lock EXCEPT !.age = @ + 1]
  /\ UNCHANGED <<pc, try, faults>>

Step(c) == Create(c) \/ Read(c) \/ Clear(c) \/ Release(c)

Next == Tick \/ \E c \in Callers : Call(c) \/ Step(c) \/ Dies(c)

Spec == Init /\ [][Next]_vars

\* Time passes, a call goes on, and maintain calls again every day.
FairSpec == Spec /\ WF_vars(Tick) /\ \A c \in Callers : WF_vars(Step(c)) /\ WF_vars(Call(c))

-----------------------------------------------------------------------------
\* No lock stays for ever: neither the owner's death, nor a lost answer, nor a
\* release that failed keeps the callers out for good (lockTTL "bounds how long a
\* crashed caller can keep others out").
LockGoes == lock # NoLock ~> lock = NoLock

\* The calls that start machines are one at a time (Reparse: "One call at a time
\* past this point").
OneAtATime == \A c, d \in Callers : pc[c] = "inside" /\ pc[d] = "inside" => c = d
=============================================================================
