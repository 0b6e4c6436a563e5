---------------------------- MODULE AtomicVault -----------------------------
(***************************************************************************)
(* What the vault promises its callers about one replay object, without    *)
(* ETags, retries or lost responses: every metadata change is one atomic   *)
(* function of the metadata stored at that moment, and a call reports      *)
(* success only if its change was applied while it ran.  Two calls do not  *)
(* promise that much: a replacement of a corrupt object and a delete act   *)
(* on what an earlier look saw (base).                                     *)
(***************************************************************************)
EXTENDS VaultOps

CONSTANT Clients

VARIABLES obj,     \* None, or the stored bytes and metadata
          op,      \* the call each client is in, or None
          status,  \* "running", or how the last call ended
          base     \* the metadata a replacement or a delete has looked at

vars == <<obj, op, status, base>>

Init ==
  /\ obj = None
  /\ op = [c \in Clients |-> None]
  /\ status = [c \in Clients |-> "ok"]
  /\ base = [c \in Clients |-> None]

Invoke(c, o) ==
  /\ status[c] \in Results
  /\ op' = [op EXCEPT ![c] = o]
  /\ status' = [status EXCEPT ![c] = "running"]
  /\ UNCHANGED <<obj, base>>

\* The call goes on ("running": its response was lost and it tries again) or ends.
Answer(c, result) ==
  /\ status' = [status EXCEPT ![c] = result]
  /\ base' = [base EXCEPT ![c] = None]
  /\ op' = [op EXCEPT ![c] = IF result = "running" THEN @ ELSE None]

Create(c) ==
  /\ status[c] = "running" /\ op[c].type = "put"
  /\ obj = None
  /\ obj' = [body |-> op[c].want.stamp, meta |-> Stored(op[c].want)]
  /\ \E result \in {"running", "stored", "err"} : Answer(c, result)

Change(c) ==
  /\ status[c] = "running" /\ op[c].type \notin RemoveTypes
  /\ obj # None
  /\ obj' = [obj EXCEPT !.meta = Stored(Mutate(op[c], @))]
  /\ \E result \in {"running", "ok", "err"} : Answer(c, result)

Look(c) ==
  /\ status[c] = "running"
  /\ obj # None
  /\ \/ op[c].type = "put" /\ obj.meta.corrupt
     \/ Removable(op[c], obj.meta)
  /\ base' = [base EXCEPT ![c] = obj.meta]
  /\ UNCHANGED <<obj, op, status>>

Overwrite(c) ==
  /\ status[c] = "running" /\ op[c].type = "put"
  /\ base[c] # None
  /\ obj' = [body |-> op[c].want.stamp,
             meta |-> Stored(Merge(CarryOver(base[c]), op[c].want))]
  /\ \E result \in {"stored", "err"} : Answer(c, result)

Remove(c) ==
  /\ status[c] = "running" /\ op[c].type \in RemoveTypes
  /\ base[c] # None
  /\ obj' = None
  /\ \E result \in {"ok", "err"} : Answer(c, result)

GiveUp(c) ==
  /\ status[c] = "running"
  /\ \E result \in {"err", "skip"} : Answer(c, result)
  /\ UNCHANGED obj

Next ==
  \E c \in Clients :
     \/ \E o \in Ops : Invoke(c, o)
     \/ Create(c) \/ Change(c) \/ Look(c) \/ Overwrite(c) \/ Remove(c) \/ GiveUp(c)

Spec == Init /\ [][Next]_vars
=============================================================================
