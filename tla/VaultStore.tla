----------------------------- MODULE VaultStore -----------------------------
(***************************************************************************)
(* The vault's calls as the requests they send to the object store         *)
(* (internal/vault/vault.go over the Store interface): MutateMeta's HEAD,  *)
(* conditional copy and retry, PutNew's conditional create and its two     *)
(* fallbacks, and the look-then-delete of retention, the prefetch purge    *)
(* and purge-student.  Each request is one step; between two requests of a *)
(* client any other client may act.                                        *)
(*                                                                         *)
(* The store is external: it gives every write a new ETag, refuses a       *)
(* conditional copy whose ETag is stale and a conditional create of an     *)
(* existing key.  A request may fail with or without having taken effect,  *)
(* and the S3 client repeats a request whose response was lost, so a write *)
(* may be reported as refused by its own first copy.                       *)
(*                                                                         *)
(* What S3Store does when the copy of an object onto its own key is        *)
(* refused for another reason is in VaultFallback.                         *)
(***************************************************************************)
EXTENDS VaultOps

CONSTANTS Clients,   \* concurrent callers: server requests, workers, maintain, vaultctl
          MaxTries,  \* MutateMeta's attempts (16)
          ETags      \* the store's version tags, here numbers

ASSUME BoundsAssumption == MaxTries \in Nat \ {0} /\ ETags \subseteq Nat

VARIABLES obj,    \* None, or the object: bytes, metadata, ETag
          pc,     \* the request each client sends next, or how its last call ended
          op,     \* the call each client is in, or None
          seen,   \* the object that client's last HEAD returned
          tries   \* MutateMeta attempts refused so far

vars == <<obj, pc, op, seen, tries>>

RequestKinds == {"find", "copy", "put", "putFind", "putOver", "look", "delete"}

Object == [body : Bodies, meta : Meta, etag : ETags]

ASSUME NoneIsNoObject == None \notin Object \cup Content \cup Meta \cup Ops

Init ==
  /\ obj = None
  /\ pc = [c \in Clients |-> "ok"]
  /\ op = [c \in Clients |-> None]
  /\ seen = [c \in Clients |-> None]
  /\ tries = [c \in Clients |-> 0]

FirstRequest(o) ==
  CASE o.type = "put"            -> "put"
    [] o.type \in RemoveTypes    -> "look"
    [] OTHER                     -> "find"

Call(c, o) ==
  /\ pc[c] \in Results
  /\ op' = [op EXCEPT ![c] = o]
  /\ pc' = [pc EXCEPT ![c] = FirstRequest(o)]
  /\ UNCHANGED <<obj, seen, tries>>

Return(c, result) ==
  /\ pc' = [pc EXCEPT ![c] = result]
  /\ op' = [op EXCEPT ![c] = None]
  /\ seen' = [seen EXCEPT ![c] = None]
  /\ tries' = [tries EXCEPT ![c] = 0]

GoTo(c, request) ==
  /\ pc' = [pc EXCEPT ![c] = request]
  /\ UNCHANGED <<op, tries>>

\* A write gets a tag that no client remembers (the least, to keep states few), so
\* tags may be used again.
Remembered == {seen[c].etag : c \in {d \in Clients : seen[d] # None}}
                \cup {o.etag : o \in {obj} \ {None}}

Write(body, meta) ==
  \E e \in ETags \ Remembered :
    /\ \A f \in ETags \ Remembered : e <= f
    /\ obj' = [body |-> body, meta |-> Stored(meta), etag |-> e]

(***************************************************************************)
(* MutateMeta                                                              *)
(***************************************************************************)
Find(c) ==
  /\ pc[c] = "find"
  /\ UNCHANGED obj
  /\ \/ obj = None /\ Return(c, "err")
     \/ obj # None /\ EqualMeta(obj.meta, Mutate(op[c], obj.meta)) /\ Return(c, "ok")
     \/ /\ obj # None /\ ~EqualMeta(obj.meta, Mutate(op[c], obj.meta))
        /\ seen' = [seen EXCEPT ![c] = obj]
        /\ GoTo(c, "copy")

\* Mutant of Refused: one attempt too many.
Refused_OneMore(c) ==
  IF tries[c] < MaxTries
  THEN /\ tries' = [tries EXCEPT ![c] = @ + 1]
       /\ pc' = [pc EXCEPT ![c] = "find"]
       /\ seen' = [seen EXCEPT ![c] = None]
       /\ UNCHANGED op
  ELSE Return(c, "err")

\* Mutant of Refused: retries are not counted.
Refused_NotCounted(c) ==
  /\ pc' = [pc EXCEPT ![c] = "find"]
  /\ seen' = [seen EXCEPT ![c] = None]
  /\ UNCHANGED <<op, tries>>

\* ErrChanged: read again, up to MaxTries times
Refused(c) ==
  IF tries[c] + 1 < MaxTries
  THEN /\ tries' = [tries EXCEPT ![c] = @ + 1]
       /\ pc' = [pc EXCEPT ![c] = "find"]
       /\ seen' = [seen EXCEPT ![c] = None]
       /\ UNCHANGED op
  ELSE Return(c, "err")

\* Mutant of CopyReplaceIfMatch: the copy is not conditional.
CopyReplaceIfMatch_Always(c) ==
  /\ pc[c] = "copy"
  /\ \/ obj = None /\ Return(c, "err") /\ UNCHANGED obj
     \/ /\ obj # None
        /\ Write(obj.body, Mutate(op[c], seen[c].meta))
        /\ Return(c, "ok")

CopyReplaceIfMatch(c) ==
  /\ pc[c] = "copy"
  /\ \/ obj = None /\ Return(c, "err") /\ UNCHANGED obj
     \/ obj # None /\ obj.etag # seen[c].etag /\ Refused(c) /\ UNCHANGED obj
     \/ /\ obj # None /\ obj.etag = seen[c].etag
        /\ Write(obj.body, Mutate(op[c], seen[c].meta))
        /\ Return(c, "ok") \/ Return(c, "err") \/ Refused(c)

(***************************************************************************)
(* PutNew                                                                  *)
(***************************************************************************)
\* The key is taken, or (409) another create of it is under way.
PutIfNoneMatch(c) ==
  /\ pc[c] = "put"
  /\ \/ /\ obj = None
        /\ Write(op[c].want.stamp, op[c].want)
        /\ \/ Return(c, "stored") \/ Return(c, "err")
           \/ GoTo(c, "putFind") /\ UNCHANGED seen
     \/ GoTo(c, "putFind") /\ UNCHANGED <<obj, seen>>

PutFind(c) ==
  /\ pc[c] = "putFind"
  /\ UNCHANGED obj
  /\ IF obj # None /\ obj.meta.corrupt
     THEN seen' = [seen EXCEPT ![c] = obj] /\ GoTo(c, "putOver")
     ELSE GoTo(c, "find") /\ UNCHANGED seen

PutOver(c) ==
  /\ pc[c] = "putOver"
  /\ Write(op[c].want.stamp, Merge(CarryOver(seen[c].meta), op[c].want))
  /\ Return(c, "stored") \/ Return(c, "err")

(***************************************************************************)
(* The deletes of retention, the prefetch purge and purge-student          *)
(***************************************************************************)
LookAgain(c) ==
  /\ pc[c] = "look"
  /\ UNCHANGED obj
  /\ IF obj # None /\ Removable(op[c], obj.meta)
     THEN seen' = [seen EXCEPT ![c] = obj] /\ GoTo(c, "delete")
     ELSE Return(c, "skip")

Delete(c) ==
  /\ pc[c] = "delete"
  /\ obj' = None
  /\ Return(c, "ok") \/ Return(c, "err")

\* Any request may fail without an effect: the error ends the call.
RequestFails(c) ==
  /\ pc[c] \in RequestKinds
  /\ Return(c, "err")
  /\ UNCHANGED obj

Step(c) ==
  \/ Find(c) \/ CopyReplaceIfMatch(c) \/ PutIfNoneMatch(c) \/ PutFind(c) \/ PutOver(c)
  \/ LookAgain(c) \/ Delete(c) \/ RequestFails(c)

Next == \E c \in Clients : Step(c) \/ \E o \in Ops : Call(c, o)

Spec == Init /\ [][Next]_vars

-----------------------------------------------------------------------------
TypeOK ==
  /\ obj \in {None} \cup Object
  /\ pc \in [Clients -> RequestKinds \cup Results]
  /\ op \in [Clients -> {None} \cup Ops]
  /\ seen \in [Clients -> {None} \cup Object]
  /\ tries \in [Clients -> 0..(MaxTries - 1)]

\* The container and the store time in the metadata are those of the bytes next
\* to them: a metadata rewrite that raced a replacement of the bytes must not
\* put the old object's facts on the new bytes (MutateMeta, PutNew).
MetaOfTheBytes == obj # None => obj.meta.stamp = obj.body

\* A client is at a request its call sends, with the look that request needs.
RequestFitsCall ==
  \A c \in Clients :
    /\ pc[c] \in RequestKinds => op[c] # None
    /\ pc[c] \in {"put", "putFind", "putOver"} => op[c].type = "put"
    /\ pc[c] \in {"look", "delete"} => op[c].type \in RemoveTypes
    /\ pc[c] \in {"find", "copy"} => op[c].type \notin RemoveTypes
    /\ pc[c] \in {"copy", "putOver", "delete"} => seen[c] # None

\* An ETag stands for one state of the object: a client that finds the ETag it
\* has seen finds the metadata it has seen, which is what MutateMeta's
\* conditional copy rests on.
ETagsIdentify ==
  \A c \in Clients : seen[c] # None /\ obj # None /\ obj.etag = seen[c].etag => obj = seen[c]

\* Metadata that was read back from the store does not change when rewritten.
MetaIsStored == obj # None => Stored(obj.meta) = obj.meta

IInv == TypeOK /\ RequestFitsCall /\ ETagsIdentify /\ MetaIsStored /\ MetaOfTheBytes

\* The step of client c loses protected kinds for a reason the code intends
\* (purge-student drops the student kind) or at the one place where it acts on
\* a look that is no longer current (the replacement of a corrupt object).
IntendedLoss(c)  == pc[c] = "copy" /\ op[c].type = "detach" /\ Claims(obj.meta) \ Claims(obj'.meta) = {"student"}
StaleReplace(c)  == pc[c] = "putOver" /\ pc'[c] \in Results /\ seen[c].etag # obj.etag

\* A protected kind (pro, ladder, camp, audit, student) a stored replay is kept
\* for is never forgotten while the object exists, whatever MutateMeta, PutNew
\* and MarkBad calls interleave, except by purge-student's own rewrite or by a
\* replacement that looked too early.
ClaimsKept ==
  [][obj # None /\ obj' # None =>
       \/ Claims(obj.meta) \subseteq Claims(obj'.meta)
       \/ \E c \in Clients : IntendedLoss(c) \/ StaleReplace(c)]_vars

\* PutNew, MutateMeta and the deletes implement the atomic calls of AtomicVault.
Atomic == INSTANCE AtomicVault WITH
  obj    <- IF obj = None THEN None ELSE [body |-> obj.body, meta |-> obj.meta],
  status <- [c \in Clients |-> IF pc[c] \in Results THEN pc[c] ELSE "running"],
  base   <- [c \in Clients |-> IF pc[c] \in {"putOver", "delete"} THEN seen[c].meta ELSE None]

ImplementsAtomicVault == Atomic!Spec
=============================================================================
