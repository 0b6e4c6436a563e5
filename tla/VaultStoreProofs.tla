-------------------------- MODULE VaultStoreProofs --------------------------
(***************************************************************************)
(* VaultStore for any number of clients, any calls and any retry bound.    *)
(***************************************************************************)
EXTENDS VaultStore, ReplayMetaProofs

\* A rewrite of the metadata leaves the facts about the bytes alone.
LEMMA MutateKeepsStamp ==
  ASSUME NEW o \in Op, NEW m \in Meta, m.stamp \in Bodies
  PROVE  Stored(Mutate(o, m)).stamp = m.stamp
<1>1. m.stamp # None
  BY MetaAssumption
<1>2. Merge(m, o.want).stamp = m.stamp
  BY <1>1 DEF Merge
<1>3. Mutate(o, m) \in Meta /\ Mutate(o, m).stamp = m.stamp
  BY <1>2, MutateType DEF Mutate, Detach, Meta
<1>4. QED
  BY <1>3 DEF Stored, Meta

\* A replacement's facts about the bytes are the new ones.
LEMMA ReplaceStamp ==
  ASSUME NEW m \in Meta, NEW w \in Meta
  PROVE  Stored(Merge(CarryOver(m), w)).stamp = w.stamp
<1>1. CarryOver(m).stamp = None
  BY DEF CarryOver, Meta
<1>2. Merge(CarryOver(m), w).stamp = w.stamp
  BY <1>1 DEF Merge
<1>3. QED
  BY <1>2, CarryOverType, MergeType DEF Stored, Meta

\* The initial state satisfies the inductive invariant.
LEMMA InitIInv == Init => IInv
BY BoundsAssumption DEF Init, IInv, TypeOK, RequestFitsCall, ETagsIdentify, MetaOfTheBytes, MetaIsStored,
   RequestKinds, Results

\* What one request may do to the object: nothing, remove it, or write metadata
\* of the bytes under an ETag nobody has seen.
ObjectStep ==
  \/ UNCHANGED obj
  \/ obj' = None
  \/ /\ obj' \in Object /\ obj'.meta.stamp = obj'.body /\ Stored(obj'.meta) = obj'.meta
     /\ \A c \in Clients : seen[c] # None => seen[c].etag # obj'.etag

\* A write of a Meta that describes the bytes is an ObjectStep.
LEMMA WriteStep ==
  ASSUME IInv, NEW b \in Bodies, NEW m \in Meta, Write(b, m), Stored(m).stamp = b
  PROVE  ObjectStep
<1>1. PICK e \in ETags \ Remembered : obj' = [body |-> b, meta |-> Stored(m), etag |-> e]
  BY DEF Write
<1>2. Stored(m) \in Meta /\ Stored(Stored(m)) = Stored(m)
  BY StoredType, StoredIdempotent
<1>3. \A c \in Clients : seen[c] # None => seen[c].etag # e
  BY <1>1 DEF Remembered
<1>4. QED
  BY <1>1, <1>2, <1>3 DEF ObjectStep, Object

\* The end of a call preserves the invariant.
LEMMA ReturnStep ==
  ASSUME IInv, ObjectStep, NEW c \in Clients, NEW r \in Results, Return(c, r)
  PROVE  IInv'
<1>1. TypeOK'
  BY BoundsAssumption DEF IInv, TypeOK, ObjectStep, Return
<1>2. RequestFitsCall'
  BY DEF IInv, TypeOK, RequestFitsCall, Return, RequestKinds, Results
<1>3. ETagsIdentify'
  BY NoneIsNoObject DEF IInv, TypeOK, ETagsIdentify, ObjectStep, Return, Object
<1>4. MetaOfTheBytes' /\ MetaIsStored'
  BY NoneIsNoObject DEF IInv, MetaOfTheBytes, MetaIsStored, ObjectStep
<1>5. QED
  BY <1>1, <1>2, <1>3, <1>4 DEF IInv

\* A refused conditional copy preserves the invariant.
LEMMA RefusedStep ==
  ASSUME IInv, ObjectStep, NEW c \in Clients, pc[c] = "copy", Refused(c)
  PROVE  IInv'
<1>1. CASE ~(tries[c] + 1 < MaxTries)
  BY <1>1, ReturnStep DEF Refused, Results
<1>2. CASE tries[c] + 1 < MaxTries
  <2>1. /\ tries' = [tries EXCEPT ![c] = @ + 1]
        /\ pc' = [pc EXCEPT ![c] = "find"]
        /\ seen' = [seen EXCEPT ![c] = None]
        /\ UNCHANGED op
    BY <1>2 DEF Refused
  <2>2. TypeOK'
    BY <1>2, <2>1, BoundsAssumption DEF IInv, TypeOK, ObjectStep, RequestKinds
  <2>3. RequestFitsCall'
    BY <2>1 DEF IInv, TypeOK, RequestFitsCall, RequestKinds, Results
  <2>4. ETagsIdentify'
    BY <2>1, NoneIsNoObject DEF IInv, TypeOK, ETagsIdentify, ObjectStep, Object
  <2>5. MetaOfTheBytes' /\ MetaIsStored'
    BY NoneIsNoObject DEF IInv, MetaOfTheBytes, MetaIsStored, ObjectStep
  <2>6. QED
    BY <2>2, <2>3, <2>4, <2>5 DEF IInv
<1>3. QED
  BY <1>1, <1>2

\* Going on to PutNew's HEAD or to MutateMeta preserves the invariant.
LEMMA GoOnStep ==
  ASSUME IInv, ObjectStep, NEW c \in Clients, pc[c] \in RequestKinds, op[c].type = "put",
         NEW q \in {"find", "putFind"}, GoTo(c, q), UNCHANGED seen
  PROVE  IInv'
<1>1. TypeOK'
  BY DEF IInv, TypeOK, ObjectStep, GoTo, RequestKinds
<1>2. RequestFitsCall'
  BY DEF IInv, TypeOK, RequestFitsCall, GoTo, RequestKinds, Results, RemoveTypes
<1>3. ETagsIdentify'
  BY NoneIsNoObject DEF IInv, TypeOK, ETagsIdentify, ObjectStep, Object
<1>4. MetaOfTheBytes' /\ MetaIsStored'
  BY NoneIsNoObject DEF IInv, MetaOfTheBytes, MetaIsStored, ObjectStep
<1>5. QED
  BY <1>1, <1>2, <1>3, <1>4 DEF IInv

\* A HEAD whose answer the call acts on next preserves the invariant.
LEMMA LookStep ==
  ASSUME IInv, NEW c \in Clients, pc[c] \in RequestKinds, obj # None,
         UNCHANGED obj, seen' = [seen EXCEPT ![c] = obj],
         NEW q \in {"copy", "putOver", "delete"}, GoTo(c, q),
         q = "copy" => op[c].type \notin RemoveTypes,
         q = "putOver" => op[c].type = "put",
         q = "delete" => op[c].type \in RemoveTypes
  PROVE  IInv'
<1>1. TypeOK'
  BY DEF IInv, TypeOK, GoTo, RequestKinds
<1>2. RequestFitsCall'
  BY DEF IInv, TypeOK, RequestFitsCall, GoTo, RequestKinds, Results
<1>3. ETagsIdentify' /\ MetaOfTheBytes' /\ MetaIsStored'
  BY DEF IInv, TypeOK, ETagsIdentify, MetaOfTheBytes, MetaIsStored
<1>4. QED
  BY <1>1, <1>2, <1>3 DEF IInv

\* Every step of every client preserves the inductive invariant.
LEMMA NextIInv ==
  IInv /\ [Next]_vars => IInv'
<1> SUFFICES ASSUME IInv, [Next]_vars PROVE IInv'
  OBVIOUS
<1> USE DEF IInv
<1>1. CASE UNCHANGED vars
  BY <1>1 DEF vars, TypeOK, RequestFitsCall, ETagsIdentify, MetaOfTheBytes, MetaIsStored
<1>2. ASSUME NEW c \in Clients, NEW o \in Ops, Call(c, o) PROVE IInv'
  <2>1. FirstRequest(o) \in RequestKinds
    BY DEF FirstRequest, RequestKinds
  <2>2. TypeOK'
    BY <1>2, <2>1 DEF Call, TypeOK
  <2>3. RequestFitsCall'
    BY <1>2, NoneIsNoObject, OpsAssumption DEF Call, FirstRequest, TypeOK, RequestFitsCall, RequestKinds, Results, Op, MutateTypes, RemoveTypes
  <2>4. ETagsIdentify' /\ MetaOfTheBytes' /\ MetaIsStored'
    BY <1>2 DEF Call, ETagsIdentify, MetaOfTheBytes, MetaIsStored
  <2>5. QED
    BY <2>2, <2>3, <2>4
<1>3. ASSUME NEW c \in Clients, Step(c) PROVE IInv'
  <2>0. /\ op[c] \in {None} \cup Ops /\ pc[c] \in RequestKinds \cup Results
        /\ pc[c] \in RequestKinds => op[c] \in Ops
        /\ \A o \in Ops : o \in Op /\ o.want \in Meta
        /\ \A o \in Ops : o.type = "put" => o.want.stamp \in Bodies
    BY OpsAssumption DEF TypeOK, RequestFitsCall, Op
  <2>a. {"ok", "stored", "skip", "err"} = Results /\ (UNCHANGED obj => ObjectStep)
    BY DEF Results, ObjectStep, TypeOK
  <2>1. CASE Find(c)
    <3>1. op[c].type \notin RemoveTypes /\ pc[c] \in RequestKinds
      BY <2>1 DEF Find, RequestFitsCall, RequestKinds
    <3>2. CASE Return(c, "err") \/ Return(c, "ok")
      BY <2>1, <2>a, <3>2, ReturnStep DEF Find
    <3>3. CASE obj # None /\ seen' = [seen EXCEPT ![c] = obj] /\ GoTo(c, "copy")
      BY <2>1, <3>1, <3>3, LookStep DEF Find
    <3>4. QED
      BY <2>1, <3>2, <3>3 DEF Find
  <2>2. CASE CopyReplaceIfMatch(c)
    <3>1. pc[c] = "copy" /\ op[c] \in Op /\ seen[c] \in Object
      BY <2>0, <2>2 DEF CopyReplaceIfMatch, TypeOK, RequestFitsCall, RequestKinds
    <3>2. CASE UNCHANGED obj /\ Return(c, "err")
      BY <2>a, <3>2, ReturnStep
    <3>3. CASE UNCHANGED obj /\ Refused(c)
      BY <2>a, <3>1, <3>3, RefusedStep
    <3>4. CASE /\ obj # None /\ obj.etag = seen[c].etag
               /\ Write(obj.body, Mutate(op[c], seen[c].meta))
               /\ Return(c, "ok") \/ Return(c, "err") \/ Refused(c)
      <4>1. obj = seen[c] /\ obj \in Object /\ obj.meta.stamp = obj.body
        BY <3>1, <3>4, NoneIsNoObject DEF ETagsIdentify, MetaOfTheBytes
      <4>2. obj.body \in Bodies /\ obj.meta \in Meta
        BY <4>1 DEF Object
      <4>3. Mutate(op[c], obj.meta) \in Meta /\ Stored(Mutate(op[c], obj.meta)).stamp = obj.body
        BY <3>1, <4>1, <4>2, MutateType, MutateKeepsStamp
      <4>4. ObjectStep
        BY <3>4, <4>1, <4>2, <4>3, WriteStep
      <4>5. QED
        BY <2>a, <3>1, <3>4, <4>4, ReturnStep, RefusedStep
    <3>5. QED
      BY <2>2, <3>2, <3>3, <3>4 DEF CopyReplaceIfMatch
  <2>3. CASE PutIfNoneMatch(c)
    <3>1. pc[c] = "put" /\ pc[c] \in RequestKinds /\ op[c].type = "put" /\ op[c].want \in Meta /\ op[c].want.stamp \in Bodies
      BY <2>0, <2>3 DEF PutIfNoneMatch, RequestFitsCall, RequestKinds
    <3>2. CASE /\ Write(op[c].want.stamp, op[c].want)
               /\ \/ Return(c, "stored") \/ Return(c, "err")
                  \/ GoTo(c, "putFind") /\ UNCHANGED seen
      <4>1. Stored(op[c].want).stamp = op[c].want.stamp
        BY <3>1 DEF Stored, Meta
      <4>2. ObjectStep
        BY <3>1, <3>2, <4>1, WriteStep
      <4>3. QED
        BY <2>a, <3>1, <3>2, <4>2, ReturnStep, GoOnStep
    <3>3. CASE GoTo(c, "putFind") /\ UNCHANGED <<obj, seen>>
      BY <2>a, <3>1, <3>3, GoOnStep
    <3>4. QED
      BY <2>3, <3>2, <3>3 DEF PutIfNoneMatch
  <2>4. CASE PutFind(c)
    <3>1. pc[c] \in RequestKinds /\ op[c].type = "put" /\ UNCHANGED obj
      BY <2>4 DEF PutFind, RequestFitsCall, RequestKinds
    <3>2. CASE obj # None /\ obj.meta.corrupt
      BY <2>4, <3>1, <3>2, LookStep DEF PutFind
    <3>3. CASE ~(obj # None /\ obj.meta.corrupt)
      BY <2>4, <2>a, <3>1, <3>3, GoOnStep DEF PutFind
    <3>4. QED
      BY <3>2, <3>3
  <2>5. CASE PutOver(c)
    <3>1. op[c].want \in Meta /\ op[c].want.stamp \in Bodies /\ seen[c] \in Object
      BY <2>0, <2>5 DEF PutOver, TypeOK, RequestFitsCall, RequestKinds
    <3>2. CarryOver(seen[c].meta) \in Meta /\ seen[c].meta \in Meta
      BY <3>1, CarryOverType DEF Object
    <3>3. /\ Merge(CarryOver(seen[c].meta), op[c].want) \in Meta
          /\ Stored(Merge(CarryOver(seen[c].meta), op[c].want)).stamp = op[c].want.stamp
      BY <3>1, <3>2, MergeType, ReplaceStamp
    <3>4. ObjectStep
      BY <2>5, <3>1, <3>3, WriteStep DEF PutOver
    <3>5. QED
      BY <2>5, <2>a, <3>4, ReturnStep DEF PutOver
  <2>6. CASE LookAgain(c)
    <3>1. pc[c] \in RequestKinds /\ op[c].type \in RemoveTypes /\ UNCHANGED obj
      BY <2>6 DEF LookAgain, RequestFitsCall, RequestKinds
    <3>2. CASE obj # None /\ Removable(op[c], obj.meta)
      BY <2>6, <3>1, <3>2, LookStep DEF LookAgain
    <3>3. CASE ~(obj # None /\ Removable(op[c], obj.meta))
      BY <2>6, <2>a, <3>1, <3>3, ReturnStep DEF LookAgain
    <3>4. QED
      BY <3>2, <3>3
  <2>7. CASE Delete(c)
    <3>1. ObjectStep
      BY <2>7 DEF Delete, ObjectStep, TypeOK
    <3>2. QED
      BY <2>7, <2>a, <3>1, ReturnStep DEF Delete
  <2>8. CASE RequestFails(c)
    BY <2>8, <2>a, ReturnStep DEF RequestFails
  <2>9. QED
    BY <1>3, <2>1, <2>2, <2>3, <2>4, <2>5, <2>6, <2>7, <2>8 DEF Step
<1>4. QED
  BY <1>1, <1>2, <1>3 DEF Next

\* In every reachable state the inductive invariant holds.
THEOREM Invariance ==
  Spec => []IInv
BY InitIInv, NextIInv, PTL DEF Spec

\* The state of the vault and of its callers stays well formed.
THEOREM TypeCorrect ==
  Spec => []TypeOK
BY Invariance, PTL DEF IInv

\* No interleaving of metadata rewrites and replacements puts one object's
\* container and store time on another's bytes.
THEOREM BytesKeepTheirMeta ==
  Spec => []MetaOfTheBytes
BY Invariance, PTL DEF IInv

\* A rewrite keeps every protected kind, except that purge-student's takes the
\* student kind away.
LEMMA MutateClaims ==
  ASSUME NEW o \in Op, NEW m \in Meta
  PROVE  \/ Claims(m) \subseteq Claims(Stored(Mutate(o, m)))
         \/ o.type = "detach" /\ Claims(m) \ Claims(Stored(Mutate(o, m))) = {"student"}
<1> DEFINE n == Mutate(o, m)
<1>1. n \in Meta /\ Claims(Stored(n)) = Claims(n)
  BY MutateType, StoredClaims
<1>2. CASE o.type \in {"update", "put"}
  <2>1. n = Merge(m, o.want) /\ o.want \in Meta
    BY <1>2 DEF Mutate, Op
  <2>2. QED
    BY <1>1, <2>1, MergeKeepsClaims
<1>3. CASE o.type = "detach"
  <2>1. n = Detach(m, o.account) /\ m.also \in SUBSET Kinds /\ m.kind \in Kinds
    BY <1>3 DEF Mutate, Meta
  <2>2. CASE m.accounts \ {o.account} = {} /\ m.kind = "student"
    <3>1. n.kind = HighestKind(m.also) /\ n.also = m.also \ {n.kind}
      BY <2>1, <2>2 DEF Detach, Meta
    <3>2. Claims(m) = ProtectedOf(m.also) \cup {"student"}
      BY <2>2 DEF Claims, ProtectedOf, Protected, Class
    <3>3. Claims(n) = ProtectedOf(m.also)
      BY <2>1, <3>1, HighestKindIn DEF Claims, ProtectedOf, Protected, Class
    <3>4. QED
      BY <1>1, <1>3, <3>2, <3>3
  <2>3. CASE ~(m.accounts \ {o.account} = {} /\ m.kind = "student")
    <3>1. n.kind = m.kind /\ n.also = m.also
      BY <2>1, <2>3 DEF Detach, Meta
    <3>2. QED
      BY <1>1, <3>1 DEF Claims
  <2>4. QED
    BY <2>2, <2>3
<1>4. CASE o.type \notin {"update", "put", "detach"}
  <2>1. n.kind = m.kind /\ n.also = m.also
    BY <1>4 DEF Mutate, Meta
  <2>2. QED
    BY <1>1, <2>1 DEF Claims
<1>5. QED
  BY <1>2, <1>3, <1>4

\* A replacement keeps every protected kind of the object it looked at.
LEMMA ReplaceClaims ==
  ASSUME NEW m \in Meta, NEW w \in Meta
  PROVE  Claims(m) \subseteq Claims(Stored(Merge(CarryOver(m), w)))
<1>1. CarryOver(m) \in Meta /\ Claims(CarryOver(m)) = Claims(m)
  BY CarryOverType DEF Claims, CarryOver, Meta
<1>2. QED
  BY <1>1, MergeType, MergeKeepsClaims, StoredClaims

\* The protected kinds a stored replay is kept for survive every interleaving of
\* MutateMeta, PutNew and the flags while the object exists, but for purge-student's
\* own rewrite and for a replacement decided on a look that is out of date.
THEOREM ClaimsSurvive ==
  Spec => ClaimsKept
<1> DEFINE Kept == obj # None /\ obj' # None =>
                     \/ Claims(obj.meta) \subseteq Claims(obj'.meta)
                     \/ \E c \in Clients : IntendedLoss(c) \/ StaleReplace(c)
<1>1. ASSUME IInv, [Next]_vars PROVE [Kept]_vars
  <2>1. SUFFICES ASSUME obj # None, obj' # None, obj' # obj,
                        NEW c \in Clients, Step(c) \/ \E o \in Ops : Call(c, o)
                 PROVE  Claims(obj.meta) \subseteq Claims(obj'.meta) \/ IntendedLoss(c) \/ StaleReplace(c)
    BY <1>1 DEF Next, vars
  <2>2. /\ obj \in Object /\ obj.meta \in Meta
        /\ pc[c] \in RequestKinds => op[c] \in Op /\ op[c].want \in Meta
    BY <1>1, <2>1, OpsAssumption DEF IInv, TypeOK, RequestFitsCall, Object, Op
  <2>3. CASE CopyReplaceIfMatch(c)
    <3>1. /\ pc[c] = "copy" /\ obj.etag = seen[c].etag
          /\ obj'.meta = Stored(Mutate(op[c], seen[c].meta))
      BY <2>1, <2>3 DEF CopyReplaceIfMatch, Write
    <3>2. seen[c] = obj /\ op[c] \in Op
      BY <1>1, <2>1, <2>2, <3>1 DEF IInv, ETagsIdentify, RequestFitsCall, RequestKinds
    <3>3. QED
      BY <2>2, <3>1, <3>2, MutateClaims DEF IntendedLoss
  <2>4. CASE PutOver(c)
    <3>1. /\ pc[c] = "putOver" /\ pc'[c] \in Results /\ seen[c] # None
          /\ obj'.meta = Stored(Merge(CarryOver(seen[c].meta), op[c].want))
      BY <1>1, <2>4 DEF PutOver, Write, Return, Results, IInv, TypeOK, RequestFitsCall
    <3>2. CASE seen[c].etag # obj.etag
      BY <3>1, <3>2 DEF StaleReplace
    <3>3. CASE seen[c].etag = obj.etag
      <4>1. seen[c] = obj /\ op[c].want \in Meta
        BY <1>1, <2>1, <2>2, <3>1, <3>3 DEF IInv, ETagsIdentify, RequestKinds
      <4>2. QED
        BY <2>2, <3>1, <4>1, ReplaceClaims
    <3>4. QED
      BY <3>2, <3>3
  <2>5. ~PutIfNoneMatch(c) /\ ~Delete(c) /\ ~Find(c) /\ ~PutFind(c) /\ ~LookAgain(c) /\ ~RequestFails(c)
    BY <2>1 DEF PutIfNoneMatch, Delete, Find, PutFind, LookAgain, RequestFails
  <2>6. ASSUME NEW o \in Ops PROVE ~Call(c, o)
    BY <2>1 DEF Call
  <2>7. QED
    BY <1>1, <2>1, <2>3, <2>4, <2>5, <2>6 DEF Step
<1>2. QED
  BY <1>1, Invariance, PTL DEF Spec, ClaimsKept

-----------------------------------------------------------------------------
\* The abstract view of the object, of a client's progress and of its look.
AObj    == IF obj = None THEN None ELSE [body |-> obj.body, meta |-> obj.meta]
AStatus == [c \in Clients |-> IF pc[c] \in Results THEN pc[c] ELSE "running"]
ABase   == [c \in Clients |-> IF pc[c] \in {"putOver", "delete"} THEN seen[c].meta ELSE None]

\* AtomicVault has its own copy of the operators of VaultOps; they are the same.
LEMMA SameClass == \A k : Atomic!Class(k) = Class(k) /\ Atomic!Protected(k) = Protected(k)
BY DEF Class, Atomic!Class, Protected, Atomic!Protected

LEMMA SameKinds ==
  \A ks : Atomic!ProtectedOf(ks) = ProtectedOf(ks) /\ Atomic!HighestKind(ks) = HighestKind(ks)
BY DEF ProtectedOf, Atomic!ProtectedOf, HighestKind, Atomic!HighestKind, Class, Atomic!Class, Protected, Atomic!Protected

LEMMA SameStored == \A m : Atomic!Stored(m) = Stored(m)
BY SameKinds DEF Stored, Atomic!Stored

LEMMA SameMerge == \A m, w : Atomic!Merge(m, w) = Merge(m, w) /\ Atomic!CarryOver(m) = CarryOver(m)
BY SameKinds, SameClass DEF Merge, Atomic!Merge, CarryOver, Atomic!CarryOver

LEMMA SameMutate == \A o, m : Atomic!Mutate(o, m) = Mutate(o, m)
BY SameKinds, SameMerge, ZenonT(30) DEF Mutate, Atomic!Mutate, Detach, Atomic!Detach

LEMMA SameRemovable == \A o, m : Atomic!Removable(o, m) = Removable(o, m)
BY DEF Removable, RetentionLook, PrefetchLook, PurgeLook,
   Atomic!Removable, Atomic!RetentionLook, Atomic!PrefetchLook, Atomic!PurgeLook

LEMMA SameSets == Atomic!Results = Results /\ Atomic!RemoveTypes = RemoveTypes
BY DEF Results, Atomic!Results, RemoveTypes, Atomic!RemoveTypes

\* The end of a call is an Answer of the atomic vault.
LEMMA ReturnAnswers ==
  ASSUME IInv, NEW c \in Clients, NEW r \in Results, Return(c, r)
  PROVE  Atomic!Answer(c, r)
<1>1. AStatus' = [AStatus EXCEPT ![c] = r]
  BY DEF IInv, TypeOK, Return, AStatus
<1>2. ABase' = [ABase EXCEPT ![c] = None]
  BY DEF IInv, TypeOK, Return, ABase, Results
<1>3. op' = [op EXCEPT ![c] = IF r = "running" THEN @ ELSE None]
  BY DEF Return, Results
<1>4. QED
  BY <1>1, <1>2, <1>3 DEF Atomic!Answer, AStatus, ABase

\* A request that leads to another one, keeping no look, leaves the call running.
LEMMA GoOnAnswers ==
  ASSUME IInv, NEW c \in Clients, pc[c] \in RequestKinds \ {"putOver", "delete"},
         NEW q \in {"find", "copy", "putFind"}, pc' = [pc EXCEPT ![c] = q],
         seen' \in [Clients -> {None} \cup Object],
         \A d \in Clients \ {c} : seen'[d] = seen[d], UNCHANGED op
  PROVE  UNCHANGED <<op, AStatus, ABase>> /\ Atomic!Answer(c, "running")
<1>1. AStatus' = AStatus /\ AStatus = [AStatus EXCEPT ![c] = "running"]
  BY DEF IInv, TypeOK, AStatus, RequestKinds, Results
<1>2. ABase' = ABase /\ ABase = [ABase EXCEPT ![c] = None]
  BY DEF IInv, TypeOK, ABase, RequestKinds
<1>3. op' = [op EXCEPT ![c] = IF "running" = "running" THEN @ ELSE None]
  BY DEF IInv, TypeOK
<1>4. QED
  BY <1>1, <1>2, <1>3 DEF Atomic!Answer, AStatus, ABase

\* The initial states are initial states of the atomic vault.
LEMMA InitRefines == Init => Atomic!Init
BY DEF Init, Atomic!Init, Results

\* A call that ends without touching the object gave up.
LEMMA GiveUpRefines ==
  ASSUME IInv, NEW c \in Clients, pc[c] \in RequestKinds, NEW r \in {"err", "skip"},
         Return(c, r), UNCHANGED obj
  PROVE  Atomic!GiveUp(c)
<1>1. Atomic!Answer(c, r)
  BY ReturnAnswers DEF Results
<1>2. AStatus[c] = "running" /\ UNCHANGED AObj
  BY DEF AStatus, AObj, RequestKinds, Results
<1>3. QED
  BY <1>1, <1>2 DEF Atomic!GiveUp, AStatus, AObj

\* A refused attempt ends the call with an error or leaves it running.
LEMMA RefusedAnswers ==
  ASSUME IInv, NEW c \in Clients, pc[c] = "copy", Refused(c)
  PROVE  \/ Return(c, "err")
         \/ Atomic!Answer(c, "running") /\ UNCHANGED <<op, AStatus, ABase>>
<1>1. CASE tries[c] + 1 < MaxTries
  <2>1. /\ pc' = [pc EXCEPT ![c] = "find"]
        /\ seen' = [seen EXCEPT ![c] = None]
        /\ UNCHANGED op
    BY <1>1 DEF Refused
  <2>2. seen' \in [Clients -> {None} \cup Object] /\ \A d \in Clients \ {c} : seen'[d] = seen[d]
    BY <2>1 DEF IInv, TypeOK
  <2>3. QED
    BY <2>1, <2>2, GoOnAnswers DEF RequestKinds
<1>2. CASE ~(tries[c] + 1 < MaxTries)
  BY <1>2 DEF Refused
<1>3. QED
  BY <1>1, <1>2

\* A HEAD that a replacement or a delete is decided on is a Look.
LEMMA LookRefines ==
  ASSUME IInv, NEW c \in Clients, pc[c] \in RequestKinds, obj # None, UNCHANGED obj,
         seen' = [seen EXCEPT ![c] = obj], NEW q \in {"putOver", "delete"}, GoTo(c, q),
         \/ op[c].type = "put" /\ obj.meta.corrupt
         \/ Removable(op[c], obj.meta)
  PROVE  Atomic!Look(c)
<1>1. AStatus[c] = "running" /\ UNCHANGED <<AObj, op, AStatus>>
  BY DEF IInv, TypeOK, GoTo, AStatus, AObj, RequestKinds, Results
<1>2. AObj # None /\ AObj.meta = obj.meta
  BY NoneIsNoObject DEF AObj, IInv, TypeOK, Object, Content
<1>3. ABase' = [ABase EXCEPT ![c] = AObj.meta]
  BY <1>2 DEF IInv, TypeOK, GoTo, ABase
<1>4. \/ op[c].type = "put" /\ AObj.meta.corrupt
      \/ Removable(op[c], AObj.meta)
  BY <1>2
<1>5. QED
  BY <1>1, <1>2, <1>3, <1>4, SameRemovable DEF Atomic!Look, AStatus, AObj, ABase

\* Every step is a step of the atomic vault or changes nothing it can see.
LEMMA StepRefines ==
  IInv /\ [Next]_vars => [Atomic!Next]_(Atomic!vars)
<1> SUFFICES ASSUME IInv, [Next]_vars PROVE Atomic!Next \/ UNCHANGED <<AObj, op, AStatus, ABase>>
  BY DEF Atomic!vars, AObj, AStatus, ABase
<1>1. CASE UNCHANGED vars
  BY <1>1 DEF vars, AObj, AStatus, ABase
<1>2. ASSUME NEW c \in Clients, NEW o \in Ops, Call(c, o) PROVE Atomic!Next
  <2>1. AStatus[c] \in Results /\ UNCHANGED AObj /\ op' = [op EXCEPT ![c] = o]
    BY <1>2 DEF Call, AStatus, AObj
  <2>2. FirstRequest(o) \in RequestKinds \ {"putOver", "delete"}
    BY DEF FirstRequest, RequestKinds
  <2>3. AStatus' = [AStatus EXCEPT ![c] = "running"]
    BY <1>2, <2>2 DEF Call, AStatus, IInv, TypeOK, RequestKinds, Results
  <2>4. UNCHANGED ABase
    BY <1>2, <2>2 DEF Call, ABase, IInv, TypeOK, Results
  <2>5. Atomic!Invoke(c, o)
    BY <2>1, <2>3, <2>4, SameSets DEF Atomic!Invoke, AStatus, AObj, ABase
  <2>6. QED
    BY <2>5 DEF Atomic!Next
<1>3. ASSUME NEW c \in Clients, Step(c) PROVE Atomic!Next \/ UNCHANGED <<AObj, op, AStatus, ABase>>
  <2>1. /\ pc[c] \in RequestKinds /\ AStatus[c] = "running"
        /\ op[c] \in Ops /\ op[c] \in Op /\ op[c].want \in Meta
    <3>1. pc[c] \in RequestKinds
      BY <1>3 DEF Step, Find, CopyReplaceIfMatch, PutIfNoneMatch, PutFind, PutOver, LookAgain, Delete, RequestFails, RequestKinds
    <3>2. QED
      BY <3>1, OpsAssumption DEF IInv, TypeOK, RequestFitsCall, AStatus, RequestKinds, Results, Op
  <2>2. ASSUME obj # None
        PROVE  /\ AObj # None /\ AObj = [body |-> obj.body, meta |-> obj.meta]
               /\ obj \in Object /\ obj.meta \in Meta /\ obj.body \in Bodies
    BY <2>2, NoneIsNoObject DEF AObj, IInv, TypeOK, Object, Content
  <2>3. ASSUME NEW b \in Bodies, NEW m \in Meta, Write(b, m)
        PROVE  AObj' = [body |-> b, meta |-> Stored(m)]
    <3>1. obj' \in Object /\ obj'.body = b /\ obj'.meta = Stored(m)
      BY <2>3, StoredType DEF Write, Object, IInv, TypeOK
    <3>2. QED
      BY <3>1, NoneIsNoObject DEF AObj
  <2>4. CASE Find(c)
    <3>1. CASE Return(c, "err")
      BY <2>1, <2>4, <3>1, GiveUpRefines DEF Find, Atomic!Next
    <3>2. CASE obj # None /\ EqualMeta(obj.meta, Mutate(op[c], obj.meta)) /\ Return(c, "ok")
      <4>1. obj.meta = Stored(Mutate(op[c], obj.meta)) /\ UNCHANGED AObj
        BY <2>4, <3>2 DEF EqualMeta, IInv, MetaIsStored, Find, AObj
      <4>2. AObj' = [AObj EXCEPT !.meta = Stored(Mutate(op[c], @))]
        BY <2>2, <3>2, <4>1
      <4>3. op[c].type \notin RemoveTypes
        BY <2>4 DEF Find, IInv, RequestFitsCall
      <4>4. Atomic!Answer(c, "ok")
        BY <3>2, ReturnAnswers DEF Results
      <4>5. Atomic!Change(c)
        BY <2>1, <2>2, <3>2, <4>2, <4>3, <4>4, SameSets, SameStored, SameMutate DEF Atomic!Change, AStatus, AObj
      <4>6. QED
        BY <4>5 DEF Atomic!Next
    <3>3. CASE seen' = [seen EXCEPT ![c] = obj] /\ GoTo(c, "copy")
      <4>1. /\ pc[c] \in RequestKinds \ {"putOver", "delete"} /\ pc' = [pc EXCEPT ![c] = "copy"] /\ UNCHANGED op
            /\ seen' \in [Clients -> {None} \cup Object] /\ \A d \in Clients \ {c} : seen'[d] = seen[d]
        BY <2>4, <3>3 DEF Find, GoTo, IInv, TypeOK, RequestKinds
      <4>2. UNCHANGED AObj
        BY <2>4 DEF Find, AObj
      <4>3. QED
        BY <4>1, <4>2, GoOnAnswers
    <3>4. QED
      BY <2>4, <3>1, <3>2, <3>3 DEF Find
  <2>5. CASE CopyReplaceIfMatch(c)
    <3>0. pc[c] = "copy" /\ op[c].type \notin RemoveTypes
      BY <2>5 DEF CopyReplaceIfMatch, IInv, RequestFitsCall
    <3>1. CASE UNCHANGED obj /\ Return(c, "err")
      BY <2>1, <3>1, GiveUpRefines DEF Atomic!Next
    <3>2. CASE UNCHANGED obj /\ Refused(c)
      <4>1. UNCHANGED AObj
        BY <3>2 DEF AObj
      <4>2. QED
        BY <2>1, <3>0, <3>1, <3>2, <4>1, RefusedAnswers
    <3>3. CASE /\ obj # None /\ obj.etag = seen[c].etag
               /\ Write(obj.body, Mutate(op[c], seen[c].meta))
               /\ Return(c, "ok") \/ Return(c, "err") \/ Refused(c)
      <4>1. seen[c] = obj
        BY <3>0, <3>3 DEF IInv, ETagsIdentify, RequestFitsCall
      <4>2. AObj' = [body |-> obj.body, meta |-> Stored(Mutate(op[c], obj.meta))]
        BY <2>1, <2>2, <2>3, <3>3, <4>1, MutateType
      <4>3. AObj' = [AObj EXCEPT !.meta = Stored(Mutate(op[c], @))]
        BY <2>2, <3>3, <4>2
      <4>4. Atomic!Answer(c, "ok") \/ Atomic!Answer(c, "err") \/ Atomic!Answer(c, "running")
        BY <3>0, <3>3, ReturnAnswers, RefusedAnswers DEF Results
      <4>5. Atomic!Change(c)
        BY <2>1, <2>2, <3>0, <3>3, <4>3, <4>4, SameSets, SameStored, SameMutate DEF Atomic!Change, AStatus, AObj
      <4>6. QED
        BY <4>5 DEF Atomic!Next
    <3>4. QED
      BY <2>5, <3>1, <3>2, <3>3 DEF CopyReplaceIfMatch
  <2>6. CASE PutIfNoneMatch(c)
    <3>0. op[c].type = "put" /\ op[c].want.stamp \in Bodies /\ pc[c] \in RequestKinds \ {"putOver", "delete"}
      BY <2>1, <2>6, OpsAssumption DEF PutIfNoneMatch, IInv, RequestFitsCall, RequestKinds
    <3>1. ASSUME GoTo(c, "putFind"), UNCHANGED seen
          PROVE  UNCHANGED <<op, AStatus, ABase>> /\ Atomic!Answer(c, "running")
      <4>1. /\ pc' = [pc EXCEPT ![c] = "putFind"] /\ UNCHANGED op
            /\ seen' \in [Clients -> {None} \cup Object] /\ \A d \in Clients \ {c} : seen'[d] = seen[d]
        BY <3>1 DEF GoTo, IInv, TypeOK
      <4>2. QED
        BY <3>0, <4>1, GoOnAnswers
    <3>2. CASE /\ obj = None
               /\ Write(op[c].want.stamp, op[c].want)
               /\ \/ Return(c, "stored") \/ Return(c, "err")
                  \/ GoTo(c, "putFind") /\ UNCHANGED seen
      <4>1. AObj = None /\ AObj' = [body |-> op[c].want.stamp, meta |-> Stored(op[c].want)]
        BY <2>1, <2>3, <3>0, <3>2 DEF AObj
      <4>2. Atomic!Answer(c, "stored") \/ Atomic!Answer(c, "err") \/ Atomic!Answer(c, "running")
        BY <3>1, <3>2, ReturnAnswers DEF Results
      <4>3. Atomic!Create(c)
        BY <2>1, <3>0, <4>1, <4>2, SameStored DEF Atomic!Create, AStatus, AObj
      <4>4. QED
        BY <4>3 DEF Atomic!Next
    <3>3. CASE GoTo(c, "putFind") /\ UNCHANGED <<obj, seen>>
      BY <3>1, <3>3 DEF AObj
    <3>4. QED
      BY <2>6, <3>2, <3>3 DEF PutIfNoneMatch
  <2>7. CASE PutFind(c)
    <3>0. op[c].type = "put" /\ pc[c] \in RequestKinds \ {"putOver", "delete"} /\ UNCHANGED obj /\ UNCHANGED AObj
      BY <2>7 DEF PutFind, IInv, RequestFitsCall, RequestKinds, AObj
    <3>1. CASE obj # None /\ obj.meta.corrupt
      <4>1. Atomic!Look(c)
        BY <2>1, <2>7, <3>0, <3>1, LookRefines DEF PutFind
      <4>2. QED
        BY <4>1 DEF Atomic!Next
    <3>2. CASE ~(obj # None /\ obj.meta.corrupt)
      <4>1. /\ pc' = [pc EXCEPT ![c] = "find"] /\ UNCHANGED op
            /\ seen' \in [Clients -> {None} \cup Object] /\ \A d \in Clients \ {c} : seen'[d] = seen[d]
        BY <2>7, <3>2 DEF PutFind, GoTo, IInv, TypeOK
      <4>2. QED
        BY <3>0, <4>1, GoOnAnswers
    <3>3. QED
      BY <3>1, <3>2
  <2>8. CASE PutOver(c)
    <3>1. /\ op[c].type = "put" /\ op[c].want.stamp \in Bodies
          /\ seen[c] \in Object /\ seen[c].meta \in Meta
          /\ ABase[c] = seen[c].meta /\ ABase[c] # None
      BY <2>1, <2>8, OpsAssumption, NoneIsNoObject DEF PutOver, IInv, TypeOK, RequestFitsCall, Object, ABase
    <3>2. AObj' = [body |-> op[c].want.stamp, meta |-> Stored(Merge(CarryOver(ABase[c]), op[c].want))]
      BY <2>1, <2>3, <2>8, <3>1, CarryOverType, MergeType DEF PutOver
    <3>3. Atomic!Answer(c, "stored") \/ Atomic!Answer(c, "err")
      BY <2>8, ReturnAnswers DEF PutOver, Results
    <3>4. Atomic!Overwrite(c)
      BY <2>1, <3>1, <3>2, <3>3, SameStored, SameMerge DEF Atomic!Overwrite, AStatus, AObj, ABase
    <3>5. QED
      BY <3>4 DEF Atomic!Next
  <2>9. CASE LookAgain(c)
    <3>1. CASE obj # None /\ Removable(op[c], obj.meta)
      <4>1. Atomic!Look(c)
        BY <2>1, <2>9, <3>1, LookRefines DEF LookAgain
      <4>2. QED
        BY <4>1 DEF Atomic!Next
    <3>2. CASE ~(obj # None /\ Removable(op[c], obj.meta))
      <4>1. Atomic!GiveUp(c)
        BY <2>1, <2>9, <3>2, GiveUpRefines DEF LookAgain
      <4>2. QED
        BY <4>1 DEF Atomic!Next
    <3>3. QED
      BY <3>1, <3>2
  <2>10. CASE Delete(c)
    <3>1. op[c].type \in RemoveTypes /\ ABase[c] # None /\ AObj' = None
      BY <2>10, NoneIsNoObject DEF Delete, IInv, TypeOK, RequestFitsCall, Object, ABase, AObj
    <3>2. Atomic!Answer(c, "ok") \/ Atomic!Answer(c, "err")
      BY <2>10, ReturnAnswers DEF Delete, Results
    <3>3. Atomic!Remove(c)
      BY <2>1, <3>1, <3>2, SameSets DEF Atomic!Remove, AStatus, AObj, ABase
    <3>4. QED
      BY <3>3 DEF Atomic!Next
  <2>11. CASE RequestFails(c)
    <3>1. Atomic!GiveUp(c)
      BY <2>1, <2>11, GiveUpRefines DEF RequestFails
    <3>2. QED
      BY <3>1 DEF Atomic!Next
  <2>12. QED
    BY <1>3, <2>4, <2>5, <2>6, <2>7, <2>8, <2>9, <2>10, <2>11 DEF Step
<1>4. QED
  BY <1>1, <1>2, <1>3 DEF Next

\* PutNew, MutateMeta and the look-then-delete calls, with their retries and lost
\* responses, implement the atomic vault, for any clients and calls.
THEOREM Refinement ==
  Spec => ImplementsAtomicVault
BY InitRefines, StepRefines, Invariance, PTL DEF Spec, ImplementsAtomicVault, Atomic!Spec
=============================================================================
