-------------------------- MODULE ReparseRunProofs --------------------------
(***************************************************************************)
(* ReparseRun for any number of workers, replays, shards and faults: types,*)
(* who may have a replay in hand, who may dispatch.                        *)
(***************************************************************************)
EXTENDS ReparseRun, FiniteSetTheorems, WellFoundedInduction, TLAPS

\* What plan and item lists are taken in order with: the least of a set of numbers.
LEMMA LeastOf ==
  ASSUME NEW S \in SUBSET Nat, S # {}
  PROVE  Min(S) \in S /\ \A y \in S : Min(S) <= y
<1> DEFINE R == {p \in Nat \X Nat : p[1] < p[2]}
<1>1. IsWellFoundedOn(R, Nat)
  BY NatLessThanWellFounded, Zenon DEF OpToRel
<1>2. PICK x \in S : \A y \in S : ~ (<<y, x>> \in R)
  <2> HIDE DEF R
  <2>1. QED BY <1>1, WFMin
<1>3. \A y \in S : x <= y
  <2> SUFFICES ASSUME NEW y \in S PROVE ~(y < x)
    OBVIOUS
  <2>1. <<y, x>> \notin R
    BY <1>2
  <2>2. QED
    BY <2>1
<1>4. QED
  BY <1>3, Zenon DEF Min

\* A run gets at least one machine and no more than the limit (MachinesFor).
LEMMA MachinesType ==
  ASSUME NEW n \in Nat
  PROVE  MachinesFor(n) \in 1..MaxMachines
<1> DEFINE wanted == (n + PerMachine - 1) \div PerMachine
<1>1. PerMachine \in Nat \ {0} /\ MaxMachines \in Nat \ {0}
  BY ReparseAssumption
<1>2. wanted \in Nat
  BY <1>1
<1> HIDE DEF wanted
<1>3. Max({1, wanted}) \in Nat \ {0}
  <2>1. Max({1, wanted}) = IF wanted >= 1 THEN wanted ELSE 1
    BY <1>2 DEF Max
  <2> QED BY <2>1, <1>2
<1>4. {MaxMachines, Max({1, wanted})} \in SUBSET Nat
  BY <1>1, <1>3
<1>5. Min({MaxMachines, Max({1, wanted})}) \in {MaxMachines, Max({1, wanted})} /\ Min({MaxMachines, Max({1, wanted})}) <= MaxMachines
  BY <1>4, LeastOf
<1>6. QED
  BY <1>1, <1>3, <1>5 DEF MachinesFor, wanted

\* Every replay is in one of the shards (Shard).
LEMMA ShardType ==
  ASSUME NEW i \in Items, NEW n \in Nat \ {0}
  PROVE  Shard(i, n) \in 0..(n - 1)
BY ReparseAssumption DEF Shard

\* The parts of TypeOK, by what is written together.
VaultType ==
  /\ place \in [Items -> Places]
  /\ bad \in [Items -> {"none", "older", "this"}]
  /\ done \in [Items -> {"none", "ok", "failed"}]
  /\ fails \in [Items -> 0..MaxFaults]
  /\ back \subseteq Items /\ changes \in 0..MaxChanges
RunType ==
  /\ plan \in [items : SUBSET Items, shards : 1..MaxMachines]
  /\ first \in BOOLEAN /\ grace \in BOOLEAN
  /\ claims \subseteq {ShardClaim(k) : k \in 0..(MaxMachines - 1)} \cup {ItemClaim(i) : i \in Items}
RefreshType ==
  /\ marker \in BOOLEAN /\ refreshed \in BOOLEAN
  /\ dpc \in [Callers -> Dispatching \cup {"no", "marker"}]
PlannerType ==
  pl \in [pc : {"idle", "list", "over", "plan", "first", "start", "missing"},
          items : SUBSET Items, start : SUBSET (0..(MaxMachines - 1)), forget : BOOLEAN]
MainType ==
  /\ wpc \in [Workers -> {"off", "boot", "claim", "feed", "share", "left", "finish"}]
  /\ shard \in [Workers -> 0..(MaxMachines - 1)]
  /\ known \in [Workers -> SUBSET Items]
  /\ todo \in [Workers -> SUBSET Items]
  /\ scan \in [Workers -> SUBSET (0..(MaxMachines - 1))]
PoolType ==
  /\ task \in [Workers -> [Items -> Stages]]
  /\ count \in [Workers -> [Items -> 0..MaxFaults]]
FaultsType == faults \in 0..MaxFaults

AllTypes == VaultType /\ RunType /\ RefreshType /\ PlannerType /\ MainType /\ PoolType /\ FaultsType

\* The parts make up the invariant, before and after a step.
LEMMA TypeParts == (TypeOK <=> AllTypes) /\ (TypeOK' <=> AllTypes')
BY Zenon DEF AllTypes, TypeOK, VaultType, RunType, RefreshType, PlannerType, MainType, PoolType, FaultsType

\* What a step leaves alone keeps its type.
LEMMA TypeFrames ==
  /\ VaultType /\ UNCHANGED vault => VaultType'
  /\ RunType /\ UNCHANGED run => RunType'
  /\ RefreshType /\ UNCHANGED refresh => RefreshType'
  /\ PlannerType /\ UNCHANGED pl => PlannerType'
  /\ MainType /\ UNCHANGED <<wpc, shard, known, todo, scan>> => MainType'
  /\ PoolType /\ UNCHANGED <<task, count>> => PoolType'
  /\ FaultsType /\ (Fault \/ NoFault \/ UNCHANGED faults) => FaultsType'
  /\ UNCHANGED machine => UNCHANGED <<wpc, shard, known, todo, scan>> /\ UNCHANGED <<task, count>>
  /\ UNCHANGED Rest => UNCHANGED <<run, refresh, pl>> /\ UNCHANGED <<wpc, shard, known, todo, scan>>
<1>1. FaultsType /\ (Fault \/ NoFault \/ UNCHANGED faults) => FaultsType'
  BY ReparseAssumption DEF FaultsType, Fault, NoFault
<1>2. /\ VaultType /\ UNCHANGED vault => VaultType'
      /\ RunType /\ UNCHANGED run => RunType'
      /\ RefreshType /\ UNCHANGED refresh => RefreshType'
  BY DEF VaultType, RunType, RefreshType, vault, run, refresh
<1>3. QED
  BY <1>1, <1>2 DEF PlannerType, MainType, PoolType, machine, Rest

\* Every variable starts out of its type.
LEMMA InitType == Init => TypeOK
<1> USE ReparseAssumption DEF Init
<1>1. Init => VaultType /\ FaultsType
  BY DEF VaultType, Places, FaultsType
<1>2. Init => RunType
  <2>1. 1 \in 1..MaxMachines
    OBVIOUS
  <2>2. Init => plan \in [items : SUBSET Items, shards : 1..MaxMachines]
    BY <2>1
  <2>3. QED
    BY <2>2 DEF RunType
<1>9. Init => PlannerType
  BY DEF PlannerType
<1>3. Init => MainType /\ PoolType
  BY DEF MainType, PoolType, Stages
<1>4. Init => RefreshType
  <2>1. Init => marker = FALSE /\ refreshed = FALSE /\ dpc = [c \in Callers |-> "no"]
    OBVIOUS
  <2>2. [c \in Callers |-> "no"] \in [Callers -> Dispatching \cup {"no", "marker"}]
    OBVIOUS
  <2>3. QED
    BY <2>1, <2>2, Zenon DEF RefreshType
<1>5. QED
  BY <1>1, <1>2, <1>9, <1>3, <1>4, TypeParts DEF AllTypes

\* Every failure counted, or about to be, was a fault: that bounds the counts.
Bumping(i) == {w \in Workers : task[w][i] \in {"bump", "bumpWrite"}}
BumpsPaid ==
  \A i \in Items :
    /\ fails[i] + Cardinality(Bumping(i)) <= faults
    /\ \A w \in Workers : task[w][i] = "bumpWrite" => count[w][i] + Cardinality(Bumping(i)) <= faults

LEMMA BumpingFinite ==
  \A i : IsFiniteSet(Bumping(i)) /\ Cardinality(Bumping(i)) \in Nat
<1> TAKE i
<1>1. Bumping(i) \in SUBSET Workers
  BY DEF Bumping
<1>2. QED
  BY <1>1, ReparseAssumption, FS_Subset, FS_CardinalityType

\* A machine that is started, or goes off, is of the right type.
LEMMA TurnOffType ==
  ASSUME NEW w \in Workers, MainType, PoolType, TurnOff(w)
  PROVE  MainType' /\ PoolType'
<1>1. MainType'
  BY ReparseAssumption DEF MainType, TurnOff
<1>2. PoolType'
  BY ReparseAssumption DEF PoolType, TurnOff, Stages
<1>3. QED
  BY <1>1, <1>2

\* A goroutine of the pool goes to its next stage.
LEMMA StageType ==
  ASSUME PoolType, NEW w \in Workers, NEW i \in Items, NEW stage \in Stages
  PROVE  [task EXCEPT ![w][i] = stage] \in [Workers -> [Items -> Stages]]
BY DEF PoolType

\* A goroutine's read of the count is one of the counts there can be.
LEMMA CountType ==
  ASSUME PoolType, NEW w \in Workers, NEW i \in Items, NEW n \in 0..MaxFaults
  PROVE  [count EXCEPT ![w][i] = n] \in [Workers -> [Items -> 0..MaxFaults]]
BY DEF PoolType

\* The planner's steps preserve the types; a plan has at least one shard.
LEMMA PlannerTypeStep ==
  ASSUME TypeOK, PlannerStep \/ PlannerStops \/ (\E r \in BOOLEAN : PlannerTodo(r))
  PROVE  TypeOK'
<1> USE TypeParts, TypeFrames DEF AllTypes
<1>1. ASSUME NEW r \in BOOLEAN, PlannerTodo(r) PROVE TypeOK'
  <2>1. PICK q \in IF r THEN {FALSE} ELSE Options, S \in SUBSET Items :
          pl' = [pc |-> "list", start |-> {}, forget |-> q, items |-> S]
    BY <1>1, Zenon DEF PlannerTodo
  <2>2. q \in BOOLEAN
    BY ReparseAssumption
  <2>3. PlannerType'
    BY <2>1, <2>2 DEF PlannerType
  <2>4. QED
    BY <1>1, <2>3 DEF PlannerTodo
<1>2. CASE PlannerList
  <2>1. \A i \in Items : Shard(i, plan.shards) \in 0..(MaxMachines - 1)
    BY ShardType, ReparseAssumption DEF RunType
  <2> DEFINE S == {Shard(i, plan.shards) : i \in pl.items \cap plan.items} \ {shard[w] : w \in Alive}
  <2>2. S \in SUBSET (0..(MaxMachines - 1))
    BY <2>1 DEF PlannerType
  <2>3. \/ pl' = [pl EXCEPT !.pc = "over"]
        \/ pl' = [pl EXCEPT !.pc = "missing", !.start = S]
        \/ pl' = [pl EXCEPT !.pc = "plan"]
    BY <1>2 DEF PlannerList
  <2> HIDE DEF S
  <2>4. PlannerType'
    BY <2>2, <2>3 DEF PlannerType
  <2>5. QED
    BY <1>2, <2>4 DEF PlannerList
<1>3. CASE PlannerForget
  <2>1. PlannerType' /\ RefreshType'
    BY <1>3 DEF PlannerForget, PlannerType, RefreshType
  <2>2. QED
    BY <1>3, <2>1 DEF PlannerForget
<1>4. CASE PlannerOver
  <2>1. PlannerType' /\ RefreshType'
    BY <1>4 DEF PlannerOver, PlannerIdle, PlannerType, RefreshType
  <2>2. QED
    BY <1>4, <2>1 DEF PlannerOver
<1>5. CASE PlannerPlan
  <2>1. Cardinality(pl.items) \in Nat
    BY ReparseAssumption, FS_Subset, FS_CardinalityType DEF PlannerType
  <2>2. plan' \in [items : SUBSET Items, shards : 1..MaxMachines]
    BY <1>5, <2>1, MachinesType DEF PlannerPlan, PlannerType
  <2>3. RunType'
    BY <1>5, <2>2 DEF PlannerPlan, RunType
  <2>4. 0..(plan'.shards - 1) \subseteq 0..(MaxMachines - 1)
    BY <2>2, ReparseAssumption
  <2>5. PlannerType'
    BY <1>5, <2>4 DEF PlannerPlan, PlannerType
  <2>6. VaultType'
    BY <1>5 DEF PlannerPlan, VaultType
  <2>7. QED
    BY <1>5, <2>3, <2>5, <2>6 DEF PlannerPlan
<1>6. CASE PlannerFirst
  <2>1. PlannerType' /\ RunType'
    BY <1>6 DEF PlannerFirst, PlannerType, RunType
  <2>2. QED
    BY <1>6, <2>1 DEF PlannerFirst
<1>7. CASE PlannerCreate
  <2>1. pl.start # {} => Min(pl.start) \in 0..(MaxMachines - 1)
    BY LeastOf DEF PlannerType
  <2>2. PlannerType'
    <3>1. pl' = [pl EXCEPT !.start = pl.start \ {Min(pl.start)}] \/ PlannerIdle
      BY <1>7 DEF PlannerCreate, PlannerType
    <3>2. QED
      <4>1. CASE PlannerIdle
        BY <4>1 DEF PlannerIdle, PlannerType
      <4>2. CASE pl' = [pl EXCEPT !.start = pl.start \ {Min(pl.start)}]
        <5>1. pl.start \ {Min(pl.start)} \in SUBSET (0..(MaxMachines - 1))
          BY DEF PlannerType
        <5>2. QED
          BY <4>2, <5>1, Zenon DEF PlannerType
      <4>3. QED
        BY <3>1, <4>1, <4>2
  <2>3. MainType' /\ PoolType'
    BY <1>7, <2>1 DEF PlannerCreate, StartMachine, MainType
  <2>4. FaultsType'
    BY <1>7 DEF PlannerCreate
  <2>5. QED
    BY <1>7, <2>2, <2>3, <2>4 DEF PlannerCreate
<1>8. CASE PlannerStops
  <2>1. PlannerType' /\ RefreshType'
    BY <1>8 DEF PlannerStops, PlannerIdle, PlannerType, RefreshType
  <2>2. QED
    BY <1>8, <2>1 DEF PlannerStops
<1>9. QED
  BY <1>1, <1>2, <1>3, <1>4, <1>5, <1>6, <1>7, <1>8 DEF PlannerStep

\* So do a worker's main goroutine,
LEMMA MainTypeStep ==
  ASSUME TypeOK, NEW w \in Workers, MainStep(w) \/ WorkerStops(w)
  PROVE  TypeOK'
<1> USE TypeParts, TypeFrames DEF AllTypes
<1>1. CASE Boot(w)
  <2>1. MainType'
    BY <1>1 DEF Boot, Marked, MainType, RunType
  <2>2. QED
    BY <1>1, <2>1 DEF Boot
<1>2. CASE ClaimShard(w)
  <2>1. MainType'
    BY <1>2 DEF ClaimShard, MainType
  <2>2. RunType'
    BY <1>2 DEF ClaimShard, RunType, MainType
  <2>3. QED
    BY <1>2, <2>1, <2>2 DEF ClaimShard
<1>3. CASE Feed(w)
  <2>1. 0..(plan.shards - 1) \subseteq 0..(MaxMachines - 1)
    BY ReparseAssumption DEF RunType
  <2>2. MainType'
    BY <1>3, <2>1 DEF Feed, MainType
  <2>3. PoolType'
    <3>1. todo[w] # {} => Min(todo[w]) \in Items
      BY LeastOf, ReparseAssumption DEF MainType
    <3>2. task' \in [Workers -> [Items -> Stages]]
      <4>1. CASE todo[w] # {}
        <5>1. [task EXCEPT ![w][Min(todo[w])] = "open"] \in [Workers -> [Items -> Stages]]
          BY <3>1, <4>1, StageType DEF Stages
        <5>2. QED
          BY <1>3, <4>1, <5>1, Zenon DEF Feed
      <4>2. CASE todo[w] = {}
        BY <1>3, <4>2, Zenon DEF Feed, PoolType
      <4>3. QED
        BY <4>1, <4>2
    <3>3. QED
      BY <1>3, <3>2 DEF Feed, PoolType
  <2>4. QED
    BY <1>3, <2>2, <2>3 DEF Feed
<1>4. CASE LookForOrphans(w)
  <2>1. MainType'
    BY <1>4 DEF LookForOrphans, MainType, RunType
  <2>2. QED
    BY <1>4, <2>1 DEF LookForOrphans
<1>5. CASE ClaimItem(w)
  <2>1. Min(todo[w]) \in Items
    BY <1>5, LeastOf, ReparseAssumption DEF ClaimItem, MainType
  <2>2. claims' \in {claims, claims \cup {ItemClaim(Min(todo[w]))}}
    BY <1>5 DEF ClaimItem
  <2>3. RunType'
    BY <1>5, <2>1, <2>2 DEF ClaimItem, RunType
  <2>4. task' = task \/ task' = [task EXCEPT ![w][Min(todo[w])] = "held"]
    BY <1>5 DEF ClaimItem
  <2>5. PoolType'
    <3>1. task' \in [Workers -> [Items -> Stages]]
      <4>1. [task EXCEPT ![w][Min(todo[w])] = "held"] \in [Workers -> [Items -> Stages]]
        BY <2>1, StageType DEF Stages
      <4>2. QED
        BY <2>4, <4>1, Zenon DEF PoolType
    <3>2. QED
      BY <1>5, <3>1 DEF ClaimItem, PoolType
  <2>6. MainType'
    BY <1>5 DEF ClaimItem, MainType
  <2>7. QED
    BY <1>5, <2>3, <2>5, <2>6 DEF ClaimItem
<1>6. CASE Tally(w)
  <2>1. MainType'
    BY <1>6 DEF Tally, Marked, MainType
  <2>2. QED
    BY <1>6, <2>1 DEF Tally
<1>7. CASE CountLeft(w)
  <2>1. RefreshType'
    BY <1>7 DEF CountLeft, RefreshType
  <2>2. MainType' /\ PoolType'
    <3>1. CASE TurnOff(w)
      BY <3>1, TurnOffType
    <3>2. CASE ~TurnOff(w)
      <4>1. plan.items \ known[w] # {} => Min(plan.items \ known[w]) \in Items
        BY LeastOf, ReparseAssumption DEF RunType
      <4>2. MainType'
        <5>1. UNCHANGED known \/ \E k \in Items : known' = [known EXCEPT ![w] = known[w] \cup {k}]
          BY <1>7, <3>2, <4>1, Zenon DEF CountLeft
        <5>2. UNCHANGED <<shard, todo, scan>> /\ (UNCHANGED wpc \/ wpc' = [wpc EXCEPT ![w] = "finish"])
          BY <1>7, <3>2, Zenon DEF CountLeft
        <5>3. known' \in [Workers -> SUBSET Items]
          BY <5>1 DEF MainType
        <5>4. QED
          BY <5>2, <5>3 DEF MainType
      <4>3. PoolType'
        BY <1>7, <3>2 DEF CountLeft, PoolType
      <4>4. QED
        BY <4>2, <4>3
    <3>3. QED
      BY <3>1, <3>2
  <2>3. QED
    BY <1>7, <2>1, <2>2 DEF CountLeft
<1>8. CASE WorkerEnds(w)
  BY <1>8, TurnOffType DEF WorkerEnds
<1>9. CASE WorkerStops(w)
  <2>1. RefreshType'
    BY <1>9 DEF WorkerStops, RefreshType, Callers
  <2>2. QED
    BY <1>9, <2>1, TurnOffType DEF WorkerStops
<1>10. QED
  BY <1>1, <1>2, <1>3, <1>4, <1>5, <1>6, <1>7, <1>8, <1>9 DEF MainStep

\* the goroutines of its pool, which count no more failures than there were faults,
LEMMA PoolTypeStep ==
  ASSUME TypeOK, BumpsPaid, NEW w \in Workers, NEW i \in Items, PoolStep(w, i)
  PROVE  TypeOK'
<1> USE TypeParts, TypeFrames DEF AllTypes
<1>0. ASSUME NEW stage \in Stages, Goto(w, i, stage), UNCHANGED count PROVE PoolType'
  BY <1>0 DEF Goto, PoolType
<1>1. CASE Take(w, i) \/ OpenAndParse(w, i) \/ Deliver(w, i)
  <2>1. PoolType'
    BY <1>0, <1>1 DEF Take, OpenAndParse, Deliver, Stages
  <2>2. QED
    BY <1>1, <2>1 DEF Take, OpenAndParse, Deliver
<1>2. CASE SetFlag(w, i)
  <2>1. VaultType'
    BY <1>2 DEF SetFlag, shelf, VaultType
  <2>2. PoolType'
    BY <1>0, <1>2 DEF SetFlag, Stages
  <2>3. QED
    BY <1>2, <2>1, <2>2 DEF SetFlag
<1>3. CASE WriteDone(w, i) \/ GiveUp(w, i)
  <2>1. VaultType'
    BY <1>3 DEF WriteDone, GiveUp, shelf, VaultType
  <2>2. PoolType'
    BY <1>0, <1>3 DEF WriteDone, GiveUp, Stages
  <2>3. QED
    BY <1>3, <2>1, <2>2 DEF WriteDone, GiveUp
<1>4. CASE BumpRead(w, i)
  <2>1. task' \in [Workers -> [Items -> Stages]]
    BY <1>4, StageType DEF BumpRead, Goto, Stages
  <2>2. count' \in [Workers -> [Items -> 0..MaxFaults]]
    <3>1. fails[i] \in 0..MaxFaults
      BY DEF VaultType
    <3>2. QED
      <4>1. [count EXCEPT ![w][i] = fails[i]] \in [Workers -> [Items -> 0..MaxFaults]]
        BY <3>1, CountType
      <4>2. QED
        BY <1>4, <4>1, Zenon DEF BumpRead, PoolType
  <2>3. PoolType'
    BY <2>1, <2>2 DEF PoolType
  <2>4. QED
    BY <1>4, <2>3 DEF BumpRead
<1>5. CASE BumpWrite(w, i)
  <2>1. count[w][i] + 1 \in 0..MaxFaults
    <3>1. w \in Bumping(i)
      BY <1>5 DEF BumpWrite, Bumping
    <3>2. Cardinality(Bumping(i)) \in Nat \ {0}
      BY <3>1, BumpingFinite, FS_EmptySet
    <3>3. count[w][i] \in Nat /\ faults \in 0..MaxFaults
      BY DEF PoolType, FaultsType
    <3>4. QED
      BY <1>5, <3>2, <3>3, ReparseAssumption DEF BumpWrite, BumpsPaid
  <2>2. VaultType'
    BY <1>5, <2>1 DEF BumpWrite, shelf, VaultType
  <2>3. PoolType'
    <3>1. task' \in [Workers -> [Items -> Stages]]
      BY <1>5, StageType, SMTT(30) DEF BumpWrite, Goto, Stages
    <3>2. count' \in [Workers -> [Items -> 0..MaxFaults]]
      BY <1>5, ReparseAssumption DEF BumpWrite, PoolType
    <3>3. QED
      BY <3>1, <3>2 DEF PoolType
  <2>4. QED
    BY <1>5, <2>2, <2>3 DEF BumpWrite
<1>6. QED
  BY <1>1, <1>2, <1>3, <1>4, <1>5 DEF PoolStep

\* and all the others.
LEMMA TypeStep ==
  ASSUME TypeOK, BumpsPaid, [Next]_vars
  PROVE  TypeOK'
<1> USE TypeParts, TypeFrames DEF AllTypes
<1>1. CASE UNCHANGED vars
  BY <1>1 DEF vars
<1>2. ASSUME NEW i \in Items, Store(i) \/ Retention(i) PROVE TypeOK'
  <2>1. VaultType'
    <3>1. changes' \in 0..MaxChanges
      BY <1>2, ReparseAssumption DEF Store, Retention, MayChange, VaultType
    <3>2. place' \in [Items -> Places] /\ bad' \in [Items -> {"none", "older", "this"}]
      BY <1>2 DEF Store, Retention, VaultType, Places
    <3>3. QED
      BY <1>2, <3>1, <3>2 DEF Store, Retention, VaultType
  <2>2. QED
    BY <1>2, <2>1 DEF Store, Retention
<1>3. CASE GracePasses
  <2>1. RunType'
    BY <1>3 DEF GracePasses, RunType
  <2>2. QED
    BY <1>3, <2>1 DEF GracePasses
<1>4. ASSUME NEW c \in Callers, DispatchStep(c) PROVE TypeOK'
  <2>1. RefreshType'
    BY <1>4 DEF DispatchStep, CreateMarker, RunsWaiting, DispatchWorkflow, RemoveMarker, DGoto, Dispatching, RefreshType
  <2>2. QED
    BY <1>4, <2>1 DEF DispatchStep, CreateMarker, RunsWaiting, DispatchWorkflow, RemoveMarker
<1>5. QED
  BY <1>1, <1>2, <1>3, <1>4, PlannerTypeStep, MainTypeStep, PoolTypeStep DEF Next

\* Every failed attempt that is counted, or about to be, is one of the faults.
LEMMA InitBumps == Init => BumpsPaid
<1> SUFFICES ASSUME Init, NEW i \in Items PROVE fails[i] + Cardinality(Bumping(i)) <= faults
  BY DEF Init, BumpsPaid
<1>1. Bumping(i) = {}
  BY DEF Init, Bumping
<1>2. QED
  BY <1>1, FS_EmptySet DEF Init

\* A step that takes no replay to the count preserves that.
LEMMA BumpsFrame ==
  ASSUME TypeOK, BumpsPaid, TypeOK', UNCHANGED fails, faults' >= faults,
         \A w \in Workers, i \in Items :
           task'[w][i] \in {"bump", "bumpWrite"} => task'[w][i] = task[w][i] /\ count'[w][i] = count[w][i]
  PROVE  BumpsPaid'
<1> SUFFICES ASSUME NEW i \in Items
             PROVE  /\ fails'[i] + Cardinality(Bumping(i))' <= faults'
                    /\ \A w \in Workers : task'[w][i] = "bumpWrite" => count'[w][i] + Cardinality(Bumping(i))' <= faults'
  BY Zenon DEF BumpsPaid
<1>1. Bumping(i)' \in SUBSET Bumping(i)
  BY DEF Bumping
<1>2. Cardinality(Bumping(i)') <= Cardinality(Bumping(i)) /\ Cardinality(Bumping(i)') \in Nat
  BY <1>1, BumpingFinite, FS_Subset, FS_CardinalityType
<1>3. fails[i] \in Nat /\ faults \in Nat /\ faults' \in Nat
  BY TypeParts, ReparseAssumption DEF AllTypes, VaultType, FaultsType
<1>4. \A w \in Workers : count[w][i] \in Nat
  BY TypeParts, ReparseAssumption DEF AllTypes, PoolType
<1>5. Cardinality(Bumping(i)) \in Nat
  BY BumpingFinite
<1>6. fails[i] + Cardinality(Bumping(i)) <= faults
  BY DEF BumpsPaid
<1>7. \A w \in Workers : task[w][i] = "bumpWrite" => count[w][i] + Cardinality(Bumping(i)) <= faults
  BY Zenon DEF BumpsPaid
<1>8. QED
  BY <1>2, <1>3, <1>4, <1>5, <1>6, <1>7

\* One worker's attempt at one replay fails, by a fault.
LEMMA BumpAdded ==
  ASSUME TypeOK, BumpsPaid, NEW w \in Workers, NEW i \in Items,
         task[w][i] \notin {"bump", "bumpWrite"}, Goto(w, i, "bump"), Fault, UNCHANGED <<fails, count>>
  PROVE  BumpsPaid'
<1> SUFFICES ASSUME NEW j \in Items
             PROVE  /\ fails[j] + Cardinality(Bumping(j))' <= faults + 1
                    /\ \A v \in Workers : task'[v][j] = "bumpWrite" => count[v][j] + Cardinality(Bumping(j))' <= faults + 1
  BY DEF BumpsPaid, Fault
<1>1. task' = [task EXCEPT ![w][i] = "bump"] /\ task \in [Workers -> [Items -> Stages]]
  BY TypeParts DEF AllTypes, PoolType, Goto
<1>2. Bumping(j)' = IF j = i THEN Bumping(j) \cup {w} ELSE Bumping(j)
  BY <1>1 DEF Bumping
<1>3. Cardinality(Bumping(j)') <= Cardinality(Bumping(j)) + 1 /\ Cardinality(Bumping(j)') \in Nat
  <2>1. IsFiniteSet(Bumping(j)) /\ Cardinality(Bumping(j)) \in Nat
    BY BumpingFinite
  <2>2. Cardinality(Bumping(j) \cup {w}) \in {Cardinality(Bumping(j)), Cardinality(Bumping(j)) + 1}
    BY <2>1, FS_AddElement
  <2>3. QED
    BY <1>2, <2>1, <2>2
<1>4. \A v \in Workers : task'[v][j] = "bumpWrite" => task[v][j] = "bumpWrite"
  BY <1>1
<1>5. fails[j] \in Nat /\ faults \in Nat /\ \A v \in Workers : count[v][j] \in Nat
  BY TypeParts, ReparseAssumption DEF AllTypes, VaultType, FaultsType, PoolType
<1>6. /\ fails[j] + Cardinality(Bumping(j)) <= faults
      /\ \A v \in Workers : task[v][j] = "bumpWrite" => count[v][j] + Cardinality(Bumping(j)) <= faults
  BY Zenon DEF BumpsPaid
<1>7. Cardinality(Bumping(j)) \in Nat
  BY BumpingFinite
<1>8. QED
  BY <1>3, <1>4, <1>5, <1>6, <1>7

\* Reading and writing the count: what was read and lost was paid for before.
LEMMA BumpStep ==
  ASSUME TypeOK, BumpsPaid, TypeOK', NEW w \in Workers, NEW i \in Items, BumpRead(w, i) \/ BumpWrite(w, i)
  PROVE  BumpsPaid'
<1> SUFFICES ASSUME NEW j \in Items
             PROVE  /\ fails'[j] + Cardinality(Bumping(j))' <= faults'
                    /\ \A v \in Workers : task'[v][j] = "bumpWrite" => count'[v][j] + Cardinality(Bumping(j))' <= faults'
  BY Zenon DEF BumpsPaid
<1>1. /\ task \in [Workers -> [Items -> Stages]] /\ count \in [Workers -> [Items -> 0..MaxFaults]]
      /\ fails \in [Items -> 0..MaxFaults] /\ faults \in 0..MaxFaults /\ faults' \in 0..MaxFaults
  BY TypeParts DEF AllTypes, VaultType, PoolType, FaultsType
<1>2. Cardinality(Bumping(j)) \in Nat
  BY BumpingFinite
<1>3. /\ fails[j] + Cardinality(Bumping(j)) <= faults
      /\ \A v \in Workers : task[v][j] = "bumpWrite" => count[v][j] + Cardinality(Bumping(j)) <= faults
  BY Zenon DEF BumpsPaid
<1>4. faults' >= faults
  BY <1>1, ReparseAssumption DEF BumpRead, BumpWrite, Fault, NoFault
<1>5. CASE j # i
  <2>0. PICK stage, n : /\ task' = [task EXCEPT ![w][i] = stage]
                        /\ count' = [count EXCEPT ![w][i] = n] \/ count' = count
    BY Zenon DEF BumpRead, BumpWrite, Goto
  <2>1. Bumping(j)' = Bumping(j)
    BY <1>1, <1>5, <2>0 DEF Bumping
  <2>2. fails'[j] = fails[j]
    BY <1>1, <1>5 DEF BumpRead, BumpWrite, vault
  <2>3. \A v \in Workers : task'[v][j] = task[v][j] /\ count'[v][j] = count[v][j]
    BY <1>1, <1>5, <2>0
  <2>4. QED
    BY <1>1, <1>2, <1>3, <1>4, <2>1, <2>2, <2>3, ReparseAssumption
<1>6. CASE j = i /\ BumpRead(w, i)
  <2>1. Bumping(j)' \in SUBSET Bumping(j)
    BY <1>1, <1>6 DEF BumpRead, Goto, Bumping
  <2>2. Cardinality(Bumping(j)') <= Cardinality(Bumping(j)) /\ Cardinality(Bumping(j)') \in Nat
    BY <2>1, BumpingFinite, FS_Subset, FS_CardinalityType
  <2>3. UNCHANGED fails
    BY <1>6 DEF BumpRead, vault
  <2>4. \A v \in Workers : task'[v][j] = "bumpWrite" =>
           \/ task[v][j] = "bumpWrite" /\ count'[v][j] = count[v][j]
           \/ count'[v][j] = fails[j]
    BY <1>1, <1>6 DEF BumpRead, Goto
  <2>5. QED
    BY <1>1, <1>2, <1>3, <1>4, <2>2, <2>3, <2>4, ReparseAssumption
<1>7. CASE j = i /\ BumpWrite(w, i)
  <2>1. Bumping(j)' = Bumping(j) \ {w} /\ w \in Bumping(j)
    BY <1>1, <1>7 DEF BumpWrite, Goto, Bumping
  <2>2. Cardinality(Bumping(j)') = Cardinality(Bumping(j)) - 1
    BY <2>1, BumpingFinite, FS_RemoveElement
  <2>3. fails'[j] \in {fails[j], count[w][j] + 1}
    BY <1>1, <1>7 DEF BumpWrite
  <2>4. \A v \in Workers : task'[v][j] = "bumpWrite" => task[v][j] = "bumpWrite" /\ count'[v][j] = count[v][j]
    BY <1>1, <1>7 DEF BumpWrite, Goto
  <2>5. task[w][j] = "bumpWrite"
    BY <1>7 DEF BumpWrite
  <2>6. QED
    BY <1>1, <1>2, <1>3, <1>4, <2>2, <2>3, <2>4, <2>5, ReparseAssumption
<1>8. QED
  BY <1>5, <1>6, <1>7

\* Every step pays for the failures it counts.
LEMMA NextBumps ==
  ASSUME TypeOK, BumpsPaid, TypeOK', [Next]_vars
  PROVE  BumpsPaid'
<1> DEFINE Kept == \A w \in Workers, i \in Items :
             task'[w][i] \in {"bump", "bumpWrite"} => task'[w][i] = task[w][i] /\ count'[w][i] = count[w][i]
<1>1. /\ task \in [Workers -> [Items -> Stages]] /\ count \in [Workers -> [Items -> 0..MaxFaults]]
      /\ faults \in Nat
  BY TypeParts, ReparseAssumption DEF AllTypes, PoolType, FaultsType
<1>2. ASSUME UNCHANGED <<task, count, fails>>, Fault \/ NoFault \/ UNCHANGED faults PROVE BumpsPaid'
  BY <1>1, <1>2, BumpsFrame DEF Fault, NoFault
<1>3. ASSUME Kept, UNCHANGED fails, Fault \/ NoFault \/ UNCHANGED faults PROVE BumpsPaid'
  BY <1>1, <1>3, BumpsFrame DEF Fault, NoFault
<1>4. ASSUME NEW w \in Workers, NEW j, NEW stage \in Stages \ {"bump", "bumpWrite"},
             task' = [task EXCEPT ![w][j] = stage], UNCHANGED count
      PROVE  Kept
  BY <1>1, <1>4
<1>5. ASSUME NEW w \in Workers, TurnOff(w) PROVE Kept
  BY <1>1, <1>5 DEF TurnOff
<1> HIDE DEF Kept
<1>6. CASE UNCHANGED vars
  BY <1>2, <1>6 DEF vars, vault, machine
<1>7. ASSUME NEW i \in Items, Store(i) \/ Retention(i) PROVE BumpsPaid'
  BY <1>2, <1>7 DEF Store, Retention, machine
<1>8. ASSUME NEW r \in BOOLEAN, PlannerTodo(r) PROVE BumpsPaid'
  BY <1>2, <1>8 DEF PlannerTodo, vault, machine
<1>9. CASE PlannerStep \/ PlannerStops \/ GracePasses
  BY <1>2, <1>9 DEF PlannerStep, PlannerList, PlannerForget, PlannerOver, PlannerPlan, PlannerFirst, PlannerCreate,
     StartMachine, PlannerStops, GracePasses, vault, machine
<1>10. ASSUME NEW w \in Workers, MainStep(w) \/ WorkerStops(w) PROVE BumpsPaid'
  <2>1. CASE Boot(w) \/ ClaimShard(w) \/ LookForOrphans(w) \/ Tally(w)
    BY <1>2, <2>1 DEF Boot, ClaimShard, LookForOrphans, Tally, vault
  <2>2. CASE Feed(w) \/ ClaimItem(w)
    <3>1. \/ UNCHANGED <<task, count>>
          \/ \E stage \in Stages \ {"bump", "bumpWrite"} : task' = [task EXCEPT ![w][Min(todo[w])] = stage] /\ UNCHANGED count
      BY <2>2, Zenon DEF Feed, ClaimItem, Stages
    <3>2. UNCHANGED fails /\ (Fault \/ NoFault \/ UNCHANGED faults)
      BY <2>2 DEF Feed, ClaimItem, vault
    <3>3. QED
      BY <1>2, <1>3, <1>4, <3>1, <3>2
  <2>3. CASE CountLeft(w) \/ WorkerEnds(w) \/ WorkerStops(w)
    BY <1>2, <1>3, <1>5, <2>3 DEF CountLeft, WorkerEnds, WorkerStops, vault
  <2>4. QED
    BY <1>10, <2>1, <2>2, <2>3 DEF MainStep
<1>11. ASSUME NEW w \in Workers, NEW i \in Items, PoolStep(w, i) PROVE BumpsPaid'
  <2>1. CASE BumpRead(w, i) \/ BumpWrite(w, i)
    BY <2>1, BumpStep
  <2>2. CASE Fault /\ Goto(w, i, "bump") /\ (OpenAndParse(w, i) \/ WriteDone(w, i))
    BY <2>2, BumpAdded DEF OpenAndParse, WriteDone, vault
  <2>3. CASE /\ ~(Fault /\ Goto(w, i, "bump") /\ (OpenAndParse(w, i) \/ WriteDone(w, i)))
             /\ Take(w, i) \/ OpenAndParse(w, i) \/ SetFlag(w, i) \/ Deliver(w, i) \/ WriteDone(w, i) \/ GiveUp(w, i)
    <3>1. PICK stage \in Stages \ {"bump", "bumpWrite"} : Goto(w, i, stage)
      BY <2>3, Zenon DEF Take, OpenAndParse, SetFlag, Deliver, WriteDone, GiveUp, Stages
    <3>2. UNCHANGED <<fails, count>> /\ (Fault \/ NoFault \/ UNCHANGED faults)
      BY <2>3 DEF Take, OpenAndParse, SetFlag, Deliver, WriteDone, GiveUp, vault
    <3>3. QED
      BY <1>3, <1>4, <3>1, <3>2 DEF Goto
  <2>4. QED
    BY <1>11, <2>1, <2>2, <2>3, Zenon DEF PoolStep
<1>12. ASSUME NEW c \in Callers, DispatchStep(c) PROVE BumpsPaid'
  BY <1>2, <1>12 DEF DispatchStep, CreateMarker, RunsWaiting, DispatchWorkflow, RemoveMarker, vault, machine
<1>13. QED
  BY <1>6, <1>7, <1>8, <1>9, <1>10, <1>11, <1>12 DEF Next

\* Every reachable state is of the types declared: no count of failures passes the
\* faults there were (BumpFailure's read and write may lose some, never add), no
\* shard is started that the plan does not have.
THEOREM TypeCorrect == Spec => []TypeOK
<1>1. TypeOK /\ BumpsPaid /\ [Next]_vars => TypeOK' /\ BumpsPaid'
  BY TypeStep, NextBumps
<1>2. QED
  BY <1>1, InitType, InitBumps, PTL DEF Spec

-----------------------------------------------------------------------------
\* Who may have a replay in hand: the workers of its shard, and at most one
\* other, which holds its item claim; claims are only forgotten when no machine
\* is alive.
NothingInHand(w) == todo[w] = {} /\ \A i \in Items : task[w][i] = "none"
Shared(w, i) == task[w][i] # "none" /\ Shard(i, plan.shards) # shard[w]

ShareInv ==
  /\ pl.pc = "plan" => Alive = {}
  /\ \A w \in Workers : wpc[w] \in {"off", "boot"} => NothingInHand(w)
  /\ \A w \in Workers : wpc[w] \in {"claim", "feed"} => \A i \in todo[w] : Shard(i, plan.shards) = shard[w]
  /\ \A w \in Workers, i \in Items : Shared(w, i) => ItemClaim(i) \in claims
  /\ SharedOnce

\* At first nobody has anything in hand.
LEMMA InitShare == Init => ShareInv
BY DEF Init, ShareInv, NothingInHand, Shared, SharedOnce

\* The types of what the machines do.
LEMMA MachineTypes ==
  ASSUME TypeOK
  PROVE  /\ wpc \in [Workers -> {"off", "boot", "claim", "feed", "share", "left", "finish"}]
         /\ shard \in [Workers -> 0..(MaxMachines - 1)]
         /\ todo \in [Workers -> SUBSET Items]
         /\ task \in [Workers -> [Items -> Stages]]
BY TypeParts DEF AllTypes, MainType, PoolType

\* A step that takes up no replay preserves the invariant, as long as plan and
\* machines stay.
LEMMA ShareFrame ==
  ASSUME ShareInv, UNCHANGED <<wpc, shard, plan>>, claims \subseteq claims',
         pl'.pc = "plan" => pl.pc = "plan" \/ Alive = {},
         \A w \in Workers : todo'[w] \subseteq todo[w] \/ wpc[w] = "share",
         \A w \in Workers, i \in Items : task'[w][i] # "none" => task[w][i] # "none"
  PROVE  ShareInv'
<1>1. (pl.pc = "plan" => Alive = {})'
  BY DEF ShareInv, Alive
<1>2. \A w \in Workers : wpc'[w] \in {"off", "boot"} => NothingInHand(w)'
  BY DEF ShareInv, NothingInHand
<1>3. \A w \in Workers : wpc'[w] \in {"claim", "feed"} => \A i \in todo'[w] : Shard(i, plan'.shards) = shard'[w]
  BY DEF ShareInv
<1>4. \A w \in Workers, i \in Items : Shared(w, i)' => ItemClaim(i) \in claims'
  BY DEF ShareInv, Shared
<1>5. SharedOnce'
  BY DEF ShareInv, SharedOnce
<1>6. QED
  BY <1>1, <1>2, <1>3, <1>4, <1>5 DEF ShareInv

\* A machine that goes off has nothing in hand.
LEMMA TurnOffShare ==
  ASSUME TypeOK, ShareInv, NEW w \in Workers, TurnOff(w), UNCHANGED <<plan, claims>>, pl'.pc = "plan" => pl.pc = "plan"
  PROVE  ShareInv'
<1>0. /\ wpc' = [wpc EXCEPT ![w] = "off"] /\ shard' = [shard EXCEPT ![w] = 0]
      /\ todo' = [todo EXCEPT ![w] = {}] /\ task' = [task EXCEPT ![w] = [i \in Items |-> "none"]]
  BY DEF TurnOff
<1>1. (pl.pc = "plan" => Alive = {})'
  BY <1>0, MachineTypes DEF ShareInv, Alive
<1>2. \A v \in Workers : wpc'[v] \in {"off", "boot"} => NothingInHand(v)'
  BY <1>0, MachineTypes DEF ShareInv, NothingInHand
<1>3. \A v \in Workers : wpc'[v] \in {"claim", "feed"} => \A i \in todo'[v] : Shard(i, plan'.shards) = shard'[v]
  BY <1>0, MachineTypes DEF ShareInv
<1>4. \A v \in Workers, i \in Items : task'[v][i] # "none" => v # w /\ task[v][i] # "none" /\ shard'[v] = shard[v]
  BY <1>0, MachineTypes
<1>5. \A v \in Workers, i \in Items : Shared(v, i)' => ItemClaim(i) \in claims'
  BY <1>4 DEF ShareInv, Shared
<1>6. SharedOnce'
  BY <1>4 DEF ShareInv, SharedOnce
<1>7. QED
  BY <1>1, <1>2, <1>3, <1>5, <1>6 DEF ShareInv

\* A replay of its own shard, sent to the pool
LEMMA FeedShare ==
  ASSUME TypeOK, ShareInv, NEW w \in Workers, wpc[w] = "feed", NEW k \in todo[w],
         task' = [task EXCEPT ![w][k] = "open"], todo' = [todo EXCEPT ![w] = @ \ {k}],
         UNCHANGED <<wpc, shard, plan, claims, pl>>
  PROVE  ShareInv'
<1>1. k \in Items /\ Shard(k, plan.shards) = shard[w]
  BY MachineTypes DEF ShareInv
<1>2. \A v \in Workers, i \in Items : task'[v][i] # "none" => task[v][i] # "none" \/ (v = w /\ i = k)
  BY <1>1, MachineTypes
<1>3. \A v \in Workers : todo'[v] \subseteq todo[v] /\ (v # w => todo'[v] = todo[v])
  BY MachineTypes
<1>4. \A v \in Workers : wpc'[v] \in {"off", "boot"} => NothingInHand(v)'
  <2> SUFFICES ASSUME NEW v \in Workers, wpc[v] \in {"off", "boot"} PROVE NothingInHand(v)'
    OBVIOUS
  <2>1. v # w /\ NothingInHand(v)
    BY DEF ShareInv
  <2>2. QED
    BY <1>2, <1>3, <2>1 DEF NothingInHand
<1>5. \A v \in Workers : wpc'[v] \in {"claim", "feed"} => \A i \in todo'[v] : Shard(i, plan'.shards) = shard'[v]
  BY <1>3 DEF ShareInv
<1>6. \A v \in Workers, i \in Items : Shared(v, i)' => ItemClaim(i) \in claims'
  BY <1>1, <1>2 DEF ShareInv, Shared
<1>7. SharedOnce'
  BY <1>1, <1>2 DEF ShareInv, SharedOnce
<1>8. (pl.pc = "plan" => Alive = {})'
  BY DEF ShareInv, Alive
<1>9. QED
  BY <1>4, <1>5, <1>6, <1>7, <1>8 DEF ShareInv

\* A replay whose item claim this worker wrote
LEMMA ClaimShare ==
  ASSUME TypeOK, ShareInv, NEW w \in Workers, wpc[w] = "share", NEW k \in todo[w],
         ItemClaim(k) \notin claims, claims' = claims \cup {ItemClaim(k)},
         task' = [task EXCEPT ![w][k] = "held"], todo' = [todo EXCEPT ![w] = @ \ {k}],
         UNCHANGED <<wpc, shard, plan, pl>>
  PROVE  ShareInv'
<1>1. \A v \in Workers, i \in Items : task'[v][i] # "none" => task[v][i] # "none" \/ (v = w /\ i = k)
  BY MachineTypes
<1>2. \A v \in Workers : todo'[v] \subseteq todo[v] /\ (v # w => todo'[v] = todo[v])
  BY MachineTypes
<1>3. \A v \in Workers : wpc'[v] \in {"off", "boot"} => NothingInHand(v)'
  <2> SUFFICES ASSUME NEW v \in Workers, wpc[v] \in {"off", "boot"} PROVE NothingInHand(v)'
    OBVIOUS
  <2>1. v # w /\ NothingInHand(v)
    BY DEF ShareInv
  <2>2. QED
    BY <1>1, <1>2, <2>1 DEF NothingInHand
<1>4. \A v \in Workers : wpc'[v] \in {"claim", "feed"} => \A i \in todo'[v] : Shard(i, plan'.shards) = shard'[v]
  BY <1>2 DEF ShareInv
<1>5. \A v \in Workers, i \in Items : Shared(v, i)' => ItemClaim(i) \in claims'
  BY <1>1 DEF ShareInv, Shared
<1>6. \A v \in Workers : ~Shared(v, k)
  BY MachineTypes DEF ShareInv
<1>7. SharedOnce'
  BY <1>1, <1>6 DEF ShareInv, SharedOnce, Shared
<1>8. (pl.pc = "plan" => Alive = {})'
  BY DEF ShareInv, Alive
<1>9. QED
  BY <1>3, <1>4, <1>5, <1>7, <1>8 DEF ShareInv

\* The planner forgets claims only when no machine is alive.
LEMMA PlannerShare ==
  ASSUME TypeOK, ShareInv, PlannerStep \/ PlannerStops \/ (\E r \in BOOLEAN : PlannerTodo(r))
  PROVE  ShareInv'
<1> USE MachineTypes
<1>0. pl \in [pc : {"idle", "list", "over", "plan", "first", "start", "missing"},
             items : SUBSET Items, start : SUBSET (0..(MaxMachines - 1)), forget : BOOLEAN]
  BY TypeParts DEF AllTypes, PlannerType
<1>1. CASE PlannerStops \/ (\E r \in BOOLEAN : PlannerTodo(r))
  <2>1. pl'.pc \in {"idle", "list"}
    <3>1. CASE PlannerStops
      BY <3>1 DEF PlannerStops, PlannerIdle
    <3>2. ASSUME NEW r \in BOOLEAN, PlannerTodo(r) PROVE pl'.pc = "list"
      <4>1. PICK q, S : pl' = [pc |-> "list", start |-> {}, forget |-> q, items |-> S]
        BY <3>2, Zenon DEF PlannerTodo
      <4>2. QED
        BY <4>1
    <3>3. QED
      BY <1>1, <3>1, <3>2
  <2>2. UNCHANGED <<wpc, shard, plan, claims, todo, task>>
    BY <1>1 DEF PlannerStops, PlannerTodo, run, machine
  <2>3. QED
    BY <2>1, <2>2, ShareFrame
<1>2. CASE PlannerList \/ PlannerForget \/ PlannerOver \/ PlannerFirst
  <2>1. pl'.pc = "plan" => pl.pc = "plan" \/ Alive = {}
    <3>1. CASE PlannerList
      BY <1>0, <3>1 DEF PlannerList
    <3>2. CASE PlannerForget
      BY <1>0, <3>2 DEF PlannerForget
    <3>3. CASE PlannerOver
      <4>1. PlannerIdle
        BY <3>3, Zenon DEF PlannerOver
      <4>2. QED
        BY <4>1 DEF PlannerIdle
    <3>4. CASE PlannerFirst
      BY <1>0, <3>4 DEF PlannerFirst
    <3>5. QED
      BY <1>2, <3>1, <3>2, <3>3, <3>4
  <2>2. UNCHANGED <<wpc, shard, plan, claims, todo, task>>
    BY <1>2 DEF PlannerList, PlannerForget, PlannerOver, PlannerFirst, run, machine
  <2>3. QED
    BY <2>1, <2>2, ShareFrame
<1>3. CASE PlannerPlan
  <2>1. \A w \in Workers : wpc[w] = "off" /\ NothingInHand(w)
    BY <1>3 DEF PlannerPlan, ShareInv, Alive
  <2>2. UNCHANGED <<wpc, todo, task>> /\ pl'.pc # "plan"
    BY <1>0, <1>3 DEF PlannerPlan, machine
  <2>3. \A w \in Workers : wpc'[w] = "off" /\ NothingInHand(w)'
    BY <2>1, <2>2 DEF NothingInHand
  <2>4. QED
    BY <2>2, <2>3 DEF ShareInv, NothingInHand, Shared, SharedOnce
<1>4. CASE PlannerCreate
  <2>1. pl'.pc # "plan"
    BY <1>0, <1>4 DEF PlannerCreate, PlannerIdle
  <2>2. CASE UNCHANGED machine
    BY <1>4, <2>1, <2>2, ShareFrame DEF PlannerCreate, run, machine
  <2>3. ASSUME NEW w \in Workers \ Alive, NEW k, StartMachine(w, k) PROVE ShareInv'
    <3>1. NothingInHand(w) /\ w \in Workers
      BY <2>3 DEF ShareInv, Alive
    <3>2. UNCHANGED <<plan, claims, todo, task>> /\ wpc' = [wpc EXCEPT ![w] = "boot"] /\ shard' = [shard EXCEPT ![w] = k]
      BY <1>4, <2>3 DEF PlannerCreate, StartMachine, run
    <3>3. \A v \in Workers, i \in Items : task'[v][i] # "none" => v # w /\ task[v][i] # "none" /\ shard'[v] = shard[v]
      BY <3>1, <3>2 DEF NothingInHand
    <3>4. \A v \in Workers : wpc'[v] \in {"off", "boot"} => NothingInHand(v)'
      BY <3>1, <3>2 DEF ShareInv, NothingInHand
    <3>5. \A v \in Workers : wpc'[v] \in {"claim", "feed"} => \A i \in todo'[v] : Shard(i, plan'.shards) = shard'[v]
      BY <3>1, <3>2 DEF ShareInv
    <3>6. \A v \in Workers, i \in Items : Shared(v, i)' => ItemClaim(i) \in claims'
      BY <3>2, <3>3 DEF ShareInv, Shared
    <3>7. SharedOnce'
      BY <3>2, <3>3 DEF ShareInv, SharedOnce
    <3>8. QED
      BY <2>1, <3>4, <3>5, <3>6, <3>7 DEF ShareInv
  <2>4. QED
    BY <1>4, <2>2, <2>3 DEF PlannerCreate
<1>5. QED
  BY <1>1, <1>2, <1>3, <1>4 DEF PlannerStep

\* The main goroutine's steps
LEMMA MainShare ==
  ASSUME TypeOK, ShareInv, NEW w \in Workers, MainStep(w) \/ WorkerStops(w)
  PROVE  ShareInv'
<1> USE MachineTypes
<1>1. CASE Boot(w)
  <2>1. /\ wpc[w] = "boot" /\ wpc' = [wpc EXCEPT ![w] = "claim"] /\ UNCHANGED <<shard, plan, claims, task, pl>>
        /\ todo' = [todo EXCEPT ![w] = {i \in plan.items \ Marked : Shard(i, plan.shards) = shard[w]}]
    BY <1>1 DEF Boot, run
  <2>2. (pl.pc = "plan" => Alive = {})'
    BY <2>1 DEF ShareInv, Alive
  <2>3. \A v \in Workers : wpc'[v] \in {"off", "boot"} => NothingInHand(v)'
    BY <2>1 DEF ShareInv, NothingInHand
  <2>4. \A v \in Workers : wpc'[v] \in {"claim", "feed"} => \A i \in todo'[v] : Shard(i, plan'.shards) = shard'[v]
    BY <2>1 DEF ShareInv
  <2>5. QED
    BY <2>1, <2>2, <2>3, <2>4 DEF ShareInv, Shared, SharedOnce
<1>2. CASE ClaimShard(w)
  <2>1. /\ wpc[w] = "claim" /\ wpc' = [wpc EXCEPT ![w] = "feed"] /\ UNCHANGED <<shard, plan, task, todo, pl>>
        /\ claims \subseteq claims'
    BY <1>2 DEF ClaimShard
  <2>2. (pl.pc = "plan" => Alive = {})'
    BY <2>1 DEF ShareInv, Alive
  <2>3. \A v \in Workers : wpc'[v] \in {"off", "boot"} => NothingInHand(v)'
    BY <2>1 DEF ShareInv, NothingInHand
  <2>4. \A v \in Workers : wpc'[v] \in {"claim", "feed"} => \A i \in todo'[v] : Shard(i, plan'.shards) = shard'[v]
    BY <2>1 DEF ShareInv
  <2>5. \A v \in Workers, i \in Items : Shared(v, i)' => ItemClaim(i) \in claims'
    BY <2>1 DEF ShareInv, Shared
  <2>6. QED
    BY <2>1, <2>2, <2>3, <2>4, <2>5 DEF ShareInv, SharedOnce
<1>3. CASE Feed(w)
  <2>1. CASE todo[w] # {} /\ UNCHANGED wpc
    <3>1. Min(todo[w]) \in todo[w]
      BY <2>1, LeastOf, ReparseAssumption
    <3>2. QED
      BY <1>3, <2>1, <3>1, FeedShare DEF Feed, run
  <2>2. CASE wpc' = [wpc EXCEPT ![w] = "share"] /\ UNCHANGED <<task, todo>>
    <3>1. UNCHANGED <<shard, plan, claims, pl>> /\ wpc[w] = "feed"
      BY <1>3, <2>2 DEF Feed, run
    <3>2. QED
      BY <2>2, <3>1 DEF ShareInv, Alive, NothingInHand, Shared, SharedOnce
  <2>3. QED
    BY <1>3, <2>1, <2>2 DEF Feed
<1>4. CASE LookForOrphans(w)
  BY <1>4, ShareFrame DEF LookForOrphans, run
<1>5. CASE ClaimItem(w)
  <2>1. Min(todo[w]) \in todo[w]
    BY <1>5, LeastOf, ReparseAssumption DEF ClaimItem
  <2>2. CASE task' = task
    BY <1>5, <2>2, ShareFrame DEF ClaimItem
  <2>3. CASE /\ ItemClaim(Min(todo[w])) \notin claims
             /\ claims' = claims \cup {ItemClaim(Min(todo[w]))} /\ task' = [task EXCEPT ![w][Min(todo[w])] = "held"]
    BY <1>5, <2>1, <2>3, ClaimShare DEF ClaimItem
  <2>4. QED
    BY <1>5, <2>2, <2>3 DEF ClaimItem
<1>6. CASE Tally(w) \/ (CountLeft(w) /\ ~TurnOff(w))
  <2>1. /\ UNCHANGED <<shard, plan, claims, pl, task, todo>> /\ wpc[w] \notin {"off", "boot"}
        /\ \E q \in {"left", "finish"} : wpc' = [wpc EXCEPT ![w] = q]
    BY <1>6 DEF Tally, CountLeft, run
  <2>2. QED
    BY <2>1 DEF ShareInv, Alive, NothingInHand, Shared, SharedOnce
<1>7. CASE WorkerEnds(w) \/ WorkerStops(w) \/ (CountLeft(w) /\ TurnOff(w))
  BY <1>7, TurnOffShare DEF WorkerEnds, WorkerStops, CountLeft, run
<1>8. QED
  BY <1>1, <1>2, <1>3, <1>4, <1>5, <1>6, <1>7 DEF MainStep

\* Every step preserves the invariant.
LEMMA NextShare ==
  ASSUME TypeOK, ShareInv, [Next]_vars
  PROVE  ShareInv'
<1>1. ASSUME UNCHANGED <<run, machine, pl>> PROVE ShareInv'
  BY <1>1, ShareFrame DEF run, machine
<1>2. CASE UNCHANGED vars
  BY <1>1, <1>2 DEF vars
<1>3. ASSUME NEW i \in Items, Store(i) \/ Retention(i) PROVE ShareInv'
  BY <1>1, <1>3 DEF Store, Retention
<1>4. CASE GracePasses
  BY <1>4, ShareFrame DEF GracePasses, machine
<1>5. ASSUME NEW w \in Workers, NEW i \in Items, PoolStep(w, i) PROVE ShareInv'
  <2>1. task[w][i] # "none" /\ UNCHANGED <<wpc, shard, todo, plan, claims, pl>>
    BY <1>5 DEF PoolStep, Take, OpenAndParse, SetFlag, Deliver, WriteDone, BumpRead, BumpWrite, GiveUp, Rest, run
  <2>2. PICK stage : task' = [task EXCEPT ![w][i] = stage]
    BY <1>5, Zenon DEF PoolStep, Take, OpenAndParse, SetFlag, Deliver, WriteDone, BumpRead, BumpWrite, GiveUp, Goto
  <2>3. QED
    BY <2>1, <2>2, ShareFrame, MachineTypes
<1>6. ASSUME NEW c \in Callers, DispatchStep(c) PROVE ShareInv'
  BY <1>1, <1>6 DEF DispatchStep, CreateMarker, RunsWaiting, DispatchWorkflow, RemoveMarker
<1>7. QED
  BY <1>2, <1>3, <1>4, <1>5, <1>6, PlannerShare, MainShare DEF Next

\* A replay of a shard nobody claimed is in the hands of one worker only, of all
\* those that share the orphans at once (shareOrphans' item claims).
THEOREM TakenByOne == Spec => []SharedOnce
<1>1. TypeOK /\ ShareInv /\ [Next]_vars => ShareInv'
  BY NextShare
<1>2. ShareInv => SharedOnce
  BY DEF ShareInv
<1>3. QED
  BY <1>1, <1>2, InitShare, TypeCorrect, PTL DEF Spec

-----------------------------------------------------------------------------
\* The planner's record, and that its call was not asked to dispatch again.
NoForget == \E p, i, s : pl = [pc |-> p, items |-> i, start |-> s, forget |-> FALSE]

\* Who is past the marker, as long as nobody asks for another dispatch.
DispatchInv ==
  /\ dpc \in [Callers -> Dispatching \cup {"no", "marker"}]
  /\ NoForget
  /\ OneDispatcher

\* At first nobody is.
LEMMA InitDispatch == Init => DispatchInv
BY DEF Init, DispatchInv, NoForget, OneDispatcher, Dispatching

\* Steps that leave the marker alone and send a caller out of Dispatch, or to
\* its first request, preserve the invariant.
LEMMA LeavesDispatch ==
  ASSUME DispatchInv, NEW c \in Callers, NEW stage \in {"no", "marker"},
         dpc' = [dpc EXCEPT ![c] = stage], UNCHANGED marker, NoForget'
  PROVE  DispatchInv'
BY DEF DispatchInv, OneDispatcher, Dispatching

\* Every step preserves the invariant.
LEMMA NextDispatch ==
  ASSUME TRUE \notin Options, DispatchInv, [Next]_vars
  PROVE  DispatchInv'
<1> USE DEF Callers
<1>1. CASE UNCHANGED <<marker, dpc>> /\ NoForget'
  BY <1>1 DEF DispatchInv, OneDispatcher
<1>2. CASE UNCHANGED vars
  BY <1>1, <1>2 DEF vars, refresh, DispatchInv, NoForget
<1>3. ASSUME NEW i \in Items, Store(i) \/ Retention(i) PROVE DispatchInv'
  BY <1>1, <1>3 DEF Store, Retention, refresh, DispatchInv, NoForget
<1>4. ASSUME NEW r \in BOOLEAN, PlannerTodo(r) PROVE DispatchInv'
  <2>1. Options \subseteq {FALSE}
    BY ReparseAssumption
  <2>2. PICK q, items :
          /\ q \in (IF r THEN {FALSE} ELSE Options)
          /\ pl' = [pc |-> "list", start |-> {}, forget |-> q, items |-> items]
    BY <1>4, Zenon DEF PlannerTodo
  <2>3. NoForget'
    BY <2>1, <2>2 DEF NoForget
  <2>4. QED
    BY <1>1, <1>4, <2>3 DEF PlannerTodo, refresh
<1>5. CASE PlannerStep
  <2>1. ~PlannerForget
    BY DEF PlannerForget, DispatchInv, NoForget
  <2>2. PICK p, i, s : pl = [pc |-> p, items |-> i, start |-> s, forget |-> FALSE]
    BY DEF DispatchInv, NoForget
  <2>3. ASSUME NEW q, NEW t, pl' = [pl EXCEPT !.pc = q] \/ pl' = [pl EXCEPT !.pc = q, !.start = t]
        PROVE  NoForget'
    BY <2>2, <2>3 DEF NoForget
  <2>4. CASE PlannerList
    <3>1. PICK q, t : pl' = [pl EXCEPT !.pc = q] \/ pl' = [pl EXCEPT !.pc = q, !.start = t]
      BY <2>4, Zenon DEF PlannerList
    <3>2. QED
      BY <1>1, <2>3, <2>4, <3>1 DEF PlannerList, refresh
  <2>5. CASE PlannerOver
    <3>1. NoForget'
      BY <2>5 DEF PlannerOver, PlannerIdle, NoForget
    <3>2. PICK stage \in {"no", "marker"} : dpc' = [dpc EXCEPT ![Planner] = stage]
      BY <2>5 DEF PlannerOver
    <3>3. QED
      BY <2>5, <3>1, <3>2, LeavesDispatch DEF PlannerOver
  <2>6. CASE PlannerPlan \/ PlannerFirst
    <3>1. PICK q, t : pl' = [pl EXCEPT !.pc = q] \/ pl' = [pl EXCEPT !.pc = q, !.start = t]
      BY <2>6, Zenon DEF PlannerPlan, PlannerFirst
    <3>2. QED
      BY <1>1, <2>3, <2>6, <3>1 DEF PlannerPlan, PlannerFirst, refresh
  <2>7. CASE PlannerCreate
    <3>1. PICK t : pl' = [pl EXCEPT !.start = t] \/ PlannerIdle
      BY <2>7 DEF PlannerCreate
    <3>2. NoForget'
      BY <2>2, <3>1 DEF PlannerIdle, NoForget
    <3>3. QED
      BY <1>1, <2>7, <3>2 DEF PlannerCreate, refresh
  <2>8. QED
    BY <1>5, <2>1, <2>4, <2>5, <2>6, <2>7 DEF PlannerStep
<1>6. CASE PlannerStops
  BY <1>6, LeavesDispatch DEF PlannerStops, PlannerIdle, NoForget
<1>7. CASE GracePasses
  BY <1>1, <1>7 DEF GracePasses, refresh, DispatchInv, NoForget
<1>8. ASSUME NEW w \in Workers, MainStep(w) PROVE DispatchInv'
  <2>1. CASE CountLeft(w)
    BY <1>1, <2>1, LeavesDispatch DEF CountLeft, DispatchInv, NoForget
  <2>2. CASE Boot(w) \/ ClaimShard(w) \/ Feed(w)
    BY <1>1, <2>2 DEF Boot, ClaimShard, Feed, refresh, DispatchInv, NoForget
  <2>3. CASE LookForOrphans(w) \/ ClaimItem(w) \/ Tally(w) \/ WorkerEnds(w)
    BY <1>1, <2>3 DEF LookForOrphans, ClaimItem, Tally, WorkerEnds, refresh, DispatchInv, NoForget
  <2>4. QED
    BY <1>8, <2>1, <2>2, <2>3 DEF MainStep
<1>9. ASSUME NEW w \in Workers, WorkerStops(w) PROVE DispatchInv'
  BY <1>9, LeavesDispatch DEF WorkerStops, DispatchInv, NoForget
<1>10. ASSUME NEW w \in Workers, NEW i \in Items, PoolStep(w, i) PROVE DispatchInv'
  BY <1>1, <1>10 DEF PoolStep, Take, OpenAndParse, SetFlag, Deliver, WriteDone, BumpRead, BumpWrite, GiveUp,
     Rest, refresh, DispatchInv, NoForget
<1>11. ASSUME NEW c \in Callers, DispatchStep(c) PROVE DispatchInv'
  <2> UNCHANGED pl
    BY <1>11 DEF DispatchStep, CreateMarker, RunsWaiting, DispatchWorkflow, RemoveMarker
  <2>1. CASE CreateMarker(c)
    BY <2>1 DEF CreateMarker, DGoto, DispatchInv, NoForget, OneDispatcher, Dispatching
  <2>2. CASE RunsWaiting(c) \/ DispatchWorkflow(c)
    BY <2>2 DEF RunsWaiting, DispatchWorkflow, DGoto, DispatchInv, NoForget, OneDispatcher, Dispatching
  <2>3. CASE RemoveMarker(c)
    BY <2>3 DEF RemoveMarker, DGoto, DispatchInv, NoForget, OneDispatcher, Dispatching
  <2>4. QED
    BY <1>11, <2>1, <2>2, <2>3 DEF DispatchStep
<1>12. QED
  BY <1>2, <1>3, <1>4, <1>5, <1>6, <1>7, <1>8, <1>9, <1>10, <1>11 DEF Next

\* However many workers and planner calls find the run finished at once, one is
\* past the dispatched marker, unless a caller asked for another dispatch.
THEOREM DispatchedByOne ==
  ASSUME TRUE \notin Options
  PROVE  Spec => []OneDispatcher
<1>1. DispatchInv /\ [Next]_vars => DispatchInv'
  BY NextDispatch
<1>2. DispatchInv => OneDispatcher
  BY DEF DispatchInv
<1>3. QED
  BY <1>1, <1>2, InitDispatch, PTL DEF Spec

-----------------------------------------------------------------------------
(***************************************************************************)
(* ReparseRun, the end of a run: the page refresh comes after every replay *)
(* of the plan is settled, and without faults the run gets that far.       *)
(***************************************************************************)

\* A replay is flagged for this version only if its parser rejects it, and only
\* such a replay is.
FlagsInv ==
  /\ \A i \in Items : bad[i] = "this" => i \in Rejected
  /\ \A w \in Workers, i \in Items : /\ task[w][i] = "markBad" => i \in Rejected
                                     /\ task[w][i] = "clearBad" => i \notin Rejected

\* A replay that was settled at some time since it was planned: what came back
\* since then was gone.
WasSettled(i) == Settled(i) \/ i \in back

\* A worker's done set is old but true, and what it has seen gone was gone.
KnownTrue(w) ==
  /\ wpc[w] \notin {"left", "finish"} => known[w] \subseteq Marked
  /\ wpc[w] = "left" => \A i \in known[w] \cap plan.items : WasSettled(i)

\* Who dispatches has seen everything in the plan settled, and no new plan is
\* written while anyone does.
RefreshInv ==
  /\ FlagsInv
  /\ \A i \in plan.items \cup pl.items : place[i] # "absent"
  /\ \A w \in Workers : KnownTrue(w)
  /\ \A w \in Workers : dpc[w] # "no" => wpc[w] = "finish"
  /\ dpc[Planner] # "no" => pl.pc = "idle"
  /\ pl.pc = "list" => \A i \in plan.items \ pl.items : WasSettled(i)
  /\ pl.pc = "over" => \A i \in plan.items : WasSettled(i)
  /\ \A c \in Callers : dpc[c] # "no" => \A i \in plan.items : WasSettled(i)

\* At first nobody is near the end of a run.
LEMMA InitRefresh == Init => RefreshInv
BY ReparseAssumption DEF Init, RefreshInv, FlagsInv, KnownTrue, Callers

\* The types of what the vault keeps of a replay
LEMMA VaultTypes ==
  ASSUME TypeOK
  PROVE  /\ place \in [Items -> Places]
         /\ bad \in [Items -> {"none", "older", "this"}]
         /\ done \in [Items -> {"none", "ok", "failed"}]
         /\ fails \in [Items -> 0..MaxFaults]
         /\ back \subseteq Items
BY TypeParts DEF AllTypes, VaultType

\* and of the plan, the planner's call, the done sets read and Dispatch
LEMMA PlanTypes ==
  ASSUME TypeOK
  PROVE  /\ plan \in [items : SUBSET Items, shards : 1..MaxMachines]
         /\ pl \in [pc : {"idle", "list", "over", "plan", "first", "start", "missing"},
                    items : SUBSET Items, start : SUBSET (0..(MaxMachines - 1)), forget : BOOLEAN]
         /\ known \in [Workers -> SUBSET Items]
         /\ dpc \in [Callers -> Dispatching \cup {"no", "marker"}]
BY TypeParts DEF AllTypes, RunType, PlannerType, MainType, RefreshType

\* What a goroutine of the pool does to the vault and to its own stage.
LEMMA PoolVault ==
  ASSUME TypeOK, FlagsInv, NEW w \in Workers, NEW i \in Items, PoolStep(w, i)
  PROVE  /\ FlagsInv'
         /\ UNCHANGED <<place, back>>
         /\ done' = done \/ \E q \in {"ok", "failed"} : done' = [done EXCEPT ![i] = q]
         /\ \A j \in Items : bad[j] = "this" => bad'[j] = "this"
         /\ UNCHANGED <<run, refresh, wpc, known, pl>>
<1> USE VaultTypes, MachineTypes
<1>1. UNCHANGED <<place, back, run, refresh, wpc, known, pl>>
  BY DEF PoolStep, Take, OpenAndParse, SetFlag, Deliver, WriteDone, BumpRead, BumpWrite, GiveUp, Rest, vault, shelf
<1>2. done' = done \/ \E q \in {"ok", "failed"} : done' = [done EXCEPT ![i] = q]
  <2>1. CASE WriteDone(w, i)
    BY <2>1 DEF WriteDone
  <2>2. CASE GiveUp(w, i)
    BY <2>2 DEF GiveUp
  <2>3. CASE ~WriteDone(w, i) /\ ~GiveUp(w, i)
    BY <2>3 DEF PoolStep, Take, OpenAndParse, SetFlag, Deliver, BumpRead, BumpWrite, vault
  <2>4. QED
    BY <2>1, <2>2, <2>3
<1>3. bad' = bad \/ \E q \in {"this", "none"} :
        /\ bad' = [bad EXCEPT ![i] = q]
        /\ q = "this" <=> task[w][i] = "markBad"
        /\ q = "none" <=> task[w][i] = "clearBad"
  <2>1. CASE SetFlag(w, i)
    BY <2>1 DEF SetFlag
  <2>2. CASE ~SetFlag(w, i)
    BY <2>2 DEF PoolStep, Take, OpenAndParse, Deliver, WriteDone, BumpRead, BumpWrite, GiveUp, vault
  <2>3. QED
    BY <2>1, <2>2
<1>4. \A j \in Items : bad[j] = "this" => bad'[j] = "this"
  BY <1>3 DEF FlagsInv
<1>5. \A j \in Items : bad'[j] = "this" => j \in Rejected
  BY <1>3 DEF FlagsInv
<1>6. PICK stage : /\ Goto(w, i, stage)
                   /\ stage = "markBad" => i \in Rejected
                   /\ stage = "clearBad" => i \notin Rejected
  <2>1. CASE OpenAndParse(w, i)
    BY <2>1 DEF OpenAndParse
  <2>2. CASE SetFlag(w, i)
    BY <2>2 DEF SetFlag
  <2>3. CASE ~OpenAndParse(w, i) /\ ~SetFlag(w, i)
    <3>1. PICK stage \in Stages : Goto(w, i, stage) /\ stage \notin {"markBad", "clearBad"}
      BY <2>3, Zenon DEF PoolStep, Take, Deliver, WriteDone, BumpRead, BumpWrite, GiveUp, Stages
    <3>2. QED
      BY <3>1
  <2>4. QED
    BY <2>1, <2>2, <2>3
<1>7. FlagsInv'
  BY <1>5, <1>6 DEF FlagsInv, Goto
<1>8. QED
  BY <1>1, <1>2, <1>4, <1>7

\* What any step does to the vault: markers and verdicts stay, and what comes back
\* is remembered as long as its plan is the newest.
LEMMA VaultGrows ==
  ASSUME TypeOK, FlagsInv, [Next]_vars
  PROVE  /\ FlagsInv'
         /\ \A i \in Items : place[i] # "absent" => place'[i] # "absent"
         /\ Marked \subseteq Marked'
         /\ \/ PlannerPlan /\ UNCHANGED <<place, bad, done, known>>
            \/ /\ UNCHANGED plan /\ back \subseteq back'
               /\ \A i \in plan.items : WasSettled(i) => WasSettled(i)'
               /\ \A i \in plan.items : ~Present(i) /\ Present(i)' => i \in back'
<1> USE VaultTypes, MachineTypes, PlanTypes
<1> DEFINE Grows == /\ UNCHANGED plan /\ back \subseteq back'
                    /\ \A i \in plan.items : WasSettled(i) => WasSettled(i)'
                    /\ \A i \in plan.items : ~Present(i) /\ Present(i)' => i \in back'
           Goal == /\ FlagsInv'
                   /\ \A i \in Items : place[i] # "absent" => place'[i] # "absent"
                   /\ Marked \subseteq Marked'
                   /\ (PlannerPlan /\ UNCHANGED <<place, bad, done, known>>) \/ Grows
<1>1. ASSUME UNCHANGED <<place, bad, done, back, plan>>, FlagsInv' PROVE Goal
  BY <1>1 DEF Marked, WasSettled, Settled, BadNow, Present
<1>2. ASSUME UNCHANGED <<vault, machine, plan>> PROVE Goal
  BY <1>1, <1>2 DEF vault, machine, FlagsInv
<1>3. CASE UNCHANGED vars
  BY <1>2, <1>3 DEF vars, run
<1>4. ASSUME NEW i \in Items, Store(i) PROVE Goal
  <2>1. /\ UNCHANGED <<done, task, plan>> /\ back' = back \cup ({i} \cap plan.items)
        /\ \E p \in {"stored", "served"} : place' = [place EXCEPT ![i] = p]
        /\ \E q \in {"none", "this"} : bad' = [bad EXCEPT ![i] = q] /\ (q = "this" => i \in Rejected)
    BY <1>4 DEF Store, machine, run
  <2>2. FlagsInv'
    BY <2>1 DEF FlagsInv
  <2>3. \A j \in Items : j # i => place'[j] = place[j] /\ bad'[j] = bad[j]
    BY <2>1
  <2>4. \A j \in Items : place[j] # "absent" => place'[j] # "absent"
    BY <2>1
  <2>5. \A j \in plan.items : j = i => j \in back'
    BY <2>1
  <2>6. \A j \in plan.items : WasSettled(j) => WasSettled(j)'
    BY <2>1, <2>3, <2>5 DEF WasSettled, Settled, BadNow
  <2>7. \A j \in plan.items : ~Present(j) /\ Present(j)' => j \in back'
    BY <2>3, <2>5 DEF Present
  <2>8. QED
    BY <2>1, <2>2, <2>4, <2>6, <2>7 DEF Marked
<1>41. ASSUME NEW i \in Items, Retention(i) PROVE Goal
  <2>1. /\ UNCHANGED <<bad, done, task, back, plan>>
        /\ place' = [place EXCEPT ![i] = "removed"]
    BY <1>41 DEF Retention, machine, run
  <2>2. \A j \in Items : place'[j] = place[j] \/ place'[j] = "removed"
    BY <2>1
  <2>3. \A j \in plan.items : WasSettled(j) => WasSettled(j)'
    BY <2>1, <2>2 DEF WasSettled, Settled, BadNow
  <2>4. \A j \in plan.items : ~(~Present(j) /\ Present(j)')
    BY <2>2 DEF Present
  <2>5. QED
    BY <2>1, <2>2, <2>3, <2>4 DEF FlagsInv, Marked
<1>5. ASSUME NEW r \in BOOLEAN, PlannerTodo(r) PROVE Goal
  BY <1>2, <1>5 DEF PlannerTodo, run
<1>6. CASE PlannerStep \/ PlannerStops \/ GracePasses
  <2>1. CASE PlannerPlan
    BY <2>1 DEF PlannerPlan, machine, FlagsInv, Marked
  <2>2. CASE ~PlannerPlan
    BY <1>1, <1>6, <2>2 DEF PlannerStep, PlannerList, PlannerForget, PlannerOver, PlannerFirst, PlannerCreate,
       StartMachine, PlannerStops, GracePasses, vault, machine, run, FlagsInv
  <2>3. QED
    BY <2>1, <2>2
<1>7. ASSUME NEW w \in Workers, MainStep(w) \/ WorkerStops(w) PROVE Goal
  <2>1. UNCHANGED <<place, bad, done, back, plan>>
    BY <1>7 DEF MainStep, Boot, ClaimShard, Feed, LookForOrphans, ClaimItem, Tally, CountLeft, WorkerEnds, WorkerStops,
       vault, run
  <2>2. \/ UNCHANGED task
        \/ \E i, q : q \in {"open", "held"} /\ task' = [task EXCEPT ![w][i] = q]
        \/ task' = [task EXCEPT ![w] = [i \in Items |-> "none"]]
    BY <1>7, Zenon DEF MainStep, Boot, ClaimShard, Feed, LookForOrphans, ClaimItem, Tally, CountLeft, WorkerEnds, WorkerStops, TurnOff
  <2>3. FlagsInv'
    BY <2>1, <2>2 DEF FlagsInv
  <2>4. QED
    BY <1>1, <2>1, <2>3
<1>8. ASSUME NEW w \in Workers, NEW i \in Items, PoolStep(w, i) PROVE Goal
  BY <1>8, PoolVault DEF Marked, WasSettled, Settled, BadNow, Present, run
<1>9. ASSUME NEW c \in Callers, DispatchStep(c) PROVE Goal
  BY <1>2, <1>9 DEF DispatchStep, CreateMarker, RunsWaiting, DispatchWorkflow, RemoveMarker, run
<1>10. QED
  BY <1>3, <1>4, <1>41, <1>5, <1>6, <1>7, <1>8, <1>9 DEF Next

\* What steps that leave the planner, the plan, the done sets and Dispatch alone do.
LEMMA RefreshFrame ==
  ASSUME TypeOK, RefreshInv, [Next]_vars, ~PlannerPlan, UNCHANGED <<pl, plan, known, dpc>>,
         \A w \in Workers : wpc'[w] = wpc[w] \/ {wpc[w], wpc'[w]} \cap {"left", "finish"} = {}
  PROVE  RefreshInv'
<1> USE PlanTypes
<1>1. /\ FlagsInv'
      /\ \A i \in Items : place[i] # "absent" => place'[i] # "absent"
      /\ Marked \subseteq Marked'
      /\ \A i \in plan.items : WasSettled(i) => WasSettled(i)'
  BY VaultGrows DEF RefreshInv
<1>2. (\A i \in plan.items \cup pl.items : place[i] # "absent")'
  BY <1>1 DEF RefreshInv
<1>3. (\A w \in Workers : KnownTrue(w))'
  <2> SUFFICES ASSUME NEW w \in Workers PROVE KnownTrue(w)'
    OBVIOUS
  <2>1. KnownTrue(w)
    BY DEF RefreshInv
  <2>2. QED
    BY <1>1, <2>1 DEF KnownTrue
<1>4. (\A w \in Workers : dpc[w] # "no" => wpc[w] = "finish")'
  BY DEF RefreshInv
<1>5. (dpc[Planner] # "no" => pl.pc = "idle")'
  BY DEF RefreshInv
<1>6. (pl.pc = "list" => \A i \in plan.items \ pl.items : WasSettled(i))'
  BY <1>1 DEF RefreshInv
<1>7. (pl.pc = "over" => \A i \in plan.items : WasSettled(i))'
  BY <1>1 DEF RefreshInv
<1>8. (\A c \in Callers : dpc[c] # "no" => \A i \in plan.items : WasSettled(i))'
  BY <1>1 DEF RefreshInv
<1>9. QED
  BY <1>1, <1>2, <1>3, <1>4, <1>5, <1>6, <1>7, <1>8 DEF RefreshInv

\* The planner: what its to-do list leaves out of the plan is settled.
LEMMA PlannerRefresh ==
  ASSUME TypeOK, RefreshInv, ShareInv, PlannerStep \/ PlannerStops \/ (\E r \in BOOLEAN : PlannerTodo(r))
  PROVE  RefreshInv'
<1> USE PlanTypes, ReparseAssumption
<1>1. UNCHANGED <<place, bad, done, known, task>> /\ (UNCHANGED <<back, plan>> \/ PlannerPlan)
  BY DEF PlannerStep, PlannerList, PlannerForget, PlannerOver, PlannerPlan, PlannerFirst, PlannerCreate,
     StartMachine, PlannerStops, PlannerTodo, machine, vault, run
<1>2. /\ FlagsInv'
      /\ Marked' = Marked
      /\ \A i \in Items : Settled(i)' = Settled(i)
      /\ ~PlannerPlan => \A i \in Items : WasSettled(i)' = WasSettled(i)
      /\ UNCHANGED place
  BY <1>1 DEF RefreshInv, FlagsInv, Marked, WasSettled, Settled, BadNow
<1>3. \A w \in Workers : wpc'[w] = wpc[w] \/ (wpc[w] = "off" /\ wpc'[w] = "boot")
  <2>1. CASE PlannerCreate
    <3>1. UNCHANGED wpc \/ \E w \in Workers \ Alive : wpc' = [wpc EXCEPT ![w] = "boot"]
      BY <2>1 DEF PlannerCreate, StartMachine, machine
    <3>2. QED
      BY <3>1, MachineTypes DEF Alive
  <2>2. CASE ~PlannerCreate
    BY <2>2 DEF PlannerStep, PlannerList, PlannerForget, PlannerOver, PlannerPlan, PlannerFirst,
       PlannerStops, PlannerTodo, machine
  <2>3. QED
    BY <2>1, <2>2
<1>31. (\A w \in Workers : KnownTrue(w))'
  <2> SUFFICES ASSUME NEW w \in Workers PROVE KnownTrue(w)'
    OBVIOUS
  <2>1. KnownTrue(w)
    BY DEF RefreshInv
  <2>2. CASE PlannerPlan
    <3>1. wpc[w] = "off" /\ UNCHANGED wpc
      BY <2>2 DEF PlannerPlan, ShareInv, Alive, machine
    <3>2. QED
      BY <1>1, <1>2, <2>1, <3>1 DEF KnownTrue
  <2>3. CASE ~PlannerPlan
    BY <1>1, <1>2, <1>3, <2>1, <2>3 DEF KnownTrue
  <2>4. QED
    BY <2>2, <2>3
<1>32. ASSUME UNCHANGED back PROVE \A i \in Items : WasSettled(i)' = WasSettled(i)
  BY <1>2, <1>32 DEF WasSettled
<1>4. ASSUME NEW r \in BOOLEAN, PlannerTodo(r) PROVE RefreshInv'
  <2>0. \A i \in Items : WasSettled(i)' = WasSettled(i)
    BY <1>32, <1>4 DEF PlannerTodo, vault
  <2> DEFINE S == {i \in Items \ (Marked \cup BadNow) :
                     place[i] \in {"stored"} \cup (IF r THEN {} ELSE {"served"})}
  <2>1. pl'.pc = "list" /\ pl'.items = S
    <3>1. PICK q : pl' = [pc |-> "list", start |-> {}, forget |-> q, items |-> S]
      BY <1>4, Zenon DEF PlannerTodo
    <3>2. QED
      BY <3>1
  <2>2. UNCHANGED <<plan, dpc, wpc>> /\ dpc[Planner] = "no"
    BY <1>4 DEF PlannerTodo, run, refresh, machine
  <2>3. \A i \in S : place[i] # "absent"
    OBVIOUS
  <2>4. \A i \in plan.items \ S : WasSettled(i)
    <3> SUFFICES ASSUME NEW i \in plan.items, i \notin S PROVE WasSettled(i)
      OBVIOUS
    <3>1. i \in Items /\ place[i] \in {"stored", "served", "removed"}
      BY VaultTypes DEF RefreshInv, Places
    <3>2. QED
      BY <3>1 DEF WasSettled, Settled, Marked
  <2> HIDE DEF S
  <2>5. QED
    BY <1>2, <1>31, <2>0, <2>1, <2>2, <2>3, <2>4 DEF RefreshInv
<1>5. CASE PlannerList
  <2>0. \A i \in Items : WasSettled(i)' = WasSettled(i)
    BY <1>32, <1>5 DEF PlannerList, vault
  <2>1. UNCHANGED <<plan, dpc, wpc>> /\ pl.pc = "list"
    BY <1>5 DEF PlannerList, run, refresh, machine
  <2>2. pl'.items = pl.items /\ pl'.pc \in {"over", "missing", "plan"} /\ (pl'.pc = "over" => pl.items = {})
    BY <1>5 DEF PlannerList
  <2>3. pl'.pc = "over" => \A i \in plan.items : WasSettled(i)
    BY <2>1, <2>2 DEF RefreshInv
  <2>4. QED
    BY <1>2, <1>31, <2>0, <2>1, <2>2, <2>3 DEF RefreshInv
<1>6. CASE PlannerForget
  <2>0. \A i \in Items : WasSettled(i)' = WasSettled(i)
    BY <1>32, <1>6 DEF PlannerForget, vault
  <2>1. UNCHANGED <<plan, dpc, wpc>> /\ pl'.pc = pl.pc /\ pl'.items = pl.items
    BY <1>6 DEF PlannerForget, run, machine
  <2>2. QED
    BY <1>2, <1>31, <2>0, <2>1 DEF RefreshInv
<1>7. CASE PlannerOver
  <2>0. \A i \in Items : WasSettled(i)' = WasSettled(i)
    BY <1>32, <1>7 DEF PlannerOver, vault
  <2>1. /\ UNCHANGED <<plan, wpc>> /\ pl.pc = "over"
        /\ PlannerIdle
        /\ \E stage \in {"no", "marker"} : dpc' = [dpc EXCEPT ![Planner] = stage]
    BY <1>7 DEF PlannerOver, run, machine
  <2>2. pl'.pc = "idle" /\ pl'.items = {}
    BY <2>1 DEF PlannerIdle
  <2>3. \A i \in plan.items : WasSettled(i)
    BY <2>1 DEF RefreshInv
  <2>4. \A w \in Workers : dpc'[w] = dpc[w]
    BY <2>1 DEF Callers
  <2>5. QED
    BY <1>2, <1>31, <2>0, <2>1, <2>2, <2>3, <2>4 DEF RefreshInv
<1>8. CASE PlannerPlan
  <2>1. /\ UNCHANGED <<dpc, wpc>> /\ pl.pc = "plan"
        /\ plan'.items = pl.items /\ pl'.items = pl.items /\ pl'.pc = "first"
    BY <1>8 DEF PlannerPlan, refresh, machine
  <2>2. Alive = {}
    BY <2>1 DEF ShareInv
  <2>3. \A c \in Callers : dpc[c] = "no"
    <3>1. \A w \in Workers : dpc[w] = "no"
      BY <2>2 DEF RefreshInv, Alive
    <3>2. dpc[Planner] = "no"
      BY <2>1 DEF RefreshInv
    <3>3. QED
      BY <3>1, <3>2 DEF Callers
  <2>4. QED
    BY <1>2, <1>31, <2>1, <2>3 DEF RefreshInv
<1>9. CASE PlannerFirst
  <2>0. \A i \in Items : WasSettled(i)' = WasSettled(i)
    BY <1>32, <1>9 DEF PlannerFirst, vault
  <2>1. UNCHANGED <<plan, dpc, wpc>> /\ pl.pc = "first" /\ pl'.pc = "start" /\ pl'.items = pl.items
    BY <1>9 DEF PlannerFirst, refresh, machine
  <2>2. dpc[Planner] = "no"
    BY <2>1 DEF RefreshInv
  <2>3. QED
    BY <1>2, <1>31, <2>0, <2>1, <2>2 DEF RefreshInv
<1>10. CASE PlannerCreate
  <2>0. \A i \in Items : WasSettled(i)' = WasSettled(i)
    BY <1>32, <1>10 DEF PlannerCreate, vault
  <2>1. UNCHANGED <<plan, dpc>> /\ pl.pc \in {"start", "missing"}
    BY <1>10 DEF PlannerCreate, run, refresh
  <2>2. \/ pl'.pc = pl.pc /\ pl'.items = pl.items
        \/ pl'.pc = "idle" /\ pl'.items = {}
    BY <1>10 DEF PlannerCreate, PlannerIdle
  <2>3. QED
    BY <1>2, <1>31, <2>0, <1>3, <2>1, <2>2 DEF RefreshInv
<1>11. CASE PlannerStops
  <2>0. \A i \in Items : WasSettled(i)' = WasSettled(i)
    BY <1>32, <1>11 DEF PlannerStops, vault
  <2>1. UNCHANGED <<plan, wpc>> /\ PlannerIdle /\ dpc' = [dpc EXCEPT ![Planner] = "no"]
    BY <1>11 DEF PlannerStops, run, machine
  <2>2. pl'.pc = "idle" /\ pl'.items = {}
    BY <2>1 DEF PlannerIdle
  <2>3. QED
    BY <1>2, <1>31, <2>0, <2>1, <2>2 DEF RefreshInv, Callers
<1>12. QED
  BY <1>4, <1>5, <1>6, <1>7, <1>8, <1>9, <1>10, <1>11 DEF PlannerStep

\* The main goroutine: what it no longer counts as left is settled.
LEMMA MainRefresh ==
  ASSUME TypeOK, RefreshInv, NEW w \in Workers, MainStep(w) \/ WorkerStops(w)
  PROVE  RefreshInv'
<1> USE PlanTypes, MachineTypes
<1>0. [Next]_vars
  BY DEF Next
<1>1. /\ FlagsInv'
      /\ UNCHANGED <<vault, pl, plan>>
  <2>1. UNCHANGED <<vault, pl, plan>>
    BY DEF MainStep, Boot, ClaimShard, Feed, LookForOrphans, ClaimItem, Tally, CountLeft, WorkerEnds, WorkerStops, run
  <2>2. QED
    BY <1>0, <2>1, VaultGrows DEF RefreshInv
<1>2. /\ Marked' = Marked
      /\ \A i \in Items : WasSettled(i)' = WasSettled(i)
      /\ UNCHANGED place
  BY <1>1 DEF Marked, WasSettled, Settled, BadNow, vault
<1>21. \A v \in Workers : KnownTrue(v)
  BY DEF RefreshInv
<1>22. ~PlannerPlan
  BY <1>1 DEF PlannerPlan
<1>3. ASSUME UNCHANGED <<known, dpc>>,
             \A v \in Workers : wpc'[v] = wpc[v] \/ {wpc[v], wpc'[v]} \cap {"left", "finish"} = {}
      PROVE  RefreshInv'
  BY <1>0, <1>1, <1>3, <1>22, RefreshFrame
<1>31. ASSUME NEW q, wpc' = [wpc EXCEPT ![w] = q], known' = [known EXCEPT ![w] = Marked], UNCHANGED dpc, wpc[w] # "finish"
       PROVE  RefreshInv'
  <2>1. \A v \in Workers : v # w => KnownTrue(v)'
    BY <1>1, <1>2, <1>21, <1>31 DEF KnownTrue
  <2>2. \A i \in Marked : WasSettled(i)'
    BY <1>2 DEF Marked, WasSettled, Settled
  <2>3. KnownTrue(w)'
    BY <1>2, <1>31, <2>2 DEF KnownTrue
  <2>4. (\A v \in Workers : dpc[v] # "no" => wpc[v] = "finish")'
    BY <1>31 DEF RefreshInv
  <2>5. QED
    BY <1>1, <1>2, <1>31, <2>1, <2>3, <2>4 DEF RefreshInv
<1>4. CASE Boot(w)
  BY <1>4, <1>31 DEF Boot, refresh
<1>5. CASE ClaimShard(w) \/ Feed(w)
  <2>1. UNCHANGED <<known, dpc>> /\ wpc[w] \in {"claim", "feed"}
        /\ (UNCHANGED wpc \/ \E q \in {"feed", "share"} : wpc' = [wpc EXCEPT ![w] = q])
    BY <1>5 DEF ClaimShard, Feed, refresh
  <2>2. QED
    BY <1>3, <2>1
<1>6. CASE LookForOrphans(w) \/ ClaimItem(w)
  BY <1>3, <1>6 DEF LookForOrphans, ClaimItem, refresh
<1>7. CASE Tally(w)
  BY <1>7, <1>31 DEF Tally, refresh
<1>8. ASSUME TurnOff(w), dpc[w] = "no" \/ dpc' = [dpc EXCEPT ![w] = "no"], dpc' = dpc \/ dpc' = [dpc EXCEPT ![w] = "no"]
      PROVE  RefreshInv'
  <2>1. wpc' = [wpc EXCEPT ![w] = "off"] /\ known' = [known EXCEPT ![w] = {}]
    BY <1>8 DEF TurnOff
  <2>2. \A c \in Callers : dpc'[c] # "no" => dpc[c] # "no" /\ c # w
    BY <1>8 DEF Callers
  <2>3. (\A v \in Workers : dpc[v] # "no" => wpc[v] = "finish")'
    BY <2>1, <2>2 DEF RefreshInv, Callers
  <2>4. (\A v \in Workers : KnownTrue(v))'
    BY <1>1, <1>2, <1>21, <2>1 DEF KnownTrue
  <2>5. Planner \in Callers
    BY DEF Callers
  <2>6. QED
    BY <1>1, <1>2, <2>2, <2>3, <2>4, <2>5 DEF RefreshInv
<1>9. CASE CountLeft(w) /\ TurnOff(w) /\ UNCHANGED dpc
  <2>1. dpc[w] = "no"
    BY <1>9 DEF CountLeft, RefreshInv
  <2>2. QED
    BY <1>8, <1>9, <2>1
<1>91. ASSUME NEW k \in plan.items \ known[w], ~Present(k), wpc[w] = "left",
              known' = [known EXCEPT ![w] = @ \cup {k}], UNCHANGED <<wpc, dpc>>
       PROVE  RefreshInv'
  <2>1. WasSettled(k)
    <3>1. place[k] # "absent" /\ k \in Items
      BY <1>91 DEF RefreshInv
    <3>2. QED
      BY <1>91, <3>1, VaultTypes DEF Present, Places, WasSettled, Settled
  <2>2. (\A v \in Workers : KnownTrue(v))'
    BY <1>1, <1>2, <1>21, <1>91, <2>1 DEF KnownTrue
  <2>3. QED
    BY <1>1, <1>2, <1>91, <2>2 DEF RefreshInv
<1>92. CASE /\ CountLeft(w) /\ ~Present(Min(plan.items \ known[w])) /\ plan.items \ known[w] # {}
            /\ known' = [known EXCEPT ![w] = @ \cup {Min(plan.items \ known[w])}]
            /\ UNCHANGED <<wpc, dpc>>
  <2>1. Min(plan.items \ known[w]) \in plan.items \ known[w]
    BY <1>92, LeastOf, ReparseAssumption
  <2>2. QED
    BY <1>91, <1>92, <2>1 DEF CountLeft
<1>10. CASE /\ CountLeft(w) /\ plan.items \subseteq known[w]
            /\ wpc' = [wpc EXCEPT ![w] = "finish"] /\ dpc' = [dpc EXCEPT ![w] = "marker"] /\ UNCHANGED known
  <2>1. \A i \in plan.items : WasSettled(i)
    BY <1>10, <1>21 DEF CountLeft, KnownTrue
  <2>2. (\A v \in Workers : dpc[v] # "no" => wpc[v] = "finish")'
    BY <1>10 DEF RefreshInv, Callers
  <2>3. dpc'[Planner] = dpc[Planner]
    BY <1>10, ReparseAssumption DEF Callers
  <2>4. (\A v \in Workers : KnownTrue(v))'
    BY <1>1, <1>2, <1>21, <1>10 DEF KnownTrue
  <2>5. QED
    BY <1>1, <1>2, <1>10, <2>1, <2>2, <2>3, <2>4 DEF RefreshInv
<1>11. CASE WorkerEnds(w)
  BY <1>8, <1>11 DEF WorkerEnds, refresh
<1>12. CASE WorkerStops(w)
  BY <1>8, <1>12 DEF WorkerStops
<1>13. CASE CountLeft(w)
  <2>1. \/ TurnOff(w) /\ UNCHANGED dpc
        \/ /\ ~Present(Min(plan.items \ known[w])) /\ plan.items \ known[w] # {}
           /\ known' = [known EXCEPT ![w] = @ \cup {Min(plan.items \ known[w])}]
           /\ UNCHANGED <<wpc, dpc>>
        \/ /\ plan.items \subseteq known[w] /\ UNCHANGED known
           /\ wpc' = [wpc EXCEPT ![w] = "finish"] /\ dpc' = [dpc EXCEPT ![w] = "marker"]
    BY <1>13 DEF CountLeft
  <2>2. QED
    BY <1>9, <1>92, <1>10, <1>13, <2>1
<1>14. QED
  BY <1>4, <1>5, <1>6, <1>7, <1>11, <1>12, <1>13 DEF MainStep

\* Every step preserves the invariant.
LEMMA NextRefresh ==
  ASSUME TypeOK, ShareInv, RefreshInv, [Next]_vars
  PROVE  RefreshInv'
<1> USE PlanTypes
<1>0. ASSUME UNCHANGED <<pl, plan, known, dpc, wpc>> PROVE RefreshInv'
  <2>1. ~PlannerPlan
    BY <1>0 DEF PlannerPlan
  <2>2. QED
    BY <1>0, <2>1, RefreshFrame
<1>1. CASE UNCHANGED vars
  BY <1>0, <1>1 DEF vars, run, refresh, machine
<1>2. ASSUME NEW i \in Items, Store(i) \/ Retention(i) PROVE RefreshInv'
  BY <1>0, <1>2 DEF Store, Retention, run, refresh, machine
<1>3. CASE GracePasses
  BY <1>0, <1>3 DEF GracePasses, refresh, machine
<1>4. ASSUME NEW w \in Workers, NEW i \in Items, PoolStep(w, i) PROVE RefreshInv'
  BY <1>0, <1>4, PoolVault DEF RefreshInv, run, refresh
<1>5. ASSUME NEW c \in Callers, DispatchStep(c) PROVE RefreshInv'
  <2>1. /\ dpc[c] # "no" /\ \E stage : dpc' = [dpc EXCEPT ![c] = stage]
        /\ UNCHANGED <<vault, plan, pl, known, wpc, task>>
    BY <1>5, Zenon DEF DispatchStep, CreateMarker, RunsWaiting, DispatchWorkflow, RemoveMarker, DGoto, run, machine
  <2>2. \A d \in Callers : dpc'[d] # "no" => dpc[d] # "no"
    BY <2>1
  <2>3. FlagsInv' /\ Marked' = Marked /\ (\A i \in Items : WasSettled(i)' = WasSettled(i)) /\ UNCHANGED place
    BY <2>1 DEF RefreshInv, FlagsInv, Marked, WasSettled, Settled, BadNow, vault
  <2>4. (\A w \in Workers : KnownTrue(w))'
    BY <2>1, <2>3 DEF RefreshInv, KnownTrue
  <2>5. QED
    BY <2>1, <2>2, <2>3, <2>4 DEF RefreshInv, Callers
<1>6. QED
  BY <1>1, <1>2, <1>3, <1>4, <1>5, PlannerRefresh, MainRefresh DEF Next

\* The page refresh is triggered only when every replay of the plan has a marker,
\* is gone, was rejected or was parsed by the server, or was gone and came back
\* since the plan was written (Dispatch after Run's count, or after a planner call
\* that found nothing missing).
THEOREM RefreshComesLast == Spec => RefreshAfterAll
<1>1. TypeOK /\ ShareInv /\ RefreshInv /\ [Next]_vars => RefreshInv'
  BY NextRefresh
<1>2. ASSUME RefreshInv, [Next]_vars, refreshed' # refreshed PROVE \A i \in plan.items : Settled(i) \/ i \in back
  <2>1. ~UNCHANGED vars /\ \A i \in Items : ~Store(i) /\ ~Retention(i)
    BY <1>2 DEF vars, refresh, Store, Retention
  <2>2. ~PlannerStep /\ ~PlannerStops /\ ~GracePasses /\ \A r \in BOOLEAN : ~PlannerTodo(r)
    BY <1>2 DEF PlannerStep, PlannerList, PlannerForget, PlannerOver, PlannerPlan, PlannerFirst, PlannerCreate,
       PlannerStops, GracePasses, PlannerTodo, refresh
  <2>3. \A w \in Workers : ~MainStep(w) /\ ~WorkerStops(w)
    BY <1>2 DEF MainStep, Boot, ClaimShard, Feed, LookForOrphans, ClaimItem, Tally, CountLeft, WorkerEnds, WorkerStops,
       refresh
  <2>4. \A w \in Workers, i \in Items : ~PoolStep(w, i)
    BY <1>2 DEF PoolStep, Take, OpenAndParse, SetFlag, Deliver, WriteDone, BumpRead, BumpWrite, GiveUp, Rest, refresh
  <2>5. PICK c \in Callers : DispatchStep(c)
    BY <1>2, <2>1, <2>2, <2>3, <2>4 DEF Next
  <2>6. dpc[c] # "no"
    BY <2>5 DEF DispatchStep, CreateMarker, RunsWaiting, DispatchWorkflow, RemoveMarker
  <2>7. QED
    BY <1>2, <2>6 DEF RefreshInv, WasSettled
<1>3. RefreshInv /\ [Next]_vars => [refreshed' # refreshed => \A i \in plan.items : Settled(i) \/ i \in back]_vars
  BY <1>2
<1>4. TypeOK /\ ShareInv /\ [Next]_vars => ShareInv'
  BY NextShare
<1>5. QED
  BY <1>1, <1>3, <1>4, InitRefresh, InitShare, TypeCorrect, PTL DEF Spec, RefreshAfterAll

-----------------------------------------------------------------------------
\* A replay of the plan that still has to be parsed, and one a goroutine has in hand
Open(i) == i \in plan.items /\ Present(i) /\ done[i] = "none"
Held(i) == \E w \in Workers : task[w][i] # "none"

\* Some worker has the replay in hand or will send it to its pool.
Coming(i) == Held(i) \/ \E w \in Workers : wpc[w] = "feed" /\ i \in todo[w]

\* Nothing failed, the run was started, nobody has got to the marker, and no
\* replay of the plan was gone and came back.
Undisturbed == faults = 0 /\ first /\ ~marker /\ NoneBack

\* What the claim of an open replay, or of its shard, stands for
ClaimsStand ==
  \A i \in Items : Open(i) =>
    /\ ItemClaim(i) \in claims => Held(i)
    /\ ShardClaim(Shard(i, plan.shards)) \in claims => Coming(i)

\* What a worker has seen to so far: its own shard, then those it looked at
ShardSeen(w) ==
  /\ wpc[w] = "claim" => \A i \in Items : Open(i) /\ Shard(i, plan.shards) = shard[w] => i \in todo[w]
  /\ wpc[w] \in {"feed", "share", "left", "finish"} => ShardClaim(shard[w]) \in claims
  /\ wpc[w] \in {"share", "left", "finish"} =>
       \A i \in Items : Open(i) =>
         \/ Held(i) \/ i \in todo[w] \/ Shard(i, plan.shards) \in scan[w]
         \/ ShardClaim(Shard(i, plan.shards)) \in claims

\* A worker that will find everything done: it has yet to read the done set
\* again, or read it when all was done.
WillDispatch(w) ==
  \/ wpc[w] \in {"boot", "claim", "feed", "share"}
  \/ wpc[w] = "left" /\ \A i \in plan.items \ known[w] : ~Present(i)
  \/ wpc[w] = "finish" /\ dpc[w] = "marker"

\* The run is on its way to the marker: a worker will get there, or the first of
\* them is about to be started.
Underway ==
  /\ ClaimsStand
  /\ \A w \in Workers : ShardSeen(w)
  /\ \/ \E w \in Workers : WillDispatch(w)
     \/ Alive = {} /\ pl.pc \in {"first", "start"} /\ pl.start # {}

\* What holds of a run at all times
AtRest ==
  /\ pl.pc = "first" => Alive = {} /\ claims = {} /\ pl.start # {}
  /\ faults = 0 => \A c \in Callers : dpc[c] # "unmark"
  /\ \A w \in Workers : /\ wpc[w] \notin {"feed", "share"} => Idle(w)
                        /\ wpc[w] \in {"left", "finish"} => todo[w] = {} /\ scan[w] = {}

LastInv == AtRest /\ (Undisturbed => Underway)

\* No run is started at first.
LEMMA InitLast == Init => LastInv
BY DEF Init, LastInv, AtRest, Undisturbed, Callers, Idle

\* The types of what only the end of a run needs
LEMMA CountTypes ==
  ASSUME TypeOK
  PROVE  /\ faults \in 0..MaxFaults
         /\ count \in [Workers -> [Items -> 0..MaxFaults]]
         /\ scan \in [Workers -> SUBSET (0..(MaxMachines - 1))]
         /\ marker \in BOOLEAN /\ first \in BOOLEAN
BY TypeParts DEF AllTypes, FaultsType, PoolType, MainType, RefreshType, RunType

\* As long as none comes back, replays of the plan are settled, never opened again.
LEMMA OpenShrinks ==
  ASSUME TypeOK, RefreshInv, [Next]_vars, ~PlannerPlan, NoneBack'
  PROVE  /\ \A i \in Items : Open(i)' => Open(i)
         /\ \A i \in plan.items : Present(i)' => Present(i)
<1>1. /\ Marked \subseteq Marked' /\ UNCHANGED plan
      /\ \A i \in plan.items : ~Present(i) /\ Present(i)' => i \in back'
  BY VaultGrows DEF RefreshInv
<1>2. plan.items \subseteq Items
  BY PlanTypes
<1>3. \A i \in plan.items : Present(i)' => Present(i)
  BY <1>1 DEF NoneBack
<1>4. \A i \in Items : Open(i)' => Open(i)
  BY <1>1, <1>3 DEF Open, Marked
<1>5. QED
  BY <1>3, <1>4

\* A step that only makes the machines and the planner do nothing new
LEMMA UnderwayFrame ==
  ASSUME TypeOK, RefreshInv, [Next]_vars, Underway, ~PlannerPlan, NoneBack',
         UNCHANGED <<plan, claims, wpc, shard, known, todo, scan, task>>,
         \A w \in Workers : dpc'[w] = dpc[w],
         pl.pc \in {"first", "start"} => UNCHANGED pl
  PROVE  Underway'
<1>1. /\ \A i \in Items : Open(i)' => Open(i)
      /\ \A i \in plan.items : Present(i)' => Present(i)
  BY OpenShrinks
<1>2. \A i \in Items : (Held(i)' <=> Held(i)) /\ (Coming(i)' <=> Coming(i))
  BY DEF Held, Coming
<1>3. ClaimsStand'
  BY <1>1, <1>2 DEF Underway, ClaimsStand
<1>4. \A w \in Workers : ShardSeen(w)'
  BY <1>1, <1>2 DEF Underway, ShardSeen
<1>5. \A w \in Workers : WillDispatch(w) => WillDispatch(w)'
  BY <1>1 DEF WillDispatch
<1>6. QED
  BY <1>3, <1>4, <1>5 DEF Underway, Alive

\* What any step may do to the faults, the marker and the start of the run
LEMMA StepEffects ==
  ASSUME [Next]_vars
  PROVE  /\ UNCHANGED faults \/ Fault
         /\ UNCHANGED marker \/ PlannerForget \/ \E c \in Callers : CreateMarker(c) \/ RemoveMarker(c)
         /\ UNCHANGED first \/ PlannerFirst
<1> DEFINE Goal == /\ UNCHANGED faults \/ Fault
                   /\ UNCHANGED marker \/ PlannerForget \/ \E c \in Callers : CreateMarker(c) \/ RemoveMarker(c)
                   /\ UNCHANGED first \/ PlannerFirst
<1>1. CASE UNCHANGED vars
  BY <1>1 DEF vars, run, refresh
<1>2. ASSUME NEW i \in Items, Store(i) \/ Retention(i) PROVE Goal
  BY <1>2 DEF Store, Retention, run, refresh
<1>3. ASSUME NEW r \in BOOLEAN, PlannerTodo(r) PROVE Goal
  BY <1>3 DEF PlannerTodo, run, refresh
<1>4. CASE PlannerStep \/ PlannerStops \/ GracePasses
  <2>1. UNCHANGED faults \/ Fault
    BY <1>4 DEF PlannerStep, PlannerList, PlannerForget, PlannerOver, PlannerPlan, PlannerFirst, PlannerCreate,
       PlannerStops, GracePasses, NoFault
  <2>2. UNCHANGED marker \/ PlannerForget
    BY <1>4 DEF PlannerStep, PlannerList, PlannerOver, PlannerPlan, PlannerFirst, PlannerCreate,
       PlannerStops, GracePasses, refresh
  <2>3. UNCHANGED first \/ PlannerFirst
    BY <1>4 DEF PlannerStep, PlannerList, PlannerForget, PlannerOver, PlannerPlan, PlannerCreate,
       PlannerStops, GracePasses, run
  <2>4. QED
    BY <2>1, <2>2, <2>3
<1>5. ASSUME NEW w \in Workers, MainStep(w) \/ WorkerStops(w) PROVE Goal
  <2>1. UNCHANGED faults \/ Fault
    BY <1>5 DEF MainStep, Boot, ClaimShard, Feed, LookForOrphans, ClaimItem, Tally, CountLeft, WorkerEnds, WorkerStops, NoFault
  <2>2. UNCHANGED <<marker, first>>
    BY <1>5 DEF MainStep, Boot, ClaimShard, Feed, LookForOrphans, ClaimItem, Tally, CountLeft, WorkerEnds, WorkerStops,
       run, refresh
  <2>3. QED
    BY <2>1, <2>2
<1>6. ASSUME NEW w \in Workers, NEW i \in Items, PoolStep(w, i) PROVE Goal
  <2>1. UNCHANGED faults \/ Fault
    BY <1>6 DEF PoolStep, Take, OpenAndParse, SetFlag, Deliver, WriteDone, BumpRead, BumpWrite, GiveUp, NoFault
  <2>2. UNCHANGED <<run, refresh>>
    BY <1>6 DEF PoolStep, Take, OpenAndParse, SetFlag, Deliver, WriteDone, BumpRead, BumpWrite, GiveUp, Rest
  <2>3. QED
    BY <2>1, <2>2 DEF run, refresh
<1>7. ASSUME NEW c \in Callers, DispatchStep(c) PROVE Goal
  BY <1>7 DEF DispatchStep, CreateMarker, RunsWaiting, DispatchWorkflow, RemoveMarker, NoFault, run
<1>8. QED
  BY <1>1, <1>2, <1>3, <1>4, <1>5, <1>6, <1>7 DEF Next

\* With a planner that forgets nothing and no faults, the marker once made stays.
LEMMA StaysUndisturbed ==
  ASSUME TypeOK, RefreshInv, DispatchInv, LastInv, [Next]_vars, Undisturbed'
  PROVE  /\ UNCHANGED faults /\ ~Fault /\ ~marker /\ faults = 0
         /\ first \/ PlannerFirst
         /\ NoneBack \/ PlannerPlan
<1>1. faults \in Nat /\ faults' = 0
  BY CountTypes DEF Undisturbed
<1>2. faults = 0 /\ UNCHANGED faults /\ ~Fault
  BY <1>1, StepEffects DEF Fault
<1>3. ~PlannerForget
  BY DEF PlannerForget, DispatchInv, NoForget
<1>4. \A c \in Callers : ~RemoveMarker(c)
  BY <1>2 DEF RemoveMarker, LastInv, AtRest
<1>5. ~marker
  BY <1>2, <1>3, <1>4, StepEffects DEF CreateMarker, Undisturbed
<1>6. NoneBack \/ PlannerPlan
  <2>1. PlannerPlan \/ (UNCHANGED plan /\ back \subseteq back')
    BY VaultGrows DEF RefreshInv
  <2>2. QED
    BY <2>1 DEF Undisturbed, NoneBack
<1>7. QED
  BY <1>2, <1>5, <1>6, StepEffects DEF Undisturbed

\* The planner's steps of an undisturbed run
LEMMA PlannerUnderway ==
  ASSUME TypeOK, ShareInv, RefreshInv, DispatchInv, LastInv, Workers # {}, Undisturbed', [Next]_vars,
         PlannerStep \/ PlannerStops \/ (\E r \in BOOLEAN : PlannerTodo(r))
  PROVE  Underway'
<1> USE PlanTypes, MachineTypes
<1>1. faults = 0 /\ UNCHANGED faults /\ ~Fault /\ ~marker /\ (first \/ PlannerFirst) /\ (NoneBack \/ PlannerPlan)
  BY StaysUndisturbed
<1>2. CASE PlannerFirst
  <2>1. /\ pl.pc = "first" /\ pl'.pc = "start" /\ pl'.start = pl.start
        /\ UNCHANGED <<claims, wpc>>
    BY <1>2 DEF PlannerFirst, machine
  <2>2. Alive = {} /\ claims = {} /\ pl.start # {}
    BY <2>1 DEF LastInv, AtRest
  <2>3. \A w \in Workers : wpc'[w] = "off"
    BY <2>1, <2>2 DEF Alive
  <2>4. QED
    BY <2>1, <2>2, <2>3 DEF Underway, ClaimsStand, ShardSeen, Alive
<1>21. CASE PlannerPlan
  <2>1. /\ pl.pc = "plan" /\ pl' = [pl EXCEPT !.pc = "first", !.start = 0..(plan'.shards - 1)]
        /\ claims' = {} /\ UNCHANGED wpc /\ plan'.shards = MachinesFor(Cardinality(pl.items))
    BY <1>21 DEF PlannerPlan, machine
  <2>2. plan'.shards \in 1..MaxMachines
    <3>1. IsFiniteSet(pl.items)
      BY ReparseAssumption, FS_Subset
    <3>2. QED
      BY <2>1, <3>1, FS_CardinalityType, MachinesType
  <2>3. pl'.pc = "first" /\ 0 \in pl'.start
    BY <2>1, <2>2, ReparseAssumption
  <2>4. \A w \in Workers : wpc'[w] = "off"
    BY <2>1 DEF ShareInv, Alive
  <2>5. QED
    BY <2>1, <2>3, <2>4 DEF Underway, ClaimsStand, ShardSeen, Alive
<1>3. CASE ~PlannerFirst /\ ~PlannerPlan
  <2>1. Underway
    BY <1>1, <1>3 DEF LastInv, Undisturbed
  <2>3. ~PlannerStops /\ ~PlannerForget
    BY <1>1 DEF PlannerStops, PlannerForget, DispatchInv, NoForget
  <2>4. CASE PlannerCreate
    <3>1. pl.pc \in {"start", "missing"} /\ UNCHANGED <<vault, run, refresh>>
      BY <2>4 DEF PlannerCreate
    <3>2. CASE UNCHANGED machine
      <4>1. pl.start = {} \/ Alive = Workers
        BY <2>4, <3>2 DEF PlannerCreate, StartMachine, machine, Alive
      <4>2. \E w \in Workers : WillDispatch(w)
        BY <2>1, <4>1 DEF Underway
      <4>3. \A w \in Workers : WillDispatch(w) => WillDispatch(w)'
        BY <3>1, <3>2 DEF WillDispatch, Present, vault, run, refresh, machine
      <4>4. ClaimsStand' /\ \A w \in Workers : ShardSeen(w)'
        BY <2>1, <3>1, <3>2 DEF Underway, ClaimsStand, ShardSeen, Open, Present, Held, Coming, vault, run, machine
      <4>5. QED
        BY <4>2, <4>3, <4>4 DEF Underway
    <3>3. ASSUME NEW w \in Workers \ Alive, NEW k, StartMachine(w, k) PROVE Underway'
      <4>1. /\ wpc' = [wpc EXCEPT ![w] = "boot"] /\ shard' = [shard EXCEPT ![w] = k] /\ wpc[w] = "off"
            /\ UNCHANGED <<known, todo, scan, task, place, done, plan, claims>>
        BY <3>1, <3>3 DEF StartMachine, Alive, vault, run
      <4>2. \A i \in Items : (Open(i)' <=> Open(i)) /\ (Held(i)' <=> Held(i)) /\ (Coming(i) => Coming(i)')
        BY <4>1 DEF Open, Present, Held, Coming
      <4>3. ClaimsStand'
        BY <2>1, <4>1, <4>2 DEF Underway, ClaimsStand
      <4>4. \A v \in Workers : ShardSeen(v)'
        <5> SUFFICES ASSUME NEW v \in Workers PROVE ShardSeen(v)'
          OBVIOUS
        <5>1. CASE v = w
          BY <4>1, <5>1 DEF ShardSeen
        <5>2. CASE v # w
          BY <2>1, <4>1, <4>2, <5>2 DEF Underway, ShardSeen
        <5>3. QED
          BY <5>1, <5>2
      <4>5. WillDispatch(w)'
        BY <4>1 DEF WillDispatch
      <4>6. QED
        BY <4>3, <4>4, <4>5 DEF Underway
    <3>4. QED
      BY <2>4, <3>2, <3>3 DEF PlannerCreate
  <2>5. CASE PlannerList \/ PlannerOver \/ \E r \in BOOLEAN : PlannerTodo(r)
    <3>1. UNCHANGED <<run, machine>> /\ pl.pc \notin {"first", "start"}
      BY <2>5 DEF PlannerList, PlannerOver, PlannerTodo
    <3>2. \A w \in Workers : dpc'[w] = dpc[w]
      BY <2>5, ReparseAssumption DEF PlannerList, PlannerOver, PlannerTodo, refresh, Callers
    <3>3. QED
      BY <1>3, <2>1, <3>1, <3>2, UnderwayFrame DEF run, machine, Undisturbed
  <2>6. QED
    BY <1>3, <2>3, <2>4, <2>5 DEF PlannerStep
<1>4. QED
  BY <1>2, <1>21, <1>3

\* A worker that leaves without a word is not the one that will dispatch.
LEMMA LeaveUnderway ==
  ASSUME TypeOK, AtRest, Underway, NEW w \in Workers, wpc[w] \in {"left", "finish"}, ~WillDispatch(w), TurnOff(w),
         UNCHANGED <<place, done, plan, claims, dpc>>
  PROVE  Underway'
<1> USE MachineTypes, CountTypes, PlanTypes
<1>1. /\ wpc' = [wpc EXCEPT ![w] = "off"] /\ shard' = [shard EXCEPT ![w] = 0] /\ known' = [known EXCEPT ![w] = {}]
      /\ todo' = [todo EXCEPT ![w] = {}] /\ scan' = [scan EXCEPT ![w] = {}]
      /\ task' = [task EXCEPT ![w] = [i \in Items |-> "none"]]
  BY DEF TurnOff
<1>2. Idle(w) /\ todo[w] = {}
  BY DEF AtRest
<1>3. \A i \in Items : (Open(i)' <=> Open(i)) /\ (Held(i)' <=> Held(i))
  BY <1>1, <1>2 DEF Open, Present, Held, Idle
<1>4. \A i \in Items : Coming(i) => Coming(i)'
  BY <1>1, <1>2, <1>3 DEF Coming
<1>5. ClaimsStand'
  BY <1>3, <1>4 DEF Underway, ClaimsStand
<1>6. \A v \in Workers : ShardSeen(v)'
  <2> SUFFICES ASSUME NEW v \in Workers PROVE ShardSeen(v)'
    OBVIOUS
  <2>1. CASE v = w
    BY <1>1, <2>1 DEF ShardSeen
  <2>2. CASE v # w
    BY <1>1, <1>3, <2>2 DEF Underway, ShardSeen
  <2>3. QED
    BY <2>1, <2>2
<1>7. PICK v \in Workers : WillDispatch(v)
  BY DEF Underway, Alive
<1>8. WillDispatch(v)'
  BY <1>1, <1>7 DEF WillDispatch, Present
<1>9. QED
  BY <1>5, <1>6, <1>8 DEF Underway

\* A worker that takes a step of its own, with the others at rest: what it has to
\* show for itself.
LEMMA OwnStep ==
  ASSUME TypeOK, Underway, NEW w \in Workers, UNCHANGED <<place, done, plan>>, claims \subseteq claims',
         \A v \in Workers \ {w} : /\ wpc'[v] = wpc[v] /\ shard'[v] = shard[v] /\ known'[v] = known[v]
                                  /\ todo'[v] = todo[v] /\ scan'[v] = scan[v] /\ task'[v] = task[v] /\ dpc'[v] = dpc[v],
         \A i \in Items : task[w][i] # "none" => task'[w][i] # "none",
         ShardSeen(w)', ClaimsStand', WillDispatch(w)'
  PROVE  Underway'
<1>1. \A i \in Items : (Open(i)' <=> Open(i)) /\ (Held(i) => Held(i)')
  BY DEF Open, Present, Held
<1>2. \A v \in Workers : ShardSeen(v)'
  <2> SUFFICES ASSUME NEW v \in Workers, v # w PROVE ShardSeen(v)'
    OBVIOUS
  <2>1. ShardSeen(v)
    BY DEF Underway
  <2>2. QED
    BY <1>1, <2>1 DEF ShardSeen
<1>3. QED
  BY <1>2 DEF Underway

\* The main goroutine's steps of an undisturbed run
LEMMA MainUnderway ==
  ASSUME TypeOK, RefreshInv, DispatchInv, LastInv, Undisturbed', [Next]_vars,
         NEW w \in Workers, MainStep(w) \/ WorkerStops(w)
  PROVE  Underway'
<1> USE MachineTypes, CountTypes, PlanTypes
<1>1. /\ ~Fault /\ UNCHANGED <<place, back, done, plan, first>>
      /\ AtRest
  BY StaysUndisturbed DEF MainStep, Boot, ClaimShard, Feed, LookForOrphans, ClaimItem, Tally, CountLeft, WorkerEnds,
     WorkerStops, run, vault, LastInv
<1>2. Underway
  BY <1>1, StaysUndisturbed DEF LastInv, Undisturbed, NoneBack
<1>3. \A i \in Items : (Open(i)' <=> Open(i))
  BY <1>1 DEF Open, Present
<1>4. \A i \in Items : Shard(i, plan.shards) \in 0..(plan.shards - 1)
  BY ShardType
<1>5. CASE Boot(w)
  <2>1. /\ wpc[w] = "boot" /\ wpc' = [wpc EXCEPT ![w] = "claim"] /\ known' = [known EXCEPT ![w] = Marked]
        /\ todo' = [todo EXCEPT ![w] = {i \in plan.items \ Marked : Shard(i, plan.shards) = shard[w]}]
        /\ UNCHANGED <<claims, shard, scan, task, dpc>>
    BY <1>5 DEF Boot, run, refresh
  <2>2. \A i \in Items : (Held(i)' <=> Held(i)) /\ (Coming(i) => Coming(i)')
    BY <2>1 DEF Held, Coming
  <2>3. ClaimsStand'
    BY <1>1, <1>2, <1>3, <2>1, <2>2 DEF Underway, ClaimsStand
  <2>4. ShardSeen(w)'
    BY <1>1, <1>3, <2>1 DEF ShardSeen, Open, Marked
  <2>5. WillDispatch(w)'
    BY <2>1 DEF WillDispatch
  <2>6. QED
    BY <1>1, <1>2, <2>1, <2>3, <2>4, <2>5, OwnStep
<1>6. CASE ClaimShard(w)
  <2>1. /\ wpc[w] = "claim" /\ wpc' = [wpc EXCEPT ![w] = "feed"] /\ claims' = claims \cup {ShardClaim(shard[w])}
        /\ UNCHANGED <<shard, known, todo, scan, task, dpc>>
    BY <1>1, <1>6 DEF ClaimShard, refresh
  <2>2. \A i \in Items : (Held(i)' <=> Held(i)) /\ (Coming(i) => Coming(i)')
    BY <2>1 DEF Held, Coming
  <2>3. ClaimsStand'
    <3> SUFFICES ASSUME NEW i \in Items, Open(i)'
                 PROVE  /\ ItemClaim(i) \in claims' => Held(i)'
                        /\ ShardClaim(Shard(i, plan.shards)) \in claims' => Coming(i)'
      BY <1>1 DEF ClaimsStand
    <3>1. Open(i) /\ ItemClaim(i) # ShardClaim(shard[w])
      BY <1>3 DEF ItemClaim, ShardClaim
    <3>2. CASE ShardClaim(Shard(i, plan.shards)) \in claims
      BY <1>2, <2>1, <2>2, <3>1, <3>2 DEF Underway, ClaimsStand
    <3>3. CASE Shard(i, plan.shards) = shard[w]
      <4>1. i \in todo'[w] /\ wpc'[w] = "feed"
        BY <1>2, <2>1, <3>1, <3>3 DEF Underway, ShardSeen
      <4>2. QED
        BY <1>2, <2>1, <2>2, <3>1, <4>1 DEF Underway, ClaimsStand, Coming
    <3>4. CASE ShardClaim(Shard(i, plan.shards)) \notin claims'
      BY <1>2, <2>1, <2>2, <3>1, <3>4 DEF Underway, ClaimsStand
    <3>5. QED
      BY <2>1, <3>2, <3>3, <3>4 DEF ShardClaim
  <2>4. ShardSeen(w)'
    BY <2>1 DEF ShardSeen
  <2>5. WillDispatch(w)'
    BY <2>1 DEF WillDispatch
  <2>6. QED
    BY <1>1, <1>2, <2>1, <2>3, <2>4, <2>5, OwnStep
<1>7. CASE Feed(w) /\ todo[w] # {}
  <2> DEFINE k == Min(todo[w])
  <2>1. k \in todo[w] /\ k \in Items
    BY <1>7, LeastOf, ReparseAssumption
  <2> HIDE DEF k
  <2>2. /\ wpc[w] = "feed" /\ task' = [task EXCEPT ![w][k] = "open"] /\ todo' = [todo EXCEPT ![w] = @ \ {k}]
        /\ UNCHANGED <<wpc, claims, shard, known, scan, dpc>>
    BY <1>7 DEF Feed, run, refresh, k
  <2>3. \A i \in Items : (Held(i) => Held(i)') /\ (i = k => Held(i)')
    BY <2>1, <2>2 DEF Held
  <2>4. \A i \in Items : Coming(i) => Coming(i)'
    BY <2>2, <2>3 DEF Coming
  <2>5. ClaimsStand'
    BY <1>1, <1>2, <1>3, <2>2, <2>3, <2>4 DEF Underway, ClaimsStand
  <2>6. ShardSeen(w)'
    BY <1>2, <2>2 DEF Underway, ShardSeen
  <2>7. WillDispatch(w)'
    BY <2>2 DEF WillDispatch
  <2>8. \A i \in Items : task[w][i] # "none" => task'[w][i] # "none"
    BY <2>2
  <2>9. QED
    BY <1>1, <1>2, <2>2, <2>5, <2>6, <2>7, <2>8, OwnStep
<1>8. CASE Feed(w) /\ todo[w] = {}
  <2>1. /\ wpc[w] = "feed" /\ wpc' = [wpc EXCEPT ![w] = "share"]
        /\ scan' = [scan EXCEPT ![w] = (0..(plan.shards - 1)) \ {shard[w]}]
        /\ UNCHANGED <<claims, shard, known, todo, task, dpc>>
    BY <1>8 DEF Feed, run, refresh
  <2>2. \A i \in Items : (Held(i)' <=> Held(i)) /\ (Coming(i) => Coming(i)')
    BY <1>8, <2>1 DEF Held, Coming
  <2>3. ClaimsStand'
    BY <1>1, <1>2, <1>3, <2>1, <2>2 DEF Underway, ClaimsStand
  <2>4. ShardClaim(shard[w]) \in claims
    BY <1>2, <2>1 DEF Underway, ShardSeen
  <2>5. ShardSeen(w)'
    BY <1>1, <1>4, <2>1, <2>4 DEF ShardSeen
  <2>6. WillDispatch(w)'
    BY <2>1 DEF WillDispatch
  <2>7. QED
    BY <1>1, <1>2, <2>1, <2>3, <2>5, <2>6, OwnStep
<1>9. CASE LookForOrphans(w)
  <2> DEFINE k == Min(scan[w])
  <2>1. /\ wpc[w] = "share" /\ todo[w] = {} /\ scan' = [scan EXCEPT ![w] = @ \ {k}]
        /\ UNCHANGED <<wpc, claims, shard, known, task, dpc>>
    BY <1>9 DEF LookForOrphans, run, refresh
  <2>2. \/ ShardClaim(k) \in claims /\ UNCHANGED todo
        \/ todo' = [todo EXCEPT ![w] = {i \in plan.items \ known[w] : Shard(i, plan.shards) = k}]
    BY <1>1, <1>9 DEF LookForOrphans
  <2> HIDE DEF k
  <2>3. \A i \in Items : (Held(i)' <=> Held(i)) /\ (Coming(i) => Coming(i)')
    BY <2>1, <2>2 DEF Held, Coming
  <2>4. ClaimsStand'
    BY <1>1, <1>2, <1>3, <2>1, <2>3 DEF Underway, ClaimsStand
  <2>5. ShardSeen(w)'
    <3>1. ShardSeen(w) /\ \A i \in Items : Open(i) => i \in plan.items \ known[w]
      BY <1>2, <2>1 DEF Underway, RefreshInv, KnownTrue, Open, Marked
    <3>2. QED
      BY <1>1, <1>3, <2>1, <2>2, <2>3, <3>1 DEF ShardSeen
  <2>6. WillDispatch(w)'
    BY <2>1 DEF WillDispatch
  <2>7. \A v \in Workers \ {w} : todo'[v] = todo[v] /\ scan'[v] = scan[v]
    BY <2>1, <2>2
  <2>8. QED
    BY <1>1, <1>2, <2>1, <2>4, <2>5, <2>6, <2>7, OwnStep
<1>10. CASE ClaimItem(w)
  <2>1. PICK k \in Items : k = Min(todo[w]) /\ k \in todo[w]
    <3>1. todo[w] # {} /\ todo[w] \subseteq Items
      BY <1>10 DEF ClaimItem
    <3>2. QED
      BY <3>1, LeastOf, ReparseAssumption
  <2>2. /\ wpc[w] = "share" /\ todo' = [todo EXCEPT ![w] = @ \ {k}]
        /\ UNCHANGED <<wpc, shard, known, scan, dpc>>
    BY <1>10, <2>1 DEF ClaimItem, refresh
  <2>3. \/ ItemClaim(k) \in claims /\ UNCHANGED <<claims, task>>
        \/ claims' = claims \cup {ItemClaim(k)} /\ task' = [task EXCEPT ![w][k] = "held"]
    BY <1>1, <1>10, <2>1 DEF ClaimItem
  <2>4. \A i \in Items : Held(i) => Held(i)'
    BY <2>3 DEF Held
  <2>5. Open(k) => Held(k)'
    <3>1. ASSUME Open(k), ItemClaim(k) \in claims PROVE Held(k)'
      <4>1. Held(k)
        BY <1>2, <2>1, <3>1 DEF Underway, ClaimsStand
      <4>2. QED
        BY <2>1, <2>4, <4>1
    <3>2. CASE task' = [task EXCEPT ![w][k] = "held"]
      <4>1. task'[w][k] = "held"
        BY <2>1, <3>2
      <4>2. QED
        BY <2>1, <4>1 DEF Held
    <3>3. QED
      BY <2>3, <3>1, <3>2
  <2>6. \A i \in Items : Coming(i) => Coming(i)'
    BY <2>2, <2>4 DEF Coming
  <2>7. ClaimsStand'
    <3> SUFFICES ASSUME NEW i \in Items, Open(i)'
                 PROVE  /\ ItemClaim(i) \in claims' => Held(i)'
                        /\ ShardClaim(Shard(i, plan.shards)) \in claims' => Coming(i)'
      BY <1>1 DEF ClaimsStand
    <3>1. ShardClaim(Shard(i, plan.shards)) \in claims' => ShardClaim(Shard(i, plan.shards)) \in claims
      BY <2>3 DEF ShardClaim, ItemClaim
    <3>2. ItemClaim(i) \in claims' => ItemClaim(i) \in claims \/ i = k
      BY <2>3 DEF ItemClaim
    <3>3. Open(i) /\ (ItemClaim(i) \in claims => Held(i)) /\ (ShardClaim(Shard(i, plan.shards)) \in claims => Coming(i))
      BY <1>2, <1>3 DEF Underway, ClaimsStand
    <3>4. ItemClaim(i) \in claims' => Held(i)'
      <4>1. CASE i = k
        BY <2>5, <3>3, <4>1
      <4>2. CASE i # k
        BY <2>4, <3>2, <3>3, <4>2
      <4>3. QED
        BY <4>1, <4>2
    <3>5. QED
      BY <2>6, <3>1, <3>3, <3>4
  <2>8. ShardSeen(w)'
    <3>1. ShardSeen(w) /\ claims \subseteq claims'
      BY <1>2, <2>3 DEF Underway
    <3>2. \A i \in Items : Open(i) /\ i \in todo[w] => Held(i)' \/ i \in todo'[w]
      <4> SUFFICES ASSUME NEW i \in Items, Open(i), i \in todo[w], i # k PROVE i \in todo'[w]
        BY <2>5
      <4>1. QED
        BY <2>2
    <3>3. QED
      BY <1>1, <1>3, <2>2, <2>4, <3>1, <3>2 DEF ShardSeen
  <2>9. WillDispatch(w)'
    BY <2>2 DEF WillDispatch
  <2>10. /\ \A v \in Workers \ {w} : todo'[v] = todo[v] /\ task'[v] = task[v]
         /\ \A i \in Items : task[w][i] # "none" => task'[w][i] # "none"
         /\ claims \subseteq claims'
    BY <2>2, <2>3
  <2>11. QED
    BY <1>1, <1>2, <2>2, <2>7, <2>8, <2>9, <2>10, OwnStep
<1>11. CASE Tally(w)
  <2>1. /\ wpc[w] = "share" /\ wpc' = [wpc EXCEPT ![w] = "left"] /\ known' = [known EXCEPT ![w] = Marked]
        /\ todo[w] = {} /\ scan[w] = {} /\ Idle(w) /\ UNCHANGED <<claims, shard, todo, scan, task, dpc>>
    BY <1>11 DEF Tally, run, refresh
  <2>2. \A i \in Items : (Held(i)' <=> Held(i)) /\ (Coming(i) => Coming(i)')
    BY <2>1 DEF Held, Coming
  <2>3. ClaimsStand'
    BY <1>1, <1>2, <1>3, <2>1, <2>2 DEF Underway, ClaimsStand
  <2>4. \A v \in Workers : ShardSeen(v)'
    BY <1>1, <1>2, <1>3, <2>1, <2>2 DEF Underway, ShardSeen
  <2>5. \E v \in Workers : WillDispatch(v)'
    <3>1. CASE \A i \in plan.items \ Marked : ~Present(i)
      BY <1>1, <2>1, <3>1 DEF WillDispatch, Present
    <3>2. ASSUME NEW i \in plan.items \ Marked, Present(i) PROVE \E v \in Workers : WillDispatch(v)'
      <4>1. i \in Items /\ Open(i)
        BY <3>2, VaultTypes DEF Open, Marked
      <4>2. Coming(i)
        BY <1>2, <2>1, <4>1 DEF Underway, ShardSeen, ClaimsStand, Coming
      <4>3. PICK v \in Workers : task[v][i] # "none" \/ (wpc[v] = "feed" /\ i \in todo[v])
        BY <4>2 DEF Coming, Held
      <4>4. v # w /\ wpc[v] \in {"feed", "share"}
        BY <1>1, <2>1, <4>1, <4>3 DEF AtRest, Idle
      <4>5. QED
        BY <2>1, <4>4 DEF WillDispatch
    <3>3. QED
      BY <3>1, <3>2
  <2>6. QED
    BY <2>3, <2>4, <2>5 DEF Underway
<1>12. CASE CountLeft(w) /\ TurnOff(w)
  <2>1. wpc[w] = "left" /\ UNCHANGED <<claims, dpc>> /\ \E i \in plan.items \ known[w] : Present(i)
    <3>1. wpc[w] = "left" /\ UNCHANGED <<claims, dpc>> /\ wpc'[w] = "off"
      BY <1>12 DEF CountLeft, TurnOff, run
    <3>2. plan.items \ known[w] # {} /\ Present(Min(plan.items \ known[w]))
      BY <1>12, <3>1 DEF CountLeft
    <3>3. Min(plan.items \ known[w]) \in plan.items \ known[w]
      BY <3>2, LeastOf, ReparseAssumption
    <3>4. QED
      BY <3>1, <3>2, <3>3
  <2>2. QED
    BY <1>1, <1>2, <1>12, <2>1, LeaveUnderway DEF WillDispatch
<1>13. CASE CountLeft(w) /\ plan.items \ known[w] = {}
  <2>1. /\ wpc[w] = "left" /\ wpc' = [wpc EXCEPT ![w] = "finish"] /\ dpc' = [dpc EXCEPT ![w] = "marker"]
        /\ UNCHANGED <<claims, shard, known, todo, scan, task>>
    BY <1>13 DEF CountLeft, run
  <2>2. \A i \in Items : (Held(i)' <=> Held(i)) /\ (Coming(i) => Coming(i)')
    BY <2>1 DEF Held, Coming
  <2>3. ClaimsStand'
    BY <1>1, <1>2, <1>3, <2>1, <2>2 DEF Underway, ClaimsStand
  <2>4. ShardSeen(w)'
    BY <1>1, <1>2, <1>3, <2>1, <2>2 DEF Underway, ShardSeen
  <2>5. WillDispatch(w)'
    BY <2>1 DEF WillDispatch, Callers
  <2>6. QED
    BY <1>1, <1>2, <2>1, <2>3, <2>4, <2>5, OwnStep DEF Callers
<1>131. CASE CountLeft(w) /\ ~TurnOff(w) /\ plan.items \ known[w] # {}
  <2>1. PICK k : known' = [known EXCEPT ![w] = @ \cup {k}] /\ UNCHANGED <<wpc, claims, shard, todo, scan, task, dpc, pl>>
    BY <1>131 DEF CountLeft, run
  <2>2. \A i \in Items : (Held(i)' <=> Held(i)) /\ (Coming(i)' <=> Coming(i))
    BY <2>1 DEF Held, Coming
  <2>3. ClaimsStand' /\ \A v \in Workers : ShardSeen(v)'
    BY <1>1, <1>2, <1>3, <2>1, <2>2 DEF Underway, ClaimsStand, ShardSeen
  <2>4. \A v \in Workers : WillDispatch(v) => WillDispatch(v)'
    BY <1>1, <2>1 DEF WillDispatch, Present
  <2>5. QED
    BY <1>2, <2>1, <2>3, <2>4 DEF Underway, Alive
<1>14. CASE WorkerEnds(w)
  BY <1>1, <1>2, <1>14, LeaveUnderway DEF WorkerEnds, WillDispatch, run, refresh
<1>15. QED
  BY <1>1, <1>5, <1>6, <1>7, <1>8, <1>9, <1>10, <1>11, <1>12, <1>13, <1>131, <1>14 DEF MainStep, WorkerStops

\* Without faults no replay is counted as failed.
LEMMA NobodyBumps ==
  ASSUME TypeOK, BumpsPaid, faults = 0, NEW w \in Workers, NEW i \in Items
  PROVE  task[w][i] \notin {"bump", "bumpWrite"}
<1> SUFFICES ASSUME w \in Bumping(i) PROVE FALSE
  BY DEF Bumping
<1> DEFINE n == Cardinality(Bumping(i))
<1>1. fails[i] \in Nat
  BY VaultTypes, CountTypes
<1>2. n \in Nat /\ (n = 0 => Bumping(i) = {})
  BY BumpingFinite, FS_EmptySet
<1>3. fails[i] + n <= 0
  BY DEF BumpsPaid
<1> HIDE DEF n
<1>4. n = 0
  BY <1>1, <1>2, <1>3
<1>5. QED
  BY <1>2, <1>4

\* The pool's steps: an open replay that is in hand stays in hand.
LEMMA PoolUnderway ==
  ASSUME TypeOK, BumpsPaid, RefreshInv, DispatchInv, LastInv, Undisturbed', [Next]_vars,
         NEW w \in Workers, NEW i \in Items, PoolStep(w, i)
  PROVE  Underway'
<1> USE MachineTypes, CountTypes, PlanTypes, VaultTypes
<1>1. /\ UNCHANGED <<place, back, plan, first, claims, dpc, wpc, shard, known, todo, scan>>
      /\ faults = 0 /\ ~Fault
  BY StaysUndisturbed, PoolVault DEF RefreshInv, PoolStep, Take, OpenAndParse, SetFlag, Deliver, WriteDone, BumpRead, BumpWrite,
     GiveUp, Rest, run, refresh, vault, shelf
<1>2. Underway
  BY <1>1, StaysUndisturbed DEF LastInv, Undisturbed, NoneBack
<1>3. task[w][i] \notin {"bump", "bumpWrite"}
  BY <1>1, NobodyBumps
<1>4. PICK stage \in Stages : /\ task' = [task EXCEPT ![w][i] = stage]
                              /\ stage = "none" => ~Present(i) \/ i \in Marked'
  <2>1. CASE Take(w, i)
    BY <2>1 DEF Take, Goto, Stages
  <2>2. CASE OpenAndParse(w, i)
    BY <1>1, <2>2 DEF OpenAndParse, Goto, Stages
  <2>3. CASE SetFlag(w, i)
    BY <2>3 DEF SetFlag, Goto, Stages
  <2>4. CASE Deliver(w, i)
    BY <1>1, <2>4 DEF Deliver, Goto, Stages
  <2>5. CASE WriteDone(w, i)
    BY <1>1, <2>5 DEF WriteDone, Goto, Stages, Marked
  <2>6. CASE BumpRead(w, i) \/ BumpWrite(w, i)
    BY <1>3, <2>6 DEF BumpRead, BumpWrite
  <2>7. CASE GiveUp(w, i)
    BY <1>1, <2>7 DEF GiveUp, Goto, Stages, Marked
  <2>8. QED
    BY <2>1, <2>2, <2>3, <2>4, <2>5, <2>6, <2>7 DEF PoolStep
<1>11. pl' = pl
  BY DEF PoolStep, Take, OpenAndParse, SetFlag, Deliver, WriteDone, BumpRead, BumpWrite, GiveUp, Rest
<1>5. \A j \in Items : Open(j)' => Open(j)
  <2>1. ~PlannerPlan
    BY <1>11 DEF PlannerPlan
  <2>2. QED
    BY <2>1, OpenShrinks DEF Undisturbed
<1>6. \A j \in Items : Open(j)' /\ Held(j) => Held(j)'
  <2> SUFFICES ASSUME NEW j \in Items, Open(j)', NEW v \in Workers, task[v][j] # "none" PROVE Held(j)'
    BY DEF Held
  <2>1. CASE v = w /\ j = i
    <3>1. Present(i) /\ i \notin Marked'
      BY <1>1, <2>1 DEF Open, Present, Marked
    <3>2. task'[w][i] # "none"
      BY <1>4, <3>1
    <3>3. QED
      BY <2>1, <3>2 DEF Held
  <2>2. CASE ~(v = w /\ j = i)
    BY <1>4, <2>2 DEF Held
  <2>3. QED
    BY <2>1, <2>2
<1>7. \A j \in Items : Open(j)' /\ Coming(j) => Coming(j)'
  BY <1>1, <1>6 DEF Coming
<1>8. ClaimsStand'
  BY <1>1, <1>2, <1>5, <1>6, <1>7 DEF Underway, ClaimsStand
<1>9. \A v \in Workers : ShardSeen(v)'
  BY <1>1, <1>2, <1>5, <1>6 DEF Underway, ShardSeen
<1>10. \A v \in Workers : WillDispatch(v) => WillDispatch(v)'
  BY <1>1 DEF WillDispatch, Present
<1>12. QED
  BY <1>1, <1>2, <1>8, <1>9, <1>10, <1>11 DEF Underway, Alive

\* Every step keeps an undisturbed run under way.
LEMMA NextUnderway ==
  ASSUME TypeOK, BumpsPaid, ShareInv, RefreshInv, DispatchInv, LastInv, Workers # {}, Undisturbed', [Next]_vars
  PROVE  Underway'
<1>1. ~marker /\ faults = 0 /\ ~Fault /\ (first \/ PlannerFirst) /\ (NoneBack \/ PlannerPlan)
  BY StaysUndisturbed
<1>11. ASSUME UNCHANGED <<plan, claims, machine, pl, dpc, first>> PROVE Underway'
  <2>1. ~PlannerPlan /\ ~PlannerFirst
    BY <1>11, PlanTypes DEF PlannerPlan, PlannerFirst
  <2>2. Underway
    BY <1>1, <2>1 DEF LastInv, Undisturbed
  <2>3. QED
    BY <1>11, <2>1, <2>2, UnderwayFrame DEF machine, Undisturbed
<1>2. CASE UNCHANGED vars
  BY <1>2, <1>11 DEF vars, run, refresh
<1>3. ASSUME NEW i \in Items, Store(i) \/ Retention(i) PROVE Underway'
  BY <1>3, <1>11 DEF Store, Retention, run, refresh
<1>4. CASE GracePasses
  BY <1>4, <1>11 DEF GracePasses, refresh
<1>5. ASSUME NEW c \in Callers, DispatchStep(c) PROVE FALSE
  <2>1. dpc[c] \notin Dispatching
    BY <1>1 DEF DispatchInv, OneDispatcher
  <2>2. CreateMarker(c)
    BY <1>5, <2>1 DEF DispatchStep, RunsWaiting, DispatchWorkflow, RemoveMarker, Dispatching
  <2>3. marker'
    BY <1>1, <2>2 DEF CreateMarker
  <2>4. QED
    BY <2>3 DEF Undisturbed
<1>6. QED
  BY <1>2, <1>3, <1>4, <1>5, PlannerUnderway, MainUnderway, PoolUnderway DEF Next

\* What holds of a run at all times stays so.
LEMMA NextAtRest ==
  ASSUME TypeOK, TypeOK', ShareInv, DispatchInv, AtRest, [Next]_vars
  PROVE  AtRest'
<1> USE MachineTypes, CountTypes, PlanTypes
<1> DEFINE First == pl.pc = "first" => Alive = {} /\ claims = {} /\ pl.start # {}
           Calm == faults = 0 => \A c \in Callers : dpc[c] # "unmark"
           Quiet(w) == /\ wpc[w] \notin {"feed", "share"} => Idle(w)
                       /\ wpc[w] \in {"left", "finish"} => todo[w] = {} /\ scan[w] = {}
<1>1. Calm'
  <2> SUFFICES ASSUME faults' = 0, NEW c \in Callers, dpc'[c] = "unmark" PROVE FALSE
    OBVIOUS
  <2>1. faults = 0 /\ ~Fault
    BY StepEffects DEF Fault
  <2>2. dpc[c] # "unmark"
    BY <2>1 DEF AtRest
  <2>3. dpc' # dpc
    BY <2>2
  <2>4. PICK d \in Callers, stage \in {"no", "marker", "waiting", "dispatch"} : dpc' = [dpc EXCEPT ![d] = stage]
    <3>1. ASSUME NEW d \in Callers, DispatchStep(d)
          PROVE  \E stage \in {"no", "marker", "waiting", "dispatch"} : dpc' = [dpc EXCEPT ![d] = stage]
      BY <2>1, <3>1 DEF DispatchStep, CreateMarker, RunsWaiting, DispatchWorkflow, RemoveMarker, DGoto
    <3>2. CASE PlannerOver
      <4>1. PICK stage \in {"no", "marker"} : dpc' = [dpc EXCEPT ![Planner] = stage]
        BY <3>2 DEF PlannerOver
      <4>2. QED
        BY <4>1 DEF Callers
    <3>3. CASE PlannerStops
      BY <2>1, <3>3 DEF PlannerStops
    <3>4. ASSUME NEW w \in Workers, MainStep(w) \/ WorkerStops(w)
          PROVE  \E d \in Callers, stage \in {"no", "marker"} : dpc' = [dpc EXCEPT ![d] = stage]
      <4>1. CASE CountLeft(w)
        BY <2>3, <4>1 DEF CountLeft, Callers
      <4>2. CASE ~CountLeft(w)
        BY <2>1, <2>3, <3>4, <4>2 DEF MainStep, Boot, ClaimShard, Feed, LookForOrphans, ClaimItem, Tally, WorkerEnds,
           WorkerStops, refresh
      <4>3. QED
        BY <4>1, <4>2
    <3>5. ASSUME NEW w \in Workers, NEW i \in Items PROVE ~PoolStep(w, i)
      BY <2>3 DEF PoolStep, Take, OpenAndParse, SetFlag, Deliver, WriteDone, BumpRead, BumpWrite, GiveUp, Rest, refresh
    <3>6. ~UNCHANGED vars /\ ~GracePasses /\ (\A i \in Items : ~Store(i) /\ ~Retention(i))
          /\ (\A r \in BOOLEAN : ~PlannerTodo(r))
      BY <2>3 DEF vars, refresh, GracePasses, Store, Retention, PlannerTodo
    <3>7. ~PlannerList /\ ~PlannerForget /\ ~PlannerPlan /\ ~PlannerFirst /\ ~PlannerCreate
      BY <2>3 DEF PlannerList, PlannerForget, PlannerPlan, PlannerFirst, PlannerCreate, refresh
    <3>8. QED
      BY <3>1, <3>2, <3>3, <3>4, <3>5, <3>6, <3>7 DEF Next, PlannerStep
  <2>5. QED
    BY <2>2, <2>4
<1>2. First'
  <2> SUFFICES ASSUME pl'.pc = "first" PROVE Alive' = {} /\ claims' = {} /\ pl'.start # {}
    OBVIOUS
  <2>1. CASE PlannerPlan
    <3>1. /\ pl' = [pl EXCEPT !.pc = "first", !.start = 0..(plan'.shards - 1)] /\ claims' = {} /\ UNCHANGED wpc
          /\ pl.pc = "plan"
      BY <2>1 DEF PlannerPlan, machine
    <3>2. plan'.shards \in 1..MaxMachines
      BY TypeParts DEF AllTypes, RunType
    <3>3. 0 \in pl'.start
      BY <3>1, <3>2, ReparseAssumption
    <3>4. Alive' = {}
      BY <3>1 DEF ShareInv, Alive
    <3>5. QED
      BY <3>1, <3>3, <3>4
  <2>2. CASE ~PlannerPlan
    <3>1. pl.pc = "first"
      <4>1. CASE PlannerTodo(TRUE) \/ PlannerTodo(FALSE)
        <5>1. PICK i, s, q : pl' = [pc |-> "list", items |-> i, start |-> s, forget |-> q]
          BY <4>1, ZenonT(30) DEF PlannerTodo
        <5>2. QED
          BY <5>1
      <4>2. CASE PlannerList
        BY <4>2 DEF PlannerList
      <4>3. CASE PlannerForget
        BY <4>3 DEF PlannerForget
      <4>4. CASE PlannerOver \/ PlannerStops
        <5>1. PlannerIdle
          BY <4>4 DEF PlannerOver, PlannerStops
        <5>2. QED
          BY <5>1 DEF PlannerIdle
      <4>5. CASE PlannerFirst
        BY <4>5 DEF PlannerFirst
      <4>6. CASE PlannerCreate
        BY <4>6 DEF PlannerCreate, PlannerIdle
      <4>7. CASE UNCHANGED pl
        BY <4>7
      <4>8. UNCHANGED pl \/ PlannerStep \/ PlannerStops \/ \E r \in BOOLEAN : PlannerTodo(r)
        <5>1. \A c \in Callers : DispatchStep(c) => UNCHANGED pl
          BY DEF DispatchStep, CreateMarker, RunsWaiting, DispatchWorkflow, RemoveMarker
        <5>2. \A w \in Workers, i \in Items : PoolStep(w, i) => UNCHANGED pl
          BY DEF PoolStep, Take, OpenAndParse, SetFlag, Deliver, WriteDone, BumpRead, BumpWrite, GiveUp, Rest
        <5>3. \A w \in Workers : MainStep(w) \/ WorkerStops(w) => UNCHANGED pl
          BY DEF MainStep, Boot, ClaimShard, Feed, LookForOrphans, ClaimItem, Tally, CountLeft, WorkerEnds, WorkerStops
        <5>4. UNCHANGED vars \/ GracePasses \/ (\E i \in Items : Store(i) \/ Retention(i)) => UNCHANGED pl
          BY DEF vars, GracePasses, Store, Retention
        <5>5. QED
          BY <5>1, <5>2, <5>3, <5>4 DEF Next
      <4>9. QED
        BY <2>2, <4>1, <4>2, <4>3, <4>4, <4>5, <4>6, <4>7, <4>8 DEF PlannerStep
    <3>2. Alive = {} /\ claims = {} /\ pl.start # {}
      BY <3>1 DEF AtRest
    <3>3. \A w \in Workers : ~MainStep(w) /\ ~WorkerStops(w)
      BY <3>2 DEF Alive, MainStep, Boot, ClaimShard, Feed, LookForOrphans, ClaimItem, Tally, CountLeft, WorkerEnds,
         WorkerStops
    <3>4. \A w \in Workers, i \in Items : PoolStep(w, i) => UNCHANGED <<pl, claims, wpc>>
      BY DEF PoolStep, Take, OpenAndParse, SetFlag, Deliver, WriteDone, BumpRead, BumpWrite, GiveUp, Rest, run
    <3>5. \A c \in Callers : DispatchStep(c) => UNCHANGED <<pl, claims, wpc>>
      BY DEF DispatchStep, CreateMarker, RunsWaiting, DispatchWorkflow, RemoveMarker, run, machine
    <3>6. UNCHANGED vars \/ GracePasses \/ (\E i \in Items : Store(i) \/ Retention(i)) => UNCHANGED <<pl, claims, wpc>>
      BY DEF vars, GracePasses, Store, Retention, run, machine
    <3>7. ~PlannerList /\ ~PlannerOver /\ ~PlannerFirst /\ ~PlannerCreate
      BY <3>1 DEF PlannerList, PlannerOver, PlannerFirst, PlannerCreate
    <3>8. PlannerForget => UNCHANGED <<claims, wpc>> /\ pl'.start = pl.start
      BY DEF PlannerForget, run, machine
    <3>9. (\A r \in BOOLEAN : ~PlannerTodo(r)) /\ ~PlannerStops
      BY <3>1 DEF PlannerTodo, PlannerStops, PlannerIdle
    <3>10. UNCHANGED <<claims, wpc>> /\ pl'.start = pl.start
      BY <2>2, <3>3, <3>4, <3>5, <3>6, <3>7, <3>8, <3>9 DEF Next, PlannerStep
    <3>11. QED
      BY <3>2, <3>10 DEF Alive
  <2>3. QED
    BY <2>1, <2>2
<1>3. \A w \in Workers : Quiet(w)'
  <2> SUFFICES ASSUME NEW w \in Workers PROVE Quiet(w)'
    OBVIOUS
  <2>1. Quiet(w)
    BY DEF AtRest
  <2>2. ASSUME wpc'[w] = wpc[w], todo'[w] = todo[w], scan'[w] = scan[w], task'[w] = task[w] PROVE Quiet(w)'
    BY <2>1, <2>2 DEF Idle
  <2>3. CASE MainStep(w) \/ WorkerStops(w)
    <3>1. CASE Boot(w)
      <4>1. wpc[w] = "boot" /\ wpc' = [wpc EXCEPT ![w] = "claim"] /\ UNCHANGED task
        BY <3>1 DEF Boot
      <4>2. QED
        BY <2>1, <4>1 DEF Idle
    <3>2. CASE ClaimShard(w) \/ Feed(w)
      <4>1. wpc'[w] \in {"feed", "share"}
        BY <3>2 DEF ClaimShard, Feed
      <4>2. QED
        BY <4>1
    <3>3. CASE LookForOrphans(w) \/ ClaimItem(w)
      <4>1. wpc'[w] = "share"
        BY <3>3 DEF LookForOrphans, ClaimItem
      <4>2. QED
        BY <4>1
    <3>4. CASE Tally(w)
      <4>1. Idle(w) /\ todo[w] = {} /\ scan[w] = {} /\ UNCHANGED <<task, todo, scan>>
        BY <3>4 DEF Tally
      <4>2. QED
        BY <4>1 DEF Idle
    <3>5. ASSUME TurnOff(w) PROVE Quiet(w)'
      <4>1. /\ wpc' = [wpc EXCEPT ![w] = "off"]
            /\ task' = [task EXCEPT ![w] = [i \in Items |-> "none"]]
        BY <3>5 DEF TurnOff
      <4>2. QED
        BY <4>1 DEF Idle
    <3>6. CASE CountLeft(w) /\ ~TurnOff(w)
      <4>1. wpc[w] = "left" /\ UNCHANGED <<task, todo, scan>>
        BY <3>6 DEF CountLeft
      <4>2. QED
        BY <2>1, <4>1 DEF Idle
    <3>7. CASE WorkerEnds(w) \/ WorkerStops(w)
      BY <3>5, <3>7 DEF WorkerEnds, WorkerStops
    <3>8. QED
      BY <2>3, <3>1, <3>2, <3>3, <3>4, <3>5, <3>6, <3>7 DEF MainStep
  <2>4. ASSUME NEW v \in Workers, v # w, MainStep(v) \/ WorkerStops(v) PROVE Quiet(w)'
    <3>1. /\ wpc' = wpc \/ \E q : wpc' = [wpc EXCEPT ![v] = q]
          /\ todo' = todo \/ \E q : todo' = [todo EXCEPT ![v] = q]
          /\ scan' = scan \/ \E q : scan' = [scan EXCEPT ![v] = q]
      BY <2>4, Zenon DEF MainStep, Boot, ClaimShard, Feed, LookForOrphans, ClaimItem, Tally, CountLeft, WorkerEnds,
         WorkerStops, TurnOff
    <3>2. task' = task \/ \E q : task' = [task EXCEPT ![v] = q]
      BY <2>4, Zenon DEF MainStep, Boot, ClaimShard, Feed, LookForOrphans, ClaimItem, Tally, CountLeft, WorkerEnds,
         WorkerStops, TurnOff
    <3>3. QED
      BY <2>2, <2>4, <3>1, <3>2
  <2>5. ASSUME NEW v \in Workers, NEW i \in Items, PoolStep(v, i) PROVE Quiet(w)'
    <3>1. /\ task[v][i] # "none" /\ \E stage : task' = [task EXCEPT ![v][i] = stage]
          /\ UNCHANGED <<wpc, todo, scan>>
      BY <2>5, Zenon DEF PoolStep, Take, OpenAndParse, SetFlag, Deliver, WriteDone, BumpRead, BumpWrite, GiveUp, Rest, Goto
    <3>2. CASE v # w
      BY <2>2, <3>1, <3>2
    <3>3. CASE v = w
      <4>1. wpc[w] \in {"feed", "share"}
        BY <2>1, <3>1, <3>3 DEF Idle
      <4>2. QED
        BY <3>1, <4>1
    <3>4. QED
      BY <3>2, <3>3
  <2>6. CASE PlannerCreate
    <3>1. CASE UNCHANGED machine
      BY <2>2, <3>1 DEF machine
    <3>2. ASSUME NEW v \in Workers \ Alive, NEW k, StartMachine(v, k) PROVE Quiet(w)'
      <4>1. wpc' = [wpc EXCEPT ![v] = "boot"] /\ UNCHANGED <<todo, scan, task>> /\ wpc[v] = "off"
        BY <3>2 DEF StartMachine, Alive
      <4>2. QED
        BY <2>1, <4>1 DEF Idle
    <3>3. QED
      BY <2>6, <3>1, <3>2 DEF PlannerCreate
  <2>7. CASE UNCHANGED machine
    BY <2>2, <2>7 DEF machine
  <2>8. UNCHANGED machine \/ PlannerCreate \/ (\E v \in Workers : MainStep(v) \/ WorkerStops(v) \/ \E i \in Items : PoolStep(v, i))
    <3>1. UNCHANGED vars \/ GracePasses \/ (\E i \in Items : Store(i) \/ Retention(i)) \/ PlannerStops
          \/ (\E r \in BOOLEAN : PlannerTodo(r)) => UNCHANGED machine
      BY DEF vars, GracePasses, Store, Retention, PlannerStops, PlannerTodo
    <3>2. PlannerStep => UNCHANGED machine \/ PlannerCreate
      BY DEF PlannerStep, PlannerList, PlannerForget, PlannerOver, PlannerPlan, PlannerFirst
    <3>3. \A c \in Callers : DispatchStep(c) => UNCHANGED machine
      BY DEF DispatchStep, CreateMarker, RunsWaiting, DispatchWorkflow, RemoveMarker
    <3>4. QED
      BY <3>1, <3>2, <3>3 DEF Next
  <2>9. QED
    BY <2>3, <2>4, <2>5, <2>6, <2>7, <2>8
<1>4. QED
  BY <1>1, <1>2, <1>3 DEF AtRest

\* Without faults, with callers that never ask for another dispatch, and with no
\* replay of the plan that was gone and came back, the workers of a run need
\* nobody's help to dispatch it: when the last of them is gone and no call of the
\* planner is under way, the marker is there (Run: every worker counts what is
\* left, whoever finds nothing left dispatches).
THEOREM LastOutDispatches ==
  ASSUME TRUE \notin Options, Workers # {}
  PROVE  Spec => []LastOneDispatches
<1>1. TypeOK /\ TypeOK' /\ BumpsPaid /\ ShareInv /\ RefreshInv /\ DispatchInv /\ LastInv /\ [Next]_vars => LastInv'
  <2> SUFFICES ASSUME TypeOK, TypeOK', BumpsPaid, ShareInv, RefreshInv, DispatchInv, LastInv, [Next]_vars PROVE LastInv'
    OBVIOUS
  <2>1. AtRest'
    BY NextAtRest DEF LastInv
  <2>2. Undisturbed' => Underway'
    BY NextUnderway
  <2>3. QED
    BY <2>1, <2>2 DEF LastInv
<1>2. LastInv => LastOneDispatches
  BY DEF LastInv, Undisturbed, Underway, WillDispatch, Alive, LastOneDispatches
<1>3. /\ TypeOK /\ BumpsPaid /\ [Next]_vars => TypeOK'
      /\ TypeOK /\ BumpsPaid /\ TypeOK' /\ [Next]_vars => BumpsPaid'
      /\ TypeOK /\ ShareInv /\ [Next]_vars => ShareInv'
      /\ TypeOK /\ ShareInv /\ RefreshInv /\ [Next]_vars => RefreshInv'
      /\ DispatchInv /\ [Next]_vars => DispatchInv'
  BY TypeStep, NextBumps, NextShare, NextRefresh, NextDispatch
<1>4. Init => TypeOK /\ BumpsPaid /\ ShareInv /\ RefreshInv /\ DispatchInv /\ LastInv
  BY InitType, InitBumps, InitShare, InitRefresh, InitDispatch, InitLast
<1>5. QED
  BY <1>1, <1>2, <1>3, <1>4, PTL DEF Spec
=============================================================================
