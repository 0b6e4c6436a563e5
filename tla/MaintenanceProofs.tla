------------------------- MODULE MaintenanceProofs --------------------------
(***************************************************************************)
(* Maintenance for any vault, any number of requests, passes and rows:     *)
(* what a retention pass, purge-student and upload may do to it.           *)
(***************************************************************************)
EXTENDS Maintenance, ReplayMetaProofs, FiniteSetTheorems, WellFoundedInduction

\* Jobs go through ids in order: the least of a set of numbers is one of them.
LEMMA LeastOf ==
  ASSUME NEW S \in SUBSET Nat, S # {}
  PROVE  Least(S) \in S /\ \A j \in S : Least(S) <= j
<1> DEFINE R == {p \in Nat \X Nat : p[1] < p[2]}
<1>1. IsWellFoundedOn(R, Nat)
  BY NatLessThanWellFounded, Zenon DEF OpToRel
<1>2. PICK x \in S : \A y \in S : ~ (<<y, x>> \in R)
  <2> HIDE DEF R
  <2>1. QED
    BY <1>1, WFMin
<1>3. \A y \in S : x <= y
  <2> SUFFICES ASSUME NEW y \in S PROVE ~(y < x)
    OBVIOUS
  <2>1. <<y, x>> \notin R
    BY <1>2
  <2>2. QED
    BY <2>1
<1>4. QED
  BY <1>3, Zenon DEF Least

\* A finite set of numbers has a greatest one: of those with fewest above them.
LEMMA MostOf ==
  ASSUME NEW S \in SUBSET Nat, S # {}, IsFiniteSet(S)
  PROVE  Most(S) \in S /\ \A j \in S : j <= Most(S)
<1> DEFINE Above(x) == {y \in S : x < y}
           N == {Cardinality(Above(x)) : x \in S}
<1>1. \A x : IsFiniteSet(Above(x)) /\ Cardinality(Above(x)) \in Nat
  <2> TAKE x
  <2>1. Above(x) \in SUBSET S
    OBVIOUS
  <2>2. QED
    BY <2>1, FS_Subset, FS_CardinalityType
<1>2. N \in SUBSET Nat /\ N # {}
  BY <1>1
<1>3. PICK x \in S : \A y \in S : Cardinality(Above(x)) <= Cardinality(Above(y))
  <2>1. Least(N) \in N /\ \A n \in N : Least(N) <= n
    BY <1>2, LeastOf
  <2>2. QED
    BY <2>1
<1>4. \A y \in S : y <= x
  <2> SUFFICES ASSUME NEW y \in S, x < y PROVE FALSE
    OBVIOUS
  <2>1. Above(y) \in SUBSET Above(x) /\ y \in Above(x) /\ y \notin Above(y)
    <3>1. \A z \in S : y < z => x < z
      OBVIOUS
    <3>2. x < y /\ ~(y < y)
      OBVIOUS
    <3>3. QED
      BY <3>1, <3>2
  <2>2. Above(y) # Above(x)
    BY <2>1
  <2> HIDE DEF Above
  <2>3. /\ Cardinality(Above(y)) <= Cardinality(Above(x))
        /\ Cardinality(Above(x)) = Cardinality(Above(y)) => Above(x) = Above(y)
    BY <1>1, <2>1, FS_Subset
  <2>4. Cardinality(Above(x)) <= Cardinality(Above(y))
    BY <1>3
  <2>5. Cardinality(Above(x)) = Cardinality(Above(y))
    BY <1>1, <2>3, <2>4
  <2>6. QED
    BY <2>2, <2>3, <2>5
<1>5. QED
  BY <1>4, Zenon DEF Most

\* The patch of a date, and the one before a patch, are patches of the list or 0.
LEMMA PatchFacts ==
  /\ \A t \in Nat : PatchAt(t) \in {0} \cup Patches
  /\ \A t \in Nat, p \in Patches : PatchDate[p] <= t => p <= PatchAt(t)
  /\ \A p \in Nat : PatchBefore(p) \in {0} \cup Patches
  /\ \A t \in Nat : PatchAt(t) \in Nat
  /\ \A p \in Nat : PatchBefore(p) \in Nat
<1>1. /\ Patches \in SUBSET (Nat \ {0}) /\ IsFiniteSet(Patches)
      /\ PatchDate \in [Patches -> Nat]
  BY MetaAssumption, ShelfAssumption
<1>2. ASSUME NEW t \in Nat
      PROVE  /\ PatchAt(t) \in {0} \cup Patches
             /\ \A p \in Patches : PatchDate[p] <= t => p <= PatchAt(t)
  <2> DEFINE dated == {p \in Patches : PatchDate[p] <= t}
  <2>1. dated \in SUBSET Patches /\ dated \in SUBSET Nat
    BY <1>1
  <2>2. IsFiniteSet(dated)
    BY <1>1, <2>1, FS_Subset
  <2>3. PatchAt(t) = IF dated = {} THEN 0 ELSE Most(dated)
    BY DEF PatchAt
  <2>4. dated # {} => Most(dated) \in dated /\ \A j \in dated : j <= Most(dated)
    BY <2>1, <2>2, MostOf
  <2>5. QED
    BY <2>1, <2>3, <2>4
<1>3. ASSUME NEW p \in Nat PROVE PatchBefore(p) \in {0} \cup Patches
  <2> DEFINE older == {q \in Patches : q < p}
  <2>1. older \in SUBSET Patches /\ older \in SUBSET Nat
    BY <1>1
  <2>2. IsFiniteSet(older)
    BY <1>1, <2>1, FS_Subset
  <2>3. older # {} => Most(older) \in older
    BY <2>1, <2>2, MostOf
  <2>4. QED
    BY <2>1, <2>3 DEF PatchBefore
<1>0. \A x \in {0} \cup Patches : x \in Nat
  BY <1>1
<1>4. \A t \in Nat : PatchAt(t) \in Nat
  <2> SUFFICES ASSUME NEW t \in Nat PROVE PatchAt(t) \in Nat
    OBVIOUS
  <2>1. PatchAt(t) \in {0} \cup Patches
    BY <1>2
  <2>2. QED
    BY <1>0, <2>1, Zenon
<1>5. \A p \in Nat : PatchBefore(p) \in Nat
  <2> SUFFICES ASSUME NEW p \in Nat PROVE PatchBefore(p) \in Nat
    OBVIOUS
  <2>1. PatchBefore(p) \in {0} \cup Patches
    BY <1>3
  <2>2. QED
    BY <1>0, <2>1, Zenon
<1>6. QED
  BY <1>2, <1>3, <1>4, <1>5, Zenon

\* A game of a patch before the previous one was played before that one came.
LEMMA PlayedBefore ==
  ASSUME NEW id \in Ids, TruePatch(id) < PatchBefore(PatchAt(Now))
  PROVE  Played[id] < PatchDate[PatchBefore(PatchAt(Now))]
<1> DEFINE before == PatchBefore(PatchAt(Now))
<1>1. Played[id] \in Nat /\ Now \in Nat
  BY ShelfAssumption
<1>2. PatchAt(Now) \in Nat /\ TruePatch(id) \in Nat
  BY <1>1, PatchFacts, Zenon DEF TruePatch
<1>3. before \in {0} \cup Patches
  BY <1>2, PatchFacts, Zenon
<1> HIDE DEF before
<1>4. before \in Patches /\ before \in Nat
  <2>1. before \in Nat
    BY <1>2, PatchFacts, Zenon DEF before
  <2>2. before # 0
    BY <1>2, <2>1 DEF before
  <2>3. QED
    BY <1>3, <2>1, <2>2
<1>5. PatchDate[before] \in Nat
  BY <1>4, ShelfAssumption
<1>6. PatchDate[before] <= Played[id] => before <= TruePatch(id)
  BY <1>1, <1>4, PatchFacts DEF TruePatch
<1>7. ~(before <= TruePatch(id))
  BY <1>2, <1>4 DEF before
<1>8. QED
  BY <1>1, <1>5, <1>6, <1>7 DEF before

-----------------------------------------------------------------------------
\* A replay's metadata names the patch it was played on, or none.
TrueMeta(id, m) == m \in Meta /\ m.patch \in {0, TruePatch(id)}

\* Everything stored is a demo with true metadata.
VaultInv ==
  /\ vault \in [Ids -> {None} \cup Content]
  /\ \A id \in Ids : Has(id) => vault[id].body \in Demos /\ TrueMeta(id, vault[id].meta)

\* What one request may do to the vault: nothing, remove a replay, or store a
\* demo with true metadata.
VaultStep ==
  \/ UNCHANGED vault
  \/ \E id \in Ids : vault' = [vault EXCEPT ![id] = None]
  \/ \E id \in Ids, b \in Demos, m \in Meta :
       TrueMeta(id, m) /\ vault' = [vault EXCEPT ![id] = [body |-> b, meta |-> m]]

\* Such a step leaves only demos with true metadata.
LEMMA VaultStepInv ==
  ASSUME VaultInv, VaultStep
  PROVE  VaultInv'
<1> USE DEF VaultInv, Has
<1>1. CASE UNCHANGED vault
  BY <1>1
<1>2. CASE \E id \in Ids : vault' = [vault EXCEPT ![id] = None]
  BY <1>2
<1>3. CASE \E id \in Ids, b \in Demos, m \in Meta :
             TrueMeta(id, m) /\ vault' = [vault EXCEPT ![id] = [body |-> b, meta |-> m]]
  <2>1. PICK id \in Ids, b \in Demos, m \in Meta :
          TrueMeta(id, m) /\ vault' = [vault EXCEPT ![id] = [body |-> b, meta |-> m]]
    BY <1>3
  <2>2. [body |-> b, meta |-> m] \in Content
    BY CtlAssumption DEF Content
  <2>3. QED
    BY <2>1, <2>2
<1>4. QED
  BY <1>1, <1>2, <1>3 DEF VaultStep

\* Rewriting the metadata in place is such a step.
LEMMA RewriteStep ==
  ASSUME VaultInv, NEW id \in Ids, Has(id), NEW m, TrueMeta(id, m), vault' = [vault EXCEPT ![id].meta = m]
  PROVE  VaultStep
<1>1. vault[id] \in Content /\ vault[id].body \in Demos
  BY DEF VaultInv, Has
<1>2. [vault[id] EXCEPT !.meta = m] = [body |-> vault[id].body, meta |-> m]
  BY <1>1 DEF Content
<1>3. vault' = [vault EXCEPT ![id] = [body |-> vault[id].body, meta |-> m]]
  BY <1>2
<1>4. QED
  BY <1>1, <1>3 DEF VaultStep, TrueMeta

\* Reading back, merging, and what calls do to the metadata keep the patch true.
LEMMA TruthKept ==
  ASSUME NEW id \in Ids, NEW m, TrueMeta(id, m)
  PROVE  /\ TrueMeta(id, Stored(m))
         /\ TrueMeta(id, CarryOver(m))
         /\ \A w \in Meta : TrueMeta(id, w) => TrueMeta(id, Merge(m, w))
         /\ \A o \in Op : TrueMeta(id, o.want) => TrueMeta(id, Mutate(o, m))
         /\ TrueMeta(id, Detach(m, Account))
<1> USE DEF TrueMeta
<1>1. m \in Meta
  OBVIOUS
<1>2. TrueMeta(id, Stored(m))
  BY StoredType DEF Stored, Meta
<1>3. TrueMeta(id, CarryOver(m))
  BY CarryOverType DEF CarryOver, Meta
<1>4. ASSUME NEW w \in Meta, TrueMeta(id, w) PROVE TrueMeta(id, Merge(m, w))
  BY <1>4, MergeType DEF Merge
<1>5. \A a : Detach(m, a).patch = m.patch
  BY DEF Detach, Meta
<1>6. ASSUME NEW o \in Op, TrueMeta(id, o.want) PROVE TrueMeta(id, Mutate(o, m))
  <2>1. Mutate(o, m) \in Meta
    BY MutateType
  <2>2. Mutate(o, m).patch \in {m.patch, Merge(m, o.want).patch}
    BY <1>5 DEF Mutate, Meta
  <2>3. Merge(m, o.want).patch \in {0, TruePatch(id)}
    BY <1>4, <1>6
  <2>4. QED
    BY <2>1, <2>2, <2>3
<1>7. Detach(m, Account) \in Meta
  <2>1. m.also \in SUBSET Kinds /\ m.kind \in Kinds /\ m.accounts \in SUBSET Accounts
    BY DEF Meta
  <2>2. HighestKind(m.also) \in Kinds
    BY <2>1, HighestKindIn DEF Kinds
  <2>3. QED
    BY <2>1, <2>2 DEF Detach, Meta
<1>8. QED
  BY <1>2, <1>3, <1>4, <1>5, <1>6, <1>7

\* What the vault holds when the jobs start is that.
LEMMA InitVault == Init => VaultInv
<1> SUFFICES ASSUME Init PROVE VaultInv
  OBVIOUS
<1>1. vault \in Shelves /\ vault \in [Ids -> {None} \cup Content]
  BY ShelfAssumption DEF Init
<1>2. ASSUME NEW id \in Ids, Has(id) PROVE vault[id].body \in Demos /\ TrueMeta(id, vault[id].meta)
  BY <1>1, <1>2, CallersAssumption DEF Has, TrueMeta, Content
<1>3. QED
  BY <1>1, <1>2 DEF VaultInv

\* A request of a server
LEMMA RequestVault ==
  ASSUME VaultInv, NEW id \in Ids, NEW o \in Ops, Request(id, o)
  PROVE  VaultStep
<1>1. o \in Op /\ o.want \in Meta /\ TrueMeta(id, o.want)
  BY OpsAssumption DEF Request, TrueMeta, Op
<1>2. CASE Has(id)
  <2>1. TrueMeta(id, Stored(Mutate(o, vault[id].meta)))
    BY <1>1, <1>2, TruthKept DEF VaultInv
  <2>2. vault' = [vault EXCEPT ![id].meta = Stored(Mutate(o, vault[id].meta))]
    BY <1>2 DEF Request, Changed
  <2>3. QED
    BY <1>2, <2>1, <2>2, RewriteStep
<1>3. CASE ~Has(id)
  <2>1. o.want.stamp \in Demos /\ vault' = [vault EXCEPT ![id] = NewObject(o.want.stamp, o.want)]
    BY <1>3, CallersAssumption DEF Request
  <2>2. TrueMeta(id, Stored(o.want))
    BY <1>1, TruthKept
  <2>3. QED
    BY <2>1, <2>2 DEF VaultStep, NewObject, TrueMeta
<1>4. QED
  BY <1>2, <1>3

-----------------------------------------------------------------------------
\* Metadata as some pass found it, and dates or patches of some replays
Looks == UNION {[S -> Meta] : S \in SUBSET Ids}
Dates == UNION {[S -> Nat] : S \in SUBSET Ids}

\* Both are functions on ids, the empty one among them.
LEMMA LooksAre ==
  /\ \A f \in Looks : f \in [DOMAIN f -> Meta] /\ DOMAIN f \subseteq Ids
  /\ \A f \in Dates : f \in [DOMAIN f -> Nat] /\ DOMAIN f \subseteq Ids
  /\ \A S \in SUBSET Ids : \A f \in [S -> Meta] : f \in Looks
  /\ \A S \in SUBSET Ids : \A f \in [S -> Nat] : f \in Dates
  /\ <<>> \in Looks /\ <<>> \in Dates /\ DOMAIN <<>> = {}
<1>1. /\ \A f \in Looks : f \in [DOMAIN f -> Meta] /\ DOMAIN f \subseteq Ids
      /\ \A S \in SUBSET Ids : \A f \in [S -> Meta] : f \in Looks
  BY DEF Looks
<1>2. /\ \A f \in Dates : f \in [DOMAIN f -> Nat] /\ DOMAIN f \subseteq Ids
      /\ \A S \in SUBSET Ids : \A f \in [S -> Nat] : f \in Dates
  BY DEF Dates
<1>3. <<>> \in [{} -> Meta] /\ <<>> \in [{} -> Nat] /\ {} \in SUBSET Ids /\ DOMAIN <<>> = {}
  OBVIOUS
<1>4. <<>> \in Looks /\ <<>> \in Dates
  BY <1>1, <1>2, <1>3, Zenon
<1>5. QED
  BY <1>1, <1>2, <1>3, <1>4, Zenon

\* The types of a pass's fields
SweepType ==
  sweep \in [pc : {"idle", "purgeList", "prefetch", "purge", "patches", "list", "heads", "times", "date", "look",
                   "delete", "report"},
             apply : BOOLEAN, prefetchApply : BOOLEAN, list : Seq(Ids), named : Nat, purged : Nat,
             heads : SUBSET Ids, seen : Looks, pool : SUBSET Ids, times : Dates, todate : SUBSET Ids,
             old : Dates, todo : SUBSET Ids, at : Nat, base : {None} \cup Meta, deleted : Nat, passes : Nat]

\* What the pass has in hand: the pool is of what it saw, what is old of the pool.
SweepData ==
  /\ sweep.pool \subseteq DOMAIN sweep.seen /\ sweep.todate \subseteq sweep.pool
  /\ DOMAIN sweep.old \subseteq sweep.pool /\ sweep.todo \subseteq DOMAIN sweep.old
  /\ sweep.pc \notin {"times", "date", "look", "delete", "report"} => sweep.pool = {}

\* It is all true of the replays, whatever happened to them since.
SweepTrue ==
  /\ \A id \in DOMAIN sweep.seen : TrueMeta(id, sweep.seen[id])
  /\ \A id \in DOMAIN sweep.times : sweep.times[id] = Played[id]
  /\ \A id \in sweep.pool : \/ sweep.seen[id].kind = "coach"
                            \/ sweep.seen[id].kind = "pro" /\ id \notin Pinned
  /\ \A id \in DOMAIN sweep.old : TruePatch(id) < PatchBefore(PatchAt(Now))
  /\ sweep.pc = "delete" => /\ sweep.at \in DOMAIN sweep.old
                            /\ sweep.base.kind = sweep.seen[sweep.at].kind
  /\ sweep.pc = "purge" => sweep.at \in Ids

\* What was removed, what is about to be and what may yet be, against the bounds
SweepBudget ==
  /\ sweep.purged + (IF sweep.pc = "purge" THEN 1 ELSE 0) <= sweep.named /\ sweep.named <= PrefetchMax
  /\ sweep.pc \notin {"look", "delete", "report"} => sweep.deleted = 0
  /\ sweep.pc \in {"look", "delete"} =>
       /\ Cardinality(DOMAIN sweep.old) * 100 <= Cardinality(sweep.pool) * MaxPercent
       /\ sweep.deleted + Cardinality(sweep.todo) + (IF sweep.pc = "delete" THEN 1 ELSE 0) <= Cardinality(DOMAIN sweep.old)
  /\ sweep.deleted * 100 <= Cardinality(sweep.pool) * MaxPercent

SweepInv == SweepType /\ SweepData /\ SweepTrue /\ SweepBudget

\* Sets of ids are finite, and a percentage of one is a number.
LEMMA IdSets ==
  \A S \in SUBSET Ids : IsFiniteSet(S) /\ Cardinality(S) \in Nat /\ Cardinality(S) * MaxPercent \in Nat
<1> TAKE S \in SUBSET Ids
<1>1. IsFiniteSet(S) /\ Cardinality(S) \in Nat
  BY ShelfAssumption, FS_Subset, FS_CardinalityType
<1>2. MaxPercent \in Nat
  BY RetentionAssumption
<1>3. QED
  BY <1>1, <1>2

\* A pass that starts, or is over, has nothing in hand.
LEMMA FreshSweep ==
  ASSUME NEW p \in Nat, NEW a \in BOOLEAN, NEW b \in BOOLEAN, NEW pc \in {"idle", "purgeList"},
         sweep' = [pc |-> pc, apply |-> a, prefetchApply |-> b, list |-> <<>>, named |-> 0, purged |-> 0, heads |-> {},
                   seen |-> <<>>, pool |-> {}, times |-> <<>>, todate |-> {}, old |-> <<>>, todo |-> {}, at |-> 0,
                   base |-> None, deleted |-> 0, passes |-> p]
  PROVE  SweepInv'
<1>1. SweepType'
  BY LooksAre DEF SweepType
<1>2. /\ sweep'.pc = pc /\ sweep'.pool = {} /\ sweep'.todate = {} /\ sweep'.todo = {} /\ sweep'.deleted = 0
      /\ sweep'.named = 0 /\ sweep'.purged = 0
      /\ sweep'.pc \notin {"look", "delete", "purge", "report", "times", "date"}
  OBVIOUS
<1>3. sweep'.seen = <<>> /\ sweep'.old = <<>> /\ sweep'.times = <<>>
  OBVIOUS
<1>4. DOMAIN sweep'.seen = {} /\ DOMAIN sweep'.old = {} /\ DOMAIN sweep'.times = {}
  BY <1>3, LooksAre
<1>5. SweepData' /\ SweepTrue'
  BY <1>2, <1>4 DEF SweepData, SweepTrue
<1>6. SweepBudget'
  <2>1. Cardinality({}) * MaxPercent \in Nat /\ PrefetchMax \in Nat
    BY IdSets, RetentionAssumption
  <2>2. sweep'.deleted * 100 <= Cardinality(sweep'.pool) * MaxPercent
    BY <1>2, <2>1
  <2>3. sweep'.purged + (IF sweep'.pc = "purge" THEN 1 ELSE 0) <= sweep'.named /\ sweep'.named <= PrefetchMax
    BY <1>2, <2>1
  <2>4. QED
    BY <1>2, <2>2, <2>3 DEF SweepBudget
<1>7. QED
  BY <1>1, <1>5, <1>6 DEF SweepInv

\* The pass before it has listed anything
LEMMA EarlySweep ==
  ASSUME SweepInv, SweepType', sweep.pc \notin {"times", "date", "look", "delete", "report"},
         sweep'.pc \notin {"times", "date", "look", "delete"},
         sweep'.pc = "purge" => sweep'.at \in Ids,
         sweep'.pool = sweep.pool, sweep'.todate = sweep.todate, sweep'.old = sweep.old, sweep'.todo = sweep.todo,
         sweep'.times = sweep.times, sweep'.deleted = sweep.deleted,
         DOMAIN sweep.seen \subseteq DOMAIN sweep'.seen, \A id \in DOMAIN sweep'.seen : TrueMeta(id, sweep'.seen[id]),
         sweep'.purged + (IF sweep'.pc = "purge" THEN 1 ELSE 0) <= sweep'.named, sweep'.named <= PrefetchMax
  PROVE  SweepInv'
<1> USE DEF SweepInv
<1>1. SweepData' /\ SweepTrue'
  BY DEF SweepData, SweepTrue
<1>2. SweepBudget'
  BY DEF SweepBudget
<1>3. QED
  BY <1>1, <1>2

\* At the start no pass has anything in hand.
LEMMA InitSweep == Init => SweepInv
<1> SUFFICES ASSUME Init PROVE SweepInv
  OBVIOUS
<1> USE DEF Idle
<1>0. sweep = Idle
  BY DEF Init
<1>1. SweepType
  BY <1>0, LooksAre DEF SweepType
<1>2. /\ sweep.pc = "idle" /\ sweep.pool = {} /\ sweep.todate = {} /\ sweep.todo = {} /\ sweep.deleted = 0
      /\ sweep.named = 0 /\ sweep.purged = 0
  BY <1>0
<1>3. sweep.seen = <<>> /\ sweep.old = <<>> /\ sweep.times = <<>>
  BY <1>0
<1>4. DOMAIN sweep.seen = {} /\ DOMAIN sweep.old = {} /\ DOMAIN sweep.times = {}
  BY <1>3, LooksAre
<1> HIDE DEF Idle
<1>5. SweepData /\ SweepTrue
  BY <1>2, <1>4 DEF SweepData, SweepTrue
<1>6. SweepBudget
  <2>1. Cardinality({}) * MaxPercent \in Nat /\ PrefetchMax \in Nat
    BY IdSets, RetentionAssumption
  <2>2. QED
    BY <1>2, <2>1 DEF SweepBudget
<1>7. QED
  BY <1>1, <1>5, <1>6 DEF SweepInv

\* What the looks of a pass add is true.
LEMMA SawTrue ==
  ASSUME VaultInv, NEW seen \in Looks, \A i \in DOMAIN seen : TrueMeta(i, seen[i]), NEW id \in Ids
  PROVE  /\ Saw(seen, id) \in Looks /\ DOMAIN seen \subseteq DOMAIN Saw(seen, id)
         /\ \A i \in DOMAIN Saw(seen, id) : TrueMeta(i, Saw(seen, id)[i])
         /\ DOMAIN Saw(seen, id) \subseteq Ids
<1>1. seen \in [DOMAIN seen -> Meta] /\ DOMAIN seen \subseteq Ids
  BY LooksAre
<1>2. CASE Has(id)
  <2> DEFINE f == [i \in DOMAIN seen \cup {id} |-> IF i = id THEN vault[id].meta ELSE seen[i]]
  <2>1. Saw(seen, id) = f
    BY <1>2 DEF Saw
  <2>2. TrueMeta(id, vault[id].meta) /\ vault[id].meta \in Meta
    BY <1>2 DEF VaultInv, TrueMeta
  <2>3. DOMAIN seen \cup {id} \in SUBSET Ids /\ f \in [DOMAIN seen \cup {id} -> Meta]
    BY <1>1, <2>2
  <2>4. f \in Looks
    BY <2>3, LooksAre
  <2>5. \A i \in DOMAIN f : TrueMeta(i, f[i])
    BY <2>2
  <2>6. QED
    BY <2>1, <2>3, <2>4, <2>5
<1>3. CASE ~Has(id)
  BY <1>1, <1>3 DEF Saw
<1>4. QED
  BY <1>2, <1>3

\* Up to the listing
LEMMA ListSteps ==
  ASSUME VaultInv, SweepInv,
         PurgeList \/ PrefetchFind \/ PrefetchDelete \/ PrefetchEnd \/ FetchPatches \/ ListIDs \/ \E id \in Ids : HeadOne(id)
  PROVE  SweepInv' /\ VaultStep
<1> USE DEF SweepInv
<1>1. CASE PurgeList
  <2>1. PICK list \in PurgeLists \cup {<<>>} : sweep' = [sweep EXCEPT !.pc = "prefetch", !.list = list]
    BY <1>1 DEF PurgeList
  <2>2. list \in Seq(Ids)
    <3>1. PurgeLists \subseteq Seq(Ids) /\ <<>> \in Seq(Ids)
      BY RetentionAssumption
    <3>2. QED
      BY <3>1
  <2>3. SweepType'
    BY <2>1, <2>2 DEF SweepType
  <2>4. /\ sweep.pc = "purgeList" /\ sweep'.pc = "prefetch" /\ UNCHANGED vault
        /\ sweep'.pool = sweep.pool /\ sweep'.todate = sweep.todate /\ sweep'.old = sweep.old /\ sweep'.todo = sweep.todo
        /\ sweep'.times = sweep.times /\ sweep'.deleted = sweep.deleted /\ sweep'.seen = sweep.seen
        /\ sweep'.purged = sweep.purged /\ sweep'.named = sweep.named
    BY <1>1, <2>1 DEF PurgeList, SweepType
  <2>5. sweep.purged + 0 <= sweep.named /\ sweep.named <= PrefetchMax
    BY <2>4 DEF SweepBudget
  <2>6. QED
    BY <2>3, <2>4, <2>5, EarlySweep DEF SweepTrue, VaultStep
<1>2. CASE PrefetchFind
  <2> DEFINE id == Head(sweep.list)
             goes == Has(id) /\ PrefetchLook(vault[id].meta)
             n == IF goes THEN sweep.named + 1 ELSE sweep.named
             pc == IF goes /\ sweep.prefetchApply THEN "purge" ELSE sweep.pc
             at == IF goes THEN id ELSE 0
             base == IF goes THEN vault[id].meta ELSE None
  <2>1. /\ sweep.pc = "prefetch" /\ sweep.list # <<>> /\ sweep.named < PrefetchMax /\ UNCHANGED vault
        /\ sweep' = [sweep EXCEPT !.list = Tail(sweep.list), !.named = n, !.pc = pc, !.at = at, !.base = base]
    BY <1>2, Zenon DEF PrefetchFind
  <2>2. /\ sweep.list \in Seq(Ids) /\ sweep.named \in Nat /\ sweep.purged \in Nat
        /\ PrefetchMax \in Nat /\ Ids \subseteq Nat
    BY RetentionAssumption, ShelfAssumption DEF SweepType
  <2>3. id \in Ids /\ Tail(sweep.list) \in Seq(Ids)
    BY <2>1, <2>2
  <2> HIDE DEF id
  <2>4. goes => vault[id].meta \in Meta
    BY <2>3 DEF VaultInv, TrueMeta
  <2>5. /\ n \in Nat /\ pc \in {"prefetch", "purge"} /\ at \in Nat /\ base \in {None} \cup Meta
        /\ pc = "purge" => at \in Ids /\ n = sweep.named + 1
        /\ sweep.named <= n /\ n <= PrefetchMax
    BY <2>1, <2>2, <2>3, <2>4
  <2> HIDE DEF n, pc, at, base, goes
  <2>6. SweepType'
    BY <2>1, <2>3, <2>5 DEF SweepType
  <2>7. /\ sweep'.pc = pc /\ sweep'.at = at
        /\ sweep'.pool = sweep.pool /\ sweep'.todate = sweep.todate /\ sweep'.old = sweep.old /\ sweep'.todo = sweep.todo
        /\ sweep'.times = sweep.times /\ sweep'.deleted = sweep.deleted /\ sweep'.seen = sweep.seen
        /\ sweep'.purged = sweep.purged /\ sweep'.named = n
    BY <2>1 DEF SweepType
  <2>8. sweep.purged <= sweep.named
    BY <2>1, <2>2 DEF SweepBudget
  <2>9. sweep'.purged + (IF sweep'.pc = "purge" THEN 1 ELSE 0) <= sweep'.named
    BY <2>2, <2>5, <2>7, <2>8
  <2>10. QED
    BY <2>1, <2>5, <2>6, <2>7, <2>9, EarlySweep DEF SweepTrue, VaultStep
<1>3. CASE PrefetchDelete
  <2>1. /\ sweep.pc = "purge" /\ vault' = [vault EXCEPT ![sweep.at] = None]
        /\ sweep' = [sweep EXCEPT !.pc = "prefetch", !.purged = sweep.purged + 1, !.at = 0, !.base = None]
    BY <1>3 DEF PrefetchDelete, Removed
  <2>2. SweepType'
    <3>1. sweep.purged + 1 \in Nat
      BY DEF SweepType
    <3> DEFINE n == sweep.purged + 1
    <3> HIDE DEF n
    <3>2. n \in Nat /\ sweep' = [sweep EXCEPT !.pc = "prefetch", !.purged = n, !.at = 0, !.base = None]
      BY <2>1, <3>1 DEF n
    <3>3. QED
      BY <3>2 DEF SweepType
  <2>3. /\ sweep'.pc = "prefetch"
        /\ sweep'.pool = sweep.pool /\ sweep'.todate = sweep.todate /\ sweep'.old = sweep.old /\ sweep'.todo = sweep.todo
        /\ sweep'.times = sweep.times /\ sweep'.deleted = sweep.deleted /\ sweep'.seen = sweep.seen
        /\ sweep'.purged = sweep.purged + 1 /\ sweep'.named = sweep.named
    BY <2>1 DEF SweepType
  <2>4. sweep.purged + 1 <= sweep.named /\ sweep.named <= PrefetchMax /\ sweep.purged \in Nat
    BY <2>1 DEF SweepBudget, SweepType
  <2>5. sweep.at \in Ids
    BY <2>1 DEF SweepTrue
  <2>6. VaultStep
    BY <2>1, <2>5 DEF VaultStep
  <2>7. QED
    BY <2>1, <2>2, <2>3, <2>4, <2>6, EarlySweep DEF SweepTrue
<1>4. CASE PrefetchEnd \/ FetchPatches \/ ListIDs
  <2>1. /\ sweep.pc \in {"prefetch", "purge", "patches", "list"} /\ UNCHANGED vault
        /\ SweepType' /\ sweep'.pc \in {"patches", "report", "list", "heads"}
        /\ sweep'.pool = sweep.pool /\ sweep'.todate = sweep.todate /\ sweep'.old = sweep.old /\ sweep'.todo = sweep.todo
        /\ sweep'.times = sweep.times /\ sweep'.deleted = sweep.deleted /\ sweep'.seen = sweep.seen
        /\ sweep'.purged = sweep.purged /\ sweep'.named = sweep.named
    <3>1. CASE PrefetchEnd
      <4>1. /\ sweep.pc \in {"prefetch", "purge"} /\ UNCHANGED vault
            /\ sweep' = [sweep EXCEPT !.pc = "patches", !.list = <<>>, !.at = 0, !.base = None]
        BY <3>1 DEF PrefetchEnd, Goto
      <4>2. <<>> \in Seq(Ids)
        OBVIOUS
      <4>3. QED
        BY <4>1, <4>2 DEF SweepType
    <3>2. CASE FetchPatches
      BY <3>2 DEF FetchPatches, Goto, SweepType
    <3>3. CASE ListIDs
      BY <3>3 DEF ListIDs, SweepType
    <3>4. QED
      BY <1>4, <3>1, <3>2, <3>3
  <2>2. sweep.purged + 0 <= sweep.named /\ sweep.named <= PrefetchMax
    BY RetentionAssumption DEF SweepBudget, SweepType
  <2>3. QED
    BY <2>1, <2>2, EarlySweep DEF SweepTrue, VaultStep
<1>5. ASSUME NEW id \in Ids, HeadOne(id) PROVE SweepInv' /\ VaultStep
  <2>1. /\ sweep.pc = "heads" /\ UNCHANGED vault
        /\ sweep' = [sweep EXCEPT !.heads = sweep.heads \ {id}, !.seen = Saw(sweep.seen, id)]
    BY <1>5 DEF HeadOne
  <2>2. sweep.seen \in Looks
    BY DEF SweepType
  <2>3. /\ Saw(sweep.seen, id) \in Looks /\ DOMAIN sweep.seen \subseteq DOMAIN Saw(sweep.seen, id)
        /\ \A i \in DOMAIN Saw(sweep.seen, id) : TrueMeta(i, Saw(sweep.seen, id)[i])
    BY <2>2, SawTrue DEF SweepTrue
  <2>4. SweepType'
    BY <2>1, <2>3 DEF SweepType
  <2>5. /\ sweep'.pc = "heads"
        /\ sweep'.pool = sweep.pool /\ sweep'.todate = sweep.todate /\ sweep'.old = sweep.old /\ sweep'.todo = sweep.todo
        /\ sweep'.times = sweep.times /\ sweep'.deleted = sweep.deleted /\ sweep'.seen = Saw(sweep.seen, id)
        /\ sweep'.purged = sweep.purged /\ sweep'.named = sweep.named
    BY <2>1 DEF SweepType
  <2>6. sweep.purged + 0 <= sweep.named /\ sweep.named <= PrefetchMax
    BY <2>1 DEF SweepBudget
  <2>7. QED
    BY <2>1, <2>3, <2>4, <2>5, <2>6, EarlySweep DEF VaultStep
<1>6. QED
  BY <1>1, <1>2, <1>3, <1>4, <1>5

\* The pool is made of what was seen, and dated by the markers.
LEMMA DateSteps ==
  ASSUME VaultInv, SweepInv, FetchPins \/ StartTimes
  PROVE  SweepInv' /\ UNCHANGED vault
<1> USE DEF SweepInv
<1>1. CASE FetchPins
  <2>1. PICK h \in BOOLEAN :
          LET pool == Pool(sweep.seen, h, IF h THEN Pinned ELSE {})
          IN  sweep' = [sweep EXCEPT !.pc = "times", !.pool = pool, !.todate = pool]
    BY <1>1, Zenon DEF FetchPins
  <2> DEFINE pool == Pool(sweep.seen, h, IF h THEN Pinned ELSE {})
  <2>2. /\ pool \subseteq DOMAIN sweep.seen
        /\ \A id \in pool : \/ sweep.seen[id].kind = "coach"
                            \/ sweep.seen[id].kind = "pro" /\ id \notin Pinned
    BY DEF Pool
  <2>3. sweep' = [sweep EXCEPT !.pc = "times", !.pool = pool, !.todate = pool]
    BY <2>1
  <2> HIDE DEF pool
  <2>4. sweep.pc = "heads" /\ UNCHANGED vault /\ DOMAIN sweep.seen \subseteq Ids
    BY <1>1, LooksAre DEF FetchPins, SweepType
  <2>5. SweepType'
    BY <2>2, <2>3, <2>4 DEF SweepType
  <2>6. /\ sweep'.pc = "times" /\ sweep'.pool = pool /\ sweep'.todate = pool
        /\ sweep'.old = sweep.old /\ sweep'.todo = sweep.todo
        /\ sweep'.times = sweep.times /\ sweep'.deleted = sweep.deleted /\ sweep'.seen = sweep.seen
        /\ sweep'.purged = sweep.purged /\ sweep'.named = sweep.named
    BY <2>3 DEF SweepType
  <2>7. SweepData'
    BY <2>2, <2>4, <2>6 DEF SweepData
  <2>8. SweepTrue'
    BY <2>2, <2>6 DEF SweepTrue
  <2>9. SweepBudget'
    <3>1. sweep.deleted = 0 /\ Cardinality(pool) * MaxPercent \in Nat
      BY <2>2, <2>4, IdSets DEF SweepBudget
    <3>2. sweep'.deleted * 100 <= Cardinality(sweep'.pool) * MaxPercent
      BY <2>6, <3>1
    <3>3. sweep.purged + 0 <= sweep.named /\ sweep.named <= PrefetchMax
      BY <2>4 DEF SweepBudget
    <3>4. QED
      BY <2>6, <3>1, <3>2, <3>3 DEF SweepBudget
  <2>10. QED
    BY <2>4, <2>5, <2>7, <2>8, <2>9
<1>2. CASE StartTimes
  <2>1. PICK known \in SUBSET {id \in sweep.pool : sweep.seen[id].patch = 0 /\ NewestStart(id) > 0} :
          sweep' = [sweep EXCEPT !.pc = "date", !.times = [id \in known |-> NewestStart(id)]]
    BY <1>2 DEF StartTimes
  <2> DEFINE times == [id \in known |-> NewestStart(id)]
  <2>2. sweep.pc = "times" /\ UNCHANGED vault /\ sweep.pool \subseteq Ids /\ known \in SUBSET Ids
    BY <1>2, <2>1 DEF StartTimes, SweepType
  <2>3. \A id \in known : NewestStart(id) = Played[id] /\ Played[id] \in Nat
    <3> SUFFICES ASSUME NEW id \in known PROVE NewestStart(id) = Played[id] /\ Played[id] \in Nat
      OBVIOUS
    <3>1. id \in Ids /\ NewestStart(id) > 0
      BY <2>1, <2>2
    <3>2. DoneStart[id] \in Seq({0, Played[id]}) /\ Played[id] \in Nat
      BY <3>1, RetentionAssumption, ShelfAssumption
    <3>3. DoneStart[id] # <<>>
      BY <3>1 DEF NewestStart
    <3>4. NewestStart(id) = DoneStart[id][Len(DoneStart[id])]
      BY <3>3 DEF NewestStart
    <3>5. NewestStart(id) \in {0, Played[id]}
      BY <3>2, <3>3, <3>4
    <3>6. QED
      BY <3>1, <3>2, <3>5
  <2>4. times \in [known -> Nat] /\ DOMAIN times = known /\ \A id \in known : times[id] = Played[id]
    BY <2>3
  <2> HIDE DEF times
  <2>5. times \in Dates
    BY <2>2, <2>4, LooksAre
  <2>6. sweep' = [sweep EXCEPT !.pc = "date", !.times = times]
    BY <2>1 DEF times
  <2>7. SweepType'
    BY <2>5, <2>6 DEF SweepType
  <2>8. /\ sweep'.pc = "date" /\ sweep'.pool = sweep.pool /\ sweep'.todate = sweep.todate
        /\ sweep'.old = sweep.old /\ sweep'.todo = sweep.todo
        /\ sweep'.times = times /\ sweep'.deleted = sweep.deleted /\ sweep'.seen = sweep.seen
        /\ sweep'.purged = sweep.purged /\ sweep'.named = sweep.named
    BY <2>6 DEF SweepType
  <2>9. SweepData' /\ SweepTrue'
    BY <2>2, <2>4, <2>8 DEF SweepData, SweepTrue
  <2>10. SweepBudget'
    BY <2>2, <2>8 DEF SweepBudget
  <2>11. QED
    BY <2>2, <2>7, <2>9, <2>10
<1>3. QED
  BY <1>1, <1>2

\* A replay of the pool is filed under the patch it was played on, and the patch
\* is written to it where it had none.
LEMMA DateOneStep ==
  ASSUME VaultInv, SweepInv, DateOne
  PROVE  SweepInv' /\ VaultStep
<1> USE DEF SweepInv
<1> DEFINE id == Least(sweep.todate)
           p == PatchOf(id)
           before == PatchBefore(PatchAt(Now))
           isOld == p # 0 /\ p < before
           old == IF isOld THEN [i \in DOMAIN sweep.old \cup {id} |-> IF i = id THEN p ELSE sweep.old[i]] ELSE sweep.old
<1>1. /\ sweep.pc = "date" /\ sweep.todate # {} /\ (Resolved(id) => Has(id))
      /\ vault' = IF Resolved(id) THEN UpdateMeta(id, Hint(sweep.seen[id].kind, p)) ELSE vault
      /\ sweep' = [sweep EXCEPT !.todate = sweep.todate \ {id}, !.old = old]
  BY DEF DateOne
<1>2. id \in sweep.pool /\ id \in Ids /\ id \in DOMAIN sweep.seen
  <2>1. sweep.todate \in SUBSET Nat
    BY ShelfAssumption DEF SweepType
  <2>2. id \in sweep.todate
    BY <1>1, <2>1, LeastOf
  <2>3. QED
    BY <2>2 DEF SweepData, SweepType
<1> HIDE DEF id
<1>3. TrueMeta(id, sweep.seen[id])
  BY <1>2 DEF SweepTrue
<1>4. Played[id] \in Nat /\ TruePatch(id) \in Nat /\ TruePatch(id) \in {0} \cup Patches
  <2>1. Played[id] \in Nat
    BY <1>2, ShelfAssumption
  <2>2. QED
    BY <2>1, PatchFacts, Zenon DEF TruePatch
<1>5. p \in {0, TruePatch(id)}
  <2>1. CASE sweep.seen[id].patch # 0
    BY <1>3, <2>1 DEF PatchOf, TrueMeta
  <2>2. CASE sweep.seen[id].patch = 0 /\ id \in DOMAIN sweep.times
    <3>1. sweep.times[id] = Played[id]
      BY <2>2 DEF SweepTrue
    <3>2. QED
      BY <2>2, <3>1 DEF PatchOf, TruePatch
  <2>3. CASE sweep.seen[id].patch = 0 /\ id \notin DOMAIN sweep.times
    BY <2>3 DEF PatchOf
  <2>4. QED
    BY <2>1, <2>2, <2>3
<1> HIDE DEF p
<1>6. VaultStep
  <2>1. CASE ~Resolved(id)
    BY <1>1, <2>1 DEF VaultStep
  <2>2. CASE Resolved(id)
    <3> DEFINE h == Hint(sweep.seen[id].kind, p)
    <3>1. sweep.seen[id].kind \in Kinds /\ p \in {0} \cup Patches
      BY <1>3, <1>4, <1>5 DEF TrueMeta, Meta
    <3>2. h \in Meta /\ h.patch = p
      BY <3>1 DEF Hint, Meta
    <3> HIDE DEF h
    <3>3. TrueMeta(id, h)
      BY <1>5, <3>2 DEF TrueMeta
    <3>4. Has(id) /\ TrueMeta(id, vault[id].meta)
      BY <1>1, <1>2, <2>2 DEF VaultInv
    <3>5. TrueMeta(id, Merge(vault[id].meta, h))
      BY <1>2, <3>2, <3>3, <3>4, TruthKept
    <3>6. TrueMeta(id, Stored(Merge(vault[id].meta, h)))
      BY <1>2, <3>5, TruthKept
    <3>7. vault' = [vault EXCEPT ![id].meta = Stored(Merge(vault[id].meta, h))]
      BY <1>1, <2>2 DEF UpdateMeta, h
    <3>8. QED
      BY <1>2, <3>4, <3>6, <3>7, RewriteStep
  <2>3. QED
    BY <2>1, <2>2
<1>7. sweep.old \in Dates /\ DOMAIN sweep.old \subseteq sweep.pool /\ sweep.pool \subseteq Ids
      /\ sweep.old \in [DOMAIN sweep.old -> Nat]
  BY LooksAre DEF SweepType, SweepData
<1>8. /\ old \in Dates /\ DOMAIN sweep.old \subseteq DOMAIN old /\ DOMAIN old \subseteq sweep.pool
      /\ \A i \in DOMAIN old : TruePatch(i) < before
  <2>1. CASE isOld
    <3>1. p \in Nat /\ p = TruePatch(id)
      BY <1>4, <1>5, <2>1
    <3>2. DOMAIN sweep.old \cup {id} \in SUBSET Ids
      BY <1>2, <1>7
    <3>3. old = [i \in DOMAIN sweep.old \cup {id} |-> IF i = id THEN p ELSE sweep.old[i]]
      BY <2>1
    <3>4. old \in [DOMAIN sweep.old \cup {id} -> Nat]
      BY <1>7, <3>1, <3>3
    <3>5. DOMAIN old = DOMAIN sweep.old \cup {id}
      BY <3>3
    <3>6. \A i \in DOMAIN sweep.old : TruePatch(i) < before
      BY DEF SweepTrue
    <3>7. old \in Dates
      BY <3>2, <3>4, LooksAre
    <3>8. TruePatch(id) < before
      BY <2>1, <3>1
    <3> HIDE DEF old, before
    <3>9. QED
      BY <1>2, <1>7, <3>5, <3>6, <3>7, <3>8
  <2>2. CASE ~isOld
    BY <1>7, <2>2 DEF SweepTrue
  <2>3. QED
    BY <2>1, <2>2
<1> HIDE DEF old, before
<1>9. SweepType'
  BY <1>1, <1>8 DEF SweepType
<1>10. /\ sweep'.pc = "date" /\ sweep'.pool = sweep.pool /\ sweep'.todate = sweep.todate \ {id}
       /\ sweep'.old = old /\ sweep'.todo = sweep.todo
       /\ sweep'.times = sweep.times /\ sweep'.deleted = sweep.deleted /\ sweep'.seen = sweep.seen
       /\ sweep'.purged = sweep.purged /\ sweep'.named = sweep.named
  BY <1>1 DEF SweepType
<1>11. SweepData'
  BY <1>1, <1>8, <1>10 DEF SweepData
<1>12. SweepTrue'
  BY <1>1, <1>8, <1>10 DEF SweepTrue, before
<1>13. SweepBudget'
  BY <1>1, <1>10 DEF SweepBudget
<1>14. QED
  BY <1>6, <1>9, <1>11, <1>12, <1>13

\* The share of the pool that may go, and the deletes one by one
LEMMA DeleteSteps ==
  ASSUME VaultInv, SweepInv, Guard \/ Look \/ DeleteOld \/ Finish
  PROVE  SweepInv' /\ VaultStep
<1> USE DEF SweepInv
<1>1. /\ sweep.pool \in SUBSET Ids /\ DOMAIN sweep.old \in SUBSET Ids /\ sweep.todo \in SUBSET Ids
      /\ sweep.deleted \in Nat /\ sweep.purged \in Nat /\ sweep.named \in Nat
  BY LooksAre DEF SweepType, SweepData
<1>2. CASE Guard
  <2>1. /\ sweep.pc = "date" /\ UNCHANGED vault
        /\ \/ /\ sweep' = [sweep EXCEPT !.pc = "look", !.todo = DOMAIN sweep.old]
              /\ ~TooMany(Cardinality(DOMAIN sweep.old), Cardinality(sweep.pool))
           \/ sweep' = [sweep EXCEPT !.pc = "report"]
    BY <1>2 DEF Guard, Goto
  <2>2. /\ sweep'.pc \in {"look", "report"} /\ sweep'.pool = sweep.pool /\ sweep'.todate = sweep.todate
        /\ sweep'.old = sweep.old /\ sweep'.todo \in {sweep.todo, DOMAIN sweep.old}
        /\ sweep'.times = sweep.times /\ sweep'.deleted = sweep.deleted /\ sweep'.seen = sweep.seen
        /\ sweep'.purged = sweep.purged /\ sweep'.named = sweep.named
        /\ sweep'.pc = "look" => /\ ~TooMany(Cardinality(DOMAIN sweep.old), Cardinality(sweep.pool))
                                 /\ sweep'.todo = DOMAIN sweep.old
    BY <1>1, <2>1 DEF SweepType
  <2>3. SweepData' /\ SweepTrue'
    BY <2>1, <2>2 DEF SweepData, SweepTrue
  <2>4. SweepBudget'
    <3> DEFINE o == Cardinality(DOMAIN sweep.old)
               k == Cardinality(sweep.pool)
               share == k * MaxPercent
    <3>1. o \in Nat /\ k \in Nat /\ share \in Nat /\ o <= k
      <4>1. IsFiniteSet(sweep.pool) /\ DOMAIN sweep.old \in SUBSET sweep.pool
        BY <1>1, IdSets DEF SweepData
      <4>2. QED
        BY <1>1, <4>1, IdSets, FS_Subset
    <3>2. sweep'.pc = "look" => o * 100 <= share
      <4>1. CASE k = 0
        <5>1. o = 0
          BY <3>1, <4>1
        <5>2. QED
          BY <3>1, <5>1
      <4>2. CASE k > 0
        BY <2>2, <3>1, <4>2 DEF TooMany
      <4>3. QED
        BY <3>1, <4>1, <4>2
    <3>3. sweep.deleted = 0 /\ sweep.deleted * 100 <= share
      BY <2>1 DEF SweepBudget
    <3>4. sweep.purged + 0 <= sweep.named /\ sweep.named <= PrefetchMax
      BY <2>1 DEF SweepBudget
    <3>5. sweep'.pc = "look" => Cardinality(sweep'.todo) = o
      BY <2>2
    <3>6. Cardinality(DOMAIN sweep'.old) = o /\ Cardinality(sweep'.pool) * MaxPercent = share
      BY <2>2
    <3> HIDE DEF o, k, share
    <3>7. QED
      BY <2>2, <3>1, <3>2, <3>3, <3>4, <3>5, <3>6 DEF SweepBudget
  <2>5. SweepType'
    <3>1. sweep' = [sweep EXCEPT !.pc = "look", !.todo = DOMAIN sweep.old] => SweepType'
      <4>1. ASSUME NEW x \in SUBSET Ids, sweep' = [sweep EXCEPT !.pc = "look", !.todo = x] PROVE SweepType'
        BY <4>1 DEF SweepType
      <4>2. QED
        BY <1>1, <4>1
    <3>2. sweep' = [sweep EXCEPT !.pc = "report"] => SweepType'
      BY DEF SweepType
    <3>3. QED
      BY <2>1, <3>1, <3>2, Zenon
  <2>6. QED
    BY <2>1, <2>3, <2>4, <2>5 DEF VaultStep
<1>3. CASE Look
  <2> DEFINE id == Least(sweep.todo)
             goes == Has(id) /\ RetentionLook([kind |-> sweep.seen[id].kind, patch |-> sweep.old[id]], vault[id].meta)
             pc == IF goes THEN "delete" ELSE "look"
             at == IF goes THEN id ELSE 0
             base == IF goes THEN vault[id].meta ELSE None
  <2>1. /\ sweep.pc = "look" /\ sweep.todo # {} /\ UNCHANGED vault
        /\ sweep' = [sweep EXCEPT !.todo = sweep.todo \ {id}, !.pc = pc, !.at = at, !.base = base]
    BY <1>3, Zenon DEF Look
  <2>2. id \in sweep.todo
    <3>1. sweep.todo \in SUBSET Nat
      BY ShelfAssumption DEF SweepType
    <3>2. QED
      BY <2>1, <3>1, LeastOf
  <2>3. id \in Ids /\ id \in Nat /\ id \in DOMAIN sweep.old
    BY <1>1, <2>2, ShelfAssumption DEF SweepData
  <2> HIDE DEF id
  <2>4. /\ pc \in {"look", "delete"} /\ at \in Nat /\ base \in {None} \cup Meta
        /\ pc = "delete" => at = id /\ base.kind = sweep.seen[id].kind
    BY <2>3 DEF VaultInv, TrueMeta, RetentionLook
  <2> HIDE DEF pc, at, base
  <2>5. SweepType'
    BY <2>1, <2>4 DEF SweepType
  <2>6. /\ sweep'.pc = pc /\ sweep'.at = at /\ sweep'.base = base /\ sweep'.pool = sweep.pool
        /\ sweep'.todate = sweep.todate /\ sweep'.old = sweep.old /\ sweep'.todo = sweep.todo \ {id}
        /\ sweep'.times = sweep.times /\ sweep'.deleted = sweep.deleted /\ sweep'.seen = sweep.seen
        /\ sweep'.purged = sweep.purged /\ sweep'.named = sweep.named
    BY <2>1 DEF SweepType
  <2>7. SweepData' /\ SweepTrue'
    BY <2>1, <2>3, <2>4, <2>6 DEF SweepData, SweepTrue
  <2>8. SweepBudget'
    <3>1. Cardinality(sweep.todo \ {id}) = Cardinality(sweep.todo) - 1 /\ Cardinality(sweep.todo) \in Nat
      BY <1>1, <2>2, IdSets, FS_RemoveElement
    <3>2. Cardinality(DOMAIN sweep.old) \in Nat
      BY <1>1, IdSets
    <3>3. sweep.purged + 0 <= sweep.named /\ sweep.named <= PrefetchMax
      BY <2>1 DEF SweepBudget
    <3>4. /\ Cardinality(DOMAIN sweep.old) * 100 <= Cardinality(sweep.pool) * MaxPercent
          /\ sweep.deleted * 100 <= Cardinality(sweep.pool) * MaxPercent
          /\ sweep.deleted + Cardinality(sweep.todo) + 0 <= Cardinality(DOMAIN sweep.old)
      BY <2>1 DEF SweepBudget
    <3>5. sweep.deleted + Cardinality(sweep'.todo) + (IF sweep'.pc = "delete" THEN 1 ELSE 0) <= Cardinality(DOMAIN sweep.old)
      BY <1>1, <2>6, <3>1, <3>2, <3>4
    <3>6. sweep'.pc \in {"look", "delete"}
      BY <2>4, <2>6
    <3>7. QED
      BY <2>6, <3>3, <3>4, <3>5, <3>6 DEF SweepBudget
  <2>9. QED
    BY <2>1, <2>5, <2>7, <2>8 DEF VaultStep
<1>4. CASE DeleteOld
  <2> DEFINE n == sweep.deleted + 1
  <2>1. /\ sweep.pc = "delete" /\ vault' = [vault EXCEPT ![sweep.at] = None]
        /\ sweep' = [sweep EXCEPT !.pc = "look", !.deleted = n, !.at = 0, !.base = None]
    BY <1>4 DEF DeleteOld, Removed
  <2>2. n \in Nat
    BY <1>1
  <2>3. VaultStep
    <3>1. sweep.at \in Ids
      BY <1>1, <2>1 DEF SweepTrue
    <3>2. QED
      BY <2>1, <3>1 DEF VaultStep
  <2>4. Cardinality(sweep.todo) \in Nat /\ Cardinality(DOMAIN sweep.old) \in Nat /\ Cardinality(sweep.pool) * MaxPercent \in Nat
    BY <1>1, IdSets
  <2>5. /\ Cardinality(DOMAIN sweep.old) * 100 <= Cardinality(sweep.pool) * MaxPercent
        /\ sweep.deleted + Cardinality(sweep.todo) + 1 <= Cardinality(DOMAIN sweep.old)
        /\ sweep.purged + 0 <= sweep.named /\ sweep.named <= PrefetchMax
    BY <2>1 DEF SweepBudget
  <2>6. n + Cardinality(sweep.todo) <= Cardinality(DOMAIN sweep.old)
    BY <1>1, <2>4, <2>5
  <2>7. n * 100 <= Cardinality(sweep.pool) * MaxPercent
    BY <2>2, <2>4, <2>5, <2>6
  <2> HIDE DEF n
  <2>8. SweepType'
    BY <2>1, <2>2 DEF SweepType
  <2>9. /\ sweep'.pc = "look" /\ sweep'.pool = sweep.pool
        /\ sweep'.todate = sweep.todate /\ sweep'.old = sweep.old /\ sweep'.todo = sweep.todo
        /\ sweep'.times = sweep.times /\ sweep'.deleted = n /\ sweep'.seen = sweep.seen
        /\ sweep'.purged = sweep.purged /\ sweep'.named = sweep.named
    BY <2>1 DEF SweepType
  <2>10. SweepData' /\ SweepTrue'
    BY <2>1, <2>9 DEF SweepData, SweepTrue
  <2>11. SweepBudget'
    BY <2>2, <2>4, <2>5, <2>6, <2>7, <2>9 DEF SweepBudget
  <2>12. QED
    BY <2>3, <2>8, <2>10, <2>11
<1>5. CASE Finish
  <2>1. /\ sweep.pc \in {"look", "delete"} /\ UNCHANGED vault /\ sweep' = [sweep EXCEPT !.pc = "report"]
    BY <1>5 DEF Finish, Goto
  <2>2. SweepType'
    BY <2>1 DEF SweepType
  <2>3. /\ sweep'.pc = "report" /\ sweep'.pool = sweep.pool
        /\ sweep'.todate = sweep.todate /\ sweep'.old = sweep.old /\ sweep'.todo = sweep.todo
        /\ sweep'.times = sweep.times /\ sweep'.deleted = sweep.deleted /\ sweep'.seen = sweep.seen
        /\ sweep'.purged = sweep.purged /\ sweep'.named = sweep.named
    BY <2>1 DEF SweepType
  <2>4. SweepData' /\ SweepTrue'
    BY <2>1, <2>3 DEF SweepData, SweepTrue
  <2>5. sweep.purged + 0 <= sweep.named /\ sweep.named <= PrefetchMax
        /\ sweep.deleted * 100 <= Cardinality(sweep.pool) * MaxPercent
    BY <2>1 DEF SweepBudget
  <2>6. SweepBudget'
    BY <2>3, <2>5 DEF SweepBudget
  <2>7. QED
    BY <2>1, <2>2, <2>4, <2>6 DEF VaultStep
<1>6. QED
  BY <1>2, <1>3, <1>4, <1>5

\* Every step of a pass
LEMMA RetentionSteps ==
  ASSUME VaultInv, SweepInv, RetentionNext
  PROVE  SweepInv' /\ VaultStep
<1>1. ASSUME NEW a \in BOOLEAN, NEW b \in BOOLEAN, Start(a, b) PROVE SweepInv' /\ VaultStep
  <2> DEFINE p == sweep.passes + 1
  <2>1. /\ p \in Nat /\ UNCHANGED vault
        /\ sweep' = [Idle EXCEPT !.pc = "purgeList", !.passes = p, !.apply = a, !.prefetchApply = b]
    BY <1>1 DEF Start, SweepInv, SweepType
  <2> HIDE DEF p
  <2>2. sweep' = [pc |-> "purgeList", apply |-> a, prefetchApply |-> b, list |-> <<>>, named |-> 0, purged |-> 0, heads |-> {},
                  seen |-> <<>>, pool |-> {}, times |-> <<>>, todate |-> {}, old |-> <<>>, todo |-> {}, at |-> 0,
                  base |-> None, deleted |-> 0, passes |-> p]
    BY <2>1 DEF Idle
  <2>3. QED
    BY <2>1, <2>2, FreshSweep DEF VaultStep
<1>2. CASE PutReport \/ Abort
  <2> DEFINE p == sweep.passes
  <2>1. p \in Nat /\ UNCHANGED vault /\ sweep' = [Idle EXCEPT !.passes = p]
    BY <1>2 DEF PutReport, Abort, Ended, SweepInv, SweepType
  <2> HIDE DEF p
  <2>2. sweep' = [pc |-> "idle", apply |-> FALSE, prefetchApply |-> FALSE, list |-> <<>>, named |-> 0, purged |-> 0, heads |-> {},
                  seen |-> <<>>, pool |-> {}, times |-> <<>>, todate |-> {}, old |-> <<>>, todo |-> {}, at |-> 0,
                  base |-> None, deleted |-> 0, passes |-> p]
    BY <2>1 DEF Idle
  <2>3. QED
    BY <2>1, <2>2, FreshSweep DEF VaultStep
<1>3. CASE DateOne
  BY <1>3, DateOneStep
<1>4. CASE FetchPins \/ StartTimes
  BY <1>4, DateSteps DEF VaultStep
<1>5. CASE Guard \/ Look \/ DeleteOld \/ Finish
  BY <1>5, DeleteSteps
<1>6. CASE PurgeList \/ PrefetchFind \/ PrefetchDelete \/ PrefetchEnd \/ FetchPatches \/ ListIDs \/ \E id \in Ids : HeadOne(id)
  BY <1>6, ListSteps
<1>7. QED
  BY <1>1, <1>2, <1>3, <1>4, <1>5, <1>6 DEF RetentionNext

-----------------------------------------------------------------------------
\* purge-student in hand: what it listed is of replays it saw, and before the
\* delete it looked at one that nobody else wants.
PurgeInv ==
  /\ purge \in [pc : {"idle", "heads", "loop", "delete"}, apply : BOOLEAN, heads : SUBSET Ids, seen : Looks,
                todo : SUBSET Ids, at : Nat, base : {None} \cup Meta, runs : Nat]
  /\ purge.todo \subseteq DOMAIN purge.seen
  /\ purge.pc = "delete" => purge.at \in Ids /\ purge.base \in Meta /\ PurgeLook(Account, purge.base)

UploadPcs == {"waiting", "find", "merge", "put", "taken", "replace", "join", "check", "over"}
Ends      == {"missing", "conflict", "invalid", "present", "uploaded", "failed"}

UploadType ==
  upload \in [Rows -> [pc : UploadPcs, base : {None} \cup Meta, result : {None} \cup Ends]]

\* What a row past its verification has in hand
RowTrue(r) ==
  /\ upload[r].pc = "merge" => Manifest[r].body \in Bodies
  /\ upload[r].pc \in {"put", "taken", "replace", "join"} => Manifest[r].body \in Demos
  /\ upload[r].pc = "replace" => TrueMeta(Manifest[r].id, upload[r].base)

UploadInv ==
  /\ UploadType
  /\ \A r \in Rows : RowTrue(r)
  /\ Cardinality(Running) <= Conc

CtlInv == PurgeInv /\ UploadInv

\* A look adds a record to what a pass or a command has seen.
LEMMA SawLook ==
  ASSUME VaultInv, NEW seen \in Looks, NEW id \in Ids
  PROVE  Saw(seen, id) \in Looks /\ DOMAIN seen \subseteq DOMAIN Saw(seen, id) /\ DOMAIN Saw(seen, id) \subseteq Ids
<1>1. seen \in [DOMAIN seen -> Meta] /\ DOMAIN seen \subseteq Ids
  BY LooksAre
<1>2. CASE Has(id)
  <2> DEFINE f == [i \in DOMAIN seen \cup {id} |-> IF i = id THEN vault[id].meta ELSE seen[i]]
  <2>1. Saw(seen, id) = f
    BY <1>2 DEF Saw
  <2>2. vault[id].meta \in Meta
    BY <1>2 DEF VaultInv, TrueMeta
  <2>3. DOMAIN seen \cup {id} \in SUBSET Ids /\ f \in [DOMAIN seen \cup {id} -> Meta]
    BY <1>1, <2>2
  <2>4. f \in Looks
    BY <2>3, LooksAre
  <2>5. QED
    BY <2>1, <2>3, <2>4
<1>3. CASE ~Has(id)
  BY <1>1, <1>3 DEF Saw
<1>4. QED
  BY <1>2, <1>3

\* The rows of a manifest, and what they offer
LEMMA RowFacts ==
  /\ IsFiniteSet(Rows) /\ Rows \subseteq Nat
  /\ \A r \in Rows : /\ Manifest[r].id \in Ids /\ Manifest[r].want \in Meta /\ Manifest[r].body \in Bodies \cup {None}
                     /\ Manifest[r].body \in Bodies => TrueMeta(Manifest[r].id, Offer(r))
  /\ Conc \in Nat \ {0} /\ Demos \subseteq Bodies
<1>1. Manifest \in Seq([id : Ids, want : Meta, body : Bodies \cup {None}]) /\ Conc \in Nat \ {0} /\ Demos \subseteq Bodies
  BY CtlAssumption
<1>2. Rows = 1..Len(Manifest) /\ Len(Manifest) \in Nat
  BY <1>1 DEF Rows
<1>3. IsFiniteSet(Rows) /\ Rows \subseteq Nat
  <2>1. 1 \in Int /\ Len(Manifest) \in Int
    BY <1>2
  <2>2. IsFiniteSet(1..Len(Manifest))
    BY <2>1, FS_Interval, Zenon
  <2>3. QED
    BY <1>2, <2>2
<1>4. ASSUME NEW r \in Rows
      PROVE  Manifest[r].id \in Ids /\ Manifest[r].want \in Meta /\ Manifest[r].body \in Bodies \cup {None}
  <2> DEFINE Row == [id : Ids, want : Meta, body : Bodies \cup {None}]
  <2>0. Manifest \in Seq(Row) /\ r \in 1..Len(Manifest)
    BY <1>1, <1>2
  <2>1. Manifest[r] \in Row
    <3> HIDE DEF Row
    <3>1. QED
      BY <2>0
  <2>2. QED
    BY <2>1
<1>5. ASSUME NEW r \in Rows, Manifest[r].body \in Bodies
      PROVE  TrueMeta(Manifest[r].id, Offer(r))
  <2>1. Manifest[r].want \in Meta /\ Manifest[r].want.patch \in {0, TruePatch(Manifest[r].id)}
    BY <1>4, CallersAssumption
  <2>2. Offer(r) \in Meta /\ Offer(r).patch = Manifest[r].want.patch
    BY <1>5, <2>1 DEF Offer, Meta
  <2>3. QED
    BY <2>1, <2>2 DEF TrueMeta
<1>6. QED
  BY <1>1, <1>3, <1>4, <1>5

\* The commands start with nothing in hand.
LEMMA InitCtl == Init => CtlInv
<1> SUFFICES ASSUME Init PROVE CtlInv
  OBVIOUS
<1>1. purge = NoPurge /\ upload = [r \in Rows |-> Waiting]
  BY DEF Init
<1>2. PurgeInv
  <2>1. purge = [pc |-> "idle", apply |-> FALSE, heads |-> {}, seen |-> <<>>, todo |-> {}, at |-> 0, base |-> None, runs |-> 0]
    BY <1>1 DEF NoPurge
  <2>2. QED
    BY <2>1, LooksAre DEF PurgeInv
<1>3. UploadType /\ \A r \in Rows : RowTrue(r)
  BY <1>1 DEF UploadType, RowTrue, Waiting, UploadPcs
<1>4. Cardinality(Running) <= Conc
  <2>1. Running = {}
    BY <1>1 DEF Running, Waiting
  <2>2. QED
    BY <2>1, FS_EmptySet, RowFacts
<1>5. QED
  BY <1>2, <1>3, <1>4 DEF CtlInv, UploadInv

\* The look at a student's game finds an account of it in the record.
LEMMA DetachStep ==
  ASSUME VaultInv, NEW id \in Ids, Has(id), vault' = [vault EXCEPT ![id].meta = Stored(Detach(@, Account))]
  PROVE  VaultStep
<1>1. TrueMeta(id, vault[id].meta)
  BY DEF VaultInv
<1>2. TrueMeta(id, Stored(Detach(vault[id].meta, Account)))
  BY <1>1, TruthKept DEF TrueMeta
<1>3. QED
  BY <1>2, RewriteStep

\* purge-student
LEMMA PurgeSteps ==
  ASSUME VaultInv, PurgeInv,
         \/ \E apply \in BOOLEAN : PurgeStart(apply)
         \/ \E id \in Ids : PurgeHead(id)
         \/ PurgeListed \/ PurgeLookAgain \/ PurgeDelete \/ PurgeDetach \/ PurgeEnd
  PROVE  PurgeInv' /\ VaultStep /\ UNCHANGED upload
<1>0. /\ purge.seen \in Looks /\ DOMAIN purge.seen \subseteq Ids /\ purge.todo \subseteq DOMAIN purge.seen
      /\ purge.todo \in SUBSET Nat /\ purge.runs \in Nat
  BY LooksAre, ShelfAssumption DEF PurgeInv
<1>e. <<>> \in Looks /\ DOMAIN <<>> = {}
  BY LooksAre
<1>1. ASSUME NEW apply \in BOOLEAN, PurgeStart(apply) PROVE PurgeInv' /\ VaultStep /\ UNCHANGED upload
  <2> DEFINE all == {id \in Ids : Has(id)}
             n == purge.runs + 1
  <2>1. all \in SUBSET Ids /\ n \in Nat
    BY <1>0
  <2>2. purge' = [NoPurge EXCEPT !.pc = "heads", !.runs = n, !.apply = apply, !.heads = all] /\ UNCHANGED <<vault, upload>>
    BY <1>1 DEF PurgeStart
  <2> HIDE DEF all, n
  <2>3. purge' = [pc |-> "heads", apply |-> apply, heads |-> all, seen |-> <<>>, todo |-> {}, at |-> 0, base |-> None, runs |-> n]
    BY <2>2 DEF NoPurge
  <2>4. PurgeInv'
    BY <1>e, <2>1, <2>3 DEF PurgeInv
  <2>5. QED
    BY <2>2, <2>4 DEF VaultStep
<1>2. ASSUME NEW id \in Ids, PurgeHead(id) PROVE PurgeInv' /\ VaultStep /\ UNCHANGED upload
  <2> DEFINE s == Saw(purge.seen, id)
  <2>1. s \in Looks /\ DOMAIN purge.seen \subseteq DOMAIN s
    BY <1>0, SawLook
  <2>2. /\ purge' = [purge EXCEPT !.heads = purge.heads \ {id}, !.seen = s] /\ UNCHANGED <<vault, upload>>
        /\ purge.pc = "heads"
    BY <1>2 DEF PurgeHead
  <2> HIDE DEF s
  <2>3. PurgeInv'
    BY <2>1, <2>2 DEF PurgeInv
  <2>4. QED
    BY <2>2, <2>3 DEF VaultStep
<1>3. CASE PurgeListed
  <2> DEFINE games == {id \in DOMAIN purge.seen : /\ purge.seen[id].kind = "student"
                                                  /\ Account \in purge.seen[id].accounts}
             t == IF ~purge.apply THEN {} ELSE games
  <2>1. t \subseteq DOMAIN purge.seen /\ t \in SUBSET Ids
    BY <1>0
  <2>2. /\ purge' = [purge EXCEPT !.pc = "loop", !.todo = t] /\ UNCHANGED <<vault, upload>>
    BY <1>3 DEF PurgeListed
  <2> HIDE DEF t
  <2>3. PurgeInv'
    BY <2>1, <2>2 DEF PurgeInv
  <2>4. QED
    BY <2>2, <2>3 DEF VaultStep
<1>4. CASE PurgeLookAgain
  <2> DEFINE id == Least(purge.todo)
             goes == Has(id) /\ PurgeLook(Account, vault[id].meta)
             pc == IF goes THEN "delete" ELSE "loop"
             at == IF goes THEN id ELSE 0
             base == IF goes THEN vault[id].meta ELSE None
             todo == purge.todo \ {id}
  <2>1. id \in Ids /\ id \in Nat
    BY <1>0, <1>4, LeastOf DEF PurgeLookAgain
  <2>2. purge' = [purge EXCEPT !.todo = todo, !.pc = pc, !.at = at, !.base = base] /\ UNCHANGED <<vault, upload>>
    BY <1>4 DEF PurgeLookAgain
  <2>3. Has(id) => vault[id].meta \in Meta
    BY <2>1 DEF VaultInv, TrueMeta
  <2>4. /\ todo \subseteq DOMAIN purge.seen /\ todo \in SUBSET Ids /\ at \in Nat /\ base \in {None} \cup Meta
        /\ pc \in {"delete", "loop"}
        /\ pc = "delete" => at \in Ids /\ base \in Meta /\ PurgeLook(Account, base)
    BY <1>0, <2>1, <2>3
  <2> HIDE DEF id, goes, pc, at, base, todo
  <2>5. PurgeInv'
    BY <2>2, <2>4 DEF PurgeInv
  <2>6. QED
    BY <2>2, <2>5 DEF VaultStep
<1>5. CASE PurgeDelete
  <2>1. /\ vault' = [vault EXCEPT ![purge.at] = None] /\ purge' = [purge EXCEPT !.pc = "loop", !.at = 0, !.base = None]
        /\ UNCHANGED upload /\ purge.at \in Ids
    BY <1>5 DEF PurgeDelete, Removed, PurgeInv
  <2>2. PurgeInv'
    BY <2>1 DEF PurgeInv
  <2>3. QED
    BY <2>1, <2>2 DEF VaultStep
<1>6. CASE PurgeDetach
  <2> DEFINE id == Least(purge.todo)
             todo == purge.todo \ {id}
  <2>1. id \in Ids
    BY <1>0, <1>6, LeastOf DEF PurgeDetach
  <2>2. /\ purge' = [purge EXCEPT !.todo = todo] /\ UNCHANGED upload
        /\ Has(id) /\ vault' = [vault EXCEPT ![id].meta = Stored(Detach(@, Account))]
    BY <1>6 DEF PurgeDetach
  <2>3. todo \subseteq DOMAIN purge.seen /\ todo \in SUBSET Ids
    BY <1>0
  <2>4. VaultStep
    BY <2>1, <2>2, DetachStep
  <2> HIDE DEF todo
  <2>5. PurgeInv'
    BY <2>2, <2>3 DEF PurgeInv
  <2>6. QED
    BY <2>2, <2>4, <2>5
<1>7. CASE PurgeEnd
  <2>1. purge' = [NoPurge EXCEPT !.runs = purge.runs] /\ UNCHANGED <<vault, upload>>
    BY <1>7 DEF PurgeEnd
  <2>2. purge' = [pc |-> "idle", apply |-> FALSE, heads |-> {}, seen |-> <<>>, todo |-> {}, at |-> 0, base |-> None,
                  runs |-> purge.runs]
    BY <2>1 DEF NoPurge
  <2>3. PurgeInv'
    BY <1>e, <1>0, <2>2 DEF PurgeInv
  <2>4. QED
    BY <2>1, <2>3 DEF VaultStep
<1>8. QED
  BY <1>1, <1>2, <1>3, <1>4, <1>5, <1>6, <1>7

-----------------------------------------------------------------------------
\* The steps of one row
RowStep(r) ==
  \/ UploadStart(r) \/ UploadFind(r) \/ UploadMerge(r) \/ UploadPut(r)
  \/ UploadTaken(r) \/ UploadReplace(r) \/ UploadJoin(r) \/ UploadCheck(r)
  \/ UploadFails(r)

\* How a row moves: to pc, with base and result in hand
Moved(r, pc, base, result) ==
  upload' = [upload EXCEPT ![r] = [pc |-> pc, base |-> base, result |-> result]]

\* A row that moves keeps the records of the others.
LEMMA MovedFacts ==
  ASSUME UploadType, NEW r \in Rows, NEW pc \in UploadPcs, NEW base \in {None} \cup Meta,
         NEW result \in {None} \cup Ends, Moved(r, pc, base, result)
  PROVE  /\ UploadType'
         /\ \A q \in Rows : q # r => upload'[q] = upload[q]
         /\ upload'[r] = [pc |-> pc, base |-> base, result |-> result]
         /\ upload[r].base \in {None} \cup Meta /\ upload[r].result \in {None} \cup Ends
<1> DEFINE new == [pc |-> pc, base |-> base, result |-> result]
           R == [pc : UploadPcs, base : {None} \cup Meta, result : {None} \cup Ends]
<1>1. new \in R /\ upload \in [Rows -> R] /\ upload' = [upload EXCEPT ![r] = new]
  BY DEF Moved, UploadType
<1>2. upload[r] \in R
  BY <1>1
<1>3. upload[r].base \in {None} \cup Meta /\ upload[r].result \in {None} \cup Ends
  BY <1>2
<1> HIDE DEF new, R
<1>4. upload' \in [Rows -> R] /\ (\A q \in Rows : q # r => upload'[q] = upload[q]) /\ upload'[r] = new
  BY <1>1
<1>5. QED
  BY <1>3, <1>4 DEF new, R, UploadType

\* A row that runs already takes no further slot, and one that starts takes a free one.
LEMMA Slots ==
  ASSUME UploadInv, NEW r \in Rows, NEW pc \in UploadPcs, NEW base \in {None} \cup Meta,
         NEW result \in {None} \cup Ends, Moved(r, pc, base, result),
         r \in Running \/ Cardinality(Running) < Conc
  PROVE  Cardinality(Running') <= Conc
<1>1. /\ \A q \in Rows : q # r => upload'[q] = upload[q]
      /\ Running \in SUBSET Rows /\ Conc \in Nat /\ IsFiniteSet(Rows)
  BY MovedFacts, RowFacts DEF UploadInv, Running
<1>2. Running' \in SUBSET (Running \cup {r})
  BY <1>1 DEF Running
<1>3. IsFiniteSet(Running) /\ Cardinality(Running) \in Nat /\ Cardinality(Running) <= Conc
  BY <1>1, FS_Subset, FS_CardinalityType DEF UploadInv
<1>4. /\ IsFiniteSet(Running \cup {r})
      /\ Cardinality(Running \cup {r}) = IF r \in Running THEN Cardinality(Running) ELSE Cardinality(Running) + 1
  BY <1>3, FS_AddElement
<1>5. IsFiniteSet(Running') /\ Cardinality(Running') <= Cardinality(Running \cup {r}) /\ Cardinality(Running') \in Nat
  BY <1>2, <1>4, FS_Subset, FS_CardinalityType
<1> DEFINE a == Cardinality(Running)
           b == Cardinality(Running')
           c == Cardinality(Running \cup {r})
<1>6. a \in Nat /\ b \in Nat /\ b <= c /\ c = (IF r \in Running THEN a ELSE a + 1) /\ a <= Conc
      /\ (r \in Running \/ a < Conc) /\ Conc \in Nat
  BY <1>1, <1>3, <1>4, <1>5
<1> HIDE DEF a, b, c
<1>7. b <= Conc
  BY <1>6
<1>8. QED
  BY <1>7 DEF b

\* With the row true where it got to, the invariant of upload holds again.
LEMMA MovedInv ==
  ASSUME UploadInv, NEW r \in Rows, NEW pc \in UploadPcs, NEW base \in {None} \cup Meta,
         NEW result \in {None} \cup Ends, Moved(r, pc, base, result),
         r \in Running \/ Cardinality(Running) < Conc,
         pc = "merge" => Manifest[r].body \in Bodies,
         pc \in {"put", "taken", "replace", "join"} => Manifest[r].body \in Demos,
         pc = "replace" => TrueMeta(Manifest[r].id, base)
  PROVE  UploadInv'
<1>1. /\ UploadType'
      /\ \A q \in Rows : q # r => upload'[q] = upload[q]
      /\ upload'[r] = [pc |-> pc, base |-> base, result |-> result]
  BY MovedFacts DEF UploadInv
<1>2. \A q \in Rows : RowTrue(q)'
  BY <1>1 DEF RowTrue, UploadInv
<1>3. Cardinality(Running') <= Conc
  BY Slots
<1>4. QED
  BY <1>1, <1>2, <1>3 DEF UploadInv

\* How the short forms of the source move a row
LEMMA Moves ==
  ASSUME UploadType, NEW r \in Rows
  PROVE  /\ upload[r].base \in {None} \cup Meta /\ upload[r].result \in {None} \cup Ends
         /\ \A pc : Step(r, pc) => Moved(r, pc, upload[r].base, upload[r].result)
         /\ \A result : Over(r, result) => Moved(r, "over", upload[r].base, result)
         /\ \A pc, base : upload' = [upload EXCEPT ![r].pc = pc, ![r].base = base] => Moved(r, pc, base, upload[r].result)
<1>1. upload[r] \in [pc : UploadPcs, base : {None} \cup Meta, result : {None} \cup Ends] /\ DOMAIN upload = Rows
  BY DEF UploadType
<1>2. ASSUME NEW pc PROVE [upload[r] EXCEPT !.pc = pc] = [pc |-> pc, base |-> upload[r].base, result |-> upload[r].result]
  BY <1>1
<1>3. ASSUME NEW result
      PROVE  [[upload[r] EXCEPT !.pc = "over"] EXCEPT !.result = result] = [pc |-> "over", base |-> upload[r].base, result |-> result]
  <2>1. [[pc |-> "over", base |-> upload[r].base, result |-> upload[r].result] EXCEPT !.result = result]
          = [pc |-> "over", base |-> upload[r].base, result |-> result]
    OBVIOUS
  <2>2. QED
    BY <1>2, <2>1
<1>4. ASSUME NEW pc, NEW base
      PROVE  [[upload[r] EXCEPT !.pc = pc] EXCEPT !.base = base] = [pc |-> pc, base |-> base, result |-> upload[r].result]
  <2>1. [[pc |-> pc, base |-> upload[r].base, result |-> upload[r].result] EXCEPT !.base = base]
          = [pc |-> pc, base |-> base, result |-> upload[r].result]
    OBVIOUS
  <2>2. QED
    BY <1>2, <2>1
<1>5. ASSUME NEW pc, Step(r, pc) PROVE Moved(r, pc, upload[r].base, upload[r].result)
  BY <1>1, <1>2, <1>5 DEF Step, Moved
<1>6. ASSUME NEW result, Over(r, result) PROVE Moved(r, "over", upload[r].base, result)
  BY <1>1, <1>3, <1>6 DEF Over, Moved
<1>7. ASSUME NEW pc, NEW base, upload' = [upload EXCEPT ![r].pc = pc, ![r].base = base]
      PROVE Moved(r, pc, base, upload[r].result)
  BY <1>1, <1>4, <1>7 DEF Moved
<1>8. QED
  BY <1>1, <1>5, <1>6, <1>7

\* upload
LEMMA UploadSteps ==
  ASSUME VaultInv, UploadInv, NEW r \in Rows, RowStep(r)
  PROVE  UploadInv' /\ VaultStep /\ UNCHANGED purge
<1> DEFINE id == Manifest[r].id
           body == Manifest[r].body
           base == upload[r].base
           result == upload[r].result
<1>0. UploadType /\ RowTrue(r)
  BY DEF UploadInv
<1>r. /\ id \in Ids /\ body \in Bodies \cup {None} /\ Demos \subseteq Bodies /\ None \notin Bodies
      /\ body \in Bodies => TrueMeta(id, Offer(r))
      /\ base \in {None} \cup Meta /\ result \in {None} \cup Ends
  BY <1>0, RowFacts, Moves, MetaAssumption
<1> HIDE DEF id, body, base, result
<1>m. /\ \A pc : Step(r, pc) => Moved(r, pc, base, result)
      /\ \A how : Over(r, how) => Moved(r, "over", base, how)
      /\ \A pc, b : upload' = [upload EXCEPT ![r].pc = pc, ![r].base = b] => Moved(r, pc, b, result)
  BY <1>0, Moves DEF base, result
<1>o. ASSUME NEW how \in Ends, Over(r, how), r \in Running PROVE UploadInv'
  <2>1. Moved(r, "over", base, how) /\ "over" \in UploadPcs
    BY <1>m, <1>o DEF UploadPcs
  <2>2. QED
    BY <2>1, <1>r, <1>o, MovedInv
<1>s. ASSUME NEW pc \in UploadPcs \ {"replace"}, Step(r, pc), r \in Running,
             pc = "merge" => body \in Bodies, pc \in {"put", "taken", "join"} => body \in Demos
      PROVE  UploadInv'
  <2>1. Moved(r, pc, base, result)
    BY <1>m, <1>s
  <2>2. QED
    BY <2>1, <1>r, <1>s, MovedInv DEF body
<1>u. ASSUME Has(id), body \in Bodies, vault' = UpdateMeta(id, Offer(r)) PROVE VaultStep
  <2>1. TrueMeta(id, vault[id].meta) /\ TrueMeta(id, Offer(r))
    BY <1>r, <1>u DEF VaultInv
  <2>2. TrueMeta(id, Merge(vault[id].meta, Offer(r)))
    BY <1>r, <2>1, TruthKept DEF TrueMeta
  <2>3. TrueMeta(id, Stored(Merge(vault[id].meta, Offer(r))))
    BY <1>r, <2>2, TruthKept
  <2>4. vault' = [vault EXCEPT ![id].meta = Stored(Merge(vault[id].meta, Offer(r)))]
    BY <1>u DEF UpdateMeta
  <2>5. QED
    BY <1>r, <1>u, <2>3, <2>4, RewriteStep
<1>n. ASSUME NEW want, TrueMeta(id, want), body \in Demos, vault' = [vault EXCEPT ![id] = NewObject(body, want)] PROVE VaultStep
  <2>1. TrueMeta(id, Stored(want))
    BY <1>r, <1>n, TruthKept
  <2>2. QED
    BY <1>r, <1>n, <2>1 DEF VaultStep, NewObject, TrueMeta
<1>1. CASE UploadStart(r)
  <2>1. Step(r, "find") /\ Cardinality(Running) < Conc /\ UNCHANGED <<vault, purge>>
    BY <1>1 DEF UploadStart, Step
  <2>2. Moved(r, "find", base, result) /\ "find" \in UploadPcs
    BY <1>m, <2>1 DEF UploadPcs
  <2>3. UploadInv'
    BY <1>r, <2>1, <2>2, MovedInv
  <2>4. QED
    BY <2>1, <2>3 DEF VaultStep
<1>2. CASE UploadFind(r)
  <2>1. r \in Running /\ UNCHANGED <<vault, purge>>
    BY <1>2 DEF UploadFind, Running
  <2>2. \/ \E how \in {"missing", "conflict", "invalid"} : Over(r, how)
        \/ Step(r, "merge") /\ body # None
        \/ Step(r, "put") /\ body \in Demos
    BY <1>2 DEF UploadFind, body
  <2>3. UploadInv'
    BY <1>o, <1>s, <1>r, <2>1, <2>2 DEF UploadPcs, Ends
  <2>4. QED
    BY <2>1, <2>3 DEF VaultStep
<1>3. CASE UploadMerge(r)
  <2>1. r \in Running /\ Has(id) /\ vault' = UpdateMeta(id, Offer(r)) /\ Over(r, "present") /\ UNCHANGED purge
    BY <1>3 DEF UploadMerge, Running, id
  <2>2. body \in Bodies
    BY <1>0, <1>3 DEF UploadMerge, RowTrue, body
  <2>3. UploadInv'
    BY <1>o, <2>1 DEF Ends
  <2>4. QED
    BY <1>u, <2>1, <2>2, <2>3
<1>4. CASE UploadPut(r)
  <2>1. r \in Running /\ body \in Demos /\ UNCHANGED purge
    BY <1>0, <1>4 DEF UploadPut, Running, RowTrue, body
  <2>2. \/ vault' = vault /\ Step(r, "taken")
        \/ vault' = [vault EXCEPT ![id] = NewObject(body, Offer(r))] /\ Step(r, "check")
    BY <1>4 DEF UploadPut, id, body
  <2>3. UploadInv'
    BY <1>s, <2>1, <2>2 DEF UploadPcs
  <2>4. VaultStep
    <3>1. CASE vault' = vault
      BY <3>1 DEF VaultStep
    <3>2. CASE vault' = [vault EXCEPT ![id] = NewObject(body, Offer(r))]
      BY <1>n, <1>r, <2>1, <3>2
    <3>3. QED
      BY <2>2, <3>1, <3>2
  <2>5. QED
    BY <2>1, <2>3, <2>4
<1>5. CASE UploadTaken(r)
  <2> DEFINE pc == IF vault[id].meta.corrupt THEN "replace" ELSE "join"
             look == IF vault[id].meta.corrupt THEN vault[id].meta ELSE None
  <2>1. r \in Running /\ body \in Demos /\ Has(id) /\ UNCHANGED <<vault, purge>>
    BY <1>0, <1>5 DEF UploadTaken, Running, RowTrue, body, id
  <2>2. upload' = [upload EXCEPT ![r].pc = pc, ![r].base = look]
    BY <1>5 DEF UploadTaken, id
  <2>3. TrueMeta(id, vault[id].meta) /\ vault[id].meta \in Meta
    BY <1>r, <2>1 DEF VaultInv, TrueMeta
  <2>4. pc \in {"replace", "join"} /\ look \in {None} \cup Meta /\ (pc = "replace" => TrueMeta(id, look))
    BY <2>3
  <2> HIDE DEF pc, look
  <2>5. Moved(r, pc, look, result) /\ pc \in UploadPcs /\ pc # "merge"
    BY <1>m, <2>2, <2>4 DEF UploadPcs
  <2>6. UploadInv'
    BY <1>r, <2>1, <2>4, <2>5, MovedInv DEF id, body
  <2>7. QED
    BY <2>1, <2>6 DEF VaultStep
<1>6. CASE UploadReplace(r)
  <2>1. r \in Running /\ body \in Demos /\ TrueMeta(id, base) /\ UNCHANGED purge /\ Step(r, "check")
    BY <1>0, <1>6 DEF UploadReplace, Running, RowTrue, body, id, base
  <2>2. vault' = [vault EXCEPT ![id] = NewObject(body, Merge(CarryOver(base), Offer(r)))]
    BY <1>6 DEF UploadReplace, id, body, base
  <2>3. TrueMeta(id, CarryOver(base)) /\ TrueMeta(id, Offer(r))
    BY <1>r, <2>1, TruthKept
  <2>4. TrueMeta(id, Merge(CarryOver(base), Offer(r)))
    BY <1>r, <2>3, TruthKept DEF TrueMeta
  <2>5. UploadInv'
    BY <1>s, <2>1 DEF UploadPcs
  <2>6. VaultStep
    BY <1>n, <2>1, <2>2, <2>4
  <2>7. QED
    BY <2>1, <2>5, <2>6
<1>7. CASE UploadJoin(r)
  <2>1. r \in Running /\ body \in Demos /\ Has(id) /\ vault' = UpdateMeta(id, Offer(r)) /\ Step(r, "check") /\ UNCHANGED purge
    BY <1>0, <1>7 DEF UploadJoin, Running, RowTrue, body, id
  <2>2. UploadInv'
    BY <1>s, <2>1 DEF UploadPcs
  <2>3. QED
    BY <1>u, <1>r, <2>1, <2>2
<1>8. CASE UploadCheck(r)
  <2>1. r \in Running /\ UNCHANGED <<vault, purge>> /\ \E how \in {"uploaded", "failed"} : Over(r, how)
    BY <1>8 DEF UploadCheck, Running
  <2>2. UploadInv'
    BY <1>o, <2>1 DEF Ends
  <2>3. QED
    BY <2>1, <2>2 DEF VaultStep
<1>9. CASE UploadFails(r)
  <2>1. r \in Running /\ UNCHANGED <<vault, purge>> /\ Over(r, "failed")
    BY <1>9 DEF UploadFails
  <2>2. UploadInv'
    BY <1>o, <2>1 DEF Ends
  <2>3. QED
    BY <2>1, <2>2 DEF VaultStep
<1>10. QED
  BY <1>1, <1>2, <1>3, <1>4, <1>5, <1>6, <1>7, <1>8, <1>9 DEF RowStep

\* Every step of the commands
LEMMA CtlSteps ==
  ASSUME VaultInv, CtlInv, CtlNext
  PROVE  CtlInv' /\ VaultStep
<1>1. CASE \/ \E apply \in BOOLEAN : PurgeStart(apply)
           \/ \E id \in Ids : PurgeHead(id)
           \/ PurgeListed \/ PurgeLookAgain \/ PurgeDelete \/ PurgeDetach \/ PurgeEnd
  <2>1. PurgeInv' /\ VaultStep /\ UNCHANGED upload
    BY <1>1, PurgeSteps DEF CtlInv
  <2>2. UploadInv'
    BY <2>1 DEF CtlInv, UploadInv, UploadType, RowTrue, Running
  <2>3. QED
    BY <2>1, <2>2 DEF CtlInv
<1>2. CASE \E r \in Rows : RowStep(r)
  <2>1. UploadInv' /\ VaultStep /\ UNCHANGED purge
    BY <1>2, UploadSteps DEF CtlInv
  <2>2. PurgeInv'
    BY <2>1 DEF CtlInv, PurgeInv
  <2>3. QED
    BY <2>1, <2>2 DEF CtlInv
<1>3. QED
  BY <1>1, <1>2 DEF CtlNext, RowStep

-----------------------------------------------------------------------------
\* The inductive invariant: what is stored, what the pass has in hand, what the
\* commands have in hand.
IInv == VaultInv /\ SweepInv /\ CtlInv /\ calls \in 0..MaxCalls

\* It holds at the start.
LEMMA InitIInv == Init => IInv
<1> SUFFICES ASSUME Init PROVE IInv
  OBVIOUS
<1>1. calls \in 0..MaxCalls
  BY ShelfAssumption DEF Init
<1>2. QED
  BY <1>1, InitVault, InitSweep, InitCtl DEF IInv

\* Every step keeps it.
LEMMA NextIInv == IInv /\ [Next]_vars => IInv'
<1> SUFFICES ASSUME IInv, [Next]_vars PROVE IInv'
  OBVIOUS
<1>0. VaultInv /\ SweepInv /\ CtlInv /\ calls \in 0..MaxCalls
  BY DEF IInv
<1>s. ASSUME UNCHANGED sweep PROVE SweepInv'
  BY <1>0, <1>s DEF SweepInv, SweepType, SweepData, SweepTrue, SweepBudget
<1>c. ASSUME UNCHANGED ctl PROVE CtlInv'
  BY <1>0, <1>c DEF CtlInv, ctl, PurgeInv, UploadInv, UploadType, RowTrue, Running
<1>1. ASSUME NEW id \in Ids, NEW o \in Ops, Request(id, o), UNCHANGED <<sweep, ctl>> PROVE IInv'
  <2>1. VaultInv'
    BY <1>0, <1>1, RequestVault, VaultStepInv
  <2>2. calls' \in 0..MaxCalls
    BY <1>0, <1>1, ShelfAssumption DEF Request
  <2>3. QED
    BY <1>1, <1>s, <1>c, <2>1, <2>2 DEF IInv
<1>2. CASE RetentionNext /\ UNCHANGED <<calls, ctl>>
  <2>1. SweepInv' /\ VaultInv'
    BY <1>0, <1>2, RetentionSteps, VaultStepInv
  <2>2. QED
    BY <1>0, <1>2, <1>c, <2>1 DEF IInv
<1>3. CASE CtlNext /\ UNCHANGED <<calls, sweep>>
  <2>1. CtlInv' /\ VaultInv'
    BY <1>0, <1>3, CtlSteps, VaultStepInv
  <2>2. QED
    BY <1>0, <1>3, <1>s, <2>1 DEF IInv
<1>4. CASE UNCHANGED vars
  <2>1. UNCHANGED <<vault, calls>> /\ UNCHANGED sweep /\ UNCHANGED ctl
    BY <1>4 DEF vars, shelf
  <2>2. VaultInv'
    BY <1>0, <2>1, VaultStepInv DEF VaultStep
  <2>3. QED
    BY <1>0, <1>s, <1>c, <2>1, <2>2 DEF IInv
<1>5. QED
  BY <1>1, <1>2, <1>3, <1>4 DEF Next

\* It always holds.
THEOREM Invariance == Spec => []IInv
<1>1. QED
  BY InitIInv, NextIInv, PTL DEF Spec

\* The vault, the pass and the commands keep to their types, what a pass deletes
\* was listed by it, and upload never has more than Conc files in flight.
THEOREM TypeCorrect == Spec => []TypeOK
<1>1. IInv => TypeOK
  <2> SUFFICES ASSUME IInv PROVE TypeOK
    OBVIOUS
  <2>1. VaultInv /\ SweepType /\ SweepData /\ PurgeInv /\ UploadInv /\ calls \in 0..MaxCalls
    BY DEF IInv, SweepInv, CtlInv
  <2>2. sweep.seen \in [DOMAIN sweep.seen -> Meta]
    <3>1. sweep.seen \in Looks
      BY <2>1 DEF SweepType
    <3>2. QED
      BY <3>1, LooksAre
  <2>3. purge.seen \in [DOMAIN purge.seen -> Meta]
    <3>1. purge.seen \in Looks
      BY <2>1 DEF PurgeInv
    <3>2. QED
      BY <3>1, LooksAre
  <2>4. QED
    BY <2>1, <2>2, <2>3 DEF TypeOK, VaultInv, SweepData, UploadInv
<1>2. QED
  BY <1>1, Invariance, PTL

\* No pass removes more than MaxPercent of what it could remove when it listed
\* it, nor more than PrefetchMax games parsed ahead, however large the vault is
\* and whatever requests and commands do to it meanwhile.
THEOREM PassesAreBounded == Spec => []SweepBounded
<1>1. IInv => SweepBounded
  <2> SUFFICES ASSUME IInv PROVE SweepBounded
    OBVIOUS
  <2>1. SweepType /\ SweepBudget /\ PrefetchMax \in Nat
    BY RetentionAssumption DEF IInv, SweepInv
  <2>2. sweep.purged \in Nat /\ sweep.named \in Nat
    BY <2>1 DEF SweepType
  <2>3. sweep.purged + (IF sweep.pc = "purge" THEN 1 ELSE 0) <= sweep.named /\ sweep.named <= PrefetchMax
        /\ sweep.deleted * 100 <= Cardinality(sweep.pool) * MaxPercent
    BY <2>1 DEF SweepBudget
  <2>4. sweep.purged <= PrefetchMax
    BY <2>1, <2>2, <2>3
  <2>5. QED
    BY <2>3, <2>4 DEF SweepBounded
<1>2. QED
  BY <1>1, Invariance, PTL

\* What a pass is about to delete was played before the previous patch came, and
\* at the last look was a coach game, or a pro game the web does not refer to.
THEOREM PassesSpare == Spec => []SweepSpares
<1>1. IInv => SweepSpares
  <2> SUFFICES ASSUME IInv, sweep.pc = "delete"
      PROVE  /\ Played[sweep.at] < PatchDate[PatchBefore(PatchAt(Now))]
             /\ sweep.base.kind \in {"coach", "pro"}
             /\ sweep.base.kind = "pro" => sweep.at \notin Pinned
    BY DEF SweepSpares, Condemned
  <2>1. SweepType /\ SweepData /\ SweepTrue
    BY DEF IInv, SweepInv
  <2>2. sweep.at \in DOMAIN sweep.old /\ sweep.base.kind = sweep.seen[sweep.at].kind
    BY <2>1 DEF SweepTrue
  <2>3. sweep.at \in sweep.pool /\ sweep.at \in Ids
    BY <2>1, <2>2 DEF SweepData, SweepType
  <2>4. TruePatch(sweep.at) < PatchBefore(PatchAt(Now))
    BY <2>1, <2>2 DEF SweepTrue
  <2>5. Played[sweep.at] < PatchDate[PatchBefore(PatchAt(Now))]
    BY <2>3, <2>4, PlayedBefore
  <2>6. QED
    BY <2>1, <2>2, <2>3, <2>5 DEF SweepTrue
<1>2. QED
  BY <1>1, Invariance, PTL

\* Everything in the vault decodes as a demo, through every interleaving of
\* uploads that find the key taken, look, and replace.
THEOREM VaultHoldsDemos == Spec => []OnlyDemos
<1>1. IInv => OnlyDemos
  BY DEF IInv, VaultInv, OnlyDemos
<1>2. QED
  BY <1>1, Invariance, PTL

\* Taking an account out of a record keeps every other reason for the replay.
LEMMA DetachKeeps ==
  ASSUME NEW m \in Meta
  PROVE  /\ Stored(Detach(m, Account)).accounts = m.accounts \ {Account}
         /\ Claims(m) \ {"student"} \subseteq Claims(Stored(Detach(m, Account)))
         /\ Stored(Detach(m, Account)).accounts # {} => Stored(Detach(m, Account)).kind = m.kind
<1> DEFINE keep == m.accounts \ {Account}
           last == keep = {} /\ m.kind = "student"
           kind == IF last THEN HighestKind(m.also) ELSE m.kind
           also == IF last THEN m.also \ {kind} ELSE m.also
           d == Detach(m, Account)
<1>1. d.accounts = keep /\ d.kind = kind /\ d.also = also
  BY DEF Detach, Meta
<1>2. d \in Meta
  <2>1. m.also \in SUBSET Kinds /\ m.kind \in Kinds /\ m.accounts \in SUBSET Accounts
    BY DEF Meta
  <2>2. HighestKind(m.also) \in Kinds
    BY <2>1, HighestKindIn DEF Kinds
  <2>3. QED
    BY <2>1, <2>2 DEF Detach, Meta
<1>3. Claims(Stored(d)) = Claims(d)
  BY <1>2, StoredClaims
<1>4. Stored(d).accounts = d.accounts /\ Stored(d).kind = d.kind
  BY <1>2 DEF Stored, Meta
<1> HIDE DEF d
<1>5. Claims(m) \ {"student"} \subseteq Claims(d)
  BY <1>1 DEF Claims, ProtectedOf
<1>6. QED
  BY <1>1, <1>3, <1>4, <1>5 DEF d

\* purge-student costs nobody else a claim: its rewrites take out the one account
\* and what it alone was the reason for, whatever was added since the listing, and
\* its deletes only take what the look right before saw nobody else wanted.
THEOREM PurgeKeepsOthers == Spec => OthersKeep
<1> DEFINE Kept(id) == vault'[id] # vault[id] =>
       IF Has(id)' THEN /\ vault'[id].meta.accounts = vault[id].meta.accounts \ {Account}
                        /\ Claims(vault[id].meta) \ {"student"} \subseteq Claims(vault'[id].meta)
                        /\ vault'[id].meta.accounts # {} => vault'[id].meta.kind = vault[id].meta.kind
       ELSE purge.base.accounts = {Account} /\ Claims(purge.base) = {"student"}
<1>1. IInv /\ [Next]_vars => [purge' # purge => \A id \in Ids : Kept(id)]_vars
  <2> SUFFICES ASSUME IInv, Next, purge' # purge, NEW id \in Ids, vault'[id] # vault[id]
      PROVE  Kept(id)
    BY DEF vars
  <2>1. VaultInv /\ PurgeInv /\ UploadInv
    BY DEF IInv, CtlInv
  <2>2. CtlNext
    BY DEF Next, ctl
  <2>3. ~ \E r \in Rows : RowStep(r)
    BY <2>1, UploadSteps
  <2>4. PurgeDelete \/ PurgeDetach
    BY <2>2, <2>3 DEF CtlNext, RowStep, PurgeStart, PurgeHead, PurgeListed, PurgeLookAgain, PurgeEnd
  <2>5. CASE PurgeDelete
    <3>1. purge.at \in Ids /\ PurgeLook(Account, purge.base) /\ vault' = [vault EXCEPT ![purge.at] = None]
      BY <2>1, <2>5 DEF PurgeInv, PurgeDelete, Removed
    <3>2. vault'[id] = None
      BY <2>1, <3>1 DEF VaultInv
    <3>3. purge.base.accounts = {Account} /\ Claims(purge.base) = {"student"}
      BY <3>1 DEF PurgeLook, Claims, ProtectedOf, Protected, Class
    <3>4. QED
      BY <3>2, <3>3 DEF Has
  <2>6. CASE PurgeDetach
    <3> DEFINE at == Least(purge.todo)
               new == Stored(Detach(vault[id].meta, Account))
    <3>1. /\ purge.todo \in SUBSET Ids /\ purge.todo # {}
      BY <2>1, <2>6, LooksAre DEF PurgeInv, PurgeDetach
    <3>2. at \in Ids /\ Has(at) /\ vault' = [vault EXCEPT ![at].meta = Stored(Detach(@, Account))]
      <4>1. purge.todo \in SUBSET Nat
        BY <3>1, ShelfAssumption
      <4>2. at \in Ids
        BY <3>1, <4>1, LeastOf
      <4>3. QED
        BY <2>6, <4>2 DEF PurgeDetach
    <3> HIDE DEF at
    <3>3. at = id
      BY <2>1, <3>2 DEF VaultInv
    <3>4. vault'[id] = [vault[id] EXCEPT !.meta = new] /\ vault[id] \in Content
      BY <2>1, <3>2, <3>3 DEF VaultInv, Has
    <3>5. vault'[id] = [body |-> vault[id].body, meta |-> new] /\ vault[id].meta \in Meta /\ vault[id].body \in Bodies
      BY <3>4 DEF Content
    <3>6. new \in Meta
      <4>1. TrueMeta(id, vault[id].meta)
        BY <2>1, <3>2, <3>3 DEF VaultInv
      <4>2. QED
        BY <4>1, TruthKept DEF TrueMeta
    <3>7. vault'[id] \in Content
      BY <3>5, <3>6 DEF Content
    <3>8. Has(id)'
      BY <3>7, ShelfAssumption DEF Has
    <3>9. vault'[id].meta = new
      BY <3>5
    <3>10. /\ new.accounts = vault[id].meta.accounts \ {Account}
           /\ Claims(vault[id].meta) \ {"student"} \subseteq Claims(new)
           /\ new.accounts # {} => new.kind = vault[id].meta.kind
      BY <3>5, DetachKeeps
    <3>11. QED
      BY <3>8, <3>9, <3>10
  <2>7. QED
    BY <2>4, <2>5, <2>6
<1>2. QED
  BY <1>1, Invariance, PTL DEF Spec, OthersKeep
=============================================================================
