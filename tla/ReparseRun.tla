----------------------------- MODULE ReparseRun -----------------------------
(***************************************************************************)
(* The re-parse of the vault for one parser version (internal/reparse):    *)
(* the planner works out what is missing, writes a plan and starts one     *)
(* machine per shard; the workers parse and deliver their shard's replays, *)
(* then share the shards nobody claimed; the last one out triggers the one *)
(* page refresh; the daily maintain pass resumes what is missing.          *)
(*                                                                         *)
(* All of them meet only in the object store: done markers, failure        *)
(* counts, shard and item claims, the dispatched marker.  One request is   *)
(* one step.  A machine or a call may die between any two steps, a request *)
(* may fail with or without its effect, and the S3 client may be told that *)
(* its own lost write exists already; MaxFaults bounds how often.          *)
(*                                                                         *)
(* There is one planner call at a time (StartLock is about the lock that   *)
(* is meant to ensure it), so no worker of an older attempt is alive when  *)
(* a plan is written and only the newest attempt's plan and claims matter. *)
(***************************************************************************)
EXTENDS Integers, FiniteSets, FiniteSetsExt

CONSTANTS Items,        \* match ids: a set of numbers, plans are kept in their order
          Hash,         \* fnv32a of each id
          AtFirst,      \* the replays stored before the run
          Rejected,     \* replays this version's parser rejects
          Flagged,      \* replays an older version flagged bad
          Workers,      \* the machines the organisation's limit allows
          Planner,      \* the caller of Reparse
          PerMachine,   \* PerSlot * Parallel: replays that justify one more machine
          MaxMachines,  \* REPARSE_MACHINES
          Parallel,     \* goroutines per worker
          MaxFailures,  \* counted failures after which a replay is given up on
          Options,      \* which values of the redispatch option callers use
          MaxChanges,   \* bound: replays removed, or stored by a request, during the run
          MaxFaults     \* bound: failures of machines, calls and requests

ASSUME ReparseAssumption ==
  /\ Items \subseteq Nat /\ IsFiniteSet(Items)
  /\ Hash \in [Items -> Nat]
  /\ AtFirst \subseteq Items /\ Rejected \subseteq Items /\ Flagged \subseteq AtFirst
  /\ Planner \notin Workers /\ IsFiniteSet(Workers)
  /\ {PerMachine, MaxMachines, Parallel, MaxFailures} \subseteq Nat \ {0}
  /\ Options \subseteq BOOLEAN
  /\ MaxChanges \in Nat /\ MaxFaults \in Nat

VARIABLES
  place,    \* each replay in the vault: absent, stored, stored by a request since the run began,
            \* removed
  bad,      \* the bad flag of each replay: none, an older version's, this version's
  done,     \* the done marker of each replay
  fails,    \* the failure count of each replay
  back,     \* history, for the properties: replays of the newest plan that were gone and came back
  changes,  \* removals, and stores by requests, so far
  plan,     \* the newest attempt's plan: its replays and number of shards
  first,    \* plan.json exists: a run of this version was started
  claims,   \* the newest attempt's shard claims and item claims
  grace,    \* orphanGrace has passed since the plan was written
  marker,   \* the dispatched marker exists
  refreshed,\* the page refresh was triggered (or one was already waiting)
  pl,       \* the planner's call: where it is, what it found missing, the shards to start
  wpc,      \* each worker's main goroutine ("off": no live machine)
  shard,    \* each worker's shard
  known,    \* the done set each worker read when it booted (and again at the end),
            \* then also what it saw gone
  todo,     \* replays the main goroutine has yet to send to the pool, or to claim
  scan,     \* shards shareOrphans has yet to look at
  task,     \* what each worker's pool is doing with each replay
  count,    \* the failure count the pool read last
  dpc,      \* how far each caller of Dispatch is
  faults    \* faults so far

shelf   == <<place, back, changes>>
vault   == <<place, back, changes, bad, done, fails>>
run     == <<plan, first, claims, grace>>
refresh == <<marker, refreshed, dpc>>
machine == <<wpc, shard, known, todo, scan, task, count>>
vars    == <<vault, run, refresh, machine, pl, faults>>

Places   == {"absent", "stored", "served", "removed"}
Stages   == {"none", "held", "open", "markBad", "clearBad", "deliver",
             "okDone", "failDone", "bump", "bumpWrite", "giveUp"}
Dispatching == {"waiting", "dispatch", "unmark"}
Callers  == Workers \cup {Planner}

\* Shard: stable in the replay and the number of shards
Shard(i, n) == IF n <= 1 THEN 0 ELSE Hash[i] % n

\* A call that asks for fewer machines than the limit is left out: it is a call under
\* a lower limit.
MachinesFor(n) ==
  LET wanted == (n + PerMachine - 1) \div PerMachine
  IN  Min({MaxMachines, Max({1, wanted})})

ShardClaim(k) == <<"shard", k>>
ItemClaim(i)  == <<"item", i>>

Present(i) == place[i] \in {"stored", "served"}
Marked     == {i \in Items : done[i] # "none"}
BadNow     == {i \in Items : bad[i] = "this"}
Alive      == {w \in Workers : wpc[w] # "off"}

Fault   == faults < MaxFaults /\ faults' = faults + 1
NoFault == UNCHANGED faults

Init ==
  /\ place = [i \in Items |-> IF i \in AtFirst THEN "stored" ELSE "absent"]
  /\ bad = [i \in Items |-> IF i \in Flagged THEN "older" ELSE "none"]
  /\ done = [i \in Items |-> "none"]
  /\ fails = [i \in Items |-> 0]
  /\ back = {}
  /\ changes = 0
  /\ plan = [items |-> {}, shards |-> 1]
  /\ first = FALSE
  /\ claims = {}
  /\ grace = FALSE
  /\ marker = FALSE
  /\ refreshed = FALSE
  /\ pl = [pc |-> "idle", items |-> {}, start |-> {}, forget |-> FALSE]
  /\ wpc = [w \in Workers |-> "off"]
  /\ shard = [w \in Workers |-> 0]
  /\ known = [w \in Workers |-> {}]
  /\ todo = [w \in Workers |-> {}]
  /\ scan = [w \in Workers |-> {}]
  /\ task = [w \in Workers |-> [i \in Items |-> "none"]]
  /\ count = [w \in Workers |-> [i \in Items |-> 0]]
  /\ dpc = [c \in Callers |-> "no"]
  /\ faults = 0

(***************************************************************************)
(* The rest of the system: requests and backfills store replays (PutNew    *)
(* takes any free key, one that retention emptied too), retention removes  *)
(* them.  A request has parsed what it stores, and flags what its parser   *)
(* rejected.                                                               *)
(***************************************************************************)
MayChange == changes < MaxChanges /\ changes' = changes + 1

Store(i) ==
  /\ ~Present(i)
  /\ back' = back \cup ({i} \cap plan.items)
  /\ \/ /\ place' = [place EXCEPT ![i] = "stored"]
        /\ bad' = [bad EXCEPT ![i] = "none"]
        /\ UNCHANGED changes
     \/ /\ MayChange
        /\ place' = [place EXCEPT ![i] = IF first THEN "served" ELSE "stored"]
        /\ bad' = [bad EXCEPT ![i] = IF i \in Rejected THEN "this" ELSE "none"]
  /\ UNCHANGED <<done, fails, run, refresh, machine, pl, faults>>

Retention(i) ==
  /\ Present(i) /\ MayChange
  /\ place' = [place EXCEPT ![i] = "removed"]
  /\ UNCHANGED <<back, bad, done, fails, run, refresh, machine, pl, faults>>

(***************************************************************************)
(* Planner.Reparse                                                         *)
(***************************************************************************)
PlannerIdle == pl' = [pc |-> "idle", items |-> {}, start |-> {}, forget |-> FALSE]

\* Mutant of PlannerTodo: the resume takes backfilled replays for parsed ones too.
PlannerTodo_LeavesBackfilled(resumeOnly) ==
  /\ pl.pc = "idle" /\ dpc[Planner] = "no"
  /\ resumeOnly => first
  /\ pl' = [pc |-> "list", start |-> {}, forget |-> FALSE,
            items |-> {i \in Items \ (Marked \cup BadNow) : ~resumeOnly /\ Present(i)}]
  /\ UNCHANGED <<vault, run, refresh, machine, faults>>

\* ResumeOnly (maintain) needs a started run and leaves replays the server
\* parsed itself since then; a POST takes every replay without a marker.
PlannerTodo(resumeOnly) ==
  /\ pl.pc = "idle" /\ dpc[Planner] = "no"
  /\ resumeOnly => first
  /\ \E redispatch \in IF resumeOnly THEN {FALSE} ELSE Options :
       pl' = [pc |-> "list", start |-> {}, forget |-> redispatch,
              items |-> {i \in Items \ (Marked \cup BadNow) :
                           place[i] \in {"stored"} \cup (IF resumeOnly THEN {} ELSE {"served"})}]
  /\ UNCHANGED <<vault, run, refresh, machine, faults>>

\* Under the lock, the machines: with nothing missing the run is over; with workers
\* alive, the shards that have work and no machine are started (startMissing);
\* else a new attempt begins.
PlannerList ==
  LET live == {shard[w] : w \in Alive}
      work == {Shard(i, plan.shards) : i \in pl.items \cap plan.items}
  IN  /\ pl.pc = "list"
      /\ \/ pl.items = {} /\ pl' = [pl EXCEPT !.pc = "over"]
         \/ pl.items # {} /\ Alive # {} /\ pl' = [pl EXCEPT !.pc = "missing", !.start = work \ live]
         \/ pl.items # {} /\ Alive = {} /\ pl' = [pl EXCEPT !.pc = "plan"]
      /\ UNCHANGED <<vault, run, refresh, machine, faults>>

\* The redispatch option deletes the marker next; an error is ignored.
PlannerForget ==
  /\ pl.pc # "list" /\ pl.forget
  /\ pl' = [pl EXCEPT !.forget = FALSE]
  /\ \/ marker' = FALSE /\ NoFault
     \/ UNCHANGED marker /\ Fault
  /\ UNCHANGED <<vault, run, refreshed, dpc, machine>>

\* Mutant of PlannerOver: a call that finds nothing missing just returns.
PlannerOver_NoDispatch ==
  /\ pl.pc = "over" /\ ~pl.forget
  /\ PlannerIdle
  /\ UNCHANGED <<vault, run, refresh, machine, faults>>

\* Nothing missing: see to the refresh of a run that was started (a HEAD that
\* fails says it was not).
PlannerOver ==
  /\ pl.pc = "over" /\ ~pl.forget
  /\ PlannerIdle
  /\ \E there \in {FALSE, first} :
       /\ dpc' = [dpc EXCEPT ![Planner] = IF there THEN "marker" ELSE "no"]
       /\ IF there = first THEN NoFault ELSE Fault
  /\ UNCHANGED <<vault, run, marker, refreshed, machine>>

\* Mutant of PlannerPlan: the loop over the shards runs one too far.
PlannerPlan_OneTooMany ==
  /\ pl.pc = "plan" /\ ~pl.forget
  /\ plan' = [items |-> pl.items, shards |-> MachinesFor(Cardinality(pl.items))]
  /\ claims' = {} /\ grace' = FALSE /\ back' = {}
  /\ pl' = [pl EXCEPT !.pc = "first", !.start = 0..plan'.shards]
  /\ UNCHANGED <<place, changes, bad, done, fails, first, refresh, machine, faults>>

PlannerPlan ==
  /\ pl.pc = "plan" /\ ~pl.forget
  /\ plan' = [items |-> pl.items, shards |-> MachinesFor(Cardinality(pl.items))]
  /\ claims' = {} /\ grace' = FALSE /\ back' = {}
  /\ pl' = [pl EXCEPT !.pc = "first", !.start = 0..(plan'.shards - 1)]
  /\ UNCHANGED <<place, changes, bad, done, fails, first, refresh, machine, faults>>

\* plan.json keeps the first attempt of the version
PlannerFirst ==
  /\ pl.pc = "first"
  /\ first' = TRUE
  /\ pl' = [pl EXCEPT !.pc = "start"]
  /\ UNCHANGED <<vault, plan, claims, grace, refresh, machine, faults>>

StartMachine(w, k) ==
  /\ wpc' = [wpc EXCEPT ![w] = "boot"]
  /\ shard' = [shard EXCEPT ![w] = k]
  /\ UNCHANGED <<known, todo, scan, task, count>>

\* One machine per shard, in order; a refused create ends the call, whether or
\* not the machine was started all the same.
PlannerCreate ==
  /\ pl.pc \in {"start", "missing"} /\ ~pl.forget
  /\ \/ pl.start = {} /\ PlannerIdle /\ NoFault /\ UNCHANGED machine
     \/ /\ pl.start # {} /\ Alive = Workers
        /\ PlannerIdle /\ NoFault /\ UNCHANGED machine
     \/ /\ pl.start # {}
        /\ \E w \in Workers \ Alive :
             /\ StartMachine(w, Min(pl.start))
             /\ \/ pl' = [pl EXCEPT !.start = @ \ {Min(@)}] /\ NoFault
                \/ PlannerIdle /\ Fault
  /\ UNCHANGED <<vault, run, refresh>>

\* A request of the planner fails, or its process dies.
PlannerStops ==
  /\ pl.pc # "idle" \/ dpc[Planner] # "no"
  /\ PlannerIdle
  /\ dpc' = [dpc EXCEPT ![Planner] = "no"]
  /\ Fault
  /\ UNCHANGED <<vault, run, marker, refreshed, machine>>

(***************************************************************************)
(* Worker.Run: the main goroutine                                          *)
(***************************************************************************)
Boot(w) ==
  /\ wpc[w] = "boot"
  /\ wpc' = [wpc EXCEPT ![w] = "claim"]
  /\ known' = [known EXCEPT ![w] = Marked]
  /\ todo' = [todo EXCEPT ![w] = {i \in plan.items \ Marked : Shard(i, plan.shards) = shard[w]}]
  /\ UNCHANGED <<vault, run, refresh, shard, scan, task, count, pl, faults>>

\* A claim that cannot be written is only logged.
ClaimShard(w) ==
  /\ wpc[w] = "claim"
  /\ wpc' = [wpc EXCEPT ![w] = "feed"]
  /\ \/ claims' = claims \cup {ShardClaim(shard[w])} /\ NoFault
     \/ UNCHANGED claims /\ Fault
  /\ UNCHANGED <<vault, plan, first, grace, refresh, shard, known, todo, scan, task, count, pl>>

\* The pool's channel has no buffer: a send waits for a free goroutine.
PoolFree(w) == Cardinality({i \in Items : task[w][i] \notin {"none", "held"}}) < Parallel

Feed(w) ==
  /\ wpc[w] = "feed"
  /\ \/ /\ todo[w] # {} /\ PoolFree(w)
        /\ task' = [task EXCEPT ![w][Min(todo[w])] = "open"]
        /\ todo' = [todo EXCEPT ![w] = @ \ {Min(@)}]
        /\ UNCHANGED <<wpc, scan>>
     \/ /\ todo[w] = {}
        /\ wpc' = [wpc EXCEPT ![w] = "share"]
        /\ scan' = [scan EXCEPT ![w] = (0..(plan.shards - 1)) \ {shard[w]}]
        /\ UNCHANGED <<task, todo>>
  /\ UNCHANGED <<vault, run, refresh, shard, known, count, pl, faults>>

\* Three minutes, whether or not every machine has booted and claimed its shard
GracePasses ==
  /\ ~grace /\ plan.items # {}
  /\ grace' = TRUE
  /\ UNCHANGED <<vault, plan, first, claims, refresh, machine, pl, faults>>

\* No claimed replay waits for the pool.
HandFree(w) == \A i \in Items : task[w][i] # "held"

\* shareOrphans: an unclaimed shard's replays are up for an item claim each.  A
\* HEAD that fails is taken for a claim.
LookForOrphans(w) ==
  /\ wpc[w] = "share" /\ HandFree(w) /\ todo[w] = {} /\ scan[w] # {} /\ grace
  /\ LET k == Min(scan[w])
     IN  /\ \/ ShardClaim(k) \notin claims /\ NoFault
               /\ todo' = [todo EXCEPT ![w] = {i \in plan.items \ known[w] : Shard(i, plan.shards) = k}]
            \/ ShardClaim(k) \in claims /\ NoFault /\ UNCHANGED todo
            \/ ShardClaim(k) \notin claims /\ Fault /\ UNCHANGED todo
         /\ scan' = [scan EXCEPT ![w] = @ \ {k}]
  /\ UNCHANGED <<vault, run, refresh, wpc, shard, known, task, count, pl>>

\* Mutant of ClaimItem: the claim is written without the condition.
ClaimItem_Always(w) ==
  /\ wpc[w] = "share" /\ HandFree(w) /\ todo[w] # {}
  /\ LET i == Min(todo[w])
     IN  /\ claims' = claims \cup {ItemClaim(i)} /\ task' = [task EXCEPT ![w][i] = "held"]
         /\ todo' = [todo EXCEPT ![w] = @ \ {i}]
  /\ UNCHANGED <<vault, plan, first, grace, refresh, wpc, shard, known, scan, count, pl, faults>>

ClaimItem(w) ==
  /\ wpc[w] = "share" /\ HandFree(w) /\ todo[w] # {}
  /\ LET i == Min(todo[w])
     IN  /\ \/ ItemClaim(i) \notin claims /\ NoFault
               /\ claims' = claims \cup {ItemClaim(i)} /\ task' = [task EXCEPT ![w][i] = "held"]
            \/ ItemClaim(i) \in claims /\ NoFault /\ UNCHANGED <<claims, task>>
            \/ ItemClaim(i) \notin claims /\ Fault
               /\ claims' \in {claims, claims \cup {ItemClaim(i)}} /\ UNCHANGED task
         /\ todo' = [todo EXCEPT ![w] = @ \ {i}]
  /\ UNCHANGED <<vault, plan, first, grace, refresh, wpc, shard, known, scan, count, pl>>

Idle(w) == \A i \in Items : task[w][i] = "none"

\* Mutant of Tally: the done set is not read again.
Tally_OldSet(w) ==
  /\ wpc[w] = "share" /\ todo[w] = {} /\ Idle(w)
  /\ scan[w] = {}
  /\ wpc' = [wpc EXCEPT ![w] = "left"]
  /\ UNCHANGED <<vault, run, refresh, shard, known, todo, scan, task, count, pl, faults>>

\* wg.Wait, then the done set again
Tally(w) ==
  /\ wpc[w] = "share" /\ todo[w] = {} /\ Idle(w)
  /\ scan[w] = {}
  /\ known' = [known EXCEPT ![w] = Marked]
  /\ wpc' = [wpc EXCEPT ![w] = "left"]
  /\ UNCHANGED <<vault, run, refresh, shard, todo, scan, task, count, pl, faults>>

\* The process exits and its machine is destroyed.
TurnOff(w) ==
  /\ wpc' = [wpc EXCEPT ![w] = "off"]
  /\ shard' = [shard EXCEPT ![w] = 0]
  /\ known' = [known EXCEPT ![w] = {}]
  /\ todo' = [todo EXCEPT ![w] = {}]
  /\ scan' = [scan EXCEPT ![w] = {}]
  /\ task' = [task EXCEPT ![w] = [i \in Items |-> "none"]]
  /\ count' = [count EXCEPT ![w] = [i \in Items |-> 0]]

\* Mutant of CountLeft: a worker counts its own shard only.
CountLeft_OwnShard(w) ==
  /\ wpc[w] = "left"
  /\ LET unsure == {i \in plan.items \ known[w] : Shard(i, plan.shards) = shard[w]}
     IN  \/ unsure # {} /\ Present(Min(unsure)) /\ TurnOff(w) /\ UNCHANGED dpc
         \/ /\ unsure # {} /\ ~Present(Min(unsure))
            /\ known' = [known EXCEPT ![w] = @ \cup {Min(unsure)}]
            /\ UNCHANGED <<wpc, shard, todo, scan, task, count, dpc>>
         \/ /\ unsure = {}
            /\ wpc' = [wpc EXCEPT ![w] = "finish"]
            /\ dpc' = [dpc EXCEPT ![w] = "marker"]
            /\ UNCHANGED <<shard, known, todo, scan, task, count>>
  /\ UNCHANGED <<vault, run, marker, refreshed, pl, faults>>

\* One HEAD after the other, in the plan's order: a replay without a marker is left
\* unless it is gone; with none left this worker sees to the refresh.  (A HEAD that
\* fails counts as left: WorkerStops.)
CountLeft(w) ==
  /\ wpc[w] = "left"
  /\ LET unsure == plan.items \ known[w]
     IN  \/ unsure # {} /\ Present(Min(unsure)) /\ TurnOff(w) /\ UNCHANGED dpc
         \/ /\ unsure # {} /\ ~Present(Min(unsure))
            /\ known' = [known EXCEPT ![w] = @ \cup {Min(unsure)}]
            /\ UNCHANGED <<wpc, shard, todo, scan, task, count, dpc>>
         \/ /\ unsure = {}
            /\ wpc' = [wpc EXCEPT ![w] = "finish"]
            /\ dpc' = [dpc EXCEPT ![w] = "marker"]
            /\ UNCHANGED <<shard, known, todo, scan, task, count>>
  /\ UNCHANGED <<vault, run, marker, refreshed, pl, faults>>

WorkerEnds(w) ==
  /\ wpc[w] = "finish" /\ dpc[w] = "no"
  /\ TurnOff(w)
  /\ UNCHANGED <<vault, run, refresh, pl, faults>>

\* The machine dies, the hard deadline passes, the plan, the done set or a replay
\* it counts cannot be read, or the web app refuses the service token.
WorkerStops(w) ==
  /\ wpc[w] # "off"
  /\ TurnOff(w)
  /\ dpc' = [dpc EXCEPT ![w] = "no"]
  /\ Fault
  /\ UNCHANGED <<vault, run, marker, refreshed, pl>>

(***************************************************************************)
(* Worker.one: one goroutine of the pool on one replay                     *)
(***************************************************************************)
Goto(w, i, stage) == task' = [task EXCEPT ![w][i] = stage]

Rest == <<run, refresh, wpc, shard, known, todo, scan, pl>>

Take(w, i) ==
  /\ task[w][i] = "held" /\ PoolFree(w)
  /\ Goto(w, i, "open")
  /\ UNCHANGED <<vault, Rest, count, faults>>

\* Open and Parse: gone, rejected by the parser, parsed, or failed for a reason
\* of the replay's own
OpenAndParse(w, i) ==
  /\ task[w][i] = "open"
  /\ \/ ~Present(i) /\ Goto(w, i, "none") /\ NoFault
     \/ Present(i) /\ i \in Rejected /\ Goto(w, i, "markBad") /\ NoFault
     \/ Present(i) /\ i \notin Rejected /\ bad[i] # "none" /\ Goto(w, i, "clearBad") /\ NoFault
     \/ Present(i) /\ i \notin Rejected /\ bad[i] = "none" /\ Goto(w, i, "deliver") /\ NoFault
     \/ Goto(w, i, "bump") /\ Fault
  /\ UNCHANGED <<vault, Rest, count>>

\* A flag that cannot be set or cleared is only logged.
SetFlag(w, i) ==
  /\ task[w][i] \in {"markBad", "clearBad"}
  /\ \/ Present(i) /\ bad' = [bad EXCEPT ![i] = IF task[w][i] = "markBad" THEN "this" ELSE "none"] /\ NoFault
     \/ ~Present(i) /\ UNCHANGED bad /\ NoFault
     \/ Present(i) /\ UNCHANGED bad /\ Fault
  /\ Goto(w, i, IF task[w][i] = "markBad" THEN "failDone" ELSE "deliver")
  /\ UNCHANGED <<shelf, done, fails, Rest, count>>

\* The web app takes the parse, or refuses this one for good (or it is too
\* large to send); when the web side is down nothing is recorded.
Deliver(w, i) ==
  /\ task[w][i] = "deliver"
  /\ \/ Goto(w, i, "okDone") /\ NoFault
     \/ Goto(w, i, "failDone") /\ NoFault
     \/ Goto(w, i, "none") /\ Fault
  /\ UNCHANGED <<vault, Rest, count>>

\* An error of WriteDone counts as a failed attempt.
WriteDone(w, i) ==
  /\ task[w][i] \in {"okDone", "failDone"}
  /\ LET written == [done EXCEPT ![i] = IF task[w][i] = "okDone" THEN "ok" ELSE "failed"]
     IN  \/ done' = written /\ Goto(w, i, "none") /\ NoFault
         \/ done' \in {done, written} /\ Goto(w, i, "bump") /\ Fault
  /\ UNCHANGED <<shelf, bad, fails, Rest, count>>

\* recordFailure: BumpFailure reads the count, then writes it
BumpRead(w, i) ==
  /\ task[w][i] = "bump"
  /\ \/ Goto(w, i, "bumpWrite") /\ count' = [count EXCEPT ![w][i] = fails[i]] /\ NoFault
     \/ Goto(w, i, "none") /\ UNCHANGED count /\ Fault
  /\ UNCHANGED <<vault, Rest>>

BumpWrite(w, i) ==
  /\ task[w][i] = "bumpWrite"
  /\ LET n == count[w][i] + 1
         written == [fails EXCEPT ![i] = n]
     IN  \/ fails' = written /\ Goto(w, i, IF n < MaxFailures THEN "none" ELSE "giveUp") /\ NoFault
         \/ fails' \in {fails, written} /\ Goto(w, i, "none") /\ Fault
  /\ count' = [count EXCEPT ![w][i] = 0]
  /\ UNCHANGED <<shelf, bad, done, Rest>>

GiveUp(w, i) ==
  /\ task[w][i] = "giveUp"
  /\ LET written == [done EXCEPT ![i] = "failed"]
     IN  \/ done' = written /\ NoFault
         \/ done' \in {done, written} /\ Fault
  /\ Goto(w, i, "none")
  /\ UNCHANGED <<shelf, bad, fails, Rest, count>>

(***************************************************************************)
(* Dispatch, by the last worker out or by the planner                      *)
(***************************************************************************)
DGoto(c, stage) == dpc' = [dpc EXCEPT ![c] = stage]

\* Mutant of CreateMarker: the marker is written without the condition.
CreateMarker_Always(c) ==
  /\ dpc[c] = "marker"
  /\ marker' = TRUE /\ DGoto(c, "waiting")
  /\ UNCHANGED <<vault, run, refreshed, machine, pl, faults>>

CreateMarker(c) ==
  /\ dpc[c] = "marker"
  /\ \/ ~marker /\ marker' = TRUE /\ DGoto(c, "waiting") /\ NoFault
     \/ marker /\ UNCHANGED marker /\ DGoto(c, "no") /\ NoFault
     \/ ~marker /\ marker' \in BOOLEAN /\ DGoto(c, "no") /\ Fault
  /\ UNCHANGED <<vault, run, refreshed, machine, pl>>

\* A run of the workflow that is already waiting counts as the refresh.
RunsWaiting(c) ==
  /\ dpc[c] = "waiting"
  /\ \/ DGoto(c, "no") /\ refreshed' = TRUE /\ NoFault
     \/ DGoto(c, "dispatch") /\ UNCHANGED refreshed /\ NoFault
     \/ DGoto(c, "unmark") /\ UNCHANGED refreshed /\ Fault
  /\ UNCHANGED <<vault, run, marker, machine, pl>>

DispatchWorkflow(c) ==
  /\ dpc[c] = "dispatch"
  /\ \/ DGoto(c, "no") /\ refreshed' = TRUE /\ NoFault
     \/ DGoto(c, "unmark") /\ refreshed' \in {refreshed, TRUE} /\ Fault
  /\ UNCHANGED <<vault, run, marker, machine, pl>>

\* An error of this delete is ignored.
RemoveMarker(c) ==
  /\ dpc[c] = "unmark"
  /\ DGoto(c, "no")
  /\ \/ marker' = FALSE /\ NoFault
     \/ UNCHANGED marker /\ Fault
  /\ UNCHANGED <<vault, run, refreshed, machine, pl>>

-----------------------------------------------------------------------------
PlannerStep == PlannerList \/ PlannerForget \/ PlannerOver \/ PlannerPlan \/ PlannerFirst \/ PlannerCreate

MainStep(w) ==
  \/ Boot(w) \/ ClaimShard(w) \/ Feed(w) \/ LookForOrphans(w) \/ ClaimItem(w)
  \/ Tally(w) \/ CountLeft(w) \/ WorkerEnds(w)

PoolStep(w, i) ==
  \/ Take(w, i) \/ OpenAndParse(w, i) \/ SetFlag(w, i) \/ Deliver(w, i)
  \/ WriteDone(w, i) \/ BumpRead(w, i) \/ BumpWrite(w, i) \/ GiveUp(w, i)

DispatchStep(c) == CreateMarker(c) \/ RunsWaiting(c) \/ DispatchWorkflow(c) \/ RemoveMarker(c)

Next ==
  \/ \E i \in Items : Store(i) \/ Retention(i)
  \/ \E resumeOnly \in BOOLEAN : PlannerTodo(resumeOnly)
  \/ PlannerStep \/ PlannerStops
  \/ GracePasses
  \/ \E w \in Workers : MainStep(w) \/ WorkerStops(w) \/ \E i \in Items : PoolStep(w, i)
  \/ \E c \in Callers : DispatchStep(c)

Spec == Init /\ [][Next]_vars

\* Calls and live workers go on, time passes, and maintain calls Reparse every day.
FairSpec ==
  /\ Spec
  /\ WF_vars(PlannerTodo(TRUE))
  /\ WF_vars(PlannerStep) /\ WF_vars(GracePasses)
  /\ \A w \in Workers : WF_vars(MainStep(w)) /\ WF_vars(\E i \in Items : PoolStep(w, i))
  /\ \A c \in Callers : WF_vars(DispatchStep(c))

-----------------------------------------------------------------------------
TypeOK ==
  /\ place \in [Items -> Places]
  /\ bad \in [Items -> {"none", "older", "this"}]
  /\ done \in [Items -> {"none", "ok", "failed"}]
  /\ fails \in [Items -> 0..MaxFaults]
  /\ back \subseteq Items /\ changes \in 0..MaxChanges
  /\ plan \in [items : SUBSET Items, shards : 1..MaxMachines]
  /\ first \in BOOLEAN /\ grace \in BOOLEAN /\ marker \in BOOLEAN /\ refreshed \in BOOLEAN
  /\ claims \subseteq {ShardClaim(k) : k \in 0..(MaxMachines - 1)} \cup {ItemClaim(i) : i \in Items}
  /\ pl \in [pc : {"idle", "list", "over", "plan", "first", "start", "missing"},
             items : SUBSET Items, start : SUBSET (0..(MaxMachines - 1)), forget : BOOLEAN]
  /\ wpc \in [Workers -> {"off", "boot", "claim", "feed", "share", "left", "finish"}]
  /\ shard \in [Workers -> 0..(MaxMachines - 1)]
  /\ known \in [Workers -> SUBSET Items]
  /\ todo \in [Workers -> SUBSET Items]
  /\ scan \in [Workers -> SUBSET (0..(MaxMachines - 1))]
  /\ task \in [Workers -> [Items -> Stages]]
  /\ count \in [Workers -> [Items -> 0..MaxFaults]]
  /\ dpc \in [Callers -> Dispatching \cup {"no", "marker"}]
  /\ faults \in 0..MaxFaults

\* A replay of an unclaimed shard is taken by one of the workers that share it,
\* whichever of them ask for it at once (shareOrphans' item claims).
SharedOnce ==
  \A i \in Items, v, w \in Workers :
    (/\ task[v][i] # "none" /\ task[w][i] # "none"
     /\ Shard(i, plan.shards) \notin {shard[v], shard[w]}) => v = w

\* Of all workers and planner calls that find the run finished, only one is ever
\* past the marker, and the marker stands as long as it is (Dispatch: "exactly
\* one caller dispatches").
OneDispatcher ==
  /\ \A c, d \in Callers : dpc[c] \in Dispatching /\ dpc[d] \in Dispatching => c = d
  /\ (\E c \in Callers : dpc[c] \in Dispatching) => marker

\* A replay nobody has to parse any more.  Only a store undoes it: what retention
\* removed may come back.
Settled(i) == done[i] # "none" \/ place[i] \in {"removed", "served"} \/ i \in BadNow

\* When the page refresh is triggered, every replay of the plan has a marker, is
\* gone, was rejected, or was parsed by the server itself, though the done set and
\* the HEADs it is decided on are older than the dispatch, each by its own time.
\* Only a replay that was gone and came back since the plan was written may be open.
RefreshAfterAll ==
  [][refreshed' # refreshed => \A i \in plan.items : Settled(i) \/ i \in back]_vars

\* Every replay of a started run is settled in the end, whatever machine dies or
\* request fails where, as long as faults are not endless.
NothingForgotten == \A i \in Items : (first /\ i \in plan.items) ~> Settled(i)

\* Without faults the workers of a run need nobody's help: when the last of them
\* is gone the run is dispatched, although each may have left while others still
\* worked, and a shard may never have got a machine (Run's count of what is left).
\* A replay that was gone when the pool came to it and is back when the last worker
\* counts is left to the next pass, so the runs with one that came back are not meant.
NoneBack == plan.items \cap back = {}
LastOneDispatches ==
  faults = 0 /\ first /\ NoneBack /\ Alive = {} /\ pl.pc = "idle" /\ dpc[Planner] = "no" => marker

\* Every started run gets to the dispatched marker.
RunEnds == first ~> marker

\* A finished run gets its page refresh ("a run that finished but whose dispatch
\* failed gets it now").
RunIsRefreshed == first ~> refreshed
=============================================================================
