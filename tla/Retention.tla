----------------------------- MODULE Retention ------------------------------
(***************************************************************************)
(* One retention pass (internal/retention/retention.go): the games parsed  *)
(* ahead that the web names go first, then the coach and pro replays of    *)
(* patches older than the previous one.  Every request to the store or to  *)
(* a service is a step; what the pass decides rests on answers that may be *)
(* old by then.                                                            *)
(***************************************************************************)
EXTENDS Shelf, Sequences

CONSTANTS Pinned,      \* the pro games the web still references
          PurgeLists,  \* the answers of the web's purge route
          DoneStart,   \* start times in a match's done markers, oldest version first
          MaxPercent,  \* Config.MaxPercent
          PrefetchMax, \* Config.PrefetchMax
          MaxPasses    \* bound on the passes

ASSUME RetentionAssumption ==
  /\ Pinned \subseteq Ids /\ PurgeLists \subseteq Seq(Ids)
  /\ \A id \in Ids : DoneStart[id] \in Seq({0, Played[id]})
  /\ MaxPercent \in 1..100 /\ PrefetchMax \in Nat \ {0} /\ MaxPasses \in Nat

VARIABLE sweep

Idle ==
  [pc       |-> "idle",
   apply    |-> FALSE, prefetchApply |-> FALSE,  \* Config
   list     |-> <<>>,   \* purgeList, what is left of it
   named    |-> 0,      \* PrefetchReport.Candidates
   purged   |-> 0,      \* PrefetchReport.Deleted
   heads    |-> {},     \* ids still to HEAD
   seen     |-> <<>>,   \* objs: id -> metadata its HEAD found
   pool     |-> {},     \* coach replays, and pro ones the pins allow
   times    |-> <<>>,   \* startTimes
   todate   |-> {},     \* ids of the pool still to date
   old      |-> <<>>,   \* cands: id -> patch
   todo     |-> {},     \* candidates still to delete
   at       |-> 0,      \* the replay being looked at
   base     |-> None,   \* its metadata at the look before the delete
   deleted  |-> 0,
   passes   |-> 0]

Goto(pc) == [sweep EXCEPT !.pc = pc]

Start(apply, prefetchApply) ==
  /\ sweep.pc = "idle" /\ sweep.passes < MaxPasses
  /\ sweep' = [Idle EXCEPT !.pc = "purgeList", !.passes = sweep.passes + 1, !.apply = apply, !.prefetchApply = prefetchApply]
  /\ UNCHANGED vault

\* An error of the route leaves the list empty.
PurgeList ==
  /\ sweep.pc = "purgeList"
  /\ \E list \in PurgeLists \cup {<<>>} : sweep' = [sweep EXCEPT !.pc = "prefetch", !.list = list]
  /\ UNCHANGED vault

\* Look at the next named game; at the cap the rest of the list is left.
PrefetchFind ==
  /\ sweep.pc = "prefetch" /\ sweep.list # <<>> /\ sweep.named < PrefetchMax
  /\ LET id == Head(sweep.list)
         goes == Has(id) /\ PrefetchLook(vault[id].meta)
     IN  sweep' = [sweep EXCEPT !.list = Tail(@), !.named = IF goes THEN @ + 1 ELSE @,
                                !.pc = IF goes /\ sweep.prefetchApply THEN "purge" ELSE @,
                                !.at = IF goes THEN id ELSE 0,
                                !.base = IF goes THEN vault[id].meta ELSE None]
  /\ UNCHANGED vault

PrefetchDelete ==
  /\ sweep.pc = "purge"
  /\ vault' = Removed(sweep.at)
  /\ sweep' = [sweep EXCEPT !.pc = "prefetch", !.purged = @ + 1, !.at = 0, !.base = None]

\* The list is done, or an error of a look or a delete ended it.
PrefetchEnd ==
  /\ sweep.pc \in {"prefetch", "purge"}
  /\ sweep' = [Goto("patches") EXCEPT !.list = <<>>, !.at = 0, !.base = None]
  /\ UNCHANGED vault

\* The list is unavailable, or has no current and previous patch: report and stop.
FetchPatches ==
  /\ sweep.pc = "patches"
  /\ sweep' \in {Goto("report")} \cup
               (IF PatchBefore(PatchAt(Now)) = 0 THEN {} ELSE {Goto("list")})
  /\ UNCHANGED vault

ListIDs ==
  /\ sweep.pc = "list"
  /\ sweep' = [sweep EXCEPT !.pc = "heads", !.heads = {id \in Ids : Has(id)}]
  /\ UNCHANGED vault

\* The HEADs run in parallel.
HeadOne(id) ==
  /\ sweep.pc = "heads" /\ id \in sweep.heads
  /\ sweep' = [sweep EXCEPT !.heads = @ \ {id}, !.seen = Saw(@, id)]
  /\ UNCHANGED vault

\* Without the pins no pro game is touched.
Pool(seen, havePins, pins) ==
  {id \in DOMAIN seen : \/ seen[id].kind = "coach"
                        \/ seen[id].kind = "pro" /\ havePins /\ id \notin pins}

FetchPins ==
  /\ sweep.pc = "heads" /\ sweep.heads = {}
  /\ \E havePins \in BOOLEAN :
       LET pool == Pool(sweep.seen, havePins, IF havePins THEN Pinned ELSE {})
       IN  sweep' = [sweep EXCEPT !.pc = "times", !.pool = pool, !.todate = pool]
  /\ UNCHANGED vault

\* The start time in a replay's newest done marker, where that names one
NewestStart(id) == IF DoneStart[id] = <<>> THEN 0 ELSE DoneStart[id][Len(DoneStart[id])]

\* startTimes for the replays without a patch; a marker that cannot be read is
\* as good as none.
StartTimes ==
  /\ sweep.pc = "times"
  /\ \E known \in SUBSET {id \in sweep.pool : sweep.seen[id].patch = 0 /\ NewestStart(id) > 0} :
       sweep' = [sweep EXCEPT !.pc = "date", !.times = [id \in known |-> NewestStart(id)]]
  /\ UNCHANGED vault

\* The patch a replay of the pool is filed under, 0 for unknown
PatchOf(id) ==
  IF sweep.seen[id].patch # 0 THEN sweep.seen[id].patch
  ELSE IF id \in DOMAIN sweep.times THEN PatchAt(sweep.times[id]) ELSE 0

\* A patch that was worked out is also written to the replay.
Resolved(id) == sweep.apply /\ sweep.seen[id].patch = 0 /\ PatchOf(id) # 0

DateOne ==
  /\ sweep.pc = "date" /\ sweep.todate # {}
  /\ LET id == Least(sweep.todate)
         p  == PatchOf(id)
         isOld == p # 0 /\ p < PatchBefore(PatchAt(Now))
     IN  /\ Resolved(id) => Has(id)
         /\ vault' = IF Resolved(id)
                     THEN UpdateMeta(id, Hint(sweep.seen[id].kind, p))
                     ELSE vault
         /\ sweep' = [sweep EXCEPT !.todate = @ \ {id},
                        !.old = IF isOld THEN [i \in DOMAIN @ \cup {id} |-> IF i = id THEN p ELSE @[i]] ELSE @]

\* Mutant of TooMany: as many as the limit plus one.
TooMany_OffByOne(old, pool) == pool > 0 /\ (old - 1) * 100 > pool * MaxPercent

TooMany(old, pool) == pool > 0 /\ old * 100 > pool * MaxPercent

\* More than MaxPercent of the pool would go: nothing does.
Guard ==
  /\ sweep.pc = "date" /\ sweep.todate = {}
  /\ sweep' = IF sweep.apply /\ ~TooMany(Cardinality(DOMAIN sweep.old), Cardinality(sweep.pool))
              THEN [sweep EXCEPT !.pc = "look", !.todo = DOMAIN sweep.old]
              ELSE Goto("report")
  /\ UNCHANGED vault

\* Mutant of Look: the decision of the listing stands.
Look_Skipped ==
  /\ sweep.pc = "look" /\ sweep.todo # {}
  /\ LET id == Least(sweep.todo)
     IN  sweep' = [sweep EXCEPT !.todo = @ \ {id}, !.pc = IF Has(id) THEN "delete" ELSE "look",
                                !.at = IF Has(id) THEN id ELSE 0,
                                !.base = IF Has(id) THEN vault[id].meta ELSE None]
  /\ UNCHANGED vault

\* The look before each delete
Look ==
  /\ sweep.pc = "look" /\ sweep.todo # {}
  /\ LET id == Least(sweep.todo)
         goes == Has(id) /\ RetentionLook([kind |-> sweep.seen[id].kind, patch |-> sweep.old[id]], vault[id].meta)
     IN  sweep' = [sweep EXCEPT !.todo = @ \ {id}, !.pc = IF goes THEN "delete" ELSE "look",
                                !.at = IF goes THEN id ELSE 0,
                                !.base = IF goes THEN vault[id].meta ELSE None]
  /\ UNCHANGED vault

DeleteOld ==
  /\ sweep.pc = "delete"
  /\ vault' = Removed(sweep.at)
  /\ sweep' = [sweep EXCEPT !.pc = "look", !.deleted = @ + 1, !.at = 0, !.base = None]

\* finish: every candidate was handled, or a look or delete failed.
Finish ==
  /\ sweep.pc \in {"look", "delete"}
  /\ sweep' = Goto("report")
  /\ UNCHANGED vault

Ended == [Idle EXCEPT !.passes = sweep.passes]

PutReport ==
  /\ sweep.pc = "report"
  /\ sweep' = Ended
  /\ UNCHANGED vault

\* Errors that return without a report (the listing, a HEAD, a date that could
\* not be written because the replay is gone), a failed report, a machine that
\* stops.
Abort ==
  /\ sweep.pc # "idle"
  /\ sweep' = Ended
  /\ UNCHANGED vault

RetentionNext ==
  \/ \E apply, prefetchApply \in BOOLEAN : Start(apply, prefetchApply)
  \/ PurgeList \/ PrefetchFind \/ PrefetchDelete \/ PrefetchEnd
  \/ FetchPatches \/ ListIDs \/ (\E id \in Ids : HeadOne(id)) \/ FetchPins
  \/ StartTimes \/ DateOne \/ Guard \/ Look \/ DeleteOld \/ Finish
  \/ PutReport \/ Abort
=============================================================================
