# Replay vault, parse servers, re-parse runs and the parser's passes: TLA+ models

The repository parses Dota 2 replays. Around the parser (`main.go`) it keeps a
*vault*: an object store with one replay per match, whose metadata says why the
replay is kept. Servers, re-parse workers, a daily maintain machine and an
operator's command line share that store and have no other way to meet. This
project models that shared part first: it is where order, failure and stale
reads decide whether a replay, a claim on it or a page refresh is lost. Of the
parser it models eight passes that pair or group what a replay tells in pieces,
late and in any order: an event of the game reaches the parser as entries of the
combat log, chat messages and changes of entities, and what it reports must be
what happened.

## 1. The system

| part | state | operations | talks to |
|---|---|---|---|
| kinds and metadata (`internal/vault/kind.go`, `meta.go`) | the headers of an object | `Merge`, `ToS3`/`MetaFromS3`, `HighestKind` | everything below |
| vault (`vault.go`) over the S3 store (`s3.go`) | objects with ETags | `Find`, `Open`, `MutateMeta` (`UpdateMeta`, `MarkBad`, `ClearBad`, `MarkCorrupt`), `PutNew`, JSON markers | the object store |
| parse server (`cmd/server`) | parse slots, in-flight matches | `/parse-valve`, `/parse`, backfill, vault routes | vault, Valve, planner |
| re-parse planner (`internal/reparse/plan.go`) | plan, start lock, machines | `Reparse`, `startMissing`, `Dispatch`, `lock` | vault, machines API, GitHub |
| re-parse worker (`worker.go`) | shard, pool, done set | `Run`, `shareOrphans`, `one`, `recordFailure` | vault, web app |
| retention (`internal/retention`) | none | age sweep, prefetch purge | vault, web app |
| `vaultctl` (`cmd/vaultctl`) | none | upload, purge-student, probe | vault |
| valve fetcher (`internal/valve`) | request counters | `Download`, `Store` | Valve, vault |
| parser (`main.go`, `wide.go`) | one replay's events | detections and aggregates | manta |
| audit (`audit`, `cmd/audit`) | none | compare two parses | files |

What is hard here:

* **Concurrency without locks.** Every metadata change is a HEAD followed by a
  conditional copy; some writes (the replacement of corrupt bytes, deletes,
  failure counts, done markers) have no condition at all.
* **Lost answers.** The S3 client repeats a write whose answer was lost, and is
  then refused by its own first copy.
* **Crashes.** Workers are machines with a hard deadline; a run must go on from
  its markers alone.
* **Timeouts.** A shard not claimed within three minutes is shared out, also if
  its machine is only slow. A start lock older than ten minutes is taken over.
* **Progress.** The last worker out triggers the page refresh, and nobody is
  told that it is the last.
* **Jobs over the whole vault.** Retention, `purge-student` and `upload` list the
  vault first and act minutes later, while requests store and claim replays.
* **A replay in pieces.** A death, a ward, a stack or a skill point is told twice
  or three times, in different streams, ticks or seconds apart, with nothing that
  links the pieces; the clock's zero is known only at the horn, and pauses are
  flagged late.

What makes each part correct:

* *metadata*: merging never loses a reason to keep a replay; repeating a merge
  is harmless; what is written is what is read back;
* *vault*: metadata describes the bytes beside it; concurrent changes are all
  kept; calls end; a delete removes only what its caller meant;
* *planner and workers*: every replay of a run ends with a marker, is gone, or
  was parsed elsewhere; replays are shared once; the refresh is triggered once,
  after all of that, and it does come;
* *server*: slots and in-flight entries come back; a verdict on bytes stays with
  those bytes; what is not a demo is never stored;
* *retention*: what is pinned, young or claimed stays; the guard against large
  sweeps holds at its boundary;
* *vaultctl*: a student who leaves costs nobody else a replay or a claim; what is
  uploaded decodes;
* *parser*: what is reported is what happened: each event once, on its own
  player, place and time, in whatever order its pieces came.

## 2. Modules

| module | models |
|---|---|
| `ReplayMeta` | kinds, classes, the `Meta` record, `Merge`, the round trip `Stored` through S3 headers |
| `VaultOps` | the calls on one replay and the function each gives to `MutateMeta`; the looks before deletes |
| `AtomicVault` | what the vault promises: each call one atomic change (abstract specification) |
| `VaultStore` | the same calls as object-store requests: ETags, retries, lost answers |
| `VaultFallback` | `VaultStore` on an endpoint that needs the copy through a temporary key |
| `ReparseRun` | planner, workers with their pools, orphan sharing, failure counts, dispatch |
| `StartLock` | `Planner.lock` with its stale-lock takeover |
| `ParseServer` | servers with slots and in-flight maps, requests, uploads, backfills, workers and retention around one match |
| `Shelf` | all replays of the vault as the jobs see them: listing, HEADs, patches, a request of some server |
| `Retention` | one retention pass, request by request |
| `VaultCtl` | `upload` and `purge-student`, request by request |
| `Maintenance` | the three jobs and the requests on one vault (composition) |
| `Timeline` | what the parser's passes share: sorting, the game clock before and after the horn |
| `SkillBuild` | how the parser pairs spent skill points with level rises |
| `HeroDeaths` | deaths, clones, kills, the scoreboard's assists, teamfights |
| `Purchases` | log entries of purchases and the first inventory |
| `Wards` | wards, their kills and bounties around the horn |
| `Smokes` | smokes of both sides from modifier entries |
| `Camps` | neutral camps: missed spawns, stacks, who cleared them |
| `Roles` | lanes of a side's players and their positions |
| `GameClock` | ticks, pauses and the dead times measured on two clocks |
| `ParserParts` | the eight passes, one at a time (composition) |
| `MC...` | instances for TLC |
| `ReplayMetaProofs`, `VaultStoreProofs`, `ReparseRunProofs`, `ParseServerProofs`, `MaintenanceProofs`, `ParserProofs`, `EventsProofs` | theorems and proofs (section 4) |
| `FoldRule` | the proof rule for the loops of the parser's passes (section 4) |

### ReplayMeta and VaultOps

`Meta` is a record; the code's sorted unique lists are sets, the dates and
container (always set together, when bytes are stored) are one field `stamp`
naming the bytes they were set for, which lets `MetaOfTheBytes` say that they
still belong to the bytes beside them. `Stored` is what a record is after
`ToS3` and `MetaFromS3`: unprotected kinds leave `Also`, and a parser version
survives only with a set bad flag and legal characters.

Calls are on one match id: no vault call touches two replays.

### VaultStore

Each client (`Clients`: a server request, a worker, maintain, `vaultctl`) is at
one request of one call. `Find`/`CopyReplaceIfMatch`/`Refused` are
`MutateMeta`; `PutIfNoneMatch`, `PutFind`, `PutOver` are `PutNew`, which goes on
in `Find` when it merges; `LookAgain` and `Delete` are the deletes of retention,
the prefetch purge and purge-student, which differ only in `Removable`. A write
may take effect and be answered with success, with an error, or (after the
client's own repetition) with "refused". `RequestFails` is an error without
effect.

`CopyAside`, `CopyBack` and `DropTmp` are the temporary-key path of
`S3Store.CopyReplaceIfMatch`, taken after an unexpected error of the first copy.
`VaultFallback` adds them, and the object at that key, to `VaultStore`. The comment on
that path says that a write between its copies is lost, so the safety runs and
theorems are about `VaultStore` (an endpoint on which the copy onto the same key works,
what `vaultctl probe` finds out), and termination is checked on `VaultFallback`.

The store is external. It is assumed to give a new ETag to every write,
metadata-only copies included; `ETagsIdentify` is where the proofs need it.
Tags are numbers, reused once no client remembers them.

### ReparseRun

`place`, `bad`, `done`, `fails` are the store's view of each replay (`PutNew` takes any
free key, so a replay that retention removed may be stored again; `back` is a history of
the planned replays to which that happened, `changes` counts the removals and the stores
by requests); `plan`,
`first`, `claims`, `grace`, `marker` are the objects of the run; `pl` is the
planner's call and `wpc`, `shard`, `known`, `todo`, `scan`, `task`, `count` the
local state of each worker, whose pool works on up to `Parallel` replays at
once. `known` is the done set the worker read, so decisions on it are as stale
as in the code. A fault is a machine's death, a failed request, or one whose
effect is not known to its caller.

A call's own limit on machines (`MachinesFor`'s override) is left out: it is a call
under a smaller `MaxMachines`.

There is one planner call at a time. `StartLock` is about whether the lock
ensures that; it does not always (section 3). What two overlapping attempts do
to each other is not modelled.

A replay `served` was stored by a request after the run began: the server
parsed and delivered it itself, which is what `parsedOnStore` decides in the
resume.

### StartLock

The lock object is its age; `owner` is a ghost that says whose it is. `Read`
and `Clear` are separate requests, as in the code.

### ParseServer

Everything that happens to one match while the vault is on. Each server process
has its own slots (`sem`) and in-flight map; a match needs one bit of the latter.
A request of `/parse-valve` goes through `Arrive`, `ReserveSlot`, `Find`,
`OpenAndParse` (`serveFromVault`), its verdict (`MarkCorrupt`, `MarkBad`,
`ClearBad`), `Download`, `Flag` and the requests of `PutNew`; `Answer` is every
return, with the handler's deferred releases. Uploads (`/parse`, `/parse-url`)
take a slot and store nothing. A backfill item (`Fetcher.Store`) and a re-parse
worker's replay use the same store without slot or in-flight entry. `Crash`
stops a server with all its requests.

Bytes are members of `Bodies`, and `Quality` says what they are: a demo the
parser accepts, one it rejects, something that is not a demo, a stream that does
not decode. The bad flag keeps only what `BadFor` tells apart: unset, set by an
older version, set by this one. Metadata rewrites are one step here, which
`VaultStore`'s refinement of `AtomicVault` allows; the requests of `PutNew` are
separate steps, its put may be repeated after a lost answer, and each may fail.
Claims are left to `VaultStore`. Hints, counters and the wording of answers are
left out. A server without a vault is not modelled: its `/parse-valve` is an
upload as far as slots go.

### Shelf, Retention, VaultCtl, Maintenance

`vault` has what is stored under each id. A metadata change is one atomic step
(`VaultStore` implements that); a look and a later delete or overwrite are two.
`Request` is any server's put, merge or mark, between any two steps of a job.

A retention pass is the record `sweep`: the purge list and its looks and deletes,
the patch list, the listing with parallel HEADs, the pins (without which no pro
game is touched), the start times from done markers for replays without a patch,
`DateOne` in the order of ids (the date that was worked out is also written to
the replay), the guard, then a look and a delete per candidate. What it decides
rests on the HEADs; only the last look is fresh. `Abort` is every error that
returns early and a machine that stops. Dates are small numbers; `Played` is
the game's true date, which the parser wrote into the markers.

`purge-student` lists, then deletes games nobody else wanted (after a second
look) or detaches the student from the others by a conditional rewrite.
`upload` runs a goroutine per manifest row, `Conc` at a time; a file is
identified by its bytes, so its hash is the body itself. The bodies that decode
are `Demos`.

### SkillBuild

The parser's state of one hero is the record `ps`; `AppendSkillUp`,
`RecordSkillUp`, `MatchSkills`, `SkillSpent`, `ObserveHeroAbility` and
`ObserveAbilityLevel` are the functions of those names (whether `AbilityEntities` has
the entity's level from before is left to the levels these compare), from `ps` to its next
value. The actions are the callbacks: `ScanHero` (all slots in order, then the
count of points), `AbilityUpdate`, and the flush at the `End`. Around them is a
replay that records in `chosen` what the player upgraded: `SpendPoint` raises the
hero's count, the ability and its hidden twin in one packet or one side up to
`Lag` later; `Grant` raises an ability nobody paid for; `TakeTalent`, `Recreate`.
As in manta, a packet changes all its entities before any callback, and callbacks
of one packet come in any order (`dirty`).

Times are ticks; `Window` and `Settle` are skillMatchWindow and skillSettle
scaled down. What level the hero's level allows an ability is the constant `Cap`.
Whether an ability is hidden does not change, the hero's level in an entry and the
generic abilities are left out, and a stolen ability is a `Recreate`.

### HeroDeaths, Purchases, Wards, Smokes, Camps, Roles, GameClock

Each is a replay that keeps the truth, the pieces it still has to tell, and the
parser's record of it; the operators named after the code's functions take that
record to its next value, and the passes that run when the replay ends are
operators of the last action. Inputs are what a replay can tell: truth moves, then
its pieces are told in any order the file allows.

* `HeroDeaths`: a Meepo's clones die in his tick with him as their killer, before
  or after his own entry; the assist counter rises in the tick or the next.
  `Credited` pairs rises with deaths, first those whose log lists the player. Replays
  without the counter (`ValveAssistsSeen` false) keep the log's events and are left out.
* `Purchases`: an item of the strategy phase has no entry and shows in the first
  inventory only; later ones have an entry, before or after that inventory and
  before or after the hero is known. One hero; stacks of one slot are left out.
* `Wards`: stamps before the horn are parked far below any game time
  (`preHornEpoch`) and moved by `RebasePreHorn`; a killed ward's entity is deleted
  6 to 8 seconds after its entry. A ward expires far from any kill of its kind, as was
  measured (main.go:2079): the code cannot tell the two apart otherwise.
* `Smokes`: an entry joins its side's latest cluster; a hero's route ends with his
  own removal entry or the cap. The doc comment of `detectSmokeEvents` still names
  an older rule (four heroes, 1.5 s); the model follows the code (two heroes, 4 s).
* `Camps`: creeps wait in their camp and wake at the mark, or do not because the
  box is occupied. A mark's packet tells wake-ups, updates and counter rises in any
  order; deaths reach the parser by log entry, life state and deletion. Creep
  species, tiers, river camps, wards as blockers and another camp's creeps in a box are
  left out, and so is which of several units is named for a blocked camp.
* `Roles`: a player's samples are abstracted to the zone of their mean and of
  their fifths; the reconciliation with partners is in place, in player order.
* `GameClock`: net ticks against game time, the pause flag up to `SeenLate` late,
  Valve's own pause ticks carried or not (`valve`), the offset between the
  entities' clock and the log's. Within a packet the decoder hands out log entries
  before entities, so an entry is measured on the previous packet's tick and the
  entities run a packet ahead of the log; `DeadTimesAreReal` is to within that
  packet. Rounding to tenths is left out.

## 3. Runs

`vault_clients` (`MCVaultClients`) runs `ParseServer`, `VaultFallback` and `StartLock` one
at a time, each with its own fairness, as `ParserParts` does with the parser's passes;
`VaultCalls` has the calls of the vault's two runs.

| run | checks | result |
|---|---|---|
| `vault_store` | `TypeOK`, `MetaOfTheBytes`, `ClaimsKept`, `ImplementsAtomicVault` | two clients, eight calls, two bodies: pass |
| `vault_clients` | server: `TypeOK`, `SlotsAccounted`, `OnlyDemosStored`, `ServerFrees`; vault: `CallsEnd`; lock: `LockGoes` | one server with two slots, two requests, two uploads, a backfill, a worker; two clients, four calls, with the temporary-key path; three callers of the planner, two faults: pass |
| `reparse_run` | `TypeOK`, `SharedOnce`, `OneDispatcher`, `LastOneDispatches`, `RefreshAfterAll` | three shards, a limit of two machines, a replay the parser rejects, no faults and no changes: pass |
| `reparse_ends` | `RefreshAfterAll`, `NothingForgotten`, `RunEnds` | one worker at a time, one fault and one change anywhere, a replay stored during the run or again after retention removed it, refreshes asked for again: pass |
| `reparse_refresh` | `RunIsRefreshed` | violated: a marker without a dispatch stays for ever |
| `start_lock_mutex` | `OneAtATime` | violated: a caller clears a lock that was created after it found the last one released |
| `parse_corrupt` | `CorruptMeansBroken` | violated: of two servers that read the same broken replay, the slower marks the good bytes corrupt |
| `maintenance` | `TypeOK`, `SweepBounded`, `SweepSpares`, `OthersKeep`, `OnlyDemos` | two games at the boundary of a patch, a retention pass, a purge, an upload of a demo and of junk, one request in between: pass |
| `retention_ladder` | `OnlyCoachAndPro` | violated: a pro game that is also a ladder game is removed |
| `parser_parts` | skills: `PaidOnce`, `BuildIsWhatWasChosen`; deaths: `DeathsListedOnce`, `AssistsAddUp`, `TeamfightsAreStretches`; `BoughtOnce`; wards: `WardsEndAsTheyDid`, `BountiesPaidOnce`; smokes: `SmokesAreStretches`, `RoutesEndWithTheSmoke`; camps: `BansAreMissedSpawns`, `StacksOnTheirCamps`, `ClearedOnce`; roles: `PositionsPermute`, `LaneStoodIsReported`; clock: `ClockFollowsTheGame`, `DeadTimesAreReal` | pass |
| `wards_kills` | `AllKillsFlagged` | violated: of three wards killed within three seconds, one passes for expired |
| `camps_stacks` | `OneStackPerCamp` | violated: of two players' stacks, both are put on the camp that both are near |

**Bounds.** In `VaultStore`, two clients are enough for every pair of calls to
interleave at every request, and `MaxTries` = 2 for a retry and for giving up;
the proofs lift both. `ETags` must outnumber what clients can remember. In
`ReparseRun`, three replays in three shards on two workers (`reparse_run`) give
own shards, an orphan and two sharers that compete for it; `reparse_ends` trades
the second worker for a fault, a change and the daily pass. `MaxChanges` bounds
the replays that retention removes and requests store during a run (backfills store
without bound); it is 0 in `reparse_run`, because three replays that also come and go
are too many states: there `reparse_ends` and, for any number of changes,
`RefreshComesLast` and `LastOutDispatches` stand for it; `MaxFaults` the
faults, `MaxFailures` is the code's limit of counted failures made small. In
`StartLock`, `TTL` is in ticks. In `ParseServer`, one body of each quality, two
requests and two uploads for two slots make every verdict meet every other and
every slot contested; `parse_corrupt` has two servers, and the theorems any
number.

In `Maintenance`, two games, one played the day before a patch and one on its
day, and a `MaxPercent` of 50 put the guard at its boundary; one pass of each
job and one request (`MaxCalls`, `MaxPasses`, `MaxPurges`) let the request fall
between any two steps of any of them.

In the parser's parts, times are ticks and every window of the code is scaled to
one to four of them, so that events just inside and just outside it occur:
`Window`, `Settle` (skills), `FightGap`, `Lag` (deaths), `SmokeGap`, `RemoveCap`,
`SpanBefore`, `SpanAfter`, `SeenLate` (clock), `Minute` (a spawn mark every third
tick); the ward windows, which lie close to each other, are in real seconds. Three
upgrades with `UpgradeGap` > `Window` + `PointLag` (the spacing under which the
pairing of skill points is right) meet every rise that can compete with them.
`DeathsBound` = 3 of six kinds of deaths give two rises that compete for two
deaths, clones, and fights that touch; `Wards` runs two plans (`WardPlans`): two wards that share
a kind, a slot or a killer, and three of one kind whose kills compete for three
deletions, with every decay that was measured (6 to 8 seconds); three smoke entries of three heroes make overlapping smokes of both sides
and of one; `Camps` runs three scenarios (`Scenarios`: blocked boxes at one mark;
two kills after one mark; one kill and two marks), because all at once is too
large, on the map on which a greedy choice may go wrong (one player near both camps,
and nearer to the only one the other is near); five seats of ten kinds make every draw of lanes and scores that
`assignPositions` sorts; two pauses or deaths around a horn at tick two put each
of them before, at and after it.

**Fairness.** `VaultFallback`: a client in a call goes on (requests time out).
`ReparseRun`: the planner's call, live workers and dispatchers go on, three
minutes pass, and maintain calls `Reparse` every day (the scheduled machine of
`EnsureMaintain`); nothing is assumed of POST requests, deliveries or
faults, except that faults are not endless (`MaxFaults`). `StartLock`: time
passes, calls go on, and somebody calls again. `ParseServer`: everything under
way goes on except a posted body: downloads have `downloadClient`'s timeout,
answers `responseWriteTimeout`, stores ten minutes, and the parser is a program
that ends, but `ListenAndServe` sets no read deadline, so a caller of `/parse`
may take for ever. `ServerFrees` says that nothing else can keep a server full.

**Deadlock** is checked in every run but those of `Maintenance` (the jobs and the
bounded requests end) and `ParserParts` (a replay ends).

**What the violations mean.** `start_lock_mutex` needs no stale lock and no fault: a
caller is told that the lock exists, its holder releases it, the caller reads, finds
nothing and deletes the key all the same ("stale, or released between the two calls",
plan.go:535); a lock that another call has created between that read and the delete
goes with it, and both calls are past the lock.
`reparse_refresh` needs one failure: the `redispatch` option of
`POST /vault/reparse` repairs it, the daily pass does not.
`parse_corrupt` needs two machines, or a backfill beside a server: the in-flight
map is per process, and `OneServerVerdicts` proves that with one process it is
enough. The good replay is then ignored and fetched from Valve again, which
works only as long as Valve still has it.
`retention_ladder` needs no race: a game stored as a pro game and then wanted as a
ladder game keeps the kind `pro` with `ladder` beside it, and the sweep reads the
kind alone, at its listing and at its second look.
`wards_kills` needs three wards of one kind killed within three seconds, as when a team
clears a high ground, and corpses at the long end of what was measured: the first to go
takes the second's kill, which is nearer to 7.2 seconds, the second takes the third's,
and the first kill is ten seconds old, out of the window, when the third goes.
`camps_stacks` needs two stackers at one mark whose reaches differ: the rises are
placed one by one, and the first may take the only camp within the second's reach. The
second then falls back on its nearest camp although that has its stack, and the other
camp, which was stacked, has none.
`OneDispatcher` is for runs without the `redispatch` option: it deletes the marker
even while another caller is past it.

**What the properties leave open.** `ClaimsKept` excepts the replacement of a
corrupt object, which writes metadata merged before the put without a condition:
a claim merged in between is lost. `SweepSpares` is about the last look; a claim
made between it and the delete goes with the replay. Two skill points within three
seconds, the first on an ability with a hidden twin: the second may be credited to
the twin, whose rise is still pending while its own has not settled. A unit that a
neutral creep summons counts as a spawn (`BansAreMissedSpawns` leaves such marks
out). A death within eight seconds of one before the horn may give its dead time to
that one. Without Valve's pause ticks, a life-state change seen before the first
log entry after a pause is off by the flag's delay. `WardsEndAsTheyDid` lets a
killed ward go unflagged when two others of its kind were killed in the three seconds
before, and `StacksOnTheirCamps` lets a rise go to a camp that has its stack when every
stacked camp in its reach has one (`wards_kills`, `camps_stacks`).

`RefreshAfterAll` and `LastOneDispatches` except planned replays that were gone and came
back. The worker counts a replay that is not stored as one that never will be ("gone
(retention removed it after the plan was made, so it never will)", worker.go:169-170),
but a backfill may store it again: after the HEAD it is open when the refresh comes, and
stored again after the pool found it gone it is counted as left, so that the last worker
leaves without a dispatch. The daily pass then settles and dispatches it
(`NothingForgotten`, `RunEnds` hold with these replays).

## 4. Proofs

* `ReplayMetaProofs`: `Merge` keeps every protected kind of either side
  (`MergeKeepsClaims`), is idempotent (`MergeIdempotent`) and never lowers the
  class (`MergeClass`), for every set of accounts, versions, patches and bodies.
* `VaultStoreProofs`, for any number of clients, calls and attempts, and no
  temporary-key fallback: type correctness, `MetaOfTheBytes`, `ClaimsKept` and
  the refinement of `AtomicVault`. `MetaOfTheBytes` is not inductive: a
  conditional copy writes metadata computed from an old HEAD. The invariant
  `IInv` adds that a request fits its call, that an object with the ETag a client
  has seen *is* the object it has seen (`ETagsIdentify`), and that stored
  metadata survives rewriting (`MetaIsStored`). The refinement maps the object
  without its ETag, and the look of a replacement or a delete to `base`.
* `ReparseRunProofs`, for any number of workers, replays, shards, machines and
  faults:
  - type correctness (`TypeCorrect`). The bound on the failure counts is not
    inductive alone: `BumpFailure` reads in one request and writes in another, and
    a worker that shares the orphans may bump next to the shard's late owner.
    `BumpsPaid` counts the bumps under way with what was written: together they
    never exceed the faults there were;
  - `SharedOnce` (`TakenByOne`). `ShareInv` adds that what a worker feeds from its
    own claim is of its shard, so a replay of another shard is in hand only under
    an item claim, and that no worker is alive while a plan is being written;
  - `OneDispatcher` (`DispatchedByOne`), as long as nobody asks for another
    dispatch;
  - the end of a run: `RefreshAfterAll` (`RefreshComesLast`), which every crash, retry,
    removal, store and stale done set leaves true. `RefreshInv`: what a worker knows is
    marked, or was seen gone and is gone or came back since; a flag on this version is
    only on a replay the parser rejects; and whoever is in `Dispatch` has seen the whole
    plan settled, which only a replay that comes back undoes while no plan is written;
  - `LastOneDispatches` (`LastOutDispatches`), for runs without faults,
    without redispatch and without a planned replay that came back. `LastInv`: a claim on an open replay or its shard stands for a
    worker that has it in hand or will take it (`ClaimsStand`), every worker has
    seen to the shards it is past (`ShardSeen`), and some worker alive has yet to
    count what is left or has counted nothing (`WillDispatch`).
* `MaintenanceProofs`, for any vault, requests, bounds and files: `TypeOK`,
  `SweepBounded` (`PassesAreBounded`), `SweepSpares` (`PassesSpare`), `OnlyDemos`
  (`VaultHoldsDemos`) and the action property `OthersKeep` (`PurgeKeepsOthers`).
  One inductive invariant carries them: everything stored is a demo whose
  metadata is of the bytes beside it (`VaultInv`); what a pass or a command has in
  hand is what it saw (`SweepInv`, `CtlInv`). For the guard (`SweepBudget`), what was
  deleted, is about to be and may yet be never come to more than the guard saw,
  and never more are purged than were named. For purge-student, a rewrite takes the
  account out of the record as it stands then, not as it was listed, which keeps
  every claim the account alone did not make (`DetachKeeps`).
* `FoldRule`: the loops of the parser's passes are folds over sequences (`FoldLeft`),
  and what a fold computes needs induction over its elements, which no prover here
  does for an operator given as a parameter. The rule goes round that: the step `Op`
  and the loop's invariant `Good` are CONSTANTS of the module, its induction is over
  the steps as numbers in a set (`UpTo`, from the well-foundedness of the numbers),
  and `Runs` shows that the recursive function behind a fold exists. Each loop is then
  an INSTANCE with its own step and invariant, and cites `FoldHolds`: what holds
  before the loop and survives each of its steps holds after it.
* `ParserProofs`, five passes:
  - `ClockFollowsTheGame` (`ClockIsTheGames`), for any pauses, any length of the replay
    and any delay of the flags. `ClockInv` relates the clocks at every point of a
    packet: how long the game has stood (`Lasted`), what of that the parser can know
    (`Untold`, `Closed`), that a resumption not yet told is the last pause of the
    game's list, and that the entities of a packet come after its rules. The pauses
    listed before the horn are parked, and move onto the game's axis with it;
  - `BoughtOnce` (`EveryPurchaseIsListedOnce`), for any items and number of purchases.
    `ShopInv` keeps two accounts, because the code does: before the first inventory
    every item bought is listed, waits for the hero's mapping or has its entry to come;
    after it what the inventory holds beyond the entries read has been added once, and
    an entry for a purchase so added has yet to cancel it;
  - `LaneStoodIsReported` (`LanesStoodAreReported`), for any team, samples and partners:
    the reconciliation changes lanes in place while it goes over the players, and its
    loop's invariant says of each lane that it is the one the samples gave, or that
    its player has a partner and his own samples do not confirm it (`Moved`), whatever
    the partners' lanes are by then;
  - `PositionsPermute` (`PositionsArePermuted`), for any five lanes, last hits and
    wards. The proof names the five (`Drawn`: the three cores, the lone mid first, and
    the two supports) and goes through the cases of lanes that get their own slots and
    of those that take what is left, by last hits;
  - `PaidOnce` (`EveryPointPaysOnce`), for any hero and any order of callbacks.
    `Account` says that the points listed and the credits kept for a later rise are
    together no more than the points seen spent, in the middle of every loop over
    slots, credits and pending rises.
* `EventsProofs`, for any players, any number of events and any order of the log:
  - `DeathsListedOnce` (`DeathsListed`). `DeathsInv` says of every player, in the
    middle of a tick, that his list is in the order of time, that each event is a
    death of his with its killer, or with himself in the killer's place while the entry
    that names the killer is unread (`Unread`), that a death without an event waits and
    its gold is pending, and that his laning deaths and kills count exactly what was
    read;
  - `TeamfightsAreStretches` (`FightsAreTheStretches`). The loop over all deaths sorted
    by time keeps `FightGood`: the runs so far are stretches of what was read, have all
    of it, and are further apart than the window. From `DeathsInv` the list is the
    deaths (`ListsTell`), and once the replay is over nothing is owed to it (`DoneInv`);
  - `AssistsAddUp` (`AssistsAreTheScoreboards`). Both loops of `Credited`, over the
    pairs the log lists and over the rises that are left, keep a `Matching`: no death
    and no rise is used twice; and a pair with nothing else near it (`Only`) is in it.
    `RiseInv` says that the rises told are those of deaths the player helped with, each
    within a tick of its own;
  - `SmokesAreStretches` (`SmokesShownAreStretches`) and `RoutesEndWithTheSmoke`
    (`RoutesEnd`). The loop over the uses of both sides keeps `ClusterGood`: a side's
    clusters are stretches of its uses though the other side's stand between them;
    `SmokeInv` links each removal read to the smoke that left its hero.
* `ParseServerProofs`, for any number of servers, slots, requests and bodies:
  `SlotsAccounted` (`SlotsNeverLeak`), type correctness (no server has more
  parses than slots), `OnlyDemosStored` (`JunkStaysOut`). The invariant
  `ServerInv` adds who can be where (`KindFits`) and that what is about to be
  stored is a demo (`KeepsDemos`). `OneServerVerdicts` needs `VerdictInv`: while
  a request holds a verdict against the stored bytes and has not begun to store,
  those bytes are still the broken ones, because no other request is at work.

Assumptions are the named ASSUMEs of the modules that declare the constants: their
types, `None` not a value of any kind, the planner not one of the workers and
finitely many of these, and a horn that comes before the parked stamps begin
(game times are within ten thousand seconds, the parking is a million away,
main.go:1931). Of the replay they say that a hero's ability slots come in a fixed
order without repetition (`SlotOrder`), that an assist is counted for a hero of the
other side (main.go:1464: each rise is put on an enemy death), and that a side has
five players: `assignPositions` ranks any other side by last hits. Two theorems need
more and say so: nobody asks for a redispatch (`TRUE \notin Options`) in `DispatchedByOne` and `LastOutDispatches`, and a run has
workers in the latter; `OneServerVerdicts` is for one server without backfill.

Only model-checked:

* liveness (`CallsEnd`, `RunEnds`, `ServerFrees`, `LockGoes`, ...): the prover has no
  ENABLED;
* `BuildIsWhatWasChosen`: right only if upgrades are further apart than the pairing's
  window, so that a proof would have to follow, for each upgrade, which of the rises
  and points in flight are its own through all orders of three callbacks; `PaidOnce`
  is the half that holds without that;
* `WardsEndAsTheyDid`: that a third kill is needed for one to go unflagged is
  arithmetic over all orders of three deletions and their windows;
* `StacksOnTheirCamps`: a matching of rises and camps built one by one, on top of what
  the parser knows of each creep's life at the mark;
* `BountiesPaidOnce`: bounties take kills one after the other, each the best one left,
  and that every later bounty still finds one needs a counting argument over both
  lists (as many kills left as bounties that fit them, for every hero and kind);
* `BansAreMissedSpawns`: what the parser takes for a missed spawn depends on how many
  wake-ups, updates and counter rises of one mark have been told, in any order; no
  inductive account of that was worked out;
* `ClearedOnce` and `DeadTimesAreReal`: sums over sets of events (`MapThenSumSet`) equal
  or bound each other only when all is told. `FoldRule` is for folds over sequences.

## 5. Not modelled, and the plan

Not modelled:

* the vendored replay decoder, item tables, input opening, release scripts, report
  formatting, the in-memory test store, container sniffing;
* `EnsureMaintain`, the status page and `vaultctl`'s status and probe (they change
  no replay);
* `audit`: a comparison of two finished parses, without state or order;
* of the parser: pulls, camp blocks by single heroes, stun combos, high-ground
  episodes, lane waves and lane kills, the outcome counts of smokes, the wide
  export, and the many counters that a single entry or entity value sets. Pulls,
  camp blocks and high ground are geometry over position samples with thresholds
  measured on real replays; a model would restate the thresholds.

Next, in this order:

1. Proofs: the half of `WardsEndAsTheyDid` that is free of the match (times and
   lifetimes around the horn, no standing or expired ward flagged), once the bounties
   at the end of the replay are a value of their own; `DeadTimesAreReal` on top of
   `ClockInv`.
2. Two overlapping attempts of a run, which the start lock does not exclude.
3. Pulls and stun combos, should their rules settle.
