-------------------------------- MODULE Camps --------------------------------
(***************************************************************************)
(* Neutral camps: bans, stacks and who cleared them (main.go:              *)
(* trackSpawnNeutral, snapUnits, detectSpawnBlocks, detectStacks,          *)
(* campKills, stackOutcomes).                                              *)
(*                                                                         *)
(* A camp's next creeps wait at the spawner and wake at a minute mark when *)
(* its box is free.  Creeps pulled out of it by then make a stack, which   *)
(* the replay tells only as a rise of the stacker's counter.  A creep's    *)
(* death is told by the combat log, with the killer, and a little later by *)
(* the entity, with the camp; nothing joins the two.                       *)
(*                                                                         *)
(* A tick is the lag between those two.  Distances are small numbers;      *)
(* species, and with them tiers and the river's camps, and wards as        *)
(* blockers are left out.                                                  *)
(***************************************************************************)
EXTENDS Timeline

CONSTANTS Grounds,     \* camps, as numbers
          Farmers,     \* players, as numbers
          Ents,        \* entity indexes, used again once free
          Far,         \* Far[p][c]: how far player p's hero is from camp c
          Minute,      \* ticks from mark to mark
          CorpseLag,   \* neutralCorpseLag
          Bounty,      \* gold of a creep
          Scenarios    \* what may stand in a box, whether creeps may be summoned or tamed, the camps
                       \* with creeps to come, and bounds on those, on those that end and on the ticks

ASSUME CampsAssumption ==
  /\ Grounds \subseteq Ents /\ Farmers \subseteq Nat /\ Ents \subseteq Nat \ {0}
  /\ \A p \in Farmers, c \in Grounds : Far[p][c] \in Nat
  /\ Minute \in Nat \ {0, 1, 2} /\ CorpseLag \in Nat /\ Bounty \in Nat
  /\ \A s \in Scenarios : /\ "none" \in s.boxes /\ s.boxes \subseteq {"none", "near", "hero", "lane"}
                          /\ s.odd \in BOOLEAN /\ s.at \subseteq Grounds /\ s.creeps \in Nat /\ s.ends \in Nat /\ s.ticks \in Nat

VARIABLES wild,  \* the creeps as they are, and what of them is still to be told
          jung   \* the parser's record

SpawnBox == 3      \* cells
SpawnReach == 6
Away == 99

IsMark(t) == t > 0 /\ t % Minute = 0

Around(t) == (t - 1)..(t + 1)  \* when creeps that wake with mark t may be seen to

(***************************************************************************)
(* The parser                                                              *)
(***************************************************************************)
NewJungle ==
  [lives   |-> <<>>,                       \* SpawnLives
   neut    |-> [e \in Ents |-> 0],         \* SpawnNeutCamp: a life, 0 for none, -1 for no creep of a camp
   wakes   |-> [c \in Grounds |-> {}],     \* SpawnWakes
   lastMin |-> 0,                          \* SpawnLastMin
   snaps   |-> <<>>,                       \* SpawnSnaps
   deaths  |-> <<>>,                       \* NeutDeaths
   gold    |-> <<>>,                       \* NeutGold
   incrs   |-> <<>>,                       \* StackIncrs
   bans    |-> {}, stacks |-> <<>>, kills |-> <<>>]  \* output

TrackSpawnNeutral(j, e, x, now) ==
  LET li   == j.neut[e]
      life == [camp |-> x.camp, waiting |-> x.st = "waiting", summoned |-> x.summoned,
               woke |-> IF x.st = "waiting" THEN 0 ELSE now, killed |-> 0, died |-> 0]
      awake(l) == l.waiting /\ x.st # "waiting"
      seen == [j EXCEPT !.lives[li].killed = IF @ = 0 /\ ~j.lives[li].waiting /\ x.st = "dead" THEN now ELSE @,
                        !.lives[li].woke = IF awake(j.lives[li]) THEN now ELSE @,
                        !.lives[li].waiting = x.st = "waiting",
                        !.wakes[x.camp] = IF awake(j.lives[li]) THEN @ \cup {now} ELSE @]
  IN  CASE li = 0 /\ x.st = "tamed" -> j
        [] li = 0 /\ x.st # "tamed" ->
             [j EXCEPT !.lives = Append(@, life), !.neut[e] = Len(j.lives) + 1,
                       !.wakes[x.camp] = IF x.st = "waiting" THEN @ ELSE @ \cup {now}]
        [] li > 0 /\ x.st = "tamed" ->
             [seen EXCEPT !.neut[e] = -1, !.lives[li].died = IF @ = 0 THEN now ELSE @]
        [] li > 0 /\ x.st # "tamed" -> seen
        [] OTHER -> j

CreepDeleted(j, e, now) ==
  LET li == j.neut[e]
      gone == [j EXCEPT !.neut[e] = 0]
  IN  IF li > 0 THEN [gone EXCEPT !.lives[li].died = IF @ = 0 THEN now - CorpseLag ELSE @] ELSE gone

\* snapUnits at the first update of an entity after a mark: for each camp, whether
\* creeps wait, and how near its own, other creeps and a player's unit are.  Of other
\* creeps only lane creeps stand in a box, never another camp's, and which of several
\* units is the nearest is left out.
SnapUnits(j, w) ==
  LET mine(c, alive) == {e \in Ents : /\ j.neut[e] > 0 /\ j.lives[j.neut[e]].camp = c
                                      /\ IF alive THEN w.ents[e].st \in {"awake", "dying"} ELSE w.ents[e].st = "waiting"}
      shot(c) == [pending |-> mine(c, FALSE) # {},
                  own   |-> IF mine(c, TRUE) # {} /\ c \notin w.pulled THEN 2 ELSE Away,
                  other |-> IF w.box[c] = "lane" THEN 2 ELSE Away,
                  unit  |-> CASE w.box[c] = "hero" -> 2 [] w.box[c] = "near" -> 5 [] OTHER -> Away]
  IN  IF w.tick < (j.lastMin + 1) * Minute THEN j
      ELSE [j EXCEPT !.lastMin = w.tick \div Minute,
                     !.snaps = Append(@, [time |-> (w.tick \div Minute) * Minute, at |-> [c \in Grounds |-> shot(c)]])]

\* Mutant of Woke: creeps that wake after the snapshot are not looked for.
Woke_Never(j, c, t) == FALSE

Woke(j, c, t) == j.wakes[c] \cap Around(t) # {}

\* detectSpawnBlocks: player is whether one of his units is named
DetectSpawnBlocks(j) ==
  LET blocked(s, c) == s.at[c].pending /\ ~Woke(j, c, s.time) /\ s.at[c].own > SpawnBox
      named(s, c)   == /\ s.at[c].unit <= SpawnReach /\ s.at[c].other > SpawnBox
                       /\ s.at[c].unit < s.at[c].own /\ s.at[c].unit < s.at[c].other
  IN  UNION {{[time |-> s.time, camp |-> c, player |-> named(s, c)] : c \in {g \in Grounds : blocked(s, g)}}
             : s \in ToSet(j.snaps)}

End(l) == IF l.killed # 0 THEN l.killed ELSE l.died

\* It spawned at t while a creep it had spawned before was alive.
CampStackedAt(j, c, t) ==
  LET mine == {l \in ToSet(j.lives) : l.camp = c /\ l.woke # 0 /\ ~l.summoned}
  IN  /\ \E l \in mine : l.woke \in Around(t)
      /\ \E l \in mine : l.woke < t - 1 /\ (End(l) = 0 \/ End(l) > t)

\* Mutant of StackedNear: a camp may be given twice at a mark.
StackedNear_Again(j, p, t, skip) ==
  {c \in Grounds : /\ CampStackedAt(j, c, t) /\ Far[p][c] <= 25
                   /\ \A d \in Grounds : CampStackedAt(j, d, t) => Far[p][c] < Far[p][d] \/ (Far[p][c] = Far[p][d] /\ c >= d)}

\* The nearest such camp, the later of two, that has no stack yet
StackedNear(j, p, t, skip) ==
  LET fit == {c \in Grounds \ skip : CampStackedAt(j, c, t) /\ Far[p][c] <= 25}
  IN  {c \in fit : \A d \in fit : Far[p][c] < Far[p][d] \/ (Far[p][c] = Far[p][d] /\ c >= d)}

\* detectStacks: a rise goes to the stacked camp near the player, or else to the
\* nearest camp.
DetectStacks(j) ==
  LET nearest(p) == {c \in Grounds : /\ Far[p][c] <= 25
                                     /\ \A d \in Grounds : Far[p][c] < Far[p][d] \/ (Far[p][c] = Far[p][d] /\ c <= d)}
      mark(t) == (t + Minute \div 2) \div Minute
      place(out, i) ==
        LET r     == j.incrs[i]
            taken == {s.camp : s \in {s \in ToSet(out) : mark(s.time) = mark(r.time)}}
            shown == StackedNear(j, r.player, r.time, taken)
        IN  IF nearest(r.player) = {} THEN out
            ELSE Append(out, [player |-> r.player, time |-> r.time,
                              camp |-> CHOOSE c \in IF shown = {} THEN nearest(r.player) ELSE shown : TRUE])
  IN  FoldLeft(place, <<>>, [i \in DOMAIN j.incrs |-> i])

\* campKills: the closest pairs of a creep's death and an entry of the log; -2 for
\* a creep with none.  The gold of a tick is shared by the killer's entries in it.
CampKills(j) ==
  LET score(x) == (IF j.deaths[x[2]].owner = -1 THEN 50 ELSE Far[j.deaths[x[2]].owner][j.lives[x[1]].camp])
                  + 3 * Gap(j.lives[x[1]].killed, j.deaths[x[2]].time)
      pairs == {x \in (DOMAIN j.lives) \X (DOMAIN j.deaths) :
                  /\ j.lives[x[1]].killed > 0 /\ ~j.lives[x[1]].summoned
                  /\ j.deaths[x[2]].time \in (j.lives[x[1]].killed - 1)..j.lives[x[1]].killed}
      before(x, y) == \/ score(x) < score(y)
                      \/ score(x) = score(y) /\ (x[1] < y[1] \/ (x[1] = y[1] /\ x[2] < y[2]))
      take(got, x) == IF \E y \in got : y[1] = x[1] \/ y[2] = x[2] THEN got ELSE got \cup {x}
      joined == FoldLeft(take, {}, Sorted(pairs, before))
      entry(i) == (CHOOSE x \in joined : x[1] = i)[2]
      ofTick(s, p, t) == {i \in DOMAIN s : s[i].owner = p /\ s[i].time = t}
      share(i) ==
        LET d == j.deaths[entry(i)]
            paid == MapThenSumSet(LAMBDA k : j.gold[k].gold, ofTick(j.gold, d.owner, d.time))
            n == Cardinality(ofTick(j.deaths, d.owner, d.time))
            first == \A k \in 1..(i - 1) : (\E x \in joined : x[1] = k) =>
                       j.deaths[entry(k)].owner # d.owner \/ j.deaths[entry(k)].time # d.time
        IN  paid \div n + (IF first THEN paid % n ELSE 0)
  IN  [i \in DOMAIN j.lives |->
         IF \E x \in joined : x[1] = i
         THEN [owner |-> j.deaths[entry(i)].owner, time |-> j.deaths[entry(i)].time,
               gold |-> IF j.deaths[entry(i)].owner < 0 THEN 0 ELSE share(i)]
         ELSE [owner |-> -2, time |-> 0, gold |-> 0]]

\* What a stack of camp c at t holds: its creeps that were up then
Holds(j, c, t) ==
  {i \in DOMAIN j.lives : LET l == j.lives[i] IN
     /\ l.camp = c /\ ~l.summoned /\ l.woke # 0 /\ l.woke <= t + 1
     /\ End(l) = 0 \/ End(l) > t}

\* The clearer of creeps: the most kills, the most gold, the first kill, the lowest
\* slot; nobody when units of no player killed more.
Clearer(kills, held) ==
  LET of(p)   == {i \in held : kills[i].owner = p}
      gold(p) == MapThenSumSet(LAMBDA i : kills[i].gold, of(p))
      first(p) == Min({kills[i].time : i \in of(p)})
      beats(p, q) == \/ Cardinality(of(p)) > Cardinality(of(q))
                     \/ Cardinality(of(p)) = Cardinality(of(q)) /\
                          \/ gold(p) > gold(q)
                          \/ gold(p) = gold(q) /\ (first(p) < first(q) \/ (first(p) = first(q) /\ p < q))
      best == {p \in Farmers : of(p) # {} /\ \A q \in Farmers \ {p} : of(q) # {} => beats(p, q)}
      p == CHOOSE p \in best : TRUE
  IN  IF best = {} \/ Cardinality(of(p)) < Cardinality(of(-1)) THEN [player |-> -1, creeps |-> 0, gold |-> 0]
      ELSE [player |-> p, creeps |-> Cardinality(of(p)), gold |-> gold(p)]

\* Mutant of StackOutcomes: a creep may be held by two stacks.
StackOutcomes_HeldTwice(j) ==
  [i \in DOMAIN j.stacks |->
     [stack |-> j.stacks[i], cleared |-> Clearer(j.kills, Holds(j, j.stacks[i].camp, j.stacks[i].time))]]

\* stackOutcomes: each creep is held by the earliest stack of its camp.
StackOutcomes(j) ==
  LET earlier(i) == {k \in DOMAIN j.stacks : /\ j.stacks[k].camp = j.stacks[i].camp
                                             /\ \/ j.stacks[k].time < j.stacks[i].time
                                                \/ j.stacks[k].time = j.stacks[i].time /\
                                                     (\/ j.stacks[k].player < j.stacks[i].player
                                                      \/ j.stacks[k].player = j.stacks[i].player /\ k < i)}
      all(i) == Holds(j, j.stacks[i].camp, j.stacks[i].time)
  IN  [i \in DOMAIN j.stacks |->
         [stack |-> j.stacks[i], cleared |-> Clearer(j.kills, all(i) \ UNION {all(k) : k \in earlier(i)})]]

(***************************************************************************)
(* The replay                                                              *)
(***************************************************************************)
Nothing == [camp |-> 0, st |-> "none", summoned |-> FALSE, since |-> 0]
First == [camp |-> 0, st |-> "awake", summoned |-> FALSE, since |-> 1]

\* Each camp has a creep, up since before the first mark.
CampsInit ==
  /\ \E s \in Scenarios :
     wild = [tick   |-> 2, plan |-> s,
             ents   |-> [e \in Ents |-> IF e \in Grounds THEN [First EXCEPT !.camp = e] ELSE Nothing],
                                                   \* none, waiting, awake, dying, dead, tamed
             made   |-> 0, ended |-> 0,
             dirty  |-> {},                        \* changed, and not yet told
             box    |-> [c \in Grounds |-> "none"], pulled |-> {}, waking |-> {},
             owed   |-> [p \in Farmers |-> 0],     \* rises of the counters to come
             raised |-> {},                        \* truth: camps and times of summoned units
             missed |-> {}, stacked |-> {},        \* truth: bans and stacks
             over   |-> FALSE]
  /\ jung = FoldSet(LAMBDA c, j : TrackSpawnNeutral(j, c, [First EXCEPT !.camp = c], 1), NewJungle, Grounds)

Free == {e \in Ents : wild.ents[e].st = "none"}
Of(c, states) == {e \in Ents : wild.ents[e].st \in states /\ wild.ents[e].camp = c}

\* The parser is called for an entity that became x.
Told(e, x) == TrackSpawnNeutral(SnapUnits(jung, wild), e, x, wild.tick)

\* The camp's next creep waits, which it may long before the mark, or one of its
\* creeps summons another.
Appear(c, st) ==
  LET e == Min(Free)
      x == [camp |-> c, st |-> st, summoned |-> st = "awake", since |-> wild.tick]
  IN  /\ ~wild.over /\ Free # {} /\ c \in wild.plan.at /\ wild.made < wild.plan.creeps /\ ~IsMark(wild.tick)
      /\ IF st = "waiting" THEN IsMark(wild.tick + 1) /\ Of(c, {"waiting"}) = {} ELSE wild.plan.odd /\ Of(c, {"awake"}) # {}
      /\ wild' = [wild EXCEPT !.ents[e] = x, !.made = @ + 1,
                              !.raised = IF st = "awake" THEN @ \cup {<<c, wild.tick>>} ELSE @]
      /\ jung' = Told(e, x)

\* A creep has woken up.
Update(e) ==
  /\ e \in wild.dirty
  /\ jung' = Told(e, wild.ents[e])
  /\ wild' = [wild EXCEPT !.dirty = @ \ {e}]

\* An entity that is no creep has changed.
OtherUpdate ==
  /\ ~wild.over /\ IsMark(wild.tick)
  /\ jung' = SnapUnits(jung, wild)
  /\ UNCHANGED wild

Wake(c) ==
  /\ c \in wild.waking
  /\ LET up == Of(c, {"waiting"})
     IN  wild' = [wild EXCEPT !.ents = [e \in Ents |-> IF e \in up THEN [@[e] EXCEPT !.st = "awake", !.since = wild.tick]
                                                       ELSE @[e]],
                              !.dirty = @ \cup up, !.waking = @ \ {c}]
  /\ UNCHANGED jung

CounterUp(p) ==
  /\ wild.owed[p] > 0
  /\ jung' = [jung EXCEPT !.incrs = @ \o [k \in 1..wild.owed[p] |-> [player |-> p, time |-> wild.tick]]]
  /\ wild' = [wild EXCEPT !.owed[p] = 0]

\* The log: a player's unit kills it and he is paid, or a unit of no player does.
KillCreep(e, p) ==
  /\ ~wild.over /\ ~IsMark(wild.tick) /\ wild.ents[e].st = "awake" /\ wild.ended < wild.plan.ends
  /\ jung' = [jung EXCEPT !.deaths = Append(@, [owner |-> p, time |-> wild.tick]),
                          !.gold = IF p = -1 THEN @ ELSE Append(@, [owner |-> p, time |-> wild.tick, gold |-> Bounty])]
  /\ wild' = [wild EXCEPT !.ents[e].st = "dying", !.ents[e].since = wild.tick, !.ended = @ + 1]

LifeEnds(e) ==
  /\ ~IsMark(wild.tick) /\ wild.ents[e].st = "dying"
  /\ wild' = [wild EXCEPT !.ents[e].st = "dead"]
  /\ jung' = Told(e, wild'.ents[e])

Tame(e) ==
  /\ ~wild.over /\ ~IsMark(wild.tick) /\ wild.ents[e].st = "awake" /\ wild.ended < wild.plan.ends /\ wild.plan.odd
  /\ wild' = [wild EXCEPT !.ents[e].st = "tamed", !.ended = @ + 1]
  /\ jung' = Told(e, wild'.ents[e])

DeleteCreep(e) ==
  /\ wild.ents[e].st = "dead" /\ wild.tick >= wild.ents[e].since + CorpseLag
  /\ jung' = CreepDeleted(jung, e, wild.tick)
  /\ wild' = [wild EXCEPT !.ents[e] = Nothing]

Settled ==
  /\ ~wild.over /\ wild.dirty = {} /\ wild.waking = {} /\ \A p \in Farmers : wild.owed[p] = 0
  /\ IsMark(wild.tick) => jung.lastMin = wild.tick \div Minute

CampTick ==
  /\ Settled /\ wild.tick < wild.plan.ticks /\ ~IsMark(wild.tick + 1)
  /\ \A e \in Ents : wild.ents[e].st = "dying" => wild.ents[e].since = wild.tick
  /\ wild' = [wild EXCEPT !.tick = @ + 1, !.box = [c \in Grounds |-> "none"], !.pulled = {}]
  /\ UNCHANGED jung

\* A mark: what stands in each box, which camps' creeps are pulled out of theirs,
\* and who pulled them.  A unit in reach may or may not be in the box.
MarkComes(box, pulled, stacker) ==
  LET up(c)   == Of(c, {"awake"}) # {}
      full(c) == up(c) /\ c \notin pulled
      ready   == {c \in Grounds : Of(c, {"waiting"}) # {} /\ ~full(c)}
  IN  /\ Settled /\ wild.tick < wild.plan.ticks /\ IsMark(wild.tick + 1)
      /\ \A e \in Ents : wild.ents[e].st # "dying"
      /\ \A c \in pulled : up(c)
      /\ \A c \in Grounds : c \notin ready => box[c] = "none"
      /\ \A c \in pulled : Far[stacker[c]][c] <= 25
      /\ \E blocked \in SUBSET {c \in ready : box[c] = "near"} :
           LET wakes == {c \in ready : box[c] = "none" \/ (box[c] = "near" /\ c \notin blocked)}
               camps == {c \in wakes : \E e \in Of(c, {"awake"}) : ~wild.ents[e].summoned /\ wild.ents[e].since < wild.tick}
           IN  wild' = [wild EXCEPT !.tick = @ + 1, !.box = box, !.pulled = pulled, !.waking = wakes,
                                    !.owed = [p \in Farmers |-> Cardinality({c \in camps : stacker[c] = p})],
                                    !.stacked = @ \cup {<<wild.tick + 1, c>> : c \in camps},
                                    !.missed = @ \cup {[time |-> wild.tick + 1, camp |-> c, player |-> box[c] # "lane"]
                                                       : c \in ready \ wakes}]
  /\ UNCHANGED jung

CampsEnd ==
  /\ Settled
  /\ wild' = [wild EXCEPT !.over = TRUE]
  /\ LET found == [jung EXCEPT !.bans = DetectSpawnBlocks(jung), !.stacks = DetectStacks(jung), !.kills = CampKills(jung)]
     IN  jung' = [found EXCEPT !.stacks = StackOutcomes(found)]

CampsNext ==
  \/ \E c \in Grounds : Wake(c) \/ \E st \in {"waiting", "awake"} : Appear(c, st)
  \/ \E e \in Ents : \/ Update(e) \/ LifeEnds(e) \/ Tame(e) \/ DeleteCreep(e)
                     \/ \E p \in Farmers \cup {-1} : KillCreep(e, p)
  \/ \E p \in Farmers : CounterUp(p)
  \/ OtherUpdate
  \/ CampTick
  \/ \E box \in [Grounds -> wild.plan.boxes], pulled \in SUBSET Grounds,
        stacker \in [Grounds -> Farmers] : MarkComes(box, pulled, stacker)
  \/ CampsEnd

-----------------------------------------------------------------------------
\* The bans are the marks at which creeps waited and did not spawn though their own
\* did not fill the box, in whatever order the packet told of waking and of other
\* units, and a player is named unless a lane creep stood there.  A unit a creep
\* summons counts as a spawn to the code: marks with one near them are left out.
BansAreMissedSpawns ==
  LET clear(b) == \A t \in Around(b.time) : <<b.camp, t>> \notin wild.raised
  IN  wild.over => {b \in jung.bans : clear(b)} = {b \in wild.missed : clear(b)}

\* Each rise of a counter is placed once, within reach of its player.  At a mark
\* whose stackers reach the same camps, a player whose counter rises by two at once
\* included, the stacks are the camps that were stacked, one each, if the old creeps
\* outlived the mark.  Else a rise may find every stacked camp in its reach given
\* away (OneStackPerCamp), but it goes to no other camp while one of them is free.
StacksOnTheirCamps ==
  LET at(t)   == {i \in DOMAIN jung.stacks : jung.stacks[i].stack.time = t}
      camp(i) == jung.stacks[i].stack.camp
      reach(i) == {c \in Grounds : Far[jung.stacks[i].stack.player][c] <= 25}
      real(t) == {c \in Grounds : <<t, c>> \in wild.stacked}
      given(i) == {camp(k) : k \in {k \in at(jung.stacks[i].stack.time) : k < i}}
  IN  wild.over =>
        /\ \A t \in 1..wild.tick :
             /\ Cardinality(at(t)) = Cardinality(real(t))
             /\ (\A i, k \in at(t) : reach(i) = reach(k)) => {camp(i) : i \in at(t)} = real(t)
             /\ \A i \in at(t) : camp(i) \in real(t) \ given(i) \/ real(t) \cap reach(i) \subseteq given(i)
        /\ \A i \in DOMAIN jung.stacks : camp(i) \in reach(i)

\* "One stack per camp and mark" (main.go:6056).
OneStackPerCamp ==
  wild.over => \A i, k \in DOMAIN jung.stacks :
    jung.stacks[i].stack.time = jung.stacks[k].stack.time /\ jung.stacks[i].stack.camp = jung.stacks[k].stack.camp => i = k

\* No creep and no gold is counted for two stacks: what a player is said to have
\* cleared at a camp is never more than what he was paid and killed there, and the
\* shares of a tick are never more than the gold of it.
ClearedOnce ==
  wild.over => \A p \in Farmers :
    LET mine(c) == {i \in DOMAIN jung.stacks : jung.stacks[i].stack.camp = c /\ jung.stacks[i].cleared.player = p}
        dead(c) == {i \in DOMAIN jung.lives : jung.lives[i].camp = c /\ jung.kills[i].owner = p}
        paid(s, t) == MapThenSumSet(LAMBDA i : s[i].gold, {i \in DOMAIN s : s[i].owner = p /\ s[i].time = t})
    IN  /\ \A c \in Grounds : /\ MapThenSumSet(LAMBDA i : jung.stacks[i].cleared.creeps, mine(c)) <= Cardinality(dead(c))
                              /\ MapThenSumSet(LAMBDA i : jung.stacks[i].cleared.gold, mine(c))
                                   <= MapThenSumSet(LAMBDA i : jung.kills[i].gold, dead(c))
        /\ \A t \in 1..wild.tick : paid(jung.kills, t) <= paid(jung.gold, t)
=============================================================================
