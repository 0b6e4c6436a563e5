----------------------------- MODULE SkillBuild -----------------------------
(***************************************************************************)
(* The skill build of one hero (main.go, observeHeroAbility to             *)
(* filterSkillBuild).  A replay tells the parser which ability a skill     *)
(* point went to by two entities: the hero's count of spent points rises,  *)
(* and so does the level of the ability, together with that of its hidden  *)
(* twin; levels also rise that no point paid for.  The parser pairs points *)
(* with rises by time.                                                     *)
(*                                                                         *)
(* A packet changes entities first and then calls the parser for each one  *)
(* that changed, in any order.  Time is counted in ticks.                  *)
(***************************************************************************)
EXTENDS Timeline

CONSTANTS Basics,      \* abilities in the three basic slots and the ultimate's
          Cap,         \* the level each can have at the hero's level
          Hidden,      \* hidden abilities that rise with another one
          TwinOf,      \* the one it rises with
          Granted,     \* abilities that come without a point
          Talents,     \* talents: listed, but cost no point
          Attributes,  \* special_bonus_attributes
          SlotOrder,   \* all of them, in the order of the hero's slots
          Window,      \* skillMatchWindow
          Settle,      \* skillSettle
          PointLag,    \* how long one side of a spent point may come after the other
          UpgradeGap,  \* the least time between two of the player's upgrades
          MaxPoints,   \* bound on the points spent
          MaxTime,     \* bound on the length of the replay
          None

Names == Basics \cup Hidden \cup Granted \cup Talents \cup {Attributes}

ASSUME SkillAssumption ==
  /\ Cap \in [Basics -> Nat] /\ TwinOf \in [Hidden -> Basics]
  /\ Window \in Nat /\ Settle \in Nat \ {0} /\ Settle <= Window
  /\ PointLag \in 0..Window /\ UpgradeGap \in Nat
  /\ MaxPoints \in Nat /\ MaxTime \in Nat
  /\ SlotOrder \in Seq(Names) /\ ToSet(SlotOrder) = Names /\ IsInjective(SlotOrder)

VARIABLES ps,        \* the parser's state of the hero's skills
          lvl,       \* level of each ability entity
          points,    \* the hero's count of spent points
          counters,  \* the replay has that count (older ones do not)
          dirty,     \* changed entities the parser is still to be called for
          late,      \* the side of the last point that is still to come
          clock, last,  \* time, and the time of the last upgrade
          chosen,    \* what the player upgraded, as Valve lists it
          over       \* the replay has ended

world == <<lvl, points, counters, late, clock, last, chosen, over>>
skillVars == <<ps, dirty, world>>

(***************************************************************************)
(* The parser: operators from its state to its next one                    *)
(***************************************************************************)
Blank ==
  [seen      |-> [a \in Names |-> None],  \* SkillAbilities: the level last seen
   slots     |-> [a \in Basics |-> 0],    \* SlotLevels
   spentSeen |-> FALSE,
   spent     |-> 0,
   credits   |-> <<>>,                    \* SkillCredits
   rises     |-> <<>>,                    \* PendingRises
   prev      |-> [a \in Names |-> 0],     \* PrevAbilityLvls
   build     |-> <<>>]                    \* SkillBuild

AppendSkillUp(p, a, l, t) ==
  IF l <= p.prev[a] THEN p
  ELSE [p EXCEPT !.build = Append(@, [name |-> a, level |-> l, time |-> t]),
                 !.prev[a] = l]

AbilitiesMaxed(p) == \A a \in Basics : p.slots[a] >= Cap[a]

\* Mutant of Better: visible and hidden rises are alike.
Better_NearestOnly(r, s, c) == Gap(r.time, c) < Gap(s.time, c)

\* Rise r suits a point spent at c better than s.
Better(r, s, c) ==
  LET hid(x) == x.name \in Hidden
  IN  \/ hid(s) /\ ~hid(r)
      \/ hid(r) = hid(s) /\ Gap(r.time, c) < Gap(s.time, c)

\* The first of the best rises near a point spent at c, once they are settled
Candidates(p, c, now) ==
  LET fit == {i \in DOMAIN p.rises : /\ now - p.rises[i].time >= Settle
                                     /\ Gap(p.rises[i].time, c) <= Window}
      best == {i \in fit : \A j \in fit : ~Better(p.rises[j], p.rises[i], c)}
  IN  {i \in best : \A j \in best : i <= j}

\* Mutant of PayPoint: a matched point is kept for another rise.
PayPoint_KeepsPoint(p, c, now) ==
  LET waiting == IF now - c <= Window THEN [p EXCEPT !.credits = Append(@, c)] ELSE p
  IN  IF Candidates(p, c, now) = {} THEN waiting
      ELSE LET i == CHOOSE i \in Candidates(p, c, now) : TRUE
               r == p.rises[i]
           IN  AppendSkillUp([waiting EXCEPT !.rises = RemoveAt(@, i)], r.name, r.level, r.time)

\* A forced attribute bonus takes the point and is not listed.
PayPoint(p, c, now) ==
  IF Candidates(p, c, now) = {}
  THEN IF now - c <= Window THEN [p EXCEPT !.credits = Append(@, c)] ELSE p
  ELSE LET i == CHOOSE i \in Candidates(p, c, now) : TRUE
           r == p.rises[i]
           q == [p EXCEPT !.rises = RemoveAt(@, i)]
       IN  IF r.name = Attributes /\ AbilitiesMaxed(p)
           THEN [q EXCEPT !.prev[r.name] = r.level]
           ELSE AppendSkillUp(q, r.name, r.level, r.time)

MatchSkills(p, now) ==
  LET paid == FoldLeft(LAMBDA q, c : PayPoint(q, c, now), [p EXCEPT !.credits = <<>>], p.credits)
  IN  [paid EXCEPT !.rises = Kept(paid.rises, {r \in ToSet(paid.rises) : now - r.time <= Window})]

RecordSkillUp(p, a, l, t) ==
  IF l <= p.prev[a] THEN p
  ELSE IF p.spentSeen /\ a \notin Talents
       THEN MatchSkills([p EXCEPT !.rises = Append(@, [name |-> a, level |-> l, time |-> t])], t)
       ELSE AppendSkillUp(p, a, l, t)

SkillSpent(p, n, t) ==
  MatchSkills([p EXCEPT !.credits = @ \o [i \in 1..(n - p.spent) |-> t],
                        !.spent = IF n > @ THEN n ELSE @,
                        !.spentSeen = TRUE], t)

\* A new entity is a baseline; only a later rise of it counts.
ObserveHeroAbility(p, a, l, t) ==
  IF p.seen[a] = None THEN [p EXCEPT !.seen[a] = l]
  ELSE IF l > p.seen[a] THEN RecordSkillUp([p EXCEPT !.seen[a] = l], a, l, t) ELSE p

ObserveAbilityLevel(p, a, l, t) ==
  IF p.seen[a] = None \/ l <= p.seen[a] THEN p
  ELSE RecordSkillUp([p EXCEPT !.seen[a] = l], a, l, t)

\* The slots of a hero, one after the other
ScanSlots(p, t) ==
  FoldLeft(LAMBDA q, a : ObserveHeroAbility(IF a \in Basics THEN [q EXCEPT !.slots[a] = lvl[a]] ELSE q,
                                            a, lvl[a], t),
           p, SlotOrder)

\* A hero first seen with points spent: the levels in its basic and ultimate
\* slots are those points, if they add up.
FirstLevels(p, t) ==
  LET first == Kept(SlotOrder, Basics)
      sum   == FoldLeft(LAMBDA n, a : n + lvl[a], 0, first)
      all(q, a) == FoldLeft(LAMBDA r, l : AppendSkillUp(r, a, l, t), q, [l \in 1..lvl[a] |-> l])
  IN  IF ~p.spentSeen /\ points > 0 /\ sum = points
      THEN [FoldLeft(all, p, first) EXCEPT !.spent = points, !.spentSeen = TRUE]
      ELSE p

(***************************************************************************)
(* Packets                                                                 *)
(***************************************************************************)
\* A hero enters the replay with no point spent, or with one.
SkillInit ==
  /\ ps = Blank
  /\ \E first \in Basics \cup {None} :
       /\ lvl = [a \in Names |-> IF first # None /\ (a = first \/ (a \in Hidden /\ TwinOf[a] = first))
                                 THEN 1 ELSE 0]
       /\ points = IF first = None THEN 0 ELSE 1
       /\ chosen = IF first = None THEN {} ELSE {<<first, 1>>}
  /\ counters \in BOOLEAN
  /\ dirty = {"hero"}
  /\ late = {}
  /\ clock = 0 /\ last = 0
  /\ over = FALSE

ScanHero ==
  /\ ~over
  /\ LET p == ScanSlots(ps, clock)
     IN  ps' = IF counters THEN SkillSpent(FirstLevels(p, clock), points, clock) ELSE p
  /\ dirty' = dirty \ {"hero"}
  /\ UNCHANGED world

\* That the parser has the entity's level from before and sees it rise is left to what
\* ObserveAbilityLevel asks of the levels of its own; an entity's first update, which
\* only records the level, is not told apart.
AbilityUpdate(a) ==
  /\ a \in dirty
  /\ ps' = ObserveAbilityLevel(ps, a, lvl[a], clock)
  /\ dirty' = dirty \ {a}
  /\ UNCHANGED world

Quiet == dirty = {} /\ late = {} /\ ~over

\* Part of an upgrade arrives: the hero's count, or levels.
Apply(part) ==
  /\ points' = IF "hero" \in part THEN points + 1 ELSE points
  /\ lvl' = [a \in Names |-> IF a \in part THEN lvl[a] + 1 ELSE lvl[a]]
  /\ dirty' = part

Upgrade(a) ==
  /\ Quiet /\ clock >= last + UpgradeGap
  /\ last' = clock
  /\ UNCHANGED <<ps, counters, clock, over>>

\* The player spends a point.  The hero's count and the levels come in one
\* packet, or one of them comes late.
SpendPoint(a) ==
  LET raised == {a} \cup {h \in Hidden : TwinOf[h] = a}
      forced == a = Attributes /\ \A b \in Basics : lvl[b] >= Cap[b]
  IN  /\ Upgrade(a)
      /\ points < MaxPoints
      /\ a \in Basics => lvl[a] < Cap[a]
      /\ chosen' = IF forced THEN chosen ELSE chosen \cup {<<a, lvl[a] + 1>>}
      /\ late' \in {{}, {"hero"}, raised}
      /\ Apply(({"hero"} \cup raised) \ late')

RestArrives ==
  /\ late # {} /\ dirty = {}
  /\ Apply(late)
  /\ late' = {}
  /\ UNCHANGED <<ps, counters, clock, last, chosen, over>>

\* An ability that comes with an item
Grant(g) ==
  /\ Upgrade(g)
  /\ lvl[g] = 0
  /\ Apply({g})
  /\ UNCHANGED <<late, chosen>>

TakeTalent(x) ==
  /\ dirty = {} /\ ~over /\ lvl[x] = 0
  /\ Apply({x})
  /\ chosen' = chosen \cup {<<x, 1>>}
  /\ UNCHANGED <<ps, counters, late, clock, last, over>>

\* The entity of an ability is replaced, or the ability is stolen for a while:
\* its next sighting is a baseline.
Recreate(a) ==
  /\ Quiet /\ ps.seen[a] # None
  /\ ps' = [ps EXCEPT !.seen[a] = None]
  /\ dirty' = {"hero"}
  /\ UNCHANGED world

SkillTick ==
  /\ dirty = {} /\ ~over /\ clock < MaxTime
  /\ late # {} => clock < last + PointLag
  /\ clock' = clock + 1
  /\ UNCHANGED <<ps, dirty, lvl, points, counters, late, last, chosen, over>>

\* matchSkills with an infinite time
SkillEnd ==
  /\ Quiet
  /\ ps' = MatchSkills(ps, MaxTime + Window + 1)
  /\ over' = TRUE
  /\ UNCHANGED <<dirty, lvl, points, counters, late, clock, last, chosen>>

SkillNext ==
  \/ ScanHero
  \/ \E a \in Names : AbilityUpdate(a) \/ Recreate(a)
  \/ \E a \in Basics \cup {Attributes} : SpendPoint(a)
  \/ \E g \in Granted : Grant(g)
  \/ \E x \in Talents : TakeTalent(x)
  \/ RestArrives
  \/ SkillTick
  \/ SkillEnd


-----------------------------------------------------------------------------
\* The output: filterSkillBuild drops generic abilities, of which none is here,
\* and orders by time.
ListedSkills == {<<e.name, e.level>> : e \in ToSet(ps.build)}

\* No spent point pays for two entries: with the count known, the entries that
\* cost a point and the points still waiting are never more than the points
\* spent (README: "one entry per spent skill point plus talents").
PaidOnce ==
  counters => Cardinality({i \in DOMAIN ps.build : ps.build[i].name \notin Talents}) + Len(ps.credits) <= points

\* At the end of the replay the build is what the player upgraded, each once:
\* no twin, no grant, no forced attribute bonus, and nothing missing, whichever
\* entity is seen first and however late its counterpart comes.
BuildIsWhatWasChosen ==
  over /\ counters => ListedSkills = chosen /\ \A i, j \in DOMAIN ps.build :
                        ps.build[i].name = ps.build[j].name /\ ps.build[i].level = ps.build[j].level => i = j
=============================================================================
