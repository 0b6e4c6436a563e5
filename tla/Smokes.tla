------------------------------- MODULE Smokes --------------------------------
(***************************************************************************)
(* Team smokes (main.go, detectSmokeEvents and the modifier entries it is  *)
(* given).  The log has an entry for each hero that a smoke covers and one *)
(* for each that loses it; nothing says which belong to one smoke.  Both   *)
(* sides smoke at any time, and a hero may be smoked again.  Positions are *)
(* left out: a route is its hero and its end; so is the count of kills,    *)
(* deaths, towers and runes in the minute after.                           *)
(***************************************************************************)
EXTENDS Timeline

CONSTANTS Smokers,      \* players, as numbers
          FirstSide,    \* those of one side
          SmokeGap,     \* gapWindowSec
          RemoveCap,    \* removeCapSec
          MinSmokers,   \* minParticipants
          MaxSmoked,    \* bound on the heroes covered, over the whole replay
          SmokeTicks    \* bound on the length of the replay

ASSUME SmokesAssumption ==
  /\ Smokers \subseteq Nat /\ FirstSide \subseteq Smokers
  /\ SmokeGap \in Nat /\ RemoveCap \in Nat /\ MinSmokers \in Nat \ {0}
  /\ MaxSmoked \in Nat /\ SmokeTicks \in Nat

VARIABLE smoke

SmokeSide(p) == p \in FirstSide

(***************************************************************************)
(* The parser's pass                                                       *)
(***************************************************************************)
\* Mutant of SmokeClusters: one open cluster for both sides.
SmokeClusters_OneOpen(adds) ==
  LET add(cs, a) ==
        LET mine == IF cs # <<>> /\ cs[Len(cs)].side = SmokeSide(a.player) THEN {Len(cs)} ELSE {}
            open == {i \in mine : a.time - cs[i].last <= SmokeGap}
        IN  IF open # {}
            THEN [i \in DOMAIN cs |-> IF i \in open THEN [cs[i] EXCEPT !.heroes = @ \cup {a.player}, !.last = a.time]
                                      ELSE cs[i]]
            ELSE Append(cs, [start |-> a.time, last |-> a.time, side |-> SmokeSide(a.player), heroes |-> {a.player}])
  IN  FoldLeft(add, <<>>, adds)

\* An entry joins the last cluster of its side when it is close to that one's
\* latest entry.  The log is in time order.
SmokeClusters(adds) ==
  LET add(cs, a) ==
        LET mine == {i \in DOMAIN cs : cs[i].side = SmokeSide(a.player)}
            open == {i \in mine : (\A j \in mine : j <= i) /\ a.time - cs[i].last <= SmokeGap}
        IN  IF open # {}
            THEN [i \in DOMAIN cs |-> IF i \in open THEN [cs[i] EXCEPT !.heroes = @ \cup {a.player}, !.last = a.time]
                                      ELSE cs[i]]
            ELSE Append(cs, [start |-> a.time, last |-> a.time, side |-> SmokeSide(a.player), heroes |-> {a.player}])
  IN  FoldLeft(add, <<>>, adds)

\* Mutant of RouteEnd: an end in the tick of the start counts.
RouteEnd_AtStart(removes, start, p) ==
  LET fit == {i \in DOMAIN removes : removes[i].player = p /\ removes[i].time \in start..(start + RemoveCap)}
  IN  IF fit = {} THEN -1 ELSE removes[CHOOSE i \in fit : \A j \in fit : i <= j].time

\* The first removal after the cluster's start, -1 when there is none in time
RouteEnd(removes, start, p) ==
  LET fit == {i \in DOMAIN removes : removes[i].player = p /\ removes[i].time \in (start + 1)..(start + RemoveCap)}
  IN  IF fit = {} THEN -1 ELSE removes[CHOOSE i \in fit : \A j \in fit : i <= j].time

DetectSmokeEvents(s) ==
  LET event(c) == LET ends == [p \in c.heroes |-> RouteEnd(s.removes, c.start, p)]
                  IN  [start |-> c.start, side |-> c.side, heroes |-> c.heroes, ends |-> ends,
                       end |-> Max({ends[p] : p \in c.heroes})]
      all   == SmokeClusters(s.adds)
      shown == Kept(all, {c \in ToSet(all) : Cardinality(c.heroes) >= MinSmokers})
  IN  [i \in DOMAIN shown |-> event(shown[i])]

(***************************************************************************)
(* The replay                                                              *)
(***************************************************************************)
SmokesInit ==
  smoke = [tick    |-> 0,
           since   |-> [p \in Smokers |-> -1],  \* truth: smoked since, -1 for not
           spans   |-> {},                      \* truth: smokes that ended
           adds    |-> <<>>,                    \* SmokeModifierAdds
           removes |-> <<>>,                    \* SmokeModifierRemoves
           events  |-> <<>>,
           over    |-> FALSE]

\* A hero under a smoke already has it refreshed.
SmokeOn(p) ==
  /\ ~smoke.over /\ Len(smoke.adds) < MaxSmoked
  /\ smoke' = [smoke EXCEPT !.adds = Append(@, [player |-> p, time |-> smoke.tick]),
                            !.since[p] = IF @ = -1 THEN smoke.tick ELSE @]

SmokeOff(p) ==
  /\ ~smoke.over /\ smoke.since[p] # -1
  /\ smoke' = [smoke EXCEPT !.removes = Append(@, [player |-> p, time |-> smoke.tick]),
                            !.since[p] = -1,
                            !.spans = @ \cup {[player |-> p, from |-> smoke.since[p], to |-> smoke.tick]}]

SmokeTick ==
  /\ ~smoke.over /\ smoke.tick < SmokeTicks
  /\ smoke' = [smoke EXCEPT !.tick = @ + 1]

SmokesEnd ==
  /\ ~smoke.over
  /\ smoke' = [smoke EXCEPT !.over = TRUE, !.events = DetectSmokeEvents(smoke)]

SmokesNext ==
  \/ \E p \in Smokers : SmokeOn(p) \/ SmokeOff(p)
  \/ SmokeTick \/ SmokesEnd

-----------------------------------------------------------------------------
\* The team smokes are the stretches of one side's uses, whatever the other side
\* does between them: uses no further apart than the window, by at least two heroes,
\* each stretch one event with all of its heroes.
SmokesAreStretches ==
  LET uses(side) == {a \in ToSet(smoke.adds) : SmokeSide(a.player) = side}
      linked(S, t, u) == Linked({a.time : a \in S}, t, u, SmokeGap)
      stretch(S, a) == {b \in S : IF a.time <= b.time THEN linked(S, a.time, b.time) ELSE linked(S, b.time, a.time)}
      all == UNION {{[side |-> side, heroes |-> {b.player : b \in stretch(uses(side), a)},
                      start |-> Min({b.time : b \in stretch(uses(side), a)})] : a \in uses(side)} : side \in BOOLEAN}
      team == {s \in all : Cardinality(s.heroes) >= MinSmokers}
  IN  smoke.over =>
        /\ {[side |-> e.side, heroes |-> e.heroes, start |-> e.start] : e \in ToSet(smoke.events)} = team
        /\ Len(smoke.events) = Cardinality(team)

\* A participant's route ends when the smoke he used really left him, when no other
\* one did since the event began.
RoutesEndWithTheSmoke ==
  smoke.over => \A e \in ToSet(smoke.events) : \A p \in e.heroes :
    LET mine   == {s \in smoke.spans : s.player = p /\ s.to > e.start}
        used   == {a.time : a \in {a \in ToSet(smoke.adds) : a.player = p /\ a.time >= e.start}}
        real   == {s \in mine : Min(used) \in s.from..s.to}
    IN  \A s \in real : mine = {s} /\ s.to <= e.start + RemoveCap => e.ends[p] = s.to /\ e.end >= s.to
=============================================================================
