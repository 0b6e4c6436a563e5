----------------------------- MODULE HeroDeaths -----------------------------
(***************************************************************************)
(* Deaths, kills, assists and teamfights (main.go: the DEATH entries of    *)
(* the combat log, Valve's assist counters, assistEventsFromScoreboard,    *)
(* detectTeamfights).                                                      *)
(*                                                                         *)
(* A death reaches the parser as combat-log entries of one tick, in any    *)
(* order: its own, and when a Meepo dies one for each of his clones, with  *)
(* Meepo as the attacker.  The log lists the heroes that damaged the       *)
(* victim; whom the scoreboard credits shows only as a rise of a counter,  *)
(* in the same tick or the next.  Time is counted in ticks.                *)
(***************************************************************************)
EXTENDS Timeline

CONSTANTS Heroes,      \* players, as numbers
          Radiant,     \* those of one side
          Meepo,       \* the one with clones
          Deaths,      \* the deaths that may happen: who, by whom, the credited, the listed, reincarnation
          Lag,         \* how far a rise may be from its death
          FightGap,    \* teamfight window
          MinDeaths,   \* deaths that make a teamfight
          LaneEnd,     \* the laning stage is the ticks before this
          DeathsBound, \* bound on the deaths
          EndTick      \* bound on the length of the replay

ASSUME DeathsAssumption ==
  /\ Heroes \subseteq Nat /\ Radiant \subseteq Heroes /\ Meepo \in Heroes
  /\ \A d \in Deaths : /\ d.victim \in Heroes /\ d.killer \in Heroes \cup {-1}
                       /\ d.helped \cup d.listed \subseteq Heroes /\ d.rein \in BOOLEAN
                       /\ \A p \in d.helped : (p \in Radiant) # (d.victim \in Radiant)
  /\ Lag \in Nat \ {0} /\ FightGap \in Nat /\ MinDeaths \in Nat \ {0}
  /\ LaneEnd \in Nat /\ DeathsBound \in Nat /\ EndTick \in Nat

VARIABLES game,   \* what really happened and what of it is still to be told
          board   \* the parser's record

Side(p) == p \in Radiant

(***************************************************************************)
(* The parser                                                              *)
(***************************************************************************)
NewBoard ==
  [evs     |-> [p \in Heroes |-> <<>>],  \* DeathEvents
   kills   |-> [p \in Heroes |-> <<>>],  \* KillEvents
   laned   |-> [p \in Heroes |-> 0],     \* LaneDeaths
   gold    |-> [p \in Heroes |-> FALSE], \* PendingGoldLost
   rises   |-> [p \in Heroes |-> <<>>],  \* ValveAssistTimes
   assists |-> [p \in Heroes |-> <<>>]]  \* AssistEvents, in the order of the rises

LinkedDeath(evs, t, player, killer) ==
  /\ evs # <<>> /\ evs[Len(evs)].time = t
  /\ killer = player \/ evs[Len(evs)].killer # player

\* The deaths of this tick that were credited to the player himself
SelfDeaths(evs, t, player) ==
  {i \in DOMAIN evs : \A j \in i..Len(evs) : evs[j].time = t /\ evs[j].killer = player}

InLane(t, rein) == t < LaneEnd /\ ~rein

\* Mutant of DeathEntry: what was counted for the clones stays counted.
DeathEntry_KeepsLane(b, e, t) ==
  LET v    == e.victim
      self == e.killer = v
      old  == IF self THEN {} ELSE SelfDeaths(b.evs[v], t, v)
      kept == SubSeq(b.evs[v], 1, Len(b.evs[v]) - Cardinality(old))
      ev   == [time |-> t, killer |-> e.killer, rein |-> e.rein,
               assists |-> IF self THEN {} ELSE e.listed \ {e.killer},
               gold |-> b.gold[v] \/ \E i \in old : b.evs[v][i].gold]
  IN  IF LinkedDeath(b.evs[v], t, v, e.killer) THEN b
      ELSE [b EXCEPT !.evs[v] = Append(kept, ev), !.gold[v] = FALSE,
                     !.laned[v] = @ + (IF InLane(t, e.rein) THEN 1 ELSE 0),
                     !.kills = [p \in Heroes |-> IF p = e.killer /\ ~self
                                                 THEN Append(@[p], [time |-> t, target |-> v]) ELSE @[p]]]

\* A DEATH entry: a player dies once per tick; a real death takes the place of
\* the clones' logged before it, and what they took.
DeathEntry(b, e, t) ==
  LET v    == e.victim
      self == e.killer = v
      old  == IF self THEN {} ELSE SelfDeaths(b.evs[v], t, v)
      kept == SubSeq(b.evs[v], 1, Len(b.evs[v]) - Cardinality(old))
      ev   == [time |-> t, killer |-> e.killer, rein |-> e.rein,
               assists |-> IF self THEN {} ELSE e.listed \ {e.killer},
               gold |-> b.gold[v] \/ \E i \in old : b.evs[v][i].gold]
      lane == {i \in old : InLane(t, b.evs[v][i].rein)}
  IN  IF LinkedDeath(b.evs[v], t, v, e.killer) THEN b
      ELSE [b EXCEPT !.evs[v] = Append(kept, ev), !.gold[v] = FALSE,
                     !.laned[v] = @ - Cardinality(lane) + (IF InLane(t, e.rein) THEN 1 ELSE 0),
                     !.kills = [p \in Heroes |-> IF p = e.killer /\ ~self
                                                 THEN Append(@[p], [time |-> t, target |-> v]) ELSE @[p]]]

\* The deaths a player can have assisted in, by victim and index
EnemyDeaths(b, p) == UNION {{v} \X DOMAIN b.evs[v] : v \in {v \in Heroes : Side(v) # Side(p)}}

At(b, d) == b.evs[d[1]][d[2]].time

Earlier(d, e) == d[1] < e[1] \/ (d[1] = e[1] /\ d[2] < e[2])

\* Rises paired with deaths whose log lists the player, the closest pairs first
ListedPairs(b, p) ==
  LET lists(d) == p \in b.evs[d[1]][d[2]].assists
      pairs == {x \in EnemyDeaths(b, p) \X DOMAIN b.rises[p] :
                  lists(x[1]) /\ Gap(At(b, x[1]), b.rises[p][x[2]]) <= Lag}
      dt(x) == Gap(At(b, x[1]), b.rises[p][x[2]])
      before(x, y) == \/ dt(x) < dt(y)
                      \/ dt(x) = dt(y) /\ (Earlier(x[1], y[1]) \/ (x[1] = y[1] /\ x[2] < y[2]))
      take(got, x) == IF \E y \in got : y[1] = x[1] \/ y[2] = x[2] THEN got ELSE got \cup {x}
  IN  FoldLeft(take, {}, Sorted(pairs, before))

\* Mutant of NearestFree: a death may be given to two rises.
NearestFree_Taken(b, p, k, got) ==
  LET t    == b.rises[p][k]
      free == {d \in EnemyDeaths(b, p) : Gap(At(b, d), t) <= Lag}
      near == {d \in free : \A e \in free : Gap(At(b, d), t) <= Gap(At(b, e), t)}
      first == CHOOSE d \in near : \A e \in near \ {d} : Earlier(d, e)
  IN  IF free = {} THEN {} ELSE {d \in free : At(b, d) = At(b, first)}

\* The deaths left in the tick nearest to a rise
NearestFree(b, p, k, got) ==
  LET t    == b.rises[p][k]
      free == {d \in EnemyDeaths(b, p) : Gap(At(b, d), t) <= Lag /\ \A x \in got : x[1] # d}
      near == {d \in free : \A e \in free : Gap(At(b, d), t) <= Gap(At(b, e), t)}
      first == CHOOSE d \in near : \A e \in near \ {d} : Earlier(d, e)
  IN  IF free = {} THEN {} ELSE {d \in free : At(b, d) = At(b, first)}

\* assistEventsFromScoreboard, one player: pairs of a death and a rise
Credited(b, p) ==
  LET rest(got, k) ==
        LET tick == NearestFree(b, p, k, got)
        IN  IF (\E x \in got : x[2] = k) \/ Cardinality(tick) # 1 THEN got
            ELSE got \cup {<<CHOOSE d \in tick : TRUE, k>>}
  IN  FoldLeft(rest, ListedPairs(b, p), [k \in DOMAIN b.rises[p] |-> k])

\* Each rise is one event; a death then lists whom the scoreboard credited.  Replays
\* without the counter, where the log's events stay, are left out.
FromScoreboard(b) ==
  LET got == [p \in Heroes |-> Credited(b, p)]
      event(p, k) ==
        IF \E x \in got[p] : x[2] = k
        THEN LET d == (CHOOSE x \in got[p] : x[2] = k)[1] IN [time |-> At(b, d), target |-> d[1], death |-> d]
        ELSE [time |-> b.rises[p][k], target |-> -1, death |-> <<>>]
  IN  [b EXCEPT !.assists = [p \in Heroes |-> [k \in DOMAIN b.rises[p] |-> event(p, k)]],
                !.evs = [v \in Heroes |-> [i \in DOMAIN @[v] |->
                  [@[v][i] EXCEPT !.assists = {p \in Heroes : \E x \in got[p] : x[1] = <<v, i>>}]]]]

\* Mutant of Teamfights: a fight is as long as the window from its first death.
Teamfights_FromStart(b) ==
  LET all   == Sorted(UNION {{v} \X DOMAIN b.evs[v] : v \in Heroes},
                            LAMBDA d, e : At(b, d) < At(b, e) \/ (At(b, d) = At(b, e) /\ Earlier(d, e)))
      add(cs, d) == IF cs # <<>> /\ At(b, d) - At(b, Head(cs[Len(cs)])) <= FightGap
                    THEN [cs EXCEPT ![Len(cs)] = Append(@, d)] ELSE Append(cs, <<d>>)
      runs  == FoldLeft(add, <<>>, all)
  IN  Kept(runs, {c \in ToSet(runs) : Len(c) >= MinDeaths})

\* Runs of deaths, each at most FightGap after the one before
Teamfights(b) ==
  LET all   == Sorted(UNION {{v} \X DOMAIN b.evs[v] : v \in Heroes},
                            LAMBDA d, e : At(b, d) < At(b, e) \/ (At(b, d) = At(b, e) /\ Earlier(d, e)))
      add(cs, d) == IF cs # <<>> /\ At(b, d) - At(b, cs[Len(cs)][Len(cs[Len(cs)])]) <= FightGap
                    THEN [cs EXCEPT ![Len(cs)] = Append(@, d)] ELSE Append(cs, <<d>>)
      runs  == FoldLeft(add, <<>>, all)
  IN  Kept(runs, {c \in ToSet(runs) : Len(c) >= MinDeaths})

FightWinner(b, c) ==
  LET lost(radiant) == Cardinality({i \in DOMAIN c : Side(c[i][1]) = radiant})
  IN  CASE lost(TRUE) < lost(FALSE) -> "radiant"
        [] lost(FALSE) < lost(TRUE) -> "dire"
        [] OTHER                    -> "even"

(***************************************************************************)
(* The replay                                                              *)
(***************************************************************************)
NewGame == [tick |-> 0, died |-> {}, entries |-> {}, owed |-> {}, over |-> FALSE]

DeathsInit == game = NewGame /\ board = NewBoard

\* One of the deaths happens; a Meepo's is logged with up to two clones'.  The
\* gold it cost is logged before it.
Die(d) ==
  LET own    == [kind |-> "death", victim |-> d.victim, killer |-> d.killer, listed |-> d.listed, rein |-> d.rein]
      clone(i) == [own EXCEPT !.kind = <<"clone", i>>, !.killer = d.victim,
                                     !.listed = d.listed \cup ({d.killer} \cap Heroes)]
  IN  /\ ~game.over /\ Cardinality(game.died) < DeathsBound
      /\ \A x \in game.died : x.time = game.tick => x.victim # d.victim
      /\ \E clones \in IF d.victim = Meepo THEN 0..2 ELSE {0} :
           game' = [game EXCEPT !.died = @ \cup {[victim |-> d.victim, killer |-> d.killer, rein |-> d.rein,
                                                  helped |-> d.helped, time |-> game.tick]},
                                !.entries = @ \cup {own} \cup {clone(i) : i \in 1..clones},
                                !.owed = @ \cup {<<p, d.victim, game.tick>> : p \in d.helped}]
      /\ board' = [board EXCEPT !.gold[d.victim] = ~d.rein]

LogEntry(e) ==
  /\ e \in game.entries
  /\ board' = DeathEntry(board, e, game.tick)
  /\ game' = [game EXCEPT !.entries = @ \ {e}]

\* The counters of a player rise by what is owed to him.
CounterRises(p, x) ==
  /\ x \in game.owed /\ x[1] = p
  /\ board' = [board EXCEPT !.rises[p] = Append(@, game.tick)]
  /\ game' = [game EXCEPT !.owed = @ \ {x}]

NextTick ==
  /\ ~game.over /\ game.entries = {} /\ game.tick < EndTick
  /\ \A x \in game.owed : x[3] = game.tick
  /\ game' = [game EXCEPT !.tick = @ + 1]
  /\ UNCHANGED board

EndOfReplay ==
  /\ ~game.over /\ game.entries = {} /\ game.owed = {}
  /\ game' = [game EXCEPT !.over = TRUE]
  /\ board' = FromScoreboard(board)

DeathsNext ==
  \/ \E d \in Deaths : Die(d)
  \/ \E e \in game.entries : LogEntry(e)
  \/ \E p \in Heroes : \E x \in game.owed : CounterRises(p, x)
  \/ NextTick
  \/ EndOfReplay

-----------------------------------------------------------------------------
DiedOf(p) == {x \in game.died : x.victim = p}

\* Once a tick's entries are read, every death is listed once, with its killer and
\* the gold it cost, and counted once for the laning stage and once as a kill,
\* however the clones' entries fall around it.
DeathsListedOnce ==
  game.entries = {} =>
    \A p \in Heroes :
      /\ {[time |-> e.time, killer |-> e.killer, gold |-> e.gold] : e \in ToSet(board.evs[p])}
           = {[time |-> x.time, killer |-> x.killer, gold |-> ~x.rein] : x \in DiedOf(p)}
      /\ Len(board.evs[p]) = Cardinality(DiedOf(p))
      /\ board.laned[p] = Cardinality({x \in DiedOf(p) : InLane(x.time, x.rein)})
      /\ Len(board.kills[p]) = Cardinality({x \in game.died : x.killer = p /\ x.victim # p})

\* The assists add up to the scoreboard's, no death credits a player twice, the
\* lists of the deaths say the same as the events of the players, and an assist
\* is put on the very death it was for when no other enemy died near it.
AssistsAddUp ==
  game.over =>
    \A p \in Heroes :
      LET mine   == {x \in game.died : p \in x.helped}
          known  == {k \in DOMAIN board.assists[p] : board.assists[p][k].target # -1}
          enemy  == {x \in game.died : Side(x.victim) # Side(p)}
          alone(x) == \A y \in enemy \ {x} : Gap(x.time, y.time) > 2 * Lag
      IN  /\ Len(board.assists[p]) = Cardinality(mine)
          /\ \A j, k \in known : board.assists[p][j].death = board.assists[p][k].death => j = k
          /\ \A d \in EnemyDeaths(board, p) :
               p \in board.evs[d[1]][d[2]].assists <=> \E k \in known : board.assists[p][k].death = d
          /\ \A x \in mine : alone(x) =>
               \E k \in known : board.assists[p][k].target = x.victim /\ board.assists[p][k].time = x.time

\* Two deaths are in one fight when at no point between them nobody died for
\* longer than the window; a fight is all of such a stretch, with enough deaths.
TeamfightsAreStretches ==
  LET times == {x.time : x \in game.died}
      joined(x, y) == IF x.time <= y.time THEN Linked(times, x.time, y.time, FightGap)
                      ELSE Linked(times, y.time, x.time, FightGap)
      stretches == {s \in {{y \in game.died : joined(x, y)} : x \in game.died} : Cardinality(s) >= MinDeaths}
      fights == Teamfights(board)
  IN  game.over => /\ {{<<d[1], At(board, d)>> : d \in ToSet(f)} : f \in ToSet(fights)}
                         = {{<<y.victim, y.time>> : y \in s} : s \in stretches}
                   /\ Len(fights) = Cardinality(stretches)
                   /\ \A i, j \in DOMAIN fights : i < j => At(board, Last(fights[i])) < At(board, Head(fights[j]))
=============================================================================
