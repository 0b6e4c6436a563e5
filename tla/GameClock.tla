----------------------------- MODULE GameClock ------------------------------
(***************************************************************************)
(* The parser's clock and the dead times measured on it (main.go: GameTime,*)
(* entityActual, the pause fields of the game rules, EntityAxisOffset, the *)
(* dead spans of one hero, applyDeadSpans).                                *)
(*                                                                         *)
(* The demo counts net ticks; the game stands while it is paused, and the  *)
(* flag that says so may come late.  A packet's log entries are handled    *)
(* before its entities, on the tick of the packet before.  Every packet    *)
(* updates some entity; a packet is a tick here.  While the game is paused *)
(* nothing else happens in it.                                             *)
(***************************************************************************)
EXTENDS Timeline

CONSTANTS HornTime,     \* m_flGameStartTime
          SeenLate,     \* how late the pause flag may come; its end comes at once
          SpanBefore,   \* how far a dead span may start before its death,
          SpanAfter,    \* and after it
          MinDead,      \* a hero is dead at least this long
          MaxStops,     \* bound on the pauses and the deaths together
          NetTicks      \* bound on the length of the replay

ASSUME ClockAssumption ==
  /\ HornTime \in Nat \ {0} /\ SeenLate \in Nat /\ SpanBefore \in Nat /\ SpanAfter \in Nat \ {0}
  /\ MinDead \in Nat \ {0, 1} /\ MaxStops \in Nat /\ NetTicks \in Nat
  /\ Epoch \in Nat /\ Band \in Nat /\ HornTime <= Epoch - Band  \* what the pregame parks is in the band

VARIABLES match,  \* the game and what of this packet is still to be told
          watch   \* the parser's record

(***************************************************************************)
(* The parser                                                              *)
(***************************************************************************)
NewClock ==
  [cur    |-> 0,     \* CurrentTick, set by every entity
   start  |-> 0,     \* GameStartTime
   end    |-> 0,     \* GameEndTime
   paused |-> FALSE, \* PauseActive
   since  |-> 0,     \* PauseStartTick
   at     |-> 0,     \* PauseStartGameSec
   total  |-> 0,     \* PausedTicksTotal
   pauses |-> <<>>,  \* Pauses
   offset |-> 0,     \* EntityAxisOffset
   open   |-> FALSE, openT |-> 0,  \* DeadIsOpen, DeadOpenT
   spans  |-> <<>>,  \* DeadSpans
   deaths |-> <<>>,  \* DeathEvents
   dead   |-> 0]     \* TotalDeadTimeSec

GameTime(c) ==
  LET t == IF c.paused /\ c.since > 0 /\ c.since < c.cur THEN c.since ELSE c.cur
  IN  IF t > c.total THEN t - c.total ELSE 0

\* The entities' time on the axis of the combat log
EntityActual(c) == ActualGameSeconds(c, GameTime(c)) + c.offset

\* The first start time moves what was stamped before it.
HornKnown(c, start) ==
  LET move(t) == Rebased(t, Epoch - start)
      all(s)  == [i \in DOMAIN s |-> [s[i] EXCEPT !.time = move(@)]]
  IN  IF c.start > 0 THEN c
      ELSE [c EXCEPT !.start = start, !.at = move(@), !.pauses = all(@), !.deaths = all(@)]

\* Mutant of PauseSeen: the pause began when the flag came.
PauseSeen_WhenTold(c, flag, w) ==
  CASE flag /\ ~c.paused ->
         [c EXCEPT !.paused = TRUE, !.since = w.net, !.at = ActualGameSeconds(c, w.net - c.total)]
    [] ~flag /\ c.paused ->
         [c EXCEPT !.paused = FALSE, !.pauses = Append(@, [time |-> c.at, dur |-> w.net - c.since]),
                   !.total = IF w.valve THEN w.stood ELSE @ + (w.net - c.since)]
    [] OTHER -> c

\* An edge of m_bGamePaused; Valve's own start tick and total are taken where the
\* replay carries them.
PauseSeen(c, flag, w) ==
  LET from == IF w.valve THEN w.since ELSE w.net
  IN  CASE flag /\ ~c.paused ->
             [c EXCEPT !.paused = TRUE, !.since = from, !.at = ActualGameSeconds(c, from - c.total)]
        [] ~flag /\ c.paused ->
             [c EXCEPT !.paused = FALSE, !.pauses = Append(@, [time |-> c.at, dur |-> w.net - c.since]),
                       !.total = IF w.valve THEN w.stood ELSE @ + (w.net - c.since)]
        [] OTHER -> c

\* Any log entry measures how far the entities' clock is from the log's.
Calibrated(c, t) ==
  IF c.start = 0 THEN c ELSE [c EXCEPT !.offset = ActualGameSeconds(c, t) - ActualGameSeconds(c, GameTime(c))]

DeathLogged(c, t) == [c EXCEPT !.deaths = Append(@, [time |-> ActualGameSeconds(c, t), dur |-> 0])]

Earliest(t, u) == IF t < u THEN t ELSE u

Spanned(c, until) ==
  IF until > c.openT THEN [c EXCEPT !.open = FALSE, !.spans = Append(@, [from |-> c.openT, to |-> until])]
  ELSE [c EXCEPT !.open = FALSE]

\* Mutant of LifeSeen: a respawn after the game counts in full.
LifeSeen_PastTheEnd(c, life) ==
  CASE life >= 1 /\ ~c.open /\ c.start > 0 -> [c EXCEPT !.open = TRUE, !.openT = EntityActual(c)]
    [] life = 0 /\ c.open -> Spanned(c, EntityActual(c))
    [] OTHER -> c

\* m_lifeState changed: dying and dead open a span, a respawn closes it, at the end
\* of the game if that was before.
LifeSeen(c, life) ==
  LET t == EntityActual(c)
  IN  CASE life >= 1 /\ ~c.open /\ c.start > 0 -> [c EXCEPT !.open = TRUE, !.openT = t]
        [] life = 0 /\ c.open -> Spanned(c, IF c.end > 0 THEN Earliest(t, ActualGameSeconds(c, c.end)) ELSE t)
        [] OTHER -> c

\* A span is the first death's that it starts near to and that has none yet.
ApplyDeadSpans(c) ==
  LET stamp(deaths, sp) ==
        LET near == {k \in DOMAIN deaths : /\ deaths[k].dur = 0
                                           /\ sp.from \in (deaths[k].time - SpanBefore)..(deaths[k].time + SpanAfter)}
        IN  IF near = {} THEN deaths ELSE [deaths EXCEPT ![Min(near)].dur = sp.to - sp.from]
  IN  [c EXCEPT !.deaths = FoldLeft(stamp, @, c.spans),
                !.dead = FoldLeft(LAMBDA sum, sp : sum + (sp.to - sp.from), 0, c.spans)]

\* The end of the demo: the span of a hero dead at the game's end is closed.
Finished(c) == ApplyDeadSpans(IF c.open THEN Spanned(c, c.end - c.start) ELSE c)

(***************************************************************************)
(* The replay                                                              *)
(***************************************************************************)
ClockInit ==
  /\ \E valve \in BOOLEAN :  \* whether the rules carry Valve's pause ticks
       match = [net |-> 1, phase |-> "play", valve |-> valve, tell |-> {},
                paused |-> FALSE, since |-> 0, stood |-> 0, stops |-> <<>>,
                over |-> -1, life |-> 0, falls |-> <<>>, fresh |-> TRUE]
  /\ watch = NewClock

TrueTime == match.net - match.stood - (IF match.paused THEN match.net - match.since ELSE 0)

MoreStops == Len(match.stops) + Len(match.falls) < MaxStops

Happens(told) == match.phase = "play" /\ match.tell \cap told = {} /\ UNCHANGED watch

GamePauses ==
  /\ Happens({"rules", "life", "log"}) /\ ~match.paused /\ match.over = -1 /\ MoreStops
  /\ match' = [match EXCEPT !.paused = TRUE, !.since = match.net]

GameResumes ==
  /\ Happens({"rules"}) /\ match.paused /\ watch.paused
  /\ match' = [match EXCEPT !.paused = FALSE, !.stood = @ + (match.net - match.since), !.tell = @ \cup {"rules"},
                            !.stops = Append(@, [time |-> match.since - match.stood, dur |-> match.net - match.since]),
                            !.fresh = FALSE]

HeroDies ==
  /\ Happens({"life"}) /\ ~match.paused /\ match.over = -1 /\ match.life = 0 /\ MoreStops
  /\ match' = [match EXCEPT !.life = 1, !.tell = @ \cup {"log", "life"},
                            !.falls = Append(@, [died |-> TrueTime, back |-> -1, sure |-> TRUE])]

\* From dying to dead within SpanAfter, and back to life
HeroIsDead ==
  /\ Happens({"life"}) /\ ~match.paused /\ match.life = 1
  /\ match' = [match EXCEPT !.life = 2, !.tell = @ \cup {"life"}]

Respawn ==
  LET n == Len(match.falls)
  IN  /\ Happens({"life"}) /\ ~match.paused /\ match.life = 2
      /\ TrueTime - match.falls[n].died >= MinDead
      /\ match' = [match EXCEPT !.life = 0, !.tell = @ \cup {"life"}, !.falls[n].back = TrueTime]

GameEnds ==
  /\ Happens({"rules"}) /\ ~match.paused /\ match.over = -1 /\ watch.start > 0
  /\ match' = [match EXCEPT !.over = TrueTime, !.tell = @ \cup {"rules"}]

\* The packet: its log entries, the hero's death or (any) others, then its entities
LogPart(any) ==
  LET t == TrueTime
      c == IF any \/ "log" \in match.tell THEN Calibrated(watch, t) ELSE watch
      d == IF "log" \in match.tell THEN DeathLogged(c, t) ELSE c
      horn == t >= HornTime /\ watch.start = 0
  IN  /\ match.phase = "play"
      /\ any => ~match.paused
      /\ watch' = [d EXCEPT !.cur = match.net]
      /\ match' = [match EXCEPT !.phase = "entities",
                                !.tell = (@ \ {"log"}) \cup (IF horn THEN {"rules"} ELSE {}),
                                !.fresh = @ \/ ((any \/ "log" \in match.tell) /\ watch.start > 0)]

\* The game rules; flag is m_bGamePaused as they show it.
RulesTold(flag) ==
  LET c == IF TrueTime >= HornTime THEN HornKnown(watch, HornTime) ELSE watch
      e == IF match.over # -1 THEN [c EXCEPT !.end = match.over] ELSE c
  IN  /\ match.phase = "entities" /\ ("rules" \in match.tell \/ (flag /\ ~watch.paused))
      /\ flag => match.paused
      /\ watch.paused /\ match.paused => flag
      /\ watch' = PauseSeen(e, flag, match)
      /\ match' = [match EXCEPT !.tell = @ \ {"rules"}]

LifeTold ==
  /\ match.phase = "entities" /\ "life" \in match.tell
  /\ watch' = LifeSeen(watch, match.life)
  /\ match' = [match EXCEPT !.tell = @ \ {"life"},
                            !.falls[Len(match.falls)].sure = @ /\ (match.valve \/ match.fresh)]

PacketTold == match.phase = "entities" /\ match.tell = {}

NetTick ==
  /\ PacketTold /\ match.net < NetTicks
  /\ match.paused /\ ~watch.paused => match.net - match.since < SeenLate
  /\ match.life = 1 => TrueTime - match.falls[Len(match.falls)].died < SpanAfter - 1
  /\ match' = [match EXCEPT !.net = @ + 1, !.phase = "play"]
  /\ UNCHANGED watch

ClockEnd ==
  /\ PacketTold /\ match.over # -1
  /\ match' = [match EXCEPT !.phase = "end"]
  /\ watch' = Finished(watch)

ClockNext ==
  \/ GamePauses \/ GameResumes \/ HeroDies \/ HeroIsDead \/ Respawn \/ GameEnds
  \/ \E any \in BOOLEAN : LogPart(any)
  \/ \E flag \in BOOLEAN : RulesTold(flag)
  \/ LifeTold \/ NetTick \/ ClockEnd

-----------------------------------------------------------------------------
\* Once a packet is read and the parser knows whether the game is paused, its clock
\* is the game's, and the pauses are listed when and as long as they were, if the
\* replay carries Valve's ticks; without them it is ahead by what the flags were late.
ClockFollowsTheGame ==
  PacketTold /\ match.paused = watch.paused =>
    LET ahead == GameTime(watch) - TrueTime
        n     == Len(match.stops)
    IN  IF match.valve
        THEN /\ ahead = 0
             /\ watch.start > 0 =>
                  watch.pauses = [i \in 1..n |-> [match.stops[i] EXCEPT !.time = @ - HornTime]]
        ELSE ahead \in 0..(SeenLate * (n + (IF match.paused THEN 1 ELSE 0)))

\* Every death after the horn is stamped with the time the hero was dead, pauses and
\* the post-game left out, to within a packet; and the total adds up.  A death just
\* after one before the horn may give its span to that; and without Valve's ticks an
\* edge seen before any log entry has followed a pause is off by the flag's delay.
DeadTimesAreReal ==
  LET real(f)   == (IF f.back = -1 \/ f.back > match.over THEN match.over ELSE f.back) - f.died
      falls     == match.falls
      late(i)   == falls[i].died > HornTime
      apart(i)  == \A j \in 1..(i - 1) : late(j) \/ falls[i].died - falls[j].died > SpanAfter
      sum       == MapThenSumSet(LAMBDA i : real(falls[i]), DOMAIN falls)
  IN  match.phase = "end" /\ (\A i \in DOMAIN falls : falls[i].sure) =>
        /\ \A i \in DOMAIN falls : late(i) /\ apart(i) => Gap(watch.deaths[i].dur, real(falls[i])) <= 1
        /\ (\A i \in DOMAIN falls : late(i)) => Gap(watch.dead, sum) <= Len(falls)
=============================================================================
