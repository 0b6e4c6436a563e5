---------------------------- MODULE ParserProofs -----------------------------
(***************************************************************************)
(* What the parser's passes promise of any replay: its clock is the game's *)
(* however often and however long it is paused and however late the flags  *)
(* come, its list of purchases is what was bought in whichever order it    *)
(* learnt of them, no lane is reported against where the player stood, a   *)
(* side's positions are a permutation, and no skill point pays twice.      *)
(***************************************************************************)
EXTENDS ParserParts, FiniteSetTheorems, TLAPS

Stop == [time : Int, dur : Int]

MatchFields == {"net", "phase", "valve", "tell", "paused", "since", "stood", "stops", "over", "life", "falls", "fresh"}
WatchFields == {"cur", "start", "end", "paused", "since", "at", "total", "pauses", "offset", "open", "openT", "spans",
                "deaths", "dead"}

\* The game has resumed and the parser has not been told.
Untold == ~match.paused /\ watch.paused

\* The stops the parser can have closed: how many, and how long they were
Closed == IF Untold THEN Len(match.stops) - 1 ELSE Len(match.stops)
Lasted == IF Untold THEN match.stood - (match.net - match.since) ELSE match.stood

\* What the parser takes for the horn
Zero == IF watch.start > 0 THEN HornTime ELSE Epoch

FieldsInv ==
  /\ DOMAIN match = MatchFields /\ DOMAIN watch = WatchFields
  /\ match.net \in Nat /\ match.since \in Nat /\ match.stood \in Nat /\ match.stops \in Seq(Stop)
  /\ match.paused \in BOOLEAN /\ match.valve \in BOOLEAN
  /\ watch.start \in {0, HornTime} /\ watch.paused \in BOOLEAN /\ watch.since \in Nat /\ watch.total \in Nat

\* The game's own account: it stood for less than it lasted, and a stop that is
\* not told yet is the last of the list.
GameInv ==
  /\ Lasted < match.net /\ match.stood < match.net
  /\ match.paused \/ watch.paused => Lasted < match.since /\ match.since <= match.net
  /\ Untold => /\ "rules" \in match.tell /\ Len(match.stops) > 0
               /\ match.stops[Len(match.stops)] = [time |-> match.since - Lasted, dur |-> match.net - match.since]
  /\ match.paused /\ ~watch.paused => match.net - match.since <= SeenLate
  /\ match.phase = "entities" => watch.cur = match.net
  /\ match.phase = "entities" /\ watch.start = 0 /\ TrueTime >= HornTime => "rules" \in match.tell

\* The parser's: what it has counted, against what the game stood
CountInv ==
  /\ watch.total <= Lasted /\ Lasted - watch.total <= SeenLate * Closed
  /\ watch.paused => watch.since >= match.since /\ watch.since <= match.since + SeenLate /\ watch.since <= match.net
  /\ match.valve => watch.total = Lasted
  /\ match.valve /\ watch.paused => watch.since = match.since

\* The list of pauses, and the one that is going on
ListInv ==
  match.valve =>
    /\ watch.pauses \in Seq(Stop) /\ Len(watch.pauses) = Closed
    /\ \A i \in 1..Closed : watch.pauses[i] = [time |-> match.stops[i].time - Zero, dur |-> match.stops[i].dur]
    /\ watch.paused => watch.at = match.since - Lasted - Zero
    /\ watch.start = 0 => /\ \A i \in 1..Closed : match.stops[i].time < HornTime
                          /\ watch.paused => match.since - Lasted < HornTime

ClockInv == match.phase = "end" \/ (FieldsInv /\ GameInv /\ CountInv /\ ListInv)

\* A replay starts with both clocks at nought.
LEMMA ClockInvInit == ClockInit => ClockInv
<1> SUFFICES ASSUME ClockInit PROVE FieldsInv /\ GameInv /\ CountInv /\ ListInv
  BY DEF ClockInv
<1>1. PICK valve \in BOOLEAN :
        match = [net |-> 1, phase |-> "play", valve |-> valve, tell |-> {},
                 paused |-> FALSE, since |-> 0, stood |-> 0, stops |-> <<>>,
                 over |-> -1, life |-> 0, falls |-> <<>>, fresh |-> TRUE]
  BY DEF ClockInit
<1>2. watch = NewClock
  BY DEF ClockInit
<1>3. /\ match.net = 1 /\ match.phase = "play" /\ ~match.paused /\ match.since = 0
      /\ match.stood = 0 /\ match.stops = <<>> /\ DOMAIN match = MatchFields
  BY <1>1 DEF MatchFields
<1>4. /\ watch.start = 0 /\ ~watch.paused /\ watch.since = 0 /\ watch.total = 0 /\ watch.pauses = <<>>
      /\ DOMAIN watch = WatchFields /\ watch.paused = FALSE
  BY <1>2 DEF NewClock, WatchFields
<1>5. <<>> \in Seq(Stop) /\ Len(<<>>) = 0
  OBVIOUS
<1>6. match.paused \in BOOLEAN /\ match.valve \in BOOLEAN
  BY <1>1
<1>7. FieldsInv
  <2>1. watch.paused \in BOOLEAN
    BY <1>4
  <2>2. match.net \in Nat /\ match.since \in Nat /\ match.stood \in Nat /\ match.stops \in Seq(Stop)
    BY <1>3, <1>5
  <2>3. QED
    BY <1>3, <1>4, <1>6, <2>1, <2>2 DEF FieldsInv
<1>8. Lasted = 0 /\ Closed = 0 /\ ~Untold
  BY <1>3, <1>4, <1>5 DEF Lasted, Closed, Untold
<1>9. GameInv
  BY <1>3, <1>4, <1>8 DEF GameInv
<1>10. CountInv
  <2>1. SeenLate * Closed = 0
    BY <1>8, ClockAssumption
  <2>2. QED
    BY <1>3, <1>4, <1>8, <2>1 DEF CountInv
<1>11. ListInv
  BY <1>3, <1>4, <1>5, <1>8 DEF ListInv
<1>12. QED
  BY <1>7, <1>9, <1>10, <1>11

\* The parser's clock and pauses stay, and so does the game's account of them.
SameClock ==
  /\ DOMAIN watch' = WatchFields
  /\ watch'.start = watch.start /\ watch'.paused = watch.paused /\ watch'.since = watch.since
  /\ watch'.at = watch.at /\ watch'.total = watch.total /\ watch'.pauses = watch.pauses
SameGame ==
  /\ DOMAIN match' = MatchFields
  /\ match'.valve = match.valve /\ match'.paused = match.paused
  /\ match'.since = match.since /\ match'.stood = match.stood /\ match'.stops = match.stops

\* Steps that touch neither keep the invariant.
LEMMA ClockFrame ==
  ASSUME FieldsInv, GameInv, CountInv, ListInv, SameClock, SameGame, match'.net = match.net,
         "rules" \in match.tell => "rules" \in match'.tell,
         match'.phase = "entities" => watch'.cur = match.net,
         match'.phase = "entities" /\ watch.start = 0 /\ TrueTime >= HornTime => "rules" \in match'.tell
  PROVE  FieldsInv' /\ GameInv' /\ CountInv' /\ ListInv'
<1>1. Untold' = Untold /\ Closed' = Closed /\ Lasted' = Lasted /\ Zero' = Zero /\ TrueTime' = TrueTime
  BY DEF SameClock, SameGame, Untold, Closed, Lasted, Zero, TrueTime
<1>2. FieldsInv'
  BY DEF FieldsInv, SameClock, SameGame
<1>3. GameInv'
  BY <1>1 DEF GameInv, SameClock, SameGame
<1>4. CountInv'
  BY <1>1 DEF CountInv, SameClock, SameGame
<1>5. ListInv'
  BY <1>1 DEF ListInv, SameClock, SameGame
<1>6. QED
  BY <1>2, <1>3, <1>4, <1>5

\* The log entries of a packet touch neither.
LEMMA LogKeeps ==
  ASSUME FieldsInv, NEW any \in BOOLEAN, LogPart(any)
  PROVE  /\ SameClock /\ SameGame /\ match'.net = match.net /\ watch'.cur = match.net
         /\ "rules" \in match.tell => "rules" \in match'.tell
         /\ TrueTime >= HornTime /\ watch.start = 0 => "rules" \in match'.tell
<1> DEFINE Same(c) == /\ DOMAIN c = WatchFields
                      /\ c.start = watch.start /\ c.paused = watch.paused /\ c.since = watch.since
                      /\ c.at = watch.at /\ c.total = watch.total /\ c.pauses = watch.pauses
           t == TrueTime
           c == IF any \/ "log" \in match.tell THEN Calibrated(watch, t) ELSE watch
           d == IF "log" \in match.tell THEN DeathLogged(c, t) ELSE c
<1>1. Same(watch)
  BY DEF FieldsInv
<1>2. \A e, x : Same(e) => Same([e EXCEPT !.offset = x]) /\ Same([e EXCEPT !.deaths = x]) /\ Same([e EXCEPT !.cur = x])
  BY DEF WatchFields
<1>3. Same(Calibrated(watch, t))
  <2>1. \A x : Same([watch EXCEPT !.offset = x])
    BY <1>1, <1>2
  <2> HIDE DEF Same, t
  <2>2. QED
    BY <1>1, <2>1, Zenon DEF Calibrated
<1>4. Same(c)
  BY <1>1, <1>3
<1>5. Same(d)
  <2> HIDE DEF c
  <2>1. \A x : Same([c EXCEPT !.deaths = x])
    BY <1>2, <1>4
  <2> HIDE DEF Same, t
  <2>2. Same(DeathLogged(c, t))
    BY <2>1, Zenon DEF DeathLogged
  <2>3. QED
    BY <1>4, <2>2
<1>6. watch' = [d EXCEPT !.cur = match.net]
  BY DEF LogPart
<1> HIDE DEF c, d
<1>7. Same(watch') /\ watch'.cur = match.net
  BY <1>2, <1>5, <1>6 DEF WatchFields
<1>8. SameGame /\ match'.net = match.net /\ ("rules" \in match.tell => "rules" \in match'.tell)
  BY DEF LogPart, SameGame, FieldsInv, MatchFields
<1>9. TrueTime >= HornTime /\ watch.start = 0 => "rules" \in match'.tell
  BY DEF LogPart, FieldsInv, MatchFields
<1>10. QED
  BY <1>7, <1>8, <1>9 DEF SameClock

\* So do the hero's life states.
LEMMA LifeKeeps ==
  ASSUME FieldsInv, LifeTold
  PROVE  /\ SameClock /\ SameGame /\ match'.net = match.net /\ watch'.cur = watch.cur /\ match'.phase = match.phase
         /\ "rules" \in match.tell => "rules" \in match'.tell
<1> DEFINE Same(c) == /\ DOMAIN c = WatchFields
                      /\ c.start = watch.start /\ c.paused = watch.paused /\ c.since = watch.since /\ c.cur = watch.cur
                      /\ c.at = watch.at /\ c.total = watch.total /\ c.pauses = watch.pauses
<1>1. Same(watch)
  BY DEF FieldsInv
<1>2. \A x, y : Same([watch EXCEPT !.open = x, !.openT = y]) /\ Same([watch EXCEPT !.open = x, !.spans = y])
                /\ Same([watch EXCEPT !.open = x])
  BY <1>1 DEF WatchFields
<1>3. \A u : Same(Spanned(watch, u))
  BY <1>2, ZenonT(30) DEF Spanned
<1>4. Same(LifeSeen(watch, match.life))
  BY <1>1, <1>2, <1>3, ZenonT(30) DEF LifeSeen
<1>5. watch' = LifeSeen(watch, match.life)
  BY DEF LifeTold
<1>6. Same(watch')
  BY <1>4, <1>5, Zenon
<1>7. SameGame /\ match'.net = match.net /\ match'.phase = match.phase /\ ("rules" \in match.tell => "rules" \in match'.tell)
  BY DEF LifeTold, SameGame, FieldsInv, MatchFields
<1>8. QED
  BY <1>6, <1>7 DEF SameClock

\* The game pauses: the parser is not told yet.
LEMMA PauseStep ==
  ASSUME FieldsInv, GameInv, CountInv, ListInv, GamePauses
  PROVE  FieldsInv' /\ GameInv' /\ CountInv' /\ ListInv'
<1>1. /\ match.phase = "play" /\ "rules" \notin match.tell /\ match.paused = FALSE /\ watch' = watch
      /\ match' = [match EXCEPT !.paused = TRUE, !.since = match.net]
  BY DEF GamePauses, Happens, FieldsInv
<1>2. /\ DOMAIN match' = MatchFields /\ match'.paused = TRUE /\ match'.since = match.net /\ match'.net = match.net
      /\ match'.stood = match.stood /\ match'.stops = match.stops /\ match'.valve = match.valve /\ match'.phase = match.phase
      /\ match'.tell = match.tell
  BY <1>1 DEF FieldsInv, MatchFields
<1>3. ~Untold /\ ~Untold' /\ watch.paused = FALSE
  BY <1>1, <1>2 DEF Untold, GameInv, FieldsInv
<1>4. Closed' = Closed /\ Lasted' = Lasted /\ Zero' = Zero /\ Lasted = match.stood
  BY <1>1, <1>2, <1>3 DEF Closed, Lasted, Zero
<1>5. FieldsInv'
  BY <1>1, <1>2 DEF FieldsInv
<1>6. GameInv'
  <2>1. match.net \in Nat /\ SeenLate \in Nat /\ match.net - match.net <= SeenLate
    BY ClockAssumption DEF FieldsInv
  <2>2. QED
    BY <1>1, <1>2, <1>3, <1>4, <2>1 DEF GameInv
<1>7. CountInv'
  BY <1>1, <1>2, <1>3, <1>4 DEF CountInv
<1>8. ListInv'
  BY <1>1, <1>2, <1>3, <1>4 DEF ListInv
<1>9. QED
  BY <1>5, <1>6, <1>7, <1>8

\* It resumes: one more stop, of which the parser will be told in this packet.
LEMMA ResumeStep ==
  ASSUME FieldsInv, GameInv, CountInv, ListInv, GameResumes
  PROVE  FieldsInv' /\ GameInv' /\ CountInv' /\ ListInv'
<1> DEFINE stop == [time |-> match.since - match.stood, dur |-> match.net - match.since]
           n == Len(match.stops)
<1>1. /\ match.phase = "play" /\ match.paused = TRUE /\ watch.paused = TRUE /\ watch' = watch
      /\ match' = [match EXCEPT !.paused = FALSE, !.stood = @ + (match.net - match.since), !.tell = @ \cup {"rules"},
                                !.stops = Append(@, stop), !.fresh = FALSE]
  BY DEF GameResumes, Happens, FieldsInv
<1>2. /\ match.since \in Nat /\ match.net \in Nat /\ match.stood \in Nat /\ match.stops \in Seq(Stop) /\ n \in Nat
      /\ stop \in Stop
  BY DEF FieldsInv, Stop
<1>3. /\ DOMAIN match' = MatchFields /\ match'.paused = FALSE /\ match'.since = match.since /\ match'.net = match.net
      /\ match'.stood = match.stood + (match.net - match.since) /\ match'.stops = Append(match.stops, stop)
      /\ match'.valve = match.valve /\ match'.phase = match.phase /\ match'.tell = match.tell \cup {"rules"}
  BY <1>1 DEF FieldsInv, MatchFields
<1>4. ~Untold /\ Untold'
  BY <1>1, <1>3 DEF Untold
<1> HIDE DEF stop
<1>5. /\ match'.stops \in Seq(Stop) /\ Len(match'.stops) = n + 1 /\ match'.stops[n + 1] = stop
      /\ \A i \in 1..n : match'.stops[i] = match.stops[i]
  BY <1>2, <1>3
<1>6. /\ Closed = n /\ Closed' = n /\ Lasted = match.stood /\ Lasted' = match.stood /\ Zero' = Zero
  BY <1>1, <1>2, <1>3, <1>4, <1>5 DEF Closed, Lasted, Zero
<1>7. match.stood < match.since /\ match.since <= match.net /\ match'.stood < match'.net /\ match'.stood \in Nat
  BY <1>1, <1>2, <1>3, <1>6 DEF GameInv
<1>8. FieldsInv'
  BY <1>1, <1>2, <1>3, <1>5, <1>7 DEF FieldsInv
<1>9. GameInv'
  <2>1. match'.stops[Len(match'.stops)] = [time |-> match'.since - Lasted', dur |-> match'.net - match'.since]
    BY <1>3, <1>5, <1>6 DEF stop
  <2>2. Len(match'.stops) > 0 /\ "rules" \in match'.tell
    BY <1>2, <1>3, <1>5
  <2>3. QED
    BY <1>1, <1>2, <1>3, <1>6, <1>7, <2>1, <2>2 DEF GameInv
<1>10. CountInv'
  BY <1>1, <1>3, <1>6 DEF CountInv
<1>11. ListInv'
  BY <1>1, <1>3, <1>5, <1>6 DEF ListInv
<1>12. QED
  BY <1>8, <1>9, <1>10, <1>11

\* A packet later
LEMMA TickStep ==
  ASSUME FieldsInv, GameInv, CountInv, ListInv, NetTick
  PROVE  FieldsInv' /\ GameInv' /\ CountInv' /\ ListInv'
<1>1. /\ match.tell = {} /\ watch' = watch /\ match' = [match EXCEPT !.net = match.net + 1, !.phase = "play"]
      /\ match.paused /\ ~watch.paused => match.net - match.since < SeenLate
  BY DEF NetTick, PacketTold
<1>2. /\ DOMAIN match' = MatchFields /\ match'.paused = match.paused /\ match'.since = match.since
      /\ match'.net = match.net + 1 /\ match'.stood = match.stood /\ match'.stops = match.stops
      /\ match'.valve = match.valve /\ match'.phase = "play" /\ match'.tell = match.tell
  BY <1>1 DEF FieldsInv, MatchFields
<1>3. ~Untold /\ ~Untold'
  BY <1>1, <1>2 DEF GameInv, Untold
<1>4. Closed' = Closed /\ Lasted' = Lasted /\ Zero' = Zero /\ Lasted = match.stood
  BY <1>1, <1>2, <1>3 DEF Closed, Lasted, Zero
<1>5. match.net \in Nat /\ match.since \in Nat /\ match.stood \in Nat /\ SeenLate \in Nat /\ watch.since \in Nat
  BY ClockAssumption DEF FieldsInv
<1>6. FieldsInv'
  BY <1>1, <1>2, <1>5 DEF FieldsInv
<1>7. GameInv'
  BY <1>1, <1>2, <1>3, <1>4, <1>5 DEF GameInv
<1>8. CountInv'
  BY <1>1, <1>2, <1>3, <1>4, <1>5 DEF CountInv
<1>9. ListInv'
  BY <1>1, <1>2, <1>3, <1>4 DEF ListInv
<1>10. QED
  BY <1>6, <1>7, <1>8, <1>9

\* The hero's life and the end of the game are no matter of the clock.
LEMMA OtherSteps ==
  ASSUME FieldsInv, GameInv, CountInv, ListInv, HeroDies \/ HeroIsDead \/ Respawn \/ GameEnds
  PROVE  FieldsInv' /\ GameInv' /\ CountInv' /\ ListInv'
<1>1. /\ match.phase = "play" /\ UNCHANGED watch
      /\ SameGame /\ match'.net = match.net /\ match'.phase = match.phase
      /\ "rules" \in match.tell => "rules" \in match'.tell
  <2> DEFINE Goal == /\ match.phase = "play" /\ UNCHANGED watch
                     /\ SameGame /\ match'.net = match.net /\ match'.phase = match.phase
                     /\ "rules" \in match.tell => "rules" \in match'.tell
  <2>1. CASE HeroDies
    <3>1. \A falls : match' = [match EXCEPT !.life = 1, !.tell = @ \cup {"log", "life"}, !.falls = falls] => Goal
      BY <2>1 DEF HeroDies, Happens, SameGame, FieldsInv, MatchFields
    <3>2. QED
      BY <2>1, <3>1 DEF HeroDies
  <2>2. CASE HeroIsDead
    BY <2>2 DEF HeroIsDead, Happens, SameGame, FieldsInv, MatchFields
  <2>3. CASE Respawn
    BY <2>3 DEF Respawn, Happens, SameGame, FieldsInv, MatchFields
  <2>4. CASE GameEnds
    <3>1. \A t : match' = [match EXCEPT !.over = t, !.tell = @ \cup {"rules"}] => Goal
      BY <2>4 DEF GameEnds, Happens, SameGame, FieldsInv, MatchFields
    <3>2. QED
      BY <2>4, <3>1 DEF GameEnds
  <2>5. QED
    BY <2>1, <2>2, <2>3, <2>4
<1>2. SameClock
  BY <1>1 DEF SameClock, FieldsInv
<1>3. QED
  BY <1>1, <1>2, ClockFrame

\* A record e of the parser that knows the horn when it has sounded, and stamps
\* the pauses, the one that goes on too, on the clock that counts from it.
Rebuilt(e) ==
  LET zero == IF e.start > 0 THEN HornTime ELSE Epoch
  IN  /\ DOMAIN e = WatchFields
      /\ e.cur = watch.cur /\ e.paused = watch.paused /\ e.since = watch.since /\ e.total = watch.total
      /\ e.start \in {0, HornTime} /\ (e.start = 0 => TrueTime < HornTime)
      /\ match.valve =>
           /\ e.pauses \in Seq(Stop) /\ Len(e.pauses) = Closed
           /\ \A i \in 1..Closed : e.pauses[i] = [time |-> match.stops[i].time - zero, dur |-> match.stops[i].dur]
           /\ watch.paused => e.at = match.since - Lasted - zero
           /\ e.start = 0 => /\ \A i \in 1..Closed : match.stops[i].time < HornTime
                             /\ watch.paused => match.since - Lasted < HornTime

\* The numbers that rebasing works on
LEMMA Numbers ==
  ASSUME FieldsInv
  PROVE  /\ match.net \in Nat /\ match.since \in Nat /\ match.stood \in Nat /\ Len(match.stops) \in Nat
         /\ Closed \in Int /\ Lasted \in Int /\ TrueTime \in Int /\ HornTime \in Nat \ {0}
         /\ Epoch \in Nat /\ Band \in Nat /\ SeenLate \in Nat /\ watch.since \in Nat /\ watch.total \in Nat
         /\ \A i \in 1..Len(match.stops) : match.stops[i].time \in Int /\ match.stops[i].dur \in Int
         /\ Closed <= Len(match.stops)
<1>1. /\ match.net \in Nat /\ match.since \in Nat /\ match.stood \in Nat /\ match.stops \in Seq(Stop)
      /\ watch.since \in Nat /\ watch.total \in Nat
  BY DEF FieldsInv
<1>2. Len(match.stops) \in Nat /\ \A i \in 1..Len(match.stops) : match.stops[i] \in Stop
  <2> HIDE DEF Stop
  <2>1. QED
    BY <1>1
<1>3. \A i \in 1..Len(match.stops) : match.stops[i].time \in Int /\ match.stops[i].dur \in Int
  BY <1>2 DEF Stop
<1>4. Closed \in Int /\ Closed <= Len(match.stops)
  BY <1>2 DEF Closed
<1>5. Lasted \in Int /\ TrueTime \in Int
  BY <1>1 DEF Lasted, TrueTime
<1>6. QED
  BY <1>1, <1>2, <1>3, <1>4, <1>5, ClockAssumption

\* The first start time moves what was parked, and only that, onto the clock.
LEMMA HornRebases ==
  ASSUME FieldsInv, ListInv, TrueTime >= HornTime
  PROVE  Rebuilt(HornKnown(watch, HornTime))
<1> DEFINE h == HornKnown(watch, HornTime)
<1>0. DOMAIN watch = WatchFields /\ watch.start \in {0, HornTime} /\ HornTime > 0 /\ TrueTime \in Int
  BY Numbers DEF FieldsInv
<1>1. CASE watch.start > 0
  <2>1. h = watch
    BY <1>1 DEF HornKnown
  <2>2. QED
    BY <1>0, <1>1, <2>1 DEF Rebuilt, ListInv, Zero
<1>2. CASE ~(watch.start > 0)
  <2> DEFINE move(t) == Rebased(t, Epoch - HornTime)
             all(s) == [i \in DOMAIN s |-> [s[i] EXCEPT !.time = move(@)]]
             at == move(watch.at)
             pauses == all(watch.pauses)
             deaths == all(watch.deaths)
  <2>1. h = [watch EXCEPT !.start = HornTime, !.at = at, !.pauses = pauses, !.deaths = deaths]
    BY <1>2 DEF HornKnown
  <2> HIDE DEF at, pauses, deaths
  <2>2. /\ DOMAIN h = WatchFields /\ h.start = HornTime /\ h.at = at /\ h.pauses = pauses
        /\ h.cur = watch.cur /\ h.paused = watch.paused /\ h.since = watch.since /\ h.total = watch.total
    BY <1>0, <2>1 DEF WatchFields
  <2> HIDE DEF h
  <2>3. watch.start = 0 /\ Zero = Epoch
    BY <1>0, <1>2 DEF Zero
  <2>4. \A t \in Int : t < HornTime => Rebased(t - Epoch, Epoch - HornTime) = t - HornTime
    BY ClockAssumption DEF Rebased
  <2>5. ASSUME match.valve
        PROVE  /\ pauses \in Seq(Stop) /\ Len(pauses) = Closed
               /\ \A i \in 1..Closed : pauses[i] = [time |-> match.stops[i].time - HornTime, dur |-> match.stops[i].dur]
               /\ watch.paused => at = match.since - Lasted - HornTime
    <3>1. /\ watch.pauses \in Seq(Stop) /\ Len(watch.pauses) = Closed
          /\ \A i \in 1..Closed : watch.pauses[i] = [time |-> match.stops[i].time - Epoch, dur |-> match.stops[i].dur]
          /\ watch.paused => watch.at = match.since - Lasted - Epoch
          /\ \A i \in 1..Closed : match.stops[i].time < HornTime
          /\ watch.paused => match.since - Lasted < HornTime
      BY <2>3, <2>5 DEF ListInv
    <3>2. DOMAIN watch.pauses = 1..Closed /\ Closed \in Nat
      <4> HIDE DEF Stop
      <4>1. QED
        BY <3>1
    <3>3. ASSUME NEW i \in 1..Closed
          PROVE  pauses[i] = [time |-> match.stops[i].time - HornTime, dur |-> match.stops[i].dur]
      <4> DEFINE t == match.stops[i].time
                 d == match.stops[i].dur
      <4>1. t \in Int /\ t < HornTime /\ watch.pauses[i] = [time |-> t - Epoch, dur |-> d]
        BY <3>1, Numbers, SMTT(30)
      <4>2. pauses[i] = [watch.pauses[i] EXCEPT !.time = move(@)]
        BY <3>2 DEF pauses
      <4> HIDE DEF t, d
      <4>3. pauses[i] = [time |-> move(t - Epoch), dur |-> d]
        BY <4>1, <4>2
      <4>4. move(t - Epoch) = t - HornTime
        BY <2>4, <4>1
      <4>5. QED
        BY <4>3, <4>4 DEF t, d
    <3>4. \A i \in 1..Closed : pauses[i] \in Stop
      <4> SUFFICES ASSUME NEW i \in 1..Closed PROVE pauses[i] \in Stop
        OBVIOUS
      <4>1. /\ match.stops[i].time - HornTime \in Int /\ match.stops[i].dur \in Int
            /\ pauses[i] = [time |-> match.stops[i].time - HornTime, dur |-> match.stops[i].dur]
        <5>1. i \in 1..Len(match.stops) /\ HornTime \in Int
          BY <3>2, Numbers
        <5>2. match.stops[i].time \in Int /\ match.stops[i].dur \in Int
          BY <5>1, Numbers, Zenon
        <5>3. pauses[i] = [time |-> match.stops[i].time - HornTime, dur |-> match.stops[i].dur]
          BY <3>3, Zenon
        <5>4. match.stops[i].time - HornTime \in Int
          BY <5>1, <5>2
        <5>5. QED
          BY <5>2, <5>3, <5>4
      <4>2. QED
        BY <4>1 DEF Stop
    <3>5. DOMAIN pauses = 1..Closed /\ pauses = [i \in 1..Closed |-> pauses[i]]
      BY <3>2 DEF pauses
    <3>6. pauses \in Seq(Stop) /\ Len(pauses) = Closed
      <4> HIDE DEF Stop
      <4>1. QED
        BY <3>2, <3>4, <3>5
    <3>7. watch.paused => at = match.since - Lasted - HornTime
      <4>1. match.since - Lasted \in Int
        BY Numbers
      <4>2. QED
        BY <2>4, <3>1, <4>1 DEF at
    <3>8. QED
      BY <3>3, <3>6, <3>7
  <2>6. h.start > 0 /\ h.start # 0
    BY <1>0, <2>2
  <2>7. Rebuilt(h)
    BY <1>0, <2>2, <2>5, <2>6 DEF Rebuilt
  <2>8. QED
    BY <2>7 DEF h
<1>3. QED
  BY <1>1, <1>2

\* The rules as the parser reads them before it looks for an edge
LEMMA RulesRebuild ==
  ASSUME FieldsInv, ListInv, NEW flag \in BOOLEAN, RulesTold(flag)
  PROVE  \E e : Rebuilt(e) /\ watch' = PauseSeen(e, flag, match)
<1> DEFINE c == IF TrueTime >= HornTime THEN HornKnown(watch, HornTime) ELSE watch
           e == IF match.over # -1 THEN [c EXCEPT !.end = match.over] ELSE c
<1>1. watch' = PauseSeen(e, flag, match)
  BY DEF RulesTold
<1>2. Rebuilt(c)
  <2>1. CASE TrueTime >= HornTime
    BY <2>1, HornRebases
  <2>2. CASE ~(TrueTime >= HornTime)
    <3>1. TrueTime < HornTime
      BY <2>2, Numbers
    <3>2. Rebuilt(watch)
      BY <3>1 DEF Rebuilt, FieldsInv, ListInv, Zero
    <3>3. QED
      BY <2>2, <3>2
  <2>3. QED
    BY <2>1, <2>2
<1> HIDE DEF c
<1>3. \A x : Rebuilt([c EXCEPT !.end = x])
  <2> TAKE x
  <2> DEFINE f == [c EXCEPT !.end = x]
  <2>1. DOMAIN c = WatchFields
    BY <1>2 DEF Rebuilt
  <2>2. /\ DOMAIN f = WatchFields /\ f.cur = c.cur /\ f.paused = c.paused /\ f.since = c.since /\ f.total = c.total
        /\ f.start = c.start /\ f.pauses = c.pauses /\ f.at = c.at
    BY <2>1 DEF WatchFields
  <2> HIDE DEF f
  <2>3. Rebuilt(f)
    BY <1>2, <2>2 DEF Rebuilt
  <2>4. QED
    BY <2>3 DEF f
<1>4. Rebuilt(e)
  BY <1>2, <1>3
<1>5. QED
  BY <1>1, <1>4

\* What one stop adds, and how late its flag came, in numbers
LEMMA Adding ==
  ASSUME NEW net \in Nat, NEW since \in Nat, NEW stood \in Nat, NEW counted \in Nat, NEW seen \in Nat, NEW lag \in Nat,
         since <= net, since <= seen, seen <= since + lag, seen <= net, counted <= stood - (net - since)
  PROVE  /\ counted + (net - seen) \in Nat /\ counted + (net - seen) <= stood
         /\ stood - (counted + (net - seen)) <= (stood - (net - since) - counted) + lag
         /\ stood - stood <= (stood - (net - since) - counted) + lag
OBVIOUS

\* Multiples of the flags' delay
LEMMA Multiples ==
  ASSUME NEW a \in Nat, NEW n \in Int
  PROVE  a * n = a * (n - 1) + a /\ a * (n + 1) = a * n + a /\ a * (n - 1) \in Int /\ a * n \in Int
OBVIOUS

\* A bound carried over a sum
LEMMA Bounded ==
  ASSUME NEW a \in Int, NEW b \in Int, NEW c \in Int, NEW p \in Int, a <= b + c, b <= p
  PROVE  a <= p + c
OBVIOUS

\* What the rules say to a record that knows the horn: nothing, or an edge.
LEMMA RulesStep ==
  ASSUME FieldsInv, GameInv, CountInv, ListInv, NEW flag \in BOOLEAN, RulesTold(flag)
  PROVE  FieldsInv' /\ GameInv' /\ CountInv' /\ ListInv'
<1> DEFINE zero(e) == IF e.start > 0 THEN HornTime ELSE Epoch
<1>1. PICK e : Rebuilt(e) /\ watch' = PauseSeen(e, flag, match)
  BY RulesRebuild
<1>2. /\ DOMAIN e = WatchFields
      /\ e.cur = watch.cur /\ e.paused = watch.paused /\ e.since = watch.since /\ e.total = watch.total
      /\ e.start \in {0, HornTime} /\ (e.start = 0 => TrueTime < HornTime)
      /\ watch.paused \in BOOLEAN /\ match.paused \in BOOLEAN /\ match.valve \in BOOLEAN
  BY <1>1 DEF Rebuilt, FieldsInv
<1>3. match.valve =>
           /\ e.pauses \in Seq(Stop) /\ Len(e.pauses) = Closed
           /\ \A i \in 1..Closed : e.pauses[i] = [time |-> match.stops[i].time - zero(e), dur |-> match.stops[i].dur]
           /\ watch.paused => e.at = match.since - Lasted - zero(e)
           /\ e.start = 0 => /\ \A i \in 1..Closed : match.stops[i].time < HornTime
                             /\ watch.paused => match.since - Lasted < HornTime
  BY <1>1 DEF Rebuilt
<1>4. /\ match.phase = "entities" /\ (flag => match.paused) /\ (watch.paused /\ match.paused => flag)
      /\ match' = [match EXCEPT !.tell = @ \ {"rules"}]
      /\ watch.cur = match.net
  BY DEF RulesTold, GameInv
<1>5. /\ DOMAIN match' = MatchFields /\ match'.paused = match.paused /\ match'.since = match.since /\ match'.net = match.net
      /\ match'.stood = match.stood /\ match'.stops = match.stops /\ match'.valve = match.valve
      /\ match'.phase = match.phase
  BY <1>4 DEF FieldsInv, MatchFields
<1>6. TrueTime' = TrueTime
  BY <1>5 DEF TrueTime
<1>7. CASE flag /\ ~watch.paused
  <2> DEFINE from == IF match.valve THEN match.since ELSE match.net
             at == ActualGameSeconds(e, from - e.total)
  <2>1. watch' = [e EXCEPT !.paused = TRUE, !.since = from, !.at = at]
    BY <1>1, <1>2, <1>7 DEF PauseSeen
  <2> HIDE DEF from, at
  <2>2. /\ DOMAIN watch' = WatchFields /\ watch'.paused = TRUE /\ watch'.since = from /\ watch'.at = at
        /\ watch'.cur = e.cur /\ watch'.start = e.start /\ watch'.total = e.total /\ watch'.pauses = e.pauses
    BY <1>2, <2>1 DEF WatchFields
  <2>3. match.paused = TRUE /\ watch.paused = FALSE
    BY <1>2, <1>4, <1>7
  <2>4. ~Untold /\ ~Untold'
    BY <1>5, <2>3 DEF Untold
  <2>5. /\ Closed' = Closed /\ Lasted' = Lasted /\ Lasted = match.stood /\ Closed = Len(match.stops) /\ Zero' = zero(e)
    BY <1>5, <2>2, <2>4 DEF Closed, Lasted, Zero
  <2>6. /\ Lasted < match.since /\ match.since <= match.net /\ match.net - match.since <= SeenLate
        /\ match.valve => from = match.since
        /\ ~match.valve => from = match.net
    BY <2>3 DEF GameInv, from
  <2>7. from \in Nat /\ from >= match.since /\ from <= match.since + SeenLate /\ from <= match.net
    BY <1>2, <2>6, Numbers
  <2>8. FieldsInv'
    BY <1>2, <1>5, <2>2, <2>3, <2>7 DEF FieldsInv
  <2>9. GameInv'
    <3>1. match'.phase = "entities" => watch'.cur = match'.net
      BY <1>2, <1>4, <1>5, <2>2
    <3>2. ~(watch'.start = 0 /\ TrueTime' >= HornTime)
      BY <1>2, <1>6, <2>2, Numbers
    <3>3. QED
      BY <1>5, <2>2, <2>3, <2>4, <2>5, <2>6, <3>1, <3>2 DEF GameInv
  <2>10. CountInv'
    BY <1>2, <1>5, <2>2, <2>5, <2>6, <2>7 DEF CountInv
  <2>11. ListInv'
    <3> SUFFICES ASSUME match.valve PROVE ListInv'
      BY <1>5 DEF ListInv
    <3>1. e.total = Lasted /\ from = match.since
      BY <1>2, <2>6 DEF CountInv
    <3>2. at = match.since - Lasted - zero(e)
      <4>0. from \in Int /\ Lasted \in Int /\ match.since - Lasted = from - e.total
        BY <2>7, <3>1, Numbers
      <4>1. at = (from - e.total) - (IF e.start > 0 THEN e.start ELSE Epoch)
        BY DEF at, ActualGameSeconds
      <4>2. (IF e.start > 0 THEN e.start ELSE Epoch) = zero(e)
        BY <1>2, Numbers
      <4>3. QED
        BY <4>0, <4>1, <4>2
    <3>3. e.start = 0 => match.since - Lasted < HornTime
      <4>1. TrueTime = match.since - match.stood
        BY <2>3, Numbers DEF TrueTime
      <4>2. QED
        BY <1>2, <2>5, <4>1
    <3>4. QED
      BY <1>2, <1>3, <1>5, <2>2, <2>5, <3>2, <3>3 DEF ListInv
  <2>12. QED
    BY <2>8, <2>9, <2>10, <2>11
<1>8. CASE ~flag /\ watch.paused
  <2> DEFINE pause == [time |-> e.at, dur |-> match.net - e.since]
             pauses == Append(e.pauses, pause)
             total == IF match.valve THEN match.stood ELSE e.total + (match.net - e.since)
             n == Len(match.stops)
  <2>1. watch' = [e EXCEPT !.paused = FALSE, !.pauses = pauses, !.total = total]
    BY <1>1, <1>2, <1>8 DEF PauseSeen
  <2> HIDE DEF pauses, total, pause
  <2>2. /\ DOMAIN watch' = WatchFields /\ watch'.paused = FALSE /\ watch'.since = e.since /\ watch'.at = e.at
        /\ watch'.cur = e.cur /\ watch'.start = e.start /\ watch'.total = total /\ watch'.pauses = pauses
    BY <1>2, <2>1 DEF WatchFields
  <2>3. match.paused = FALSE /\ watch.paused = TRUE
    BY <1>2, <1>4, <1>8
  <2>4. Untold /\ ~Untold'
    BY <1>5, <2>2, <2>3 DEF Untold
  <2>5. /\ Closed' = n /\ Closed = n - 1 /\ Lasted' = match.stood /\ Zero' = zero(e) /\ n \in Nat /\ n > 0
        /\ Lasted = match.stood - (match.net - match.since)
        /\ match.stops[n] = [time |-> match.since - Lasted, dur |-> match.net - match.since]
    BY <1>5, <2>2, <2>4, Numbers DEF Closed, Lasted, Zero, GameInv
  <2>6. /\ match.since <= match.net /\ match.stood < match.net
        /\ e.since >= match.since /\ e.since <= match.since + SeenLate /\ e.since <= match.net
        /\ e.total <= Lasted /\ Lasted - e.total <= SeenLate * Closed
        /\ match.valve => e.total = Lasted /\ e.since = match.since
    BY <1>2, <2>3 DEF GameInv, CountInv
  <2>7. /\ total \in Nat /\ total <= match.stood /\ (match.valve => total = match.stood)
        /\ match.stood - total <= (Lasted - e.total) + SeenLate
    <3>1. /\ e.total \in Nat /\ e.since \in Nat /\ match.net \in Nat /\ match.since \in Nat /\ match.stood \in Nat
          /\ SeenLate \in Nat /\ e.total <= match.stood - (match.net - match.since)
      BY <1>2, <2>5, <2>6, Numbers
    <3>2. /\ e.total + (match.net - e.since) \in Nat /\ e.total + (match.net - e.since) <= match.stood
          /\ match.stood - (e.total + (match.net - e.since)) <= (Lasted - e.total) + SeenLate
          /\ match.stood - match.stood <= (Lasted - e.total) + SeenLate
      BY <2>5, <2>6, <3>1, Adding
    <3>3. match.stood <= match.stood
      BY <3>1
    <3>4. total = IF match.valve THEN match.stood ELSE e.total + (match.net - e.since)
      BY DEF total
    <3>5. QED
      BY <3>1, <3>2, <3>3, <3>4
  <2>8. FieldsInv'
    BY <1>2, <1>5, <2>2, <2>7 DEF FieldsInv
  <2>9. GameInv'
    <3>1. match'.phase = "entities" => watch'.cur = match'.net
      BY <1>2, <1>4, <1>5, <2>2
    <3>2. ~(watch'.start = 0 /\ TrueTime' >= HornTime)
      BY <1>2, <1>6, <2>2, Numbers
    <3>3. QED
      BY <1>5, <2>2, <2>3, <2>4, <2>5, <2>6, <3>1, <3>2 DEF GameInv
  <2>10. CountInv'
    <3>1. match.stood - total <= SeenLate * n
      <4> DEFINE p == SeenLate * (n - 1)
      <4>1. SeenLate * n = p + SeenLate /\ p \in Int /\ SeenLate * n \in Int /\ SeenLate \in Int
        <5>1. SeenLate \in Nat /\ n \in Int
          BY <2>5, Numbers
        <5>2. QED
          BY <5>1, Multiples
      <4>2. Lasted - e.total <= p
        BY <2>5, <2>6
      <4> HIDE DEF p
      <4>3. QED
        <5>1. match.stood - total \in Int /\ Lasted - e.total \in Int
          <6>1. match.stood \in Nat /\ Lasted \in Int /\ watch.total \in Nat
            BY Numbers
          <6>2. total \in Nat /\ e.total \in Nat
            BY <1>2, <2>7, <6>1
          <6>3. QED
            BY <6>1, <6>2
        <5>2. match.stood - total <= p + SeenLate
          BY <2>7, <4>1, <4>2, <5>1, Bounded
        <5>3. QED
          BY <4>1, <5>2
    <3>2. QED
      BY <1>5, <2>2, <2>5, <2>7, <3>1 DEF CountInv
  <2>11. ListInv'
    <3> SUFFICES ASSUME match.valve PROVE ListInv'
      BY <1>5 DEF ListInv
    <3>1. /\ e.pauses \in Seq(Stop) /\ Len(e.pauses) = n - 1
          /\ \A i \in 1..(n - 1) : e.pauses[i] = [time |-> match.stops[i].time - zero(e), dur |-> match.stops[i].dur]
          /\ e.at = match.since - Lasted - zero(e)
          /\ e.start = 0 => /\ \A i \in 1..(n - 1) : match.stops[i].time < HornTime
                            /\ match.since - Lasted < HornTime
      BY <1>3, <2>3, <2>5
    <3>2. pause = [time |-> match.stops[n].time - zero(e), dur |-> match.stops[n].dur] /\ match.stops[n].time = match.since - Lasted
      BY <2>5, <2>6, <3>1 DEF pause
    <3>3. pause \in Stop
      <4>0. zero(e) \in Int /\ match.since \in Int /\ Lasted \in Int /\ match.net \in Int /\ e.since \in Int
        BY <1>2, Numbers
      <4>1. e.at \in Int /\ match.net - e.since \in Int
        BY <3>1, <4>0
      <4>2. QED
        BY <4>1 DEF pause, Stop
    <3>4. /\ pauses \in Seq(Stop) /\ Len(pauses) = n /\ pauses[n] = pause
          /\ \A i \in 1..(n - 1) : pauses[i] = e.pauses[i]
      <4> HIDE DEF Stop
      <4>1. QED
        BY <2>5, <3>1, <3>3 DEF pauses
    <3>5. \A i \in 1..n : pauses[i] = [time |-> match.stops[i].time - zero(e), dur |-> match.stops[i].dur]
      <4> SUFFICES ASSUME NEW i \in 1..n
                   PROVE pauses[i] = [time |-> match.stops[i].time - zero(e), dur |-> match.stops[i].dur]
        OBVIOUS
      <4>1. CASE i = n
        BY <3>2, <3>4, <4>1
      <4>2. CASE i \in 1..(n - 1)
        BY <3>1, <3>4, <4>2
      <4>3. QED
        BY <2>5, <4>1, <4>2
    <3>6. e.start = 0 => \A i \in 1..n : match.stops[i].time < HornTime
      <4> SUFFICES ASSUME e.start = 0, NEW i \in 1..n PROVE match.stops[i].time < HornTime
        OBVIOUS
      <4>1. CASE i = n
        BY <3>1, <3>2, <4>1
      <4>2. CASE i \in 1..(n - 1)
        BY <3>1, <4>2
      <4>3. QED
        BY <2>5, <4>1, <4>2
    <3>7. QED
      BY <1>5, <2>2, <2>5, <3>4, <3>5, <3>6 DEF ListInv
  <2>12. QED
    BY <2>8, <2>9, <2>10, <2>11
<1>9. CASE flag = watch.paused
  <2>1. watch' = e
    BY <1>1, <1>2, <1>9 DEF PauseSeen
  <2>2. Untold' = Untold /\ ~Untold
    BY <1>2, <1>4, <1>5, <1>9, <2>1 DEF Untold
  <2>3. /\ Closed' = Closed /\ Lasted' = Lasted /\ Zero' = zero(e)
    BY <1>5, <2>1, <2>2 DEF Closed, Lasted, Zero
  <2>4. FieldsInv'
    BY <1>2, <1>5, <2>1 DEF FieldsInv
  <2>5. GameInv'
    <3>1. match'.phase = "entities" => watch'.cur = match'.net
      BY <1>2, <1>4, <1>5, <2>1
    <3>2. ~(watch'.start = 0 /\ TrueTime' >= HornTime)
      BY <1>2, <1>6, <2>1, Numbers
    <3>3. QED
      BY <1>2, <1>5, <2>1, <2>2, <2>3, <3>1, <3>2 DEF GameInv
  <2>6. CountInv'
    BY <1>2, <1>5, <2>1, <2>3 DEF CountInv
  <2>7. ListInv'
    BY <1>2, <1>3, <1>5, <2>1, <2>3 DEF ListInv
  <2>8. QED
    BY <2>4, <2>5, <2>6, <2>7
<1>10. QED
  BY <1>2, <1>7, <1>8, <1>9

\* Every step of the replay keeps the invariant of the clock.
LEMMA ClockInvNext ==
  ASSUME ClockInv, ClockNext
  PROVE  ClockInv'
<1> SUFFICES ASSUME match.phase # "end", match'.phase # "end"
             PROVE  FieldsInv' /\ GameInv' /\ CountInv' /\ ListInv'
  BY DEF ClockInv, ClockNext, GamePauses, GameResumes, HeroDies, HeroIsDead, Respawn, GameEnds, Happens, LogPart, RulesTold, LifeTold, NetTick, PacketTold, ClockEnd
<1>1. FieldsInv /\ GameInv /\ CountInv /\ ListInv
  BY DEF ClockInv
<1>2. CASE GamePauses
  BY <1>1, <1>2, PauseStep
<1>3. CASE GameResumes
  BY <1>1, <1>3, ResumeStep
<1>4. CASE HeroDies \/ HeroIsDead \/ Respawn \/ GameEnds
  BY <1>1, <1>4, OtherSteps
<1>5. ASSUME NEW any \in BOOLEAN, LogPart(any) PROVE FieldsInv' /\ GameInv' /\ CountInv' /\ ListInv'
  <2>1. /\ SameClock /\ SameGame /\ match'.net = match.net /\ watch'.cur = match.net
        /\ "rules" \in match.tell => "rules" \in match'.tell
        /\ TrueTime >= HornTime /\ watch.start = 0 => "rules" \in match'.tell
    BY <1>1, <1>5, LogKeeps
  <2>2. QED
    BY <1>1, <2>1, ClockFrame
<1>6. ASSUME NEW flag \in BOOLEAN, RulesTold(flag) PROVE FieldsInv' /\ GameInv' /\ CountInv' /\ ListInv'
  BY <1>1, <1>6, RulesStep
<1>7. CASE LifeTold
  <2>1. /\ SameClock /\ SameGame /\ match'.net = match.net /\ watch'.cur = watch.cur /\ match'.phase = match.phase
        /\ "rules" \in match.tell => "rules" \in match'.tell
    BY <1>1, <1>7, LifeKeeps
  <2>2. /\ match.phase = "entities" => watch.cur = match.net
        /\ match.phase = "entities" /\ watch.start = 0 /\ TrueTime >= HornTime => "rules" \in match.tell
    BY <1>1 DEF GameInv
  <2>3. QED
    BY <1>1, <2>1, <2>2, ClockFrame
<1>8. CASE NetTick
  BY <1>1, <1>8, TickStep
<1>9. CASE ClockEnd
  <2>1. match' = [match EXCEPT !.phase = "end"]
    BY <1>9 DEF ClockEnd
  <2>2. match'.phase = "end"
    BY <1>1, <2>1 DEF FieldsInv, MatchFields
  <2>3. QED
    BY <2>2
<1>10. QED
  BY <1>2, <1>3, <1>4, <1>5, <1>6, <1>7, <1>8, <1>9 DEF ClockNext

\* With the game's horn known, the list is that of the stops.
LEMMA ListIs ==
  ASSUME FieldsInv, ListInv, match.valve, watch.start > 0, ~Untold
  PROVE  watch.pauses = [i \in 1..Len(match.stops) |-> [match.stops[i] EXCEPT !.time = @ - HornTime]]
<1> DEFINE n == Len(match.stops)
<1>1. /\ watch.pauses \in Seq(Stop) /\ Len(watch.pauses) = n
      /\ \A i \in 1..n : watch.pauses[i] = [time |-> match.stops[i].time - HornTime, dur |-> match.stops[i].dur]
      /\ match.stops \in Seq(Stop) /\ n \in Nat
  BY DEF ListInv, Closed, Zero, FieldsInv
<1>2. ASSUME NEW i \in 1..n PROVE watch.pauses[i] = [match.stops[i] EXCEPT !.time = @ - HornTime]
  <2> DEFINE s == match.stops[i]
  <2>1. s \in Stop
    <3> HIDE DEF Stop
    <3>1. QED
      BY <1>1
  <2>2. watch.pauses[i] = [time |-> s.time - HornTime, dur |-> s.dur]
    BY <1>1
  <2> HIDE DEF s
  <2>3. watch.pauses[i] = [s EXCEPT !.time = s.time - HornTime]
    BY <2>1, <2>2 DEF Stop
  <2>4. QED
    BY <2>3 DEF s
<1>3. watch.pauses = [i \in 1..n |-> watch.pauses[i]]
  <2> HIDE DEF Stop
  <2>1. QED
    BY <1>1
<1>4. QED
  BY <1>2, <1>3

\* The invariant says what the property asks for.
LEMMA ClockInvFollows == ClockInv => ClockFollowsTheGame
<1> DEFINE ahead == GameTime(watch) - TrueTime
           n == Len(match.stops)
<1> SUFFICES ASSUME ClockInv, PacketTold, match.paused = watch.paused
             PROVE  IF match.valve
                    THEN /\ ahead = 0
                         /\ watch.start > 0 =>
                              watch.pauses = [i \in 1..n |-> [match.stops[i] EXCEPT !.time = @ - HornTime]]
                    ELSE ahead \in 0..(SeenLate * (n + (IF match.paused THEN 1 ELSE 0)))
  BY DEF ClockFollowsTheGame
<1>1. FieldsInv /\ GameInv /\ CountInv /\ ListInv /\ match.phase = "entities"
  BY DEF ClockInv, PacketTold
<1>2. /\ ~Untold /\ watch.cur = match.net /\ Closed = n /\ Lasted = match.stood
      /\ match.paused \in BOOLEAN /\ match.valve \in BOOLEAN
  BY <1>1 DEF Untold, GameInv, Closed, Lasted, FieldsInv
<1>3. /\ match.net \in Nat /\ match.since \in Nat /\ match.stood \in Nat /\ n \in Nat /\ SeenLate \in Nat
      /\ watch.since \in Nat /\ watch.total \in Nat
  BY <1>1, Numbers
<1>4. watch.total <= match.stood /\ match.stood < match.net
  BY <1>1, <1>2 DEF GameInv, CountInv
<1>list. match.valve /\ watch.start > 0 => watch.pauses = [i \in 1..n |-> [match.stops[i] EXCEPT !.time = @ - HornTime]]
  BY <1>1, <1>2, ListIs
<1>5. CASE ~match.paused
  <2>1. ahead = match.stood - watch.total
    BY <1>2, <1>3, <1>4, <1>5 DEF GameTime, TrueTime
  <2>2. match.stood - watch.total <= SeenLate * n /\ (match.valve => match.stood = watch.total)
    BY <1>1, <1>2 DEF CountInv
  <2>3. n + 0 = n /\ SeenLate * n \in Int
    BY <1>3
  <2> HIDE DEF ahead
  <2>4. match.valve => ahead = 0
    BY <1>3, <2>1, <2>2
  <2>5. ~match.valve => ahead \in 0..(SeenLate * n)
    BY <1>3, <1>4, <2>1, <2>2, <2>3
  <2>6. QED
    BY <1>5, <2>3, <2>4, <2>5, <1>list
<1>6. CASE match.paused
  <2>1. /\ match.stood < match.since /\ watch.since >= match.since /\ watch.since <= match.since + SeenLate
        /\ watch.since <= match.net
    BY <1>1, <1>2, <1>6 DEF GameInv, CountInv
  <2>2. ahead = (watch.since - match.since) + (match.stood - watch.total)
    <3>1. TrueTime = match.since - match.stood
      BY <1>3, <1>6 DEF TrueTime
    <3>2. watch.paused /\ watch.since > 0
      BY <1>2, <1>3, <1>6, <2>1
    <3>3. (IF watch.paused /\ watch.since > 0 /\ watch.since < watch.cur THEN watch.since ELSE watch.cur) = watch.since
      BY <1>2, <1>3, <2>1, <3>2
    <3>4. watch.since > watch.total
      BY <1>3, <1>4, <2>1
    <3>5. GameTime(watch) = watch.since - watch.total
      BY <3>3, <3>4 DEF GameTime
    <3>6. QED
      BY <1>3, <3>1, <3>5
  <2>3. /\ match.stood - watch.total <= SeenLate * n
        /\ match.valve => match.stood = watch.total /\ watch.since = match.since
    BY <1>1, <1>2, <1>6 DEF CountInv
  <2>4. SeenLate * (n + 1) = SeenLate * n + SeenLate /\ SeenLate * n \in Int /\ SeenLate * (n + 1) \in Int
    BY <1>3
  <2> HIDE DEF ahead
  <2>5. match.valve => ahead = 0
    BY <1>3, <2>2, <2>3
  <2>6. ~match.valve => ahead \in 0..(SeenLate * (n + 1))
    <3> DEFINE a == watch.since - match.since
               b == match.stood - watch.total
               p == SeenLate * n
               q == SeenLate * (n + 1)
    <3>1. a \in Int /\ b \in Int /\ p \in Int /\ q \in Int /\ q = p + SeenLate /\ 0 <= a /\ 0 <= b
          /\ a <= SeenLate /\ b <= p /\ ahead = a + b
      BY <1>3, <1>4, <2>1, <2>2, <2>3, <2>4
    <3> HIDE DEF a, b, p, q
    <3>2. ahead \in 0..q
      BY <1>3, <3>1
    <3>3. QED
      BY <3>2 DEF q
  <2>7. QED
    BY <1>6, <2>5, <2>6, <1>list
<1>7. QED
  BY <1>2, <1>5, <1>6

\* However often and long the game is paused, and however late the flags come,
\* the parser's clock is the game's where the replay carries Valve's ticks, with
\* the pauses listed as they were, and ahead by at most the delays where it does not.
THEOREM ClockIsTheGames == Spec => []ClockFollowsTheGame
<1>1. Init => ClockInv
  BY ClockInvInit DEF Init
<1>2. ClockInv /\ [Next]_parserVars => ClockInv'
  <2> SUFFICES ASSUME ClockInv, [Next]_parserVars PROVE ClockInv'
    OBVIOUS
  <2>1. CASE ClockNext
    BY <2>1, ClockInvNext
  <2>2. CASE UNCHANGED <<match, watch>>
    BY <2>2 DEF ClockInv, FieldsInv, GameInv, CountInv, ListInv, Untold, Closed, Lasted, Zero, TrueTime
  <2>3. QED
    BY <2>1, <2>2 DEF Next, parserVars
<1>3. QED
  BY <1>1, <1>2, ClockInvFollows, PTL DEF Spec

-----------------------------------------------------------------------------
(***************************************************************************)
(* Counting in sequences                                                   *)
(***************************************************************************)
\* How many entries of s are in V
N(s, V) == Cardinality({k \in 1..Len(s) : s[k] \in V})

\* A count is a natural number.
LEMMA NNat == \A E : \A s \in Seq(E) : \A V : N(s, V) \in Nat
<1> SUFFICES ASSUME NEW E, NEW s \in Seq(E), NEW V PROVE N(s, V) \in Nat
  OBVIOUS
<1>1. IsFiniteSet(1..Len(s))
  BY FS_Interval
<1>2. QED
  BY <1>1, FS_Subset, FS_CardinalityType DEF N

\* Nothing is counted in an empty sequence.
LEMMA NEmpty == \A V : N(<<>>, V) = 0
<1>1. \A V : {k \in 1..Len(<<>>) : <<>>[k] \in V} = {}
  OBVIOUS
<1>2. QED
  BY <1>1, FS_EmptySet DEF N

\* An appended entry counts if it is one of those counted.
LEMMA NAppend ==
  ASSUME NEW E, NEW s \in Seq(E), NEW x \in E, NEW V
  PROVE  N(Append(s, x), V) = N(s, V) + (IF x \in V THEN 1 ELSE 0)
<1> DEFINE A == {k \in 1..Len(s) : s[k] \in V}
           B == {k \in 1..Len(Append(s, x)) : Append(s, x)[k] \in V}
           n == Len(s)
<1>1. n \in Nat /\ Len(Append(s, x)) = n + 1 /\ Append(s, x)[n + 1] = x /\ \A k \in 1..n : Append(s, x)[k] = s[k]
  OBVIOUS
<1>2. B = IF x \in V THEN A \cup {n + 1} ELSE A
  <2>1. \A k : k \in 1..(n + 1) <=> k \in 1..n \/ k = n + 1
    BY <1>1
  <2>2. QED
    BY <1>1, <2>1
<1>3. n + 1 \notin A
  BY <1>1
<1>4. IsFiniteSet(A)
  <2>1. IsFiniteSet(1..n) /\ A \subseteq 1..n
    BY <1>1, FS_Interval
  <2>2. QED
    BY <2>1, FS_Subset
<1> HIDE DEF A, B, n
<1>5. Cardinality(A) \in Nat
  BY <1>4, FS_CardinalityType
<1>7. Cardinality(A \cup {n + 1}) = Cardinality(A) + 1
  BY <1>3, <1>4, FS_AddElement
<1>6. N(s, V) = Cardinality(A) /\ N(Append(s, x), V) = Cardinality(B)
  BY DEF N, A, B
<1>8. QED
  BY <1>2, <1>5, <1>6, <1>7

\* The counts of two disjoint kinds of entries add up.
LEMMA NSplit ==
  ASSUME NEW E, NEW s \in Seq(E), NEW V, NEW W, V \cap W = {}
  PROVE  N(s, V \cup W) = N(s, V) + N(s, W)
<1> DEFINE A == {k \in 1..Len(s) : s[k] \in V}
           B == {k \in 1..Len(s) : s[k] \in W}
<1>1. IsFiniteSet(A) /\ IsFiniteSet(B)
  <2>1. IsFiniteSet(1..Len(s))
    BY FS_Interval
  <2>2. QED
    BY <2>1, FS_Subset
<1>2. {k \in 1..Len(s) : s[k] \in V \cup W} = A \cup B /\ A \cap B = {}
  OBVIOUS
<1> HIDE DEF A, B
<1>3. Cardinality(A \cap B) = 0
  BY <1>2, FS_EmptySet
<1>4. Cardinality(A \cup B) = Cardinality(A) + Cardinality(B) - Cardinality(A \cap B)
  BY <1>1, FS_Union
<1>5. Cardinality(A) \in Nat /\ Cardinality(B) \in Nat
  BY <1>1, FS_CardinalityType
<1>6. N(s, V) = Cardinality(A) /\ N(s, W) = Cardinality(B) /\ N(s, V \cup W) = Cardinality(A \cup B)
  BY <1>2 DEF N, A, B
<1>7. QED
  BY <1>3, <1>4, <1>5, <1>6

\* Replacing one entry takes its count away and adds the new one's.
LEMMA NSet ==
  ASSUME NEW E, NEW s \in Seq(E), NEW k \in 1..Len(s), NEW x \in E, NEW V
  PROVE  N([s EXCEPT ![k] = x], V) = N(s, V) - (IF s[k] \in V THEN 1 ELSE 0) + (IF x \in V THEN 1 ELSE 0)
<1> DEFINE z == [s EXCEPT ![k] = x]
           R == {i \in 1..Len(s) : i # k /\ s[i] \in V}
           A == {i \in 1..Len(s) : s[i] \in V}
           B == {i \in 1..Len(z) : z[i] \in V}
<1>1. Len(z) = Len(s) /\ z[k] = x /\ \A i \in 1..Len(s) : i # k => z[i] = s[i]
  OBVIOUS
<1>2. /\ A = IF s[k] \in V THEN R \cup {k} ELSE R
      /\ B = IF x \in V THEN R \cup {k} ELSE R
      /\ k \notin R
  BY <1>1
<1>3. IsFiniteSet(R)
  <2>1. IsFiniteSet(1..Len(s))
    BY FS_Interval
  <2>2. QED
    BY <2>1, FS_Subset
<1>4. Cardinality(R) \in Nat /\ Cardinality(R \cup {k}) = Cardinality(R) + 1
  <2> HIDE DEF R
  <2>1. QED
    BY <1>2, <1>3, FS_AddElement, FS_CardinalityType
<1>5. N(s, V) = Cardinality(A) /\ N(z, V) = Cardinality(B)
  BY DEF N
<1> HIDE DEF A, B, R, z
<1>6. QED
  BY <1>2, <1>4, <1>5 DEF z

\* Kinds that agree on the entries of a sequence count alike in it.
LEMMA NSame ==
  ASSUME NEW s, NEW V, NEW W, \A k \in 1..Len(s) : s[k] \in V <=> s[k] \in W
  PROVE  N(s, V) = N(s, W)
<1>1. {k \in 1..Len(s) : s[k] \in V} = {k \in 1..Len(s) : s[k] \in W}
  OBVIOUS
<1>2. QED
  BY <1>1 DEF N

-----------------------------------------------------------------------------
(***************************************************************************)
(* Purchases: an account of every item.  The first inventory gives items   *)
(* whose log entries may never come, have come and wait for the hero, or   *)
(* are still to come; StartingLeft is what of it the log still owes.       *)
(***************************************************************************)
Entry == [item : Items, time : Int, entry : {"none", "come", "read"}]
Held  == [item : Items, time : Int, counted : BOOLEAN]

\* The purchases of i: without a log entry, with one to come of the inventory's
\* time or before it, with one to come of later, and read
All(i)      == {e \in Entry : e.item = i}
Unlogged(i) == {e \in Entry : e.item = i /\ e.entry = "none"}
Early(i, t) == {e \in Entry : e.item = i /\ e.entry = "come" /\ e.time <= t}
Late(i, t)  == {e \in Entry : e.item = i /\ e.entry = "come" /\ e.time > t}
Read(i)     == {e \in Entry : e.item = i /\ e.entry = "read"}

\* The entries of i that wait for the hero: those the first inventory gave, and the
\* purchases of their own
Waits(i)     == {p \in Held : p.item = i}
InHand(i, t) == {p \in Held : p.item = i /\ ~p.counted /\ p.time <= t}
Fresh(i, t)  == {p \in Held : p.item = i /\ (p.counted \/ p.time > t)}

ShopFields == {"tick", "bought", "horn", "mapped", "startT", "left", "list", "pending", "over"}

ShopTypes ==
  /\ DOMAIN shop = ShopFields
  /\ shop.tick \in Nat /\ shop.bought \in Seq(Entry) /\ shop.list \in Seq(Items) /\ shop.pending \in Seq(Held)
  /\ shop.horn \in BOOLEAN /\ shop.mapped \in BOOLEAN /\ shop.over \in BOOLEAN
  /\ shop.startT \in Int /\ -1 <= shop.startT /\ shop.startT <= shop.tick
  /\ shop.left \in [Items -> Nat]
  /\ \A k \in 1..Len(shop.bought) : 0 <= shop.bought[k].time /\ shop.bought[k].time <= shop.tick
  /\ \A k \in 1..Len(shop.pending) : 0 <= shop.pending[k].time /\ shop.pending[k].time <= shop.tick

\* Until the first inventory, what is listed or waits is what the log has told.
BeforeInventory ==
  /\ \A k \in 1..Len(shop.pending) : ~shop.pending[k].counted
  /\ \A i \in Items : /\ shop.left[i] = 0
                      /\ N(shop.list, {i}) + N(shop.pending, Waits(i)) = N(shop.bought, Read(i))
  /\ shop.horn => \A k \in 1..Len(shop.bought) : shop.bought[k].entry # "none"

\* After it, StartingLeft of an item is its purchases of that time without an entry read
\* for good, and the rest of its purchases are listed, wait, or have an entry to come.
AfterInventory ==
  \A i \in Items :
    /\ shop.left[i] = N(shop.bought, Unlogged(i)) + N(shop.bought, Early(i, shop.startT)) + N(shop.pending, InHand(i, shop.startT))
    /\ N(shop.list, {i}) + N(shop.pending, Fresh(i, shop.startT)) + N(shop.bought, Late(i, shop.startT)) = N(shop.bought, All(i))
    /\ shop.horn => N(shop.bought, Early(i, shop.startT)) = 0

\* The log is read to its end.
NoneToCome == \A k \in 1..Len(shop.bought) : shop.bought[k].entry # "come"

\* The inductive invariant
ShopInv ==
  /\ ShopTypes
  /\ shop.over => BoughtOnce /\ shop.horn /\ shop.mapped /\ NoneToCome
  /\ ~shop.over /\ shop.startT = -1 => BeforeInventory
  /\ ~shop.over /\ shop.startT # -1 => AfterInventory

\* A purchase has no log entry, one to come or one that was read.
LEMMA EntryParts ==
  ASSUME NEW s \in Seq(Entry), NEW i, NEW t \in Int
  PROVE  N(s, All(i)) = N(s, Unlogged(i)) + N(s, Early(i, t)) + N(s, Late(i, t)) + N(s, Read(i))
<1>1. /\ All(i) = Unlogged(i) \cup (Early(i, t) \cup (Late(i, t) \cup Read(i)))
      /\ Unlogged(i) \cap (Early(i, t) \cup (Late(i, t) \cup Read(i))) = {}
      /\ Early(i, t) \cap (Late(i, t) \cup Read(i)) = {}
      /\ Late(i, t) \cap Read(i) = {}
  BY DEF All, Unlogged, Early, Late, Read, Entry
<1>2. /\ N(s, All(i)) = N(s, Unlogged(i)) + N(s, Early(i, t) \cup (Late(i, t) \cup Read(i)))
      /\ N(s, Early(i, t) \cup (Late(i, t) \cup Read(i))) = N(s, Early(i, t)) + N(s, Late(i, t) \cup Read(i))
      /\ N(s, Late(i, t) \cup Read(i)) = N(s, Late(i, t)) + N(s, Read(i))
  <2> HIDE DEF All, Unlogged, Early, Late, Read
  <2>1. N(s, All(i)) = N(s, Unlogged(i)) + N(s, Early(i, t) \cup (Late(i, t) \cup Read(i)))
    BY <1>1, NSplit
  <2>2. N(s, Early(i, t) \cup (Late(i, t) \cup Read(i))) = N(s, Early(i, t)) + N(s, Late(i, t) \cup Read(i))
    BY <1>1, NSplit
  <2>3. N(s, Late(i, t) \cup Read(i)) = N(s, Late(i, t)) + N(s, Read(i))
    BY <1>1, NSplit
  <2>4. QED
    BY <2>1, <2>2, <2>3
<1>3. /\ N(s, Unlogged(i)) \in Nat /\ N(s, Early(i, t)) \in Nat /\ N(s, Late(i, t)) \in Nat /\ N(s, Read(i)) \in Nat
  BY NNat
<1>4. QED
  BY <1>2, <1>3

\* A waiting entry is one the first inventory gave or one of its own.
LEMMA HeldParts ==
  ASSUME NEW s \in Seq(Held), NEW i, NEW t \in Int
  PROVE  N(s, Waits(i)) = N(s, InHand(i, t)) + N(s, Fresh(i, t))
<1>1. Waits(i) = InHand(i, t) \cup Fresh(i, t) /\ InHand(i, t) \cap Fresh(i, t) = {}
  BY DEF Waits, InHand, Fresh, Held
<1>2. QED
  BY <1>1, NSplit

\* The model's Count is such a count.
LEMMA CountIsN == \A s : \A E : s \in Seq(E) => \A i : Count(s, i) = N(s, {i})
<1> SUFFICES ASSUME NEW s, NEW E, s \in Seq(E), NEW i PROVE Count(s, i) = N(s, {i})
  OBVIOUS
<1>1. DOMAIN s = 1..Len(s)
  OBVIOUS
<1>2. {k \in DOMAIN s : s[k] = i} = {k \in 1..Len(s) : s[k] \in {i}}
  BY <1>1
<1>3. QED
  BY <1>2 DEF Count, N

\* So is the number of purchases of an item.
LEMMA BoughtIsN == shop.bought \in Seq(Entry) => \A i : Cardinality({k \in DOMAIN shop.bought : shop.bought[k].item = i}) = N(shop.bought, All(i))
<1> SUFFICES ASSUME shop.bought \in Seq(Entry), NEW i
             PROVE  Cardinality({k \in DOMAIN shop.bought : shop.bought[k].item = i}) = N(shop.bought, All(i))
  OBVIOUS
<1>1. DOMAIN shop.bought = 1..Len(shop.bought) /\ \A k \in 1..Len(shop.bought) : shop.bought[k] \in Entry
  OBVIOUS
<1>2. {k \in DOMAIN shop.bought : shop.bought[k].item = i} = {k \in 1..Len(shop.bought) : shop.bought[k] \in All(i)}
  BY <1>1 DEF All
<1>3. QED
  BY <1>2 DEF N

\* At the start nothing is bought, listed or waiting.
LEMMA ShopInvInit == ShopInit => ShopInv
<1> SUFFICES ASSUME ShopInit PROVE ShopInv
  OBVIOUS
<1>1. /\ DOMAIN shop = ShopFields
      /\ shop.tick = 0 /\ shop.bought = <<>> /\ shop.horn = FALSE /\ shop.mapped = FALSE /\ shop.startT = -1
      /\ shop.left = [i \in Items |-> 0] /\ shop.list = <<>> /\ shop.pending = <<>> /\ shop.over = FALSE
  BY DEF ShopInit, ShopFields
<1>2. ShopTypes
  <2>2. shop.left \in [Items -> Nat]
    BY <1>1
  <2>3. (\A k \in 1..Len(shop.bought) : FALSE) /\ (\A k \in 1..Len(shop.pending) : FALSE)
    BY <1>1
  <2>4. shop.bought \in Seq(Entry) /\ shop.list \in Seq(Items) /\ shop.pending \in Seq(Held)
    BY <1>1
  <2>7. shop.horn \in BOOLEAN /\ shop.mapped \in BOOLEAN /\ shop.over \in BOOLEAN
    BY DEF ShopInit
  <2>5. /\ shop.tick \in Nat
        /\ shop.startT \in Int /\ -1 <= shop.startT /\ shop.startT <= shop.tick
    BY <1>1
  <2>6. QED
    BY <1>1, <2>2, <2>3, <2>4, <2>5, <2>7 DEF ShopTypes
<1>3. BeforeInventory
  <2>1. \A i \in Items : N(shop.bought, Read(i)) = 0 /\ N(shop.list, {i}) = 0 /\ N(shop.pending, Waits(i)) = 0
    BY <1>1, NEmpty
  <2>2. QED
    BY <1>1, <2>1 DEF BeforeInventory
<1>4. QED
  BY <1>1, <1>2, <1>3 DEF ShopInv

\* A purchase is owed an entry, or the first inventory, and nothing else changes.
LEMMA BuyStep ==
  ASSUME ShopInv, NEW i \in Items, Buy(i)
  PROVE  ShopInv'
<1>1. PICK entry \in IF shop.startT = -1 /\ ~shop.horn THEN {"none", "come"} ELSE {"come"} :
        shop' = [shop EXCEPT !.bought = Append(@, [item |-> i, time |-> shop.tick, entry |-> entry])]
  BY DEF Buy
<1> DEFINE e == [item |-> i, time |-> shop.tick, entry |-> entry]
<1>2. ShopTypes /\ ~shop.over /\ shop.startT # shop.tick
  BY DEF ShopInv, Buy
<1>3. /\ DOMAIN shop' = ShopFields /\ shop'.bought = Append(shop.bought, e)
      /\ shop'.tick = shop.tick /\ shop'.list = shop.list /\ shop'.pending = shop.pending /\ shop'.left = shop.left
      /\ shop'.startT = shop.startT
  BY <1>1, <1>2 DEF ShopTypes, ShopFields
<1>4. shop'.horn = shop.horn /\ shop'.mapped = shop.mapped /\ shop'.over = shop.over
  BY <1>1, <1>2 DEF ShopTypes, ShopFields
<1>5. e \in Entry /\ e.item = i /\ e.time = shop.tick /\ e.entry = entry /\ entry \in {"none", "come"}
  BY <1>2 DEF Entry, ShopTypes
<1> HIDE DEF e
<1>6. ShopTypes'
  <2>1. shop'.bought \in Seq(Entry)
    BY <1>2, <1>3, <1>5 DEF ShopTypes
  <2>2. ASSUME NEW k \in 1..Len(shop'.bought) PROVE 0 <= shop'.bought[k].time /\ shop'.bought[k].time <= shop.tick
    <3>1. CASE k \in 1..Len(shop.bought)
      <4>1. shop'.bought[k] = shop.bought[k]
        BY <1>2, <1>3, <3>1 DEF ShopTypes
      <4>2. QED
        BY <1>2, <3>1, <4>1 DEF ShopTypes
    <3>2. CASE k \notin 1..Len(shop.bought)
      <4>1. shop'.bought[k] = e
        BY <1>2, <1>3, <1>5, <3>2 DEF ShopTypes
      <4>2. QED
        BY <1>2, <1>5, <4>1 DEF ShopTypes
    <3>3. QED
      BY <3>1, <3>2
  <2>3. QED
    BY <1>2, <1>3, <1>4, <2>1, <2>2 DEF ShopTypes
<1>7. \A V : N(shop'.bought, V) = N(shop.bought, V) + (IF e \in V THEN 1 ELSE 0)
  BY <1>2, <1>3, <1>5, NAppend DEF ShopTypes
<1>8. shop.startT = -1 => BeforeInventory'
  <2> SUFFICES ASSUME shop.startT = -1 PROVE BeforeInventory'
    OBVIOUS
  <2>1. BeforeInventory
    BY <1>2 DEF ShopInv
  <2>2. \A j \in Items : N(shop'.bought, Read(j)) = N(shop.bought, Read(j))
    <3>1. \A j \in Items : e \notin Read(j)
      BY <1>5 DEF Read
    <3>2. \A j \in Items : N(shop.bought, Read(j)) \in Nat
      BY <1>2, NNat DEF ShopTypes
    <3>3. QED
      BY <1>7, <3>1, <3>2
  <2>3. ASSUME shop'.horn, NEW k \in 1..Len(shop'.bought) PROVE shop'.bought[k].entry # "none"
    <3>1. CASE k \in 1..Len(shop.bought)
      <4>1. shop'.bought[k] = shop.bought[k]
        BY <1>2, <1>3, <3>1 DEF ShopTypes
      <4>2. QED
        BY <1>4, <2>1, <2>3, <3>1, <4>1 DEF BeforeInventory
    <3>2. CASE k \notin 1..Len(shop.bought)
      <4>1. shop'.bought[k] = e
        BY <1>2, <1>3, <1>5, <3>2 DEF ShopTypes
      <4>2. entry = "come"
        BY <1>1, <1>4, <2>3
      <4>3. QED
        BY <1>5, <4>1, <4>2
    <3>3. QED
      BY <3>1, <3>2
  <2>4. QED
    BY <1>3, <2>1, <2>2, <2>3 DEF BeforeInventory
<1>9. shop.startT # -1 => AfterInventory'
  <2> SUFFICES ASSUME shop.startT # -1, NEW j \in Items
               PROVE  /\ shop'.left[j] = N(shop'.bought, Unlogged(j)) + N(shop'.bought, Early(j, shop'.startT)) + N(shop'.pending, InHand(j, shop'.startT))
                      /\ N(shop'.list, {j}) + N(shop'.pending, Fresh(j, shop'.startT)) + N(shop'.bought, Late(j, shop'.startT)) = N(shop'.bought, All(j))
                      /\ shop'.horn => N(shop'.bought, Early(j, shop'.startT)) = 0
    BY DEF AfterInventory
  <2>1. AfterInventory
    BY <1>2 DEF ShopInv
  <2>2. e.entry = "come" /\ e.time > shop.startT /\ shop.startT \in Int
    BY <1>1, <1>2, <1>5 DEF ShopTypes
  <2>3. e \notin Unlogged(j) /\ e \notin Early(j, shop.startT) /\ (e \in Late(j, shop.startT) <=> e \in All(j))
    <3>1. e.time \in Int /\ ~(e.time <= shop.startT)
      BY <1>5, <2>2 DEF Entry
    <3>2. QED
      BY <1>5, <2>2, <3>1 DEF Unlogged, Early, Late, All
  <2>4. \A V : N(shop.bought, V) \in Nat /\ N(shop.pending, V) \in Nat /\ N(shop.list, V) \in Nat
    BY <1>2, NNat DEF ShopTypes
  <2>5. /\ N(shop'.bought, Unlogged(j)) = N(shop.bought, Unlogged(j))
        /\ N(shop'.bought, Early(j, shop.startT)) = N(shop.bought, Early(j, shop.startT))
        /\ \E d \in {0, 1} : /\ N(shop'.bought, Late(j, shop.startT)) = N(shop.bought, Late(j, shop.startT)) + d
                            /\ N(shop'.bought, All(j)) = N(shop.bought, All(j)) + d
    BY <1>7, <2>3, <2>4
  <2>6. \A V : N(shop'.bought, V) \in Nat
    BY <1>6, NNat DEF ShopTypes
  <2>7. QED
    <3>1. /\ shop.left[j] = N(shop.bought, Unlogged(j)) + N(shop.bought, Early(j, shop.startT)) + N(shop.pending, InHand(j, shop.startT))
          /\ N(shop.list, {j}) + N(shop.pending, Fresh(j, shop.startT)) + N(shop.bought, Late(j, shop.startT)) = N(shop.bought, All(j))
          /\ shop.horn => N(shop.bought, Early(j, shop.startT)) = 0
      BY <2>1 DEF AfterInventory
    <3>2. N(shop.list, {j}) + N(shop.pending, Fresh(j, shop.startT)) + N(shop'.bought, Late(j, shop.startT)) = N(shop'.bought, All(j))
      <4>1. /\ N(shop.list, {j}) \in Nat /\ N(shop.pending, Fresh(j, shop.startT)) \in Nat
            /\ N(shop.bought, Late(j, shop.startT)) \in Nat /\ N(shop.bought, All(j)) \in Nat
        BY <2>4
      <4>2. N(shop'.bought, Late(j, shop.startT)) \in Nat /\ N(shop'.bought, All(j)) \in Nat
        BY <2>6
      <4>3. QED
        BY <2>5, <3>1, <4>1, <4>2
    <3>3. shop'.left[j] = N(shop'.bought, Unlogged(j)) + N(shop'.bought, Early(j, shop'.startT)) + N(shop'.pending, InHand(j, shop'.startT))
      BY <1>3, <2>5, <3>1
    <3>4. shop'.horn => N(shop'.bought, Early(j, shop'.startT)) = 0
      BY <1>3, <1>4, <2>5, <3>1
    <3>5. N(shop'.list, {j}) + N(shop'.pending, Fresh(j, shop'.startT)) + N(shop'.bought, Late(j, shop'.startT)) = N(shop'.bought, All(j))
      BY <1>3, <3>2
    <3>6. QED
      BY <3>3, <3>4, <3>5
<1>10. QED
  BY <1>2, <1>3, <1>4, <1>6, <1>8, <1>9 DEF ShopInv

\* The hero's mapping, time and the horn lose no purchase.
LEMMA SmallSteps ==
  ASSUME ShopInv, MapHero \/ ShopTick \/ Horn
  PROVE  ShopInv'
<1>1. ShopTypes
  BY DEF ShopInv
<1>2. /\ DOMAIN shop' = ShopFields /\ shop'.bought = shop.bought
      /\ shop'.list = shop.list /\ shop'.pending = shop.pending /\ shop'.left = shop.left
      /\ shop'.startT = shop.startT
      /\ shop'.tick \in {shop.tick, shop.tick + 1}
  BY <1>1 DEF ShopTypes, ShopFields, MapHero, ShopTick, Horn
<1>3. /\ shop'.over = shop.over
      /\ shop'.horn \in BOOLEAN /\ shop'.mapped \in BOOLEAN
      /\ shop.horn => shop'.horn
      /\ shop.mapped => shop'.mapped
  BY <1>1 DEF ShopTypes, ShopFields, MapHero, ShopTick, Horn
<1>4. ShopTypes'
  <2>1. shop.tick \in Nat /\ shop'.tick \in Nat /\ shop.tick <= shop'.tick
    BY <1>1, <1>2 DEF ShopTypes
  <2>2. /\ \A k \in 1..Len(shop.bought) : shop.bought[k].time \in Int
        /\ \A k \in 1..Len(shop.pending) : shop.pending[k].time \in Int
    <3>1. \A k \in 1..Len(shop.bought) : shop.bought[k] \in Entry
      BY <1>1 DEF ShopTypes
    <3>2. \A k \in 1..Len(shop.pending) : shop.pending[k] \in Held
      BY <1>1 DEF ShopTypes
    <3>3. QED
      BY <3>1, <3>2 DEF Entry, Held
  <2>3. /\ \A k \in 1..Len(shop.bought) : 0 <= shop.bought[k].time /\ shop.bought[k].time <= shop'.tick
        /\ \A k \in 1..Len(shop.pending) : 0 <= shop.pending[k].time /\ shop.pending[k].time <= shop'.tick
        /\ shop.startT <= shop'.tick
    <3>1. shop.startT <= shop'.tick
      BY <1>1, <2>1 DEF ShopTypes
    <3>2. ASSUME NEW k \in 1..Len(shop.bought) PROVE 0 <= shop.bought[k].time /\ shop.bought[k].time <= shop'.tick
      <4>1. shop.bought[k].time \in Int /\ 0 <= shop.bought[k].time /\ shop.bought[k].time <= shop.tick
        BY <1>1, <2>2 DEF ShopTypes
      <4>2. QED
        BY <2>1, <4>1
    <3>3. ASSUME NEW k \in 1..Len(shop.pending) PROVE 0 <= shop.pending[k].time /\ shop.pending[k].time <= shop'.tick
      <4>1. shop.pending[k].time \in Int /\ 0 <= shop.pending[k].time /\ shop.pending[k].time <= shop.tick
        BY <1>1, <2>2 DEF ShopTypes
      <4>2. QED
        BY <2>1, <4>1
    <3>4. QED
      BY <3>1, <3>2, <3>3
  <2>4. shop'.over \in BOOLEAN
    BY <1>1, <1>3 DEF ShopTypes
  <2>5. /\ DOMAIN shop' = ShopFields
        /\ shop'.bought \in Seq(Entry) /\ shop'.list \in Seq(Items) /\ shop'.pending \in Seq(Held)
        /\ shop'.startT \in Int /\ -1 <= shop'.startT
        /\ shop'.left \in [Items -> Nat]
    BY <1>1, <1>2 DEF ShopTypes
  <2>6. /\ \A k \in 1..Len(shop'.bought) : 0 <= shop'.bought[k].time /\ shop'.bought[k].time <= shop'.tick
        /\ \A k \in 1..Len(shop'.pending) : 0 <= shop'.pending[k].time /\ shop'.pending[k].time <= shop'.tick
        /\ shop'.startT <= shop'.tick
    BY <1>2, <2>3
  <2>7. QED
    BY <1>3, <2>1, <2>4, <2>5, <2>6 DEF ShopTypes
<1>5. shop.over => (BoughtOnce /\ shop.horn /\ shop.mapped /\ NoneToCome)'
  BY <1>2, <1>3 DEF ShopInv, BoughtOnce, NoneToCome
<1>6. shop'.horn /\ ~shop.horn => /\ NoneToCome
                                  /\ (\E k \in DOMAIN shop.bought : shop.bought[k].entry = "none") => shop.startT # -1
  <2>1. CASE Horn
    <3>1. DOMAIN shop.bought = 1..Len(shop.bought)
      BY <1>1 DEF ShopTypes
    <3>2. QED
      BY <2>1, <3>1 DEF Horn, NoneToCome
  <2>2. CASE MapHero \/ ShopTick
    BY <1>1, <2>2 DEF MapHero, ShopTick, ShopTypes, ShopFields
  <2>3. QED
    BY <2>1, <2>2
<1>7. ~shop.over /\ shop.startT = -1 => BeforeInventory'
  <2>1. DOMAIN shop.bought = 1..Len(shop.bought)
    BY <1>1 DEF ShopTypes
  <2>2. QED
    BY <1>2, <1>3, <1>6, <2>1 DEF ShopInv, BeforeInventory
<1>8. ~shop.over /\ shop.startT # -1 => AfterInventory'
  <2> SUFFICES ASSUME ~shop.over, shop.startT # -1 PROVE AfterInventory'
    OBVIOUS
  <2>1. AfterInventory
    BY DEF ShopInv
  <2>2. NoneToCome => \A i \in Items : N(shop.bought, Early(i, shop.startT)) = 0
    <3> SUFFICES ASSUME NoneToCome, NEW i \in Items PROVE N(shop.bought, Early(i, shop.startT)) = 0
      OBVIOUS
    <3>1. {k \in 1..Len(shop.bought) : shop.bought[k] \in Early(i, shop.startT)} = {}
      BY DEF NoneToCome, Early
    <3>2. QED
      BY <3>1, FS_EmptySet DEF N
  <2>3. shop'.horn => \A i \in Items : N(shop.bought, Early(i, shop.startT)) = 0
    BY <1>3, <1>6, <2>1, <2>2 DEF AfterInventory
  <2>4. QED
    BY <1>2, <2>1, <2>3 DEF AfterInventory
<1>9. QED
  BY <1>2, <1>3, <1>4, <1>5, <1>7, <1>8 DEF ShopInv

\* A PURCHASE entry moves its purchase: to the list, to those that wait, or, for
\* a starting item, out of the account.
LEMMA ReadStep ==
  ASSUME ShopInv, NEW k, ReadEntry(k)
  PROVE  ShopInv'
<1> DEFINE e == shop.bought[k]
           e2 == [item |-> e.item, time |-> e.time, entry |-> "read"]
           p == [item |-> e.item, time |-> e.time, counted |-> FALSE]
           T == shop.startT
           i == e.item
<1>1. ShopTypes /\ k \in 1..Len(shop.bought) /\ e \in Entry /\ e.entry = "come"
  BY DEF ShopInv, ShopTypes, ReadEntry
<1>2. e.item \in Items /\ e.time \in Int /\ e = [item |-> e.item, time |-> e.time, entry |-> "come"]
  BY <1>1 DEF Entry
<1>3. 0 <= e.time /\ e.time <= shop.tick /\ T \in Int /\ shop.tick \in Int
  BY <1>1 DEF ShopTypes
<1>4. ~shop.over
  BY <1>1 DEF ShopInv, NoneToCome
<1>5. shop' = [Purchase(shop, e.item, e.time) EXCEPT !.bought[k].entry = "read"]
  BY DEF ReadEntry
<1>6. /\ DOMAIN shop' = ShopFields
      /\ shop'.bought = [shop.bought EXCEPT ![k] = e2]
      /\ shop'.tick = shop.tick /\ shop'.startT = shop.startT
      /\ shop'.horn = shop.horn /\ shop'.mapped = shop.mapped /\ shop'.over = shop.over
  <2>1. LET q == Purchase(shop, e.item, e.time)
        IN  /\ DOMAIN q = ShopFields /\ q.bought = shop.bought
            /\ q.tick = shop.tick /\ q.startT = shop.startT
            /\ q.horn = shop.horn /\ q.mapped = shop.mapped /\ q.over = shop.over
    BY <1>1 DEF Purchase, Listed, ShopTypes, ShopFields
  <2>2. [e EXCEPT !.entry = "read"] = e2
    BY <1>2
  <2>3. shop'.bought = [shop.bought EXCEPT ![k] = [@ EXCEPT !.entry = "read"]]
    BY <1>5, <2>1 DEF ShopFields
  <2>4. [shop.bought EXCEPT ![k] = [@ EXCEPT !.entry = "read"]] = [shop.bought EXCEPT ![k] = e2]
    BY <2>2
  <2>5. QED
    BY <1>5, <2>1, <2>3, <2>4 DEF ShopFields
<1>7. \/ /\ shop.mapped /\ ~shop.horn /\ e.time <= T /\ shop.left[i] > 0
         /\ shop'.left = [shop.left EXCEPT ![i] = @ - 1] /\ shop'.list = shop.list /\ shop'.pending = shop.pending
      \/ /\ shop.mapped /\ ~(~shop.horn /\ e.time <= T /\ shop.left[i] > 0)
         /\ shop'.left = shop.left /\ shop'.list = Append(shop.list, i) /\ shop'.pending = shop.pending
      \/ /\ ~shop.mapped
         /\ shop'.left = shop.left /\ shop'.list = shop.list /\ shop'.pending = Append(shop.pending, p)
  BY <1>1, <1>5 DEF Purchase, Listed, ShopTypes, ShopFields
<1>8. e2 \in Entry /\ p \in Held
  BY <1>2 DEF Entry, Held
<1>9. ShopTypes'
  <2>1. shop'.bought \in Seq(Entry) /\ Len(shop'.bought) = Len(shop.bought)
    BY <1>1, <1>6, <1>8 DEF ShopTypes
  <2>2. \A j \in 1..Len(shop.bought) : shop'.bought[j] = IF j = k THEN e2 ELSE shop.bought[j]
    BY <1>1, <1>6 DEF ShopTypes
  <2>3. \A j \in 1..Len(shop'.bought) : 0 <= shop'.bought[j].time /\ shop'.bought[j].time <= shop'.tick
    BY <1>1, <1>3, <1>6, <2>1, <2>2 DEF ShopTypes
  <2>4. shop'.list \in Seq(Items) /\ shop'.pending \in Seq(Held)
    <3>1. shop.list \in Seq(Items) /\ shop.pending \in Seq(Held)
      BY <1>1 DEF ShopTypes
    <3>2. Append(shop.list, i) \in Seq(Items) /\ Append(shop.pending, p) \in Seq(Held)
      BY <1>2, <1>8, <3>1
    <3> HIDE DEF i, p
    <3>3. QED
      BY <1>7, <3>1, <3>2
  <2>5. shop'.left \in [Items -> Nat]
    <3>1. shop.left \in [Items -> Nat]
      BY <1>1 DEF ShopTypes
    <3>2. shop.left[i] > 0 => shop.left[i] - 1 \in Nat
      BY <1>2, <3>1
    <3>3. QED
      BY <1>7, <3>1, <3>2
  <2>6. ASSUME NEW j \in 1..Len(shop'.pending) PROVE 0 <= shop'.pending[j].time /\ shop'.pending[j].time <= shop'.tick
    <3>1. CASE shop'.pending = shop.pending
      BY <1>1, <1>6, <2>6, <3>1 DEF ShopTypes
    <3>2. CASE shop'.pending = Append(shop.pending, p)
      <4>1. shop'.pending[j] = IF j \in 1..Len(shop.pending) THEN shop.pending[j] ELSE p
        BY <1>1, <1>8, <2>6, <3>2 DEF ShopTypes
      <4>2. CASE j \in 1..Len(shop.pending)
        BY <1>1, <1>6, <4>1, <4>2 DEF ShopTypes
      <4>3. CASE j \notin 1..Len(shop.pending)
        BY <1>3, <1>6, <4>1, <4>3
      <4>4. QED
        BY <4>2, <4>3
    <3>3. QED
      BY <1>7, <3>1, <3>2
  <2>7. QED
    BY <1>1, <1>6, <2>1, <2>3, <2>4, <2>5, <2>6 DEF ShopTypes
<1>10. \A V : N(shop'.bought, V) = N(shop.bought, V) - (IF e \in V THEN 1 ELSE 0) + (IF e2 \in V THEN 1 ELSE 0)
  BY <1>1, <1>6, <1>8, NSet, SMTT(30) DEF ShopTypes
<1>11. \A V : /\ N(shop.bought, V) \in Nat /\ N(shop.list, V) \in Nat /\ N(shop.pending, V) \in Nat
              /\ N(shop'.bought, V) \in Nat
  BY <1>1, <1>9, NNat DEF ShopTypes
<1>12. shop'.list = Append(shop.list, i) => \A V : N(shop'.list, V) = N(shop.list, V) + (IF i \in V THEN 1 ELSE 0)
  BY <1>1, <1>2, NAppend DEF ShopTypes
<1>13. shop'.pending = Append(shop.pending, p) => \A V : N(shop'.pending, V) = N(shop.pending, V) + (IF p \in V THEN 1 ELSE 0)
  BY <1>1, <1>8, NAppend DEF ShopTypes
<1>14. T = -1 => BeforeInventory'
  <2> SUFFICES ASSUME T = -1 PROVE BeforeInventory'
    OBVIOUS
  <2>1. BeforeInventory
    BY <1>4 DEF ShopInv
  <2>2. /\ shop'.left = shop.left
        /\ \/ shop'.list = Append(shop.list, i) /\ shop'.pending = shop.pending
           \/ shop'.list = shop.list /\ shop'.pending = Append(shop.pending, p)
    <3>1. ~(e.time <= T)
      BY <1>2, <1>3
    <3> HIDE DEF i, p
    <3>2. QED
      BY <1>7, <3>1
  <2>3. ASSUME NEW j \in Items PROVE N(shop'.list, {j}) + N(shop'.pending, Waits(j)) = N(shop'.bought, Read(j))
    <3>1. (e \notin Read(j)) /\ (e2 \in Read(j) <=> i = j) /\ (p \in Waits(j) <=> i = j)
      BY <1>1, <1>8 DEF Read, Waits
    <3>2. N(shop'.bought, Read(j)) = N(shop.bought, Read(j)) + (IF i = j THEN 1 ELSE 0)
      BY <1>10, <1>11, <3>1
    <3>3. N(shop.list, {j}) + N(shop.pending, Waits(j)) = N(shop.bought, Read(j))
      BY <2>1 DEF BeforeInventory
    <3>4. /\ shop'.list = Append(shop.list, i) => N(shop'.list, {j}) = N(shop.list, {j}) + (IF i = j THEN 1 ELSE 0)
          /\ shop'.pending = Append(shop.pending, p) => N(shop'.pending, Waits(j)) = N(shop.pending, Waits(j)) + (IF i = j THEN 1 ELSE 0)
      BY <1>12, <1>13, <3>1
    <3>5. N(shop.list, {j}) \in Nat /\ N(shop.pending, Waits(j)) \in Nat
      BY <1>11
    <3>6. CASE i = j
      BY <2>2, <3>2, <3>3, <3>4, <3>5, <3>6
    <3>7. CASE i # j
      BY <2>2, <3>2, <3>3, <3>4, <3>5, <3>7
    <3>8. QED
      BY <3>6, <3>7
  <2>4. \A j \in 1..Len(shop'.pending) : ~shop'.pending[j].counted
    <3>1. \A j \in 1..Len(shop.pending) : ~shop.pending[j].counted
      BY <2>1 DEF BeforeInventory
    <3>2. CASE shop'.pending = shop.pending
      BY <3>1, <3>2
    <3>3. CASE shop'.pending = Append(shop.pending, p)
      <4>1. \A j \in 1..Len(shop'.pending) : shop'.pending[j] = IF j \in 1..Len(shop.pending) THEN shop.pending[j] ELSE p
        BY <1>1, <1>8, <3>3 DEF ShopTypes
      <4>2. QED
        BY <3>1, <4>1
    <3>4. QED
      BY <2>2, <3>2, <3>3
  <2>5. shop'.horn => \A j \in 1..Len(shop'.bought) : shop'.bought[j].entry # "none"
    <3>1. Len(shop'.bought) = Len(shop.bought) /\ \A j \in 1..Len(shop.bought) : shop'.bought[j] = IF j = k THEN e2 ELSE shop.bought[j]
      BY <1>1, <1>6, <1>8 DEF ShopTypes
    <3>2. QED
      BY <1>6, <2>1, <3>1 DEF BeforeInventory
  <2>6. QED
    BY <2>1, <2>2, <2>3, <2>4, <2>5 DEF BeforeInventory
<1>15. T # -1 => AfterInventory'
  <2> SUFFICES ASSUME T # -1, NEW j \in Items
               PROVE  /\ shop'.left[j] = N(shop'.bought, Unlogged(j)) + N(shop'.bought, Early(j, T)) + N(shop'.pending, InHand(j, T))
                      /\ N(shop'.list, {j}) + N(shop'.pending, Fresh(j, T)) + N(shop'.bought, Late(j, T)) = N(shop'.bought, All(j))
                      /\ shop.horn => N(shop'.bought, Early(j, T)) = 0
    BY <1>6 DEF AfterInventory
  <2> DEFINE b == IF i = j /\ e.time <= T THEN 1 ELSE 0
             a == IF i = j /\ e.time > T THEN 1 ELSE 0
  <2>1. /\ shop.left[j] = N(shop.bought, Unlogged(j)) + N(shop.bought, Early(j, T)) + N(shop.pending, InHand(j, T))
        /\ N(shop.list, {j}) + N(shop.pending, Fresh(j, T)) + N(shop.bought, Late(j, T)) = N(shop.bought, All(j))
        /\ shop.horn => N(shop.bought, Early(j, T)) = 0
    BY <1>4 DEF ShopInv, AfterInventory
  <2>2. /\ e \notin Unlogged(j) /\ e2 \notin Unlogged(j) /\ e2 \notin Early(j, T) /\ e2 \notin Late(j, T)
        /\ e \in Early(j, T) <=> i = j /\ e.time <= T
        /\ e \in Late(j, T) <=> i = j /\ e.time > T
        /\ e \in All(j) <=> e2 \in All(j)
        /\ p \in InHand(j, T) <=> i = j /\ e.time <= T
        /\ p \in Fresh(j, T) <=> i = j /\ e.time > T
    BY <1>1, <1>8 DEF Unlogged, Early, Late, All, InHand, Fresh
  <2>3. /\ N(shop'.bought, Unlogged(j)) = N(shop.bought, Unlogged(j))
        /\ N(shop'.bought, Early(j, T)) = N(shop.bought, Early(j, T)) - b
        /\ N(shop'.bought, Late(j, T)) = N(shop.bought, Late(j, T)) - a
        /\ N(shop'.bought, All(j)) = N(shop.bought, All(j))
    <3> HIDE DEF e, e2, p
    <3>1. QED
      BY <1>10, <1>11, <2>2
  <2>4. /\ N(shop.bought, Unlogged(j)) \in Nat /\ N(shop.bought, Early(j, T)) \in Nat /\ N(shop.bought, Late(j, T)) \in Nat
        /\ N(shop'.bought, Early(j, T)) \in Nat
        /\ N(shop.pending, InHand(j, T)) \in Nat /\ N(shop.pending, Fresh(j, T)) \in Nat /\ N(shop.list, {j}) \in Nat
        /\ a \in {0, 1} /\ b \in {0, 1}
    BY <1>11
  <2>5. /\ shop'.list = Append(shop.list, i) => N(shop'.list, {j}) = N(shop.list, {j}) + (IF i = j THEN 1 ELSE 0)
        /\ shop'.pending = Append(shop.pending, p) => /\ N(shop'.pending, InHand(j, T)) = N(shop.pending, InHand(j, T)) + b
                                                      /\ N(shop'.pending, Fresh(j, T)) = N(shop.pending, Fresh(j, T)) + a
    BY <1>12, <1>13, <2>2
  <2>6. shop.left \in [Items -> Nat] /\ i \in Items
    BY <1>1, <1>2 DEF ShopTypes
  <2>7. shop.horn => N(shop'.bought, Early(j, T)) = 0
    BY <2>1, <2>3, <2>4
  <2>8. ASSUME shop.mapped, ~shop.horn, e.time <= T, shop.left[i] > 0,
               shop'.left = [shop.left EXCEPT ![i] = @ - 1], shop'.list = shop.list, shop'.pending = shop.pending
        PROVE  /\ shop'.left[j] = N(shop'.bought, Unlogged(j)) + N(shop'.bought, Early(j, T)) + N(shop'.pending, InHand(j, T))
               /\ N(shop'.list, {j}) + N(shop'.pending, Fresh(j, T)) + N(shop'.bought, Late(j, T)) = N(shop'.bought, All(j))
    <3>1. shop'.left[j] = shop.left[j] - b /\ a = 0
      BY <1>2, <1>3, <2>6, <2>8
    <3> HIDE DEF a, b, e, e2, p, T
    <3>2. QED
      BY <2>1, <2>3, <2>4, <2>8, <3>1
  <2>9. ASSUME shop.mapped, ~(~shop.horn /\ e.time <= T /\ shop.left[i] > 0),
               shop'.left = shop.left, shop'.list = Append(shop.list, i), shop'.pending = shop.pending
        PROVE  /\ shop'.left[j] = N(shop'.bought, Unlogged(j)) + N(shop'.bought, Early(j, T)) + N(shop'.pending, InHand(j, T))
               /\ N(shop'.list, {j}) + N(shop'.pending, Fresh(j, T)) + N(shop'.bought, Late(j, T)) = N(shop'.bought, All(j))
    <3>1. b = 0
      <4> SUFFICES ASSUME b # 0 PROVE FALSE
        OBVIOUS
      <4>1. i = j /\ e.time <= T /\ b = 1
        OBVIOUS
      <4>2. N(shop.bought, Early(j, T)) >= 1
        <5> HIDE DEF a, b, e, e2, p, T
        <5>1. QED
          BY <2>3, <2>4, <4>1
      <4>3. ~shop.horn
        BY <2>1, <4>2
      <4>4. shop.left[j] = 0
        BY <2>6, <2>9, <4>1, <4>3
      <4>5. QED
        <5> HIDE DEF a, b, e, e2, p, T
        <5>1. QED
          BY <2>1, <2>4, <4>2, <4>4
    <3>2. a = IF i = j THEN 1 ELSE 0
      BY <1>2, <1>3, <3>1
    <3>3. N(shop'.list, {j}) = N(shop.list, {j}) + a
      BY <2>5, <2>9, <3>2
    <3> HIDE DEF a, b, e, e2, p, T
    <3>4. QED
      BY <2>1, <2>3, <2>4, <2>9, <3>1, <3>3
  <2>10. ASSUME ~shop.mapped, shop'.left = shop.left, shop'.list = shop.list, shop'.pending = Append(shop.pending, p)
         PROVE  /\ shop'.left[j] = N(shop'.bought, Unlogged(j)) + N(shop'.bought, Early(j, T)) + N(shop'.pending, InHand(j, T))
                /\ N(shop'.list, {j}) + N(shop'.pending, Fresh(j, T)) + N(shop'.bought, Late(j, T)) = N(shop'.bought, All(j))
    <3> HIDE DEF a, b, e, e2, p, T
    <3>1. /\ N(shop'.pending, InHand(j, T)) = N(shop.pending, InHand(j, T)) + b
          /\ N(shop'.pending, Fresh(j, T)) = N(shop.pending, Fresh(j, T)) + a
      BY <2>5, <2>10
    <3>0. shop'.left[j] = shop.left[j] /\ N(shop'.list, {j}) = N(shop.list, {j})
      BY <2>10
    <3>2. shop'.left[j] = N(shop'.bought, Unlogged(j)) + N(shop'.bought, Early(j, T)) + N(shop'.pending, InHand(j, T))
      BY <2>1, <2>3, <2>4, <3>0, <3>1
    <3>3. N(shop'.list, {j}) + N(shop'.pending, Fresh(j, T)) + N(shop'.bought, Late(j, T)) = N(shop'.bought, All(j))
      BY <2>1, <2>3, <2>4, <3>0, <3>1
    <3>4. QED
      BY <3>2, <3>3
  <2>11. QED
    BY <1>7, <2>7, <2>8, <2>9, <2>10
<1>16. QED
  BY <1>4, <1>6, <1>9, <1>14, <1>15 DEF ShopInv

\* FirstInventory's step for the k-th name, as a loop that reads s and the names
NamedOp(s, names, q, k) ==
  IF Count(SubSeq(names, 1, k), names[k]) <= Count(s.list, names[k])
                                             + Count(IF s.mapped THEN [j \in DOMAIN s.pending |-> s.pending[j].item] ELSE <<>>, names[k])
  THEN q
  ELSE [Listed(q, names[k]) EXCEPT !.left[names[k]] = @ + 1]

\* The items that wait, those among them the inventory gave, and what the loop starts from
Waiting(s) == IF s.mapped THEN [k \in DOMAIN s.pending |-> s.pending[k].item] ELSE <<>>
Marked(s)  == [k \in DOMAIN s.pending |-> [s.pending[k] EXCEPT !.counted = @ \/ s.mapped]]
Counted(s) == [s EXCEPT !.pending = Marked(s), !.startT = s.tick]

\* How often s knows of a purchase of i, and how many more the first k names are
Known(s, i) == N(s.list, {i}) + N(Waiting(s), {i})
Over(a, b) == IF a > b THEN a - b ELSE 0
More(s, names, i, k) == Over(N(SubSeq(names, 1, k), {i}), Known(s, i))

\* What both folds leave as it was
Beside(q, c) ==
  /\ DOMAIN q = ShopFields /\ q.tick = c.tick /\ q.bought = c.bought /\ q.startT = c.startT
  /\ q.horn = c.horn /\ q.mapped = c.mapped /\ q.over = c.over /\ q.pending = c.pending
  /\ q.list \in Seq(Items) /\ q.left \in [Items -> Nat]

\* After k names: what they were more than known is listed, and left for its entries
NamedGood(s, names, q, k) ==
  /\ Beside(q, Counted(s))
  /\ \A i \in Items : /\ N(q.list, {i}) = N(s.list, {i}) + More(s, names, i, k)
                      /\ q.left[i] = s.left[i] + More(s, names, i, k)

InventoryPass == INSTANCE FoldRule WITH Op <- NamedOp, Good <- NamedGood

\* FirstInventory is the loop of that step.
LEMMA InventoryIsFold ==
  \A s, names : FirstInventory(s, names) = InventoryPass!Fold(s, names, Counted(s), [k \in DOMAIN names |-> k])
BY DEF InventoryPass!Fold, NamedOp, Counted, Marked, FirstInventory, FoldLeft,
       InventoryPass!MapThenFoldSet, MapThenFoldSet, InventoryPass!Highest, Max

\* Counting the first k + 1 entries is counting the first k and one more.
LEMMA NPrefix ==
  ASSUME NEW E, NEW s \in Seq(E), NEW k \in 0..(Len(s) - 1), NEW V
  PROVE  N(SubSeq(s, 1, k + 1), V) = N(SubSeq(s, 1, k), V) + (IF s[k + 1] \in V THEN 1 ELSE 0)
<1> DEFINE pre == SubSeq(s, 1, k)
           x == s[k + 1]
<1>1. pre \in Seq(E) /\ x \in E
  OBVIOUS
<1>2. SubSeq(s, 1, k + 1) = Append(pre, x)
  OBVIOUS
<1> HIDE DEF pre, x
<1>3. N(Append(pre, x), V) = N(pre, V) + (IF x \in V THEN 1 ELSE 0)
  BY <1>1, NAppend
<1>4. QED
  BY <1>2, <1>3 DEF pre, x

\* The excess of a count over another grows only once it is above it.
LEMMA OverSteps ==
  \A a, b \in Nat : /\ Over(a, b) \in Nat /\ Over(0, b) = 0
                    /\ Over(a + 1, b) = Over(a, b) + (IF a + 1 <= b THEN 0 ELSE 1)
BY DEF Over

\* Those that wait are items.
LEMMA WaitingTyped ==
  ASSUME NEW s, s.pending \in Seq(Held)
  PROVE  Waiting(s) \in Seq(Items)
<1>1. \A k \in 1..Len(s.pending) : s.pending[k] \in Held
  OBVIOUS
<1>2. \A k \in 1..Len(s.pending) : s.pending[k].item \in Items
  BY <1>1 DEF Held
<1> DEFINE w == [k \in 1..Len(s.pending) |-> s.pending[k].item]
<1>3. w \in Seq(Items)
  BY <1>2
<1>4. DOMAIN s.pending = 1..Len(s.pending)
  OBVIOUS
<1>5. <<>> \in Seq(Items)
  OBVIOUS
<1>6. Waiting(s) = IF s.mapped THEN w ELSE <<>>
  BY <1>4 DEF Waiting
<1> HIDE DEF w
<1>7. QED
  BY <1>3, <1>5, <1>6

\* How the names beyond those known grow, name by name.
LEMMA MoreSteps ==
  ASSUME NEW s, s.list \in Seq(Items), s.pending \in Seq(Held), NEW names \in Seq(Items), NEW i
  PROVE  /\ Known(s, i) \in Nat
         /\ More(s, names, i, 0) = 0
         /\ \A k \in 0..Len(names) : More(s, names, i, k) \in Nat
         /\ \A k \in 0..(Len(names) - 1) :
              More(s, names, i, k + 1) =
                More(s, names, i, k) + (IF names[k + 1] # i \/ N(SubSeq(names, 1, k + 1), {i}) <= Known(s, i) THEN 0 ELSE 1)
<1>1. Known(s, i) \in Nat
  <2>1. N(s.list, {i}) \in Nat /\ N(Waiting(s), {i}) \in Nat
    BY WaitingTyped, NNat
  <2>2. QED
    BY <2>1 DEF Known
<1>2. \A k \in 0..Len(names) : N(SubSeq(names, 1, k), {i}) \in Nat
  <2>1. \A k \in 0..Len(names) : SubSeq(names, 1, k) \in Seq(Items)
    OBVIOUS
  <2>2. QED
    BY <2>1, NNat
<1>3. More(s, names, i, 0) = 0
  <2>1. SubSeq(names, 1, 0) = <<>>
    OBVIOUS
  <2>2. N(SubSeq(names, 1, 0), {i}) = 0
    BY <2>1, NEmpty
  <2>3. QED
    BY <1>1, <2>2, OverSteps DEF More
<1>4. ASSUME NEW k \in 0..(Len(names) - 1)
      PROVE  More(s, names, i, k + 1) =
               More(s, names, i, k) + (IF names[k + 1] # i \/ N(SubSeq(names, 1, k + 1), {i}) <= Known(s, i) THEN 0 ELSE 1)
  <2> DEFINE a == N(SubSeq(names, 1, k), {i})
             b == N(SubSeq(names, 1, k + 1), {i})
  <2>1. k \in 0..Len(names) /\ k + 1 \in 0..Len(names)
    OBVIOUS
  <2>2. a \in Nat /\ b \in Nat
    BY <1>2, <2>1
  <2>3. b = a + (IF names[k + 1] = i THEN 1 ELSE 0)
    BY NPrefix
  <2>4. More(s, names, i, k) = Over(a, Known(s, i)) /\ More(s, names, i, k + 1) = Over(b, Known(s, i))
    BY DEF More
  <2>5. Over(a, Known(s, i)) \in Nat
    BY <1>1, <2>2, OverSteps
  <2>6. CASE names[k + 1] = i
    <3>1. b = a + 1
      BY <2>3, <2>6
    <3>2. Over(b, Known(s, i)) = Over(a, Known(s, i)) + (IF b <= Known(s, i) THEN 0 ELSE 1)
      <4> HIDE DEF a, b
      <4>1. QED
        BY <1>1, <2>2, <3>1, OverSteps
    <3>3. QED
      BY <2>4, <2>6, <3>2
  <2>7. CASE names[k + 1] # i
    <3> HIDE DEF a, b
    <3>1. QED
      BY <2>2, <2>3, <2>4, <2>5, <2>7
  <2>8. QED
    BY <2>6, <2>7
<1>5. \A k \in 0..Len(names) : More(s, names, i, k) \in Nat
  BY <1>1, <1>2, OverSteps DEF More
<1>6. QED
  BY <1>1, <1>3, <1>4, <1>5

\* What the first inventory with the given names in it makes of the list and of StartingLeft
\* The first inventory lists, and leaves for their entries, as many of an item as it
\* holds beyond those the log has told of.
LEMMA InventoryGives ==
  ASSUME NEW s, DOMAIN s = ShopFields, s.list \in Seq(Items), s.pending \in Seq(Held),
         s.left \in [Items -> Nat], NEW names \in Seq(Items)
  PROVE  /\ Beside(FirstInventory(s, names), Counted(s))
         /\ \A i \in Items :
              /\ N(FirstInventory(s, names).list, {i}) = N(s.list, {i}) + Over(N(names, {i}), Known(s, i))
              /\ FirstInventory(s, names).left[i] = s.left[i] + Over(N(names, {i}), Known(s, i))
<1> DEFINE n == Len(names)
           c == Counted(s)
           ks == [k \in DOMAIN names |-> k]
<1>1. n \in Nat /\ DOMAIN c = ShopFields /\ c.list = s.list /\ c.left = s.left
  BY DEF Counted, ShopFields
<1>3. ASSUME NEW i \in Items
      PROVE  /\ N(s.list, {i}) \in Nat /\ s.left[i] \in Nat /\ Known(s, i) \in Nat
             /\ More(s, names, i, 0) = 0
             /\ \A k \in 0..n : More(s, names, i, k) \in Nat
             /\ \A k \in 0..(n - 1) :
                  More(s, names, i, k + 1) =
                    More(s, names, i, k) + (IF names[k + 1] # i \/ N(SubSeq(names, 1, k + 1), {i}) <= Known(s, i) THEN 0 ELSE 1)
  BY MoreSteps, NNat
<1>4. NamedGood(s, names, c, 0)
  <2>1. Beside(c, c)
    BY <1>1 DEF Beside
  <2>2. ASSUME NEW i \in Items
        PROVE  /\ N(s.list, {i}) = N(s.list, {i}) + More(s, names, i, 0)
               /\ s.left[i] = s.left[i] + More(s, names, i, 0)
    <3>1. N(s.list, {i}) \in Nat /\ s.left[i] \in Nat /\ More(s, names, i, 0) = 0
      BY <1>3
    <3>2. QED
      BY <3>1
  <2>3. c.list = s.list /\ c.left = s.left
    BY <1>1
  <2>4. QED
    BY <2>1, <2>2, <2>3 DEF NamedGood
<1>5. ASSUME NEW k \in 0..(n - 1), NEW q, NamedGood(s, names, q, k) PROVE NamedGood(s, names, NamedOp(s, names, q, k + 1), k + 1)
  <2> DEFINE q2 == NamedOp(s, names, q, k + 1)
             x == names[k + 1]
             pre == SubSeq(names, 1, k + 1)
  <2>1. x \in Items /\ k \in 0..n /\ k + 1 \in 0..n /\ pre \in Seq(Items)
    OBVIOUS
  <2>2. q2 = IF N(pre, {x}) <= Known(s, x) THEN q ELSE [Listed(q, x) EXCEPT !.left[x] = @ + 1]
    <3>1. Waiting(s) \in Seq(Items)
      BY WaitingTyped
    <3>2. Count(pre, x) = N(pre, {x}) /\ Count(s.list, x) = N(s.list, {x}) /\ Count(Waiting(s), x) = N(Waiting(s), {x})
      BY <2>1, <3>1, CountIsN
    <3>4. q2 =
            IF Count(pre, x) <= Count(s.list, x) + Count(Waiting(s), x) THEN q ELSE [Listed(q, x) EXCEPT !.left[x] = @ + 1]
      BY DEF NamedOp, Waiting
    <3> HIDE DEF q2, x, pre
    <3>5. QED
      BY <3>2, <3>4 DEF Known
  <2>3. Beside(q, c) /\ \A i \in Items : /\ N(q.list, {i}) = N(s.list, {i}) + More(s, names, i, k)
                                         /\ q.left[i] = s.left[i] + More(s, names, i, k)
    BY <1>5 DEF NamedGood
  <2>4. \A i \in Items : /\ More(s, names, i, k) \in Nat /\ N(s.list, {i}) \in Nat /\ s.left[i] \in Nat
                         /\ More(s, names, i, k + 1) = More(s, names, i, k) + (IF x # i \/ N(pre, {i}) <= Known(s, i) THEN 0 ELSE 1)
    BY <1>3, <2>1
  <2> HIDE DEF c, q2, x, pre, n
  <2>5. CASE N(pre, {x}) <= Known(s, x)
    <3>1. q2 = q
      BY <2>2, <2>5
    <3>2. ASSUME NEW i \in Items PROVE More(s, names, i, k + 1) = More(s, names, i, k)
      <4>1. x # i \/ N(pre, {i}) <= Known(s, i)
        BY <2>5
      <4>2. /\ More(s, names, i, k) \in Nat
            /\ More(s, names, i, k + 1) = More(s, names, i, k) + (IF x # i \/ N(pre, {i}) <= Known(s, i) THEN 0 ELSE 1)
        BY <2>4
      <4>3. More(s, names, i, k + 1) = More(s, names, i, k) + 0
        BY <4>1, <4>2
      <4>4. QED
        BY <4>2, <4>3
    <3>3. QED
      BY <2>3, <3>1, <3>2 DEF NamedGood, c, q2
  <2>6. CASE ~(N(pre, {x}) <= Known(s, x))
    <3>1. q2 = [Listed(q, x) EXCEPT !.left[x] = @ + 1]
      BY <2>2, <2>6
    <3>2. /\ DOMAIN q = ShopFields /\ q.tick = c.tick /\ q.bought = c.bought /\ q.startT = c.startT
          /\ q.horn = c.horn /\ q.mapped = c.mapped /\ q.over = c.over /\ q.pending = c.pending
          /\ q.list \in Seq(Items) /\ q.left \in [Items -> Nat]
      BY <2>3 DEF Beside
    <3>3. q2.list = Append(q.list, x) /\ q2.left = [q.left EXCEPT ![x] = @ + 1]
      BY <3>1, <3>2 DEF Listed, ShopFields
    <3>4. Beside(q2, c)
      <4>1. /\ DOMAIN q2 = ShopFields /\ q2.tick = c.tick /\ q2.bought = c.bought /\ q2.startT = c.startT
            /\ q2.pending = c.pending
        BY <3>1, <3>2 DEF Listed, ShopFields
      <4>2. q2.horn = c.horn /\ q2.mapped = c.mapped /\ q2.over = c.over
        BY <3>1, <3>2 DEF Listed, ShopFields
      <4>3. q2.list \in Seq(Items) /\ q2.left \in [Items -> Nat]
        BY <2>1, <3>2, <3>3
      <4>4. QED
        BY <4>1, <4>2, <4>3 DEF Beside
    <3>5. ASSUME NEW i \in Items
          PROVE  /\ N(q2.list, {i}) = N(s.list, {i}) + More(s, names, i, k + 1)
                 /\ q2.left[i] = s.left[i] + More(s, names, i, k + 1)
      <4>1. More(s, names, i, k + 1) = More(s, names, i, k) + (IF i = x THEN 1 ELSE 0)
        BY <2>4, <2>6
      <4>2. N(q2.list, {i}) = N(q.list, {i}) + (IF i = x THEN 1 ELSE 0)
        <5>1. N(Append(q.list, x), {i}) = N(q.list, {i}) + (IF x \in {i} THEN 1 ELSE 0)
          BY <2>1, <3>2, NAppend
        <5>2. QED
          BY <3>3, <5>1
      <4>3. q2.left[i] = q.left[i] + (IF i = x THEN 1 ELSE 0)
        <5>1. q.left[i] \in Nat /\ q.left \in [Items -> Nat]
          BY <3>2
        <5>2. [q.left EXCEPT ![x] = @ + 1][i] = IF i = x THEN q.left[i] + 1 ELSE q.left[i]
          BY <2>1, <5>1
        <5>3. CASE i = x
          BY <3>3, <5>2, <5>3
        <5>4. CASE i # x
          BY <3>3, <5>1, <5>2, <5>4
        <5>5. QED
          BY <5>3, <5>4
      <4>4. N(s.list, {i}) \in Nat /\ s.left[i] \in Nat /\ More(s, names, i, k) \in Nat
        BY <2>4
      <4>5. N(q.list, {i}) = N(s.list, {i}) + More(s, names, i, k) /\ q.left[i] = s.left[i] + More(s, names, i, k)
        BY <2>3
      <4>6. PICK d \in {0, 1} : /\ More(s, names, i, k + 1) = More(s, names, i, k) + d
                                /\ N(q2.list, {i}) = N(q.list, {i}) + d
                                /\ q2.left[i] = q.left[i] + d
        BY <4>1, <4>2, <4>3
      <4>7. N(q2.list, {i}) = N(s.list, {i}) + More(s, names, i, k + 1)
        BY <4>4, <4>5, <4>6
      <4>8. q2.left[i] = s.left[i] + More(s, names, i, k + 1)
        BY <4>4, <4>5, <4>6
      <4>9. QED
        BY <4>7, <4>8
    <3>6. QED
      BY <3>4, <3>5 DEF NamedGood, c, q2
  <2>7. QED
    BY <2>5, <2>6
<1>6. NamedGood(s, names, FirstInventory(s, names), n)
  <2>1. ks \in Seq(Nat) /\ Len(ks) = n /\ \A k \in 0..(n - 1) : ks[k + 1] = k + 1
    BY <1>1
  <2>2. FirstInventory(s, names) = InventoryPass!Fold(s, names, c, ks)
    BY InventoryIsFold
  <2> HIDE DEF ks, c, n
  <2>3. \A k \in 0..(Len(ks) - 1) : \A q :
          NamedGood(s, names, q, k) => NamedGood(s, names, NamedOp(s, names, q, ks[k + 1]), k + 1)
    BY <1>5, <2>1
  <2>4. NamedGood(s, names, InventoryPass!Fold(s, names, c, ks), Len(ks))
    BY <1>4, <2>1, <2>3, InventoryPass!FoldHolds
  <2>5. QED
    BY <2>1, <2>2, <2>4
<1>7. SubSeq(names, 1, n) = names
  OBVIOUS
<1> HIDE DEF c
<1>8. QED
  BY <1>6, <1>7 DEF NamedGood, More

\* A prefix counts no more than the whole.
LEMMA NTop ==
  ASSUME NEW E, NEW s \in Seq(E), NEW k \in 0..Len(s), NEW V
  PROVE  N(SubSeq(s, 1, k), V) <= N(s, V)
<1> DEFINE A == {j \in 1..Len(SubSeq(s, 1, k)) : SubSeq(s, 1, k)[j] \in V}
           B == {j \in 1..Len(s) : s[j] \in V}
<1>1. A \subseteq B
  OBVIOUS
<1>2. IsFiniteSet(B)
  BY FS_Interval, FS_Subset, SMTT(30)
<1> HIDE DEF A, B
<1>3. Cardinality(A) <= Cardinality(B)
  BY <1>1, <1>2, FS_Subset
<1>4. N(SubSeq(s, 1, k), V) = Cardinality(A) /\ N(s, V) = Cardinality(B)
  BY DEF N, A, B
<1>5. QED
  BY <1>3, <1>4

\* What is not there is not counted.
LEMMA NNone ==
  ASSUME NEW s, NEW V, \A k \in 1..Len(s) : s[k] \notin V
  PROVE  N(s, V) = 0
<1>1. {k \in 1..Len(s) : s[k] \in V} = {}
  OBVIOUS
<1>2. QED
  BY <1>1, FS_EmptySet DEF N

\* Sequences that agree entry by entry count alike.
LEMMA NMap ==
  ASSUME NEW s, NEW t, Len(s) = Len(t), NEW V, NEW W, \A k \in 1..Len(s) : s[k] \in V <=> t[k] \in W
  PROVE  N(s, V) = N(t, W)
<1>1. {k \in 1..Len(s) : s[k] \in V} = {k \in 1..Len(t) : t[k] \in W}
  OBVIOUS
<1>2. QED
  BY <1>1 DEF N

\* The first inventory brings the account in order: what it gives is what had no
\* entry or one still to come.
LEMMA InventoryStep ==
  ASSUME ShopInv, ReadInventory
  PROVE  ShopInv'
<1> DEFINE names == [k \in DOMAIN shop.bought |-> shop.bought[k].item]
           c == Counted(shop)
           q == FirstInventory(shop, names)
           T == shop.tick
<1>1. ShopTypes /\ ~shop.horn /\ shop.startT = -1 /\ shop' = q
  BY DEF ShopInv, ReadInventory
<1>2. ~shop.over /\ BeforeInventory
  BY <1>1 DEF ShopInv
<1>3. /\ DOMAIN shop = ShopFields /\ shop.bought \in Seq(Entry) /\ shop.list \in Seq(Items) /\ shop.pending \in Seq(Held)
      /\ shop.left \in [Items -> Nat] /\ T \in Nat
  BY <1>1 DEF ShopTypes
<1>4. names \in Seq(Items) /\ Len(names) = Len(shop.bought) /\ \A k \in 1..Len(shop.bought) : names[k] = shop.bought[k].item
  <2>1. \A k \in 1..Len(shop.bought) : shop.bought[k] \in Entry
    BY <1>3
  <2>2. \A k \in 1..Len(shop.bought) : shop.bought[k].item \in Items
    BY <2>1 DEF Entry
  <2>3. DOMAIN shop.bought = 1..Len(shop.bought) /\ Len(shop.bought) \in Nat
    BY <1>3
  <2>4. QED
    BY <2>2, <2>3
<1>5. /\ Beside(q, c)
      /\ \A i \in Items : /\ N(q.list, {i}) = N(shop.list, {i}) + Over(N(names, {i}), Known(shop, i))
                          /\ q.left[i] = shop.left[i] + Over(N(names, {i}), Known(shop, i))
  <2> HIDE DEF names
  <2>1. QED
    BY <1>3, <1>4, InventoryGives
<1>6. /\ DOMAIN c = ShopFields /\ c.tick = T /\ c.bought = shop.bought /\ c.startT = T
      /\ c.pending = [k \in DOMAIN shop.pending |-> [shop.pending[k] EXCEPT !.counted = @ \/ shop.mapped]]
  BY <1>3 DEF Counted, Marked, ShopFields
<1>7. c.horn = shop.horn /\ c.mapped = shop.mapped /\ c.over = shop.over
  BY <1>3 DEF Counted, ShopFields
<1>8. /\ DOMAIN shop' = ShopFields /\ shop'.tick = T /\ shop'.bought = shop.bought /\ shop'.startT = T
      /\ shop'.pending = c.pending /\ shop'.list \in Seq(Items) /\ shop'.left \in [Items -> Nat]
      /\ shop'.horn = shop.horn /\ shop'.mapped = shop.mapped /\ shop'.over = shop.over
  BY <1>1, <1>5, <1>6, <1>7 DEF Beside
<1>9. /\ c.pending \in Seq(Held) /\ Len(c.pending) = Len(shop.pending)
      /\ \A k \in 1..Len(shop.pending) : /\ c.pending[k].item = shop.pending[k].item
                                         /\ c.pending[k].time = shop.pending[k].time
                                         /\ c.pending[k].counted <=> shop.mapped
                                         /\ c.pending[k] \in Held
  <2>1. shop.mapped \in BOOLEAN
    BY <1>1 DEF ShopTypes
  <2>2. ASSUME NEW k \in 1..Len(shop.pending)
        PROVE  LET p == [shop.pending[k] EXCEPT !.counted = @ \/ shop.mapped]
               IN  p \in Held /\ p.item = shop.pending[k].item /\ p.time = shop.pending[k].time /\ (p.counted <=> shop.mapped)
    <3>1. shop.pending[k] \in Held
      BY <1>3
    <3>2. ~shop.pending[k].counted
      BY <1>2 DEF BeforeInventory
    <3>3. QED
      BY <2>1, <3>1, <3>2 DEF Held
  <2>3. DOMAIN shop.pending = 1..Len(shop.pending) /\ Len(shop.pending) \in Nat
    BY <1>3
  <2>4. DOMAIN c.pending = 1..Len(shop.pending)
    BY <1>6, <2>3
  <2>5. \A k \in 1..Len(shop.pending) : c.pending[k] = [shop.pending[k] EXCEPT !.counted = @ \/ shop.mapped]
    BY <1>6, <2>3
  <2>6. \A k \in 1..Len(shop.pending) : c.pending[k] \in Held
    BY <2>2, <2>5
  <2>7. c.pending \in Seq(Held) /\ Len(c.pending) = Len(shop.pending)
    BY <1>6, <2>3, <2>4, <2>6
  <2>8. QED
    BY <2>2, <2>5, <2>6, <2>7
<1>10. ShopTypes'
  <2>1. \A k \in 1..Len(c.pending) : 0 <= c.pending[k].time /\ c.pending[k].time <= T
    BY <1>1, <1>9 DEF ShopTypes
  <2>2. shop'.horn \in BOOLEAN /\ shop'.mapped \in BOOLEAN /\ shop'.over \in BOOLEAN
    BY <1>1, <1>8 DEF ShopTypes
  <2>3. \A k \in 1..Len(shop.bought) : 0 <= shop.bought[k].time /\ shop.bought[k].time <= T
    BY <1>1 DEF ShopTypes
  <2>4. T \in Int /\ -1 <= T /\ T <= T
    BY <1>3
  <2> HIDE DEF c, T
  <2>5. QED
    BY <1>3, <1>8, <1>9, <2>1, <2>2, <2>3, <2>4 DEF ShopTypes, T
<1>11. ASSUME NEW i \in Items
       PROVE  /\ shop'.left[i] = N(shop.bought, Unlogged(i)) + N(shop.bought, Early(i, T)) + N(c.pending, InHand(i, T))
              /\ N(shop'.list, {i}) + N(c.pending, Fresh(i, T)) + N(shop.bought, Late(i, T)) = N(shop.bought, All(i))
  <2>1. N(names, {i}) = N(shop.bought, All(i))
    <3>1. \A k \in 1..Len(shop.bought) : shop.bought[k] \in Entry
      BY <1>3
    <3>2. \A k \in 1..Len(names) : names[k] \in {i} <=> shop.bought[k] \in All(i)
      BY <1>4, <3>1 DEF All
    <3> HIDE DEF names
    <3>3. QED
      BY <1>4, <3>2, NMap
  <2>2. N(shop.bought, All(i)) = N(shop.bought, Unlogged(i)) + N(shop.bought, Early(i, T)) + N(shop.bought, Late(i, T)) + N(shop.bought, Read(i))
    BY <1>3, EntryParts
  <2>3. N(shop.bought, Late(i, T)) = 0
    <3>1. ASSUME NEW k \in 1..Len(shop.bought) PROVE shop.bought[k] \notin Late(i, T)
      <4>1. shop.bought[k] \in Entry /\ shop.bought[k].time <= T
        BY <1>1, <1>3 DEF ShopTypes
      <4>2. shop.bought[k].time \in Int
        BY <4>1 DEF Entry
      <4>3. QED
        BY <1>3, <4>1, <4>2 DEF Late
    <3>2. QED
      BY <3>1, NNone
  <2>4. shop.left[i] = 0 /\ N(shop.list, {i}) + N(shop.pending, Waits(i)) = N(shop.bought, Read(i))
    BY <1>2 DEF BeforeInventory
  <2>5. /\ N(shop.bought, Unlogged(i)) \in Nat /\ N(shop.bought, Early(i, T)) \in Nat /\ N(shop.bought, Read(i)) \in Nat
        /\ N(shop.list, {i}) \in Nat /\ N(shop.pending, Waits(i)) \in Nat
    BY <1>3, NNat
  <2>6. N(shop'.list, {i}) = N(shop.list, {i}) + Over(N(names, {i}), Known(shop, i))
        /\ shop'.left[i] = shop.left[i] + Over(N(names, {i}), Known(shop, i))
    BY <1>1, <1>5
  <2>7. CASE shop.mapped
    <3>1. N(Waiting(shop), {i}) = N(shop.pending, Waits(i))
      <4>1. DOMAIN shop.pending = 1..Len(shop.pending) /\ Len(shop.pending) \in Nat
        BY <1>3
      <4>2. /\ Len(Waiting(shop)) = Len(shop.pending)
            /\ \A k \in 1..Len(shop.pending) : Waiting(shop)[k] = shop.pending[k].item
        BY <2>7, <4>1 DEF Waiting
      <4>3. \A k \in 1..Len(shop.pending) : shop.pending[k] \in Held
        BY <1>3
      <4>4. \A k \in 1..Len(Waiting(shop)) : Waiting(shop)[k] \in {i} <=> shop.pending[k] \in Waits(i)
        BY <4>2, <4>3 DEF Waits
      <4>5. QED
        BY <4>2, <4>4, NMap
    <3>2. N(c.pending, InHand(i, T)) = 0
      <4>1. \A k \in 1..Len(c.pending) : c.pending[k] \notin InHand(i, T)
        BY <1>9, <2>7 DEF InHand
      <4> HIDE DEF c
      <4>2. QED
        BY <4>1, NNone
    <3>3. N(c.pending, Fresh(i, T)) = N(shop.pending, Waits(i))
      <4>1. \A k \in 1..Len(shop.pending) : shop.pending[k] \in Held
        BY <1>3
      <4>2. \A k \in 1..Len(c.pending) : c.pending[k] \in Fresh(i, T) <=> shop.pending[k] \in Waits(i)
        BY <1>9, <2>7, <4>1 DEF Fresh, Waits
      <4> HIDE DEF c
      <4>3. QED
        BY <1>9, <4>2, NMap
    <3>4. Over(N(names, {i}), Known(shop, i)) = N(shop.bought, Unlogged(i)) + N(shop.bought, Early(i, T))
      BY <2>1, <2>2, <2>3, <2>4, <2>5, <3>1 DEF Known, Over
    <3> HIDE DEF names, c, q, T
    <3>5. QED
      BY <2>2, <2>3, <2>4, <2>5, <2>6, <3>2, <3>3, <3>4
  <2>8. CASE ~shop.mapped
    <3>1. N(Waiting(shop), {i}) = 0
      BY <2>8, NEmpty DEF Waiting
    <3>2. N(c.pending, Fresh(i, T)) = 0
      <4>1. ASSUME NEW k \in 1..Len(c.pending) PROVE c.pending[k] \notin Fresh(i, T)
        <5>1. k \in 1..Len(shop.pending)
          BY <1>9
        <5>2. shop.pending[k] \in Held /\ shop.pending[k].time <= T
          BY <1>1, <1>3, <5>1 DEF ShopTypes
        <5>3. shop.pending[k].time \in Int
          BY <5>2 DEF Held
        <5>4. ~c.pending[k].counted /\ c.pending[k].time = shop.pending[k].time
          BY <1>9, <2>8, <5>1
        <5>5. QED
          BY <1>3, <5>2, <5>3, <5>4 DEF Fresh
      <4> HIDE DEF c
      <4>2. QED
        BY <4>1, NNone
    <3>3. N(c.pending, InHand(i, T)) = N(shop.pending, Waits(i))
      <4>1. ASSUME NEW k \in 1..Len(c.pending) PROVE c.pending[k] \in InHand(i, T) <=> shop.pending[k] \in Waits(i)
        <5>1. k \in 1..Len(shop.pending)
          BY <1>9
        <5>2. shop.pending[k] \in Held /\ shop.pending[k].time <= T
          BY <1>1, <1>3, <5>1 DEF ShopTypes
        <5>3. /\ ~c.pending[k].counted /\ c.pending[k].time = shop.pending[k].time /\ c.pending[k].item = shop.pending[k].item
              /\ c.pending[k] \in Held
          BY <1>9, <2>8, <5>1
        <5>4. QED
          BY <5>2, <5>3 DEF InHand, Waits
      <4> HIDE DEF c
      <4>2. QED
        BY <1>9, <4>1, NMap
    <3>4. Known(shop, i) = N(shop.list, {i})
      BY <2>5, <3>1 DEF Known
    <3>5. Over(N(names, {i}), Known(shop, i)) = N(shop.bought, Unlogged(i)) + N(shop.bought, Early(i, T)) + N(shop.pending, Waits(i))
      BY <2>1, <2>2, <2>3, <2>4, <2>5, <3>4 DEF Over
    <3> HIDE DEF names, c, q, T
    <3>6. QED
      BY <2>2, <2>3, <2>4, <2>5, <2>6, <3>2, <3>3, <3>5
  <2>9. QED
    BY <2>7, <2>8
<1>12. AfterInventory'
  <2> HIDE DEF c, T
  <2>1. QED
    BY <1>1, <1>8, <1>11 DEF AfterInventory
<1>13. QED
  BY <1>2, <1>3, <1>8, <1>10, <1>12 DEF ShopInv

\* FlushPendingPurchases's step
FlushOp(c, d, q, p) ==
  IF ~p.counted /\ p.time <= q.startT /\ q.left[p.item] > 0 THEN [q EXCEPT !.left[p.item] = @ - 1] ELSE Listed(q, p.item)

\* After k of those that waited: a starting item is done with, the others are listed
FlushGood(s, d, q, k) ==
  /\ Beside(q, [s EXCEPT !.pending = <<>>])
  /\ \A i \in Items : /\ N(q.list, {i}) = N(s.list, {i}) + N(SubSeq(s.pending, 1, k), Fresh(i, s.startT))
                      /\ q.left[i] = s.left[i] - N(SubSeq(s.pending, 1, k), InHand(i, s.startT))

FlushPass == INSTANCE FoldRule WITH Op <- FlushOp, Good <- FlushGood

\* FlushPendingPurchases is the loop of that step.
LEMMA FlushIsFold ==
  \A s : FlushPendingPurchases(s) = IF s.mapped THEN FlushPass!Fold(s, 0, [s EXCEPT !.pending = <<>>], s.pending) ELSE s
BY DEF FlushPass!Fold, FlushOp, FlushPendingPurchases, FoldLeft, FlushPass!MapThenFoldSet, MapThenFoldSet,
       FlushPass!Highest, Max

\* Where the starting items left cover those that wait, the flush lists every other
\* waiting entry and no starting item again.
LEMMA FlushGives ==
  ASSUME NEW s, DOMAIN s = ShopFields, s.list \in Seq(Items), s.pending \in Seq(Held), s.startT \in Int, s.mapped,
         s.left \in [Items -> Nat], \A i \in Items : s.left[i] >= N(s.pending, InHand(i, s.startT))
  PROVE  /\ Beside(FlushPendingPurchases(s), [s EXCEPT !.pending = <<>>])
         /\ \A i \in Items :
              N(FlushPendingPurchases(s).list, {i}) = N(s.list, {i}) + N(s.pending, Fresh(i, s.startT))
<1> DEFINE n == Len(s.pending)
           c == [s EXCEPT !.pending = <<>>]
           T == s.startT
           gone(i, k) == N(SubSeq(s.pending, 1, k), InHand(i, T))
           told(i, k) == N(SubSeq(s.pending, 1, k), Fresh(i, T))
<1>1. n \in Nat /\ DOMAIN c = ShopFields /\ c.list = s.list /\ c.left = s.left /\ c.startT = T
  BY DEF ShopFields
<1>3. ASSUME NEW i \in Items
      PROVE  /\ N(s.list, {i}) \in Nat /\ s.left[i] \in Nat
             /\ gone(i, 0) = 0 /\ told(i, 0) = 0
             /\ \A k \in 0..n : told(i, k) \in Nat /\ gone(i, k) \in Nat /\ gone(i, k) <= s.left[i]
             /\ \A k \in 0..(n - 1) :
                  /\ gone(i, k + 1) = gone(i, k) + (IF s.pending[k + 1] \in InHand(i, T) THEN 1 ELSE 0)
                  /\ told(i, k + 1) = told(i, k) + (IF s.pending[k + 1] \in Fresh(i, T) THEN 1 ELSE 0)
  <2>1. SubSeq(s.pending, 1, 0) = <<>>
    OBVIOUS
  <2>2. gone(i, 0) = 0 /\ told(i, 0) = 0
    BY <2>1, NEmpty
  <2>3. ASSUME NEW k \in 0..n PROVE told(i, k) \in Nat /\ gone(i, k) \in Nat /\ gone(i, k) <= s.left[i]
    <3>1. SubSeq(s.pending, 1, k) \in Seq(Held)
      OBVIOUS
    <3>2. told(i, k) \in Nat /\ gone(i, k) \in Nat /\ N(s.pending, InHand(i, T)) \in Nat
      BY <3>1, NNat
    <3>3. gone(i, k) <= N(s.pending, InHand(i, T))
      BY NTop
    <3>4. s.left[i] \in Nat /\ s.left[i] >= N(s.pending, InHand(i, T))
      OBVIOUS
    <3> HIDE DEF gone, told
    <3>5. QED
      BY <3>2, <3>3, <3>4
  <2>4. \A k \in 0..(n - 1) :
          /\ gone(i, k + 1) = gone(i, k) + (IF s.pending[k + 1] \in InHand(i, T) THEN 1 ELSE 0)
          /\ told(i, k + 1) = told(i, k) + (IF s.pending[k + 1] \in Fresh(i, T) THEN 1 ELSE 0)
    BY NPrefix
  <2>5. N(s.list, {i}) \in Nat
    BY NNat
  <2> HIDE DEF gone, told
  <2>6. QED
    BY <2>2, <2>3, <2>4, <2>5
<1> HIDE DEF gone, told, c
<1>4. FlushGood(s, 0, c, 0)
  <2>1. Beside(c, c)
    BY <1>1 DEF Beside
  <2>2. ASSUME NEW i \in Items PROVE N(c.list, {i}) = N(s.list, {i}) + told(i, 0) /\ c.left[i] = s.left[i] - gone(i, 0)
    <3>1. N(s.list, {i}) \in Nat /\ s.left[i] \in Nat /\ gone(i, 0) = 0 /\ told(i, 0) = 0
      BY <1>3
    <3>2. QED
      BY <1>1, <3>1
  <2>3. QED
    BY <2>1, <2>2 DEF FlushGood, c, told, gone
<1>5. ASSUME NEW k \in 0..(n - 1), NEW q, FlushGood(s, 0, q, k)
      PROVE  FlushGood(s, 0, FlushOp(s, 0, q, s.pending[k + 1]), k + 1)
  <2> DEFINE q2 == FlushOp(s, 0, q, s.pending[k + 1])
             p == s.pending[k + 1]
             x == p.item
  <2>1. p \in Held /\ k \in 0..n /\ k + 1 \in 0..n
    OBVIOUS
  <2>2. x \in Items /\ p.time \in Int /\ p.counted \in BOOLEAN
    BY <2>1 DEF Held
  <2>3. Beside(q, c) /\ \A i \in Items : N(q.list, {i}) = N(s.list, {i}) + told(i, k) /\ q.left[i] = s.left[i] - gone(i, k)
    BY <1>5 DEF FlushGood, c, told, gone
  <2>4. /\ DOMAIN q = ShopFields /\ q.tick = c.tick /\ q.bought = c.bought /\ q.startT = c.startT
        /\ q.horn = c.horn /\ q.mapped = c.mapped /\ q.over = c.over /\ q.pending = c.pending
        /\ q.list \in Seq(Items) /\ q.left \in [Items -> Nat]
    BY <2>3 DEF Beside
  <2>5. ASSUME NEW i \in Items
        PROVE  /\ N(s.list, {i}) \in Nat /\ s.left[i] \in Nat /\ told(i, k) \in Nat /\ gone(i, k) \in Nat
               /\ gone(i, k + 1) <= s.left[i]
               /\ gone(i, k + 1) = gone(i, k) + (IF i = x /\ ~p.counted /\ p.time <= T THEN 1 ELSE 0)
               /\ told(i, k + 1) = told(i, k) + (IF i = x /\ ~(~p.counted /\ p.time <= T) THEN 1 ELSE 0)
    <3>1. /\ p \in InHand(i, T) <=> i = x /\ ~p.counted /\ p.time <= T
          /\ p \in Fresh(i, T) <=> i = x /\ ~(~p.counted /\ p.time <= T)
      BY <2>1, <2>2 DEF InHand, Fresh
    <3> HIDE DEF p, x
    <3>2. /\ gone(i, k + 1) = gone(i, k) + (IF p \in InHand(i, T) THEN 1 ELSE 0)
          /\ told(i, k + 1) = told(i, k) + (IF p \in Fresh(i, T) THEN 1 ELSE 0)
      BY <1>3 DEF p
    <3>3. QED
      BY <1>3, <2>1, <3>1, <3>2
  <2>6. q2 = IF ~p.counted /\ p.time <= q.startT /\ q.left[x] > 0 THEN [q EXCEPT !.left[x] = @ - 1] ELSE Listed(q, x)
    BY DEF FlushOp
  <2>7. q.startT = T
    BY <1>1, <2>4
  <2> HIDE DEF q2, p, x, n, T
  <2>8. CASE ~p.counted /\ p.time <= T
    <3>1. q.left[x] > 0
      <4>1. gone(x, k + 1) = gone(x, k) + 1
        BY <2>2, <2>5, <2>8
      <4>2. QED
        <5>1. /\ s.left[x] \in Nat /\ gone(x, k) \in Nat /\ gone(x, k + 1) <= s.left[x] /\ q.left[x] = s.left[x] - gone(x, k)
          BY <2>2, <2>3, <2>5
        <5>2. QED
          BY <4>1, <5>1
    <3>2. q2 = [q EXCEPT !.left[x] = @ - 1]
      BY <2>6, <2>7, <2>8, <3>1
    <3>3. q2.list = q.list /\ q2.left = [q.left EXCEPT ![x] = @ - 1]
      BY <2>4, <3>2 DEF ShopFields
    <3>4. q.left[x] \in Nat /\ q.left[x] - 1 \in Nat
      BY <2>2, <2>4, <3>1
    <3>5. Beside(q2, c)
      <4>1. /\ DOMAIN q2 = ShopFields /\ q2.tick = c.tick /\ q2.bought = c.bought /\ q2.startT = c.startT /\ q2.pending = c.pending
        BY <2>4, <3>2 DEF ShopFields
      <4>2. q2.horn = c.horn /\ q2.mapped = c.mapped /\ q2.over = c.over
        BY <2>4, <3>2 DEF ShopFields
      <4>3. q2.list \in Seq(Items) /\ q2.left \in [Items -> Nat]
        BY <2>2, <2>4, <3>3, <3>4
      <4>4. QED
        BY <4>1, <4>2, <4>3 DEF Beside
    <3>6. ASSUME NEW i \in Items PROVE N(q2.list, {i}) = N(s.list, {i}) + told(i, k + 1) /\ q2.left[i] = s.left[i] - gone(i, k + 1)
      <4>1. told(i, k + 1) = told(i, k)
        <5>1. told(i, k) \in Nat /\ told(i, k + 1) = told(i, k) + 0
          BY <2>5, <2>8
        <5>2. QED
          BY <5>1
      <4>2. gone(i, k + 1) = gone(i, k) + (IF i = x THEN 1 ELSE 0)
        BY <2>5, <2>8
      <4>3. q2.left[i] = q.left[i] - (IF i = x THEN 1 ELSE 0)
        <5>1. q.left[i] \in Nat
          BY <2>4
        <5>2. CASE i = x
          BY <2>2, <2>4, <3>3, <5>2
        <5>3. CASE i # x
          BY <2>2, <2>4, <3>3, <5>1, <5>3
        <5>4. QED
          BY <5>2, <5>3
      <4>4. PICK d \in {0, 1} : gone(i, k + 1) = gone(i, k) + d /\ q2.left[i] = q.left[i] - d
        BY <4>2, <4>3
      <4>5. s.left[i] \in Nat /\ gone(i, k) \in Nat /\ q.left[i] = s.left[i] - gone(i, k)
        BY <2>3, <2>5
      <4>6. q2.left[i] = s.left[i] - gone(i, k + 1)
        BY <4>4, <4>5
      <4>7. QED
        BY <2>3, <3>3, <4>1, <4>6
    <3>7. QED
      BY <3>5, <3>6 DEF q2, p, T, FlushGood, c, told, gone
  <2>9. CASE ~(~p.counted /\ p.time <= T)
    <3>2. q2 = Listed(q, x)
      BY <2>6, <2>7, <2>9
    <3>3. q2.list = Append(q.list, x) /\ q2.left = q.left
      BY <2>4, <3>2 DEF Listed, ShopFields
    <3>5. Beside(q2, c)
      <4>1. /\ DOMAIN q2 = ShopFields /\ q2.tick = c.tick /\ q2.bought = c.bought /\ q2.startT = c.startT /\ q2.pending = c.pending
        BY <2>4, <3>2 DEF Listed, ShopFields
      <4>2. q2.horn = c.horn /\ q2.mapped = c.mapped /\ q2.over = c.over
        BY <2>4, <3>2 DEF Listed, ShopFields
      <4>3. q2.list \in Seq(Items) /\ q2.left \in [Items -> Nat]
        BY <2>2, <2>4, <3>3
      <4>4. QED
        BY <4>1, <4>2, <4>3 DEF Beside
    <3>6. ASSUME NEW i \in Items PROVE N(q2.list, {i}) = N(s.list, {i}) + told(i, k + 1) /\ q2.left[i] = s.left[i] - gone(i, k + 1)
      <4>1. gone(i, k + 1) = gone(i, k)
        <5>1. gone(i, k) \in Nat /\ gone(i, k + 1) = gone(i, k) + 0
          BY <2>5, <2>9
        <5>2. QED
          BY <5>1
      <4>2. told(i, k + 1) = told(i, k) + (IF i = x THEN 1 ELSE 0)
        BY <2>5, <2>9
      <4>3. N(q2.list, {i}) = N(q.list, {i}) + (IF i = x THEN 1 ELSE 0)
        <5>1. N(Append(q.list, x), {i}) = N(q.list, {i}) + (IF x \in {i} THEN 1 ELSE 0)
          BY <2>2, <2>4, NAppend
        <5>2. QED
          BY <3>3, <5>1
      <4>4. PICK d \in {0, 1} : told(i, k + 1) = told(i, k) + d /\ N(q2.list, {i}) = N(q.list, {i}) + d
        BY <4>2, <4>3
      <4>5. N(s.list, {i}) \in Nat /\ told(i, k) \in Nat /\ N(q.list, {i}) = N(s.list, {i}) + told(i, k)
        BY <2>3, <2>5
      <4>6. N(q2.list, {i}) = N(s.list, {i}) + told(i, k + 1)
        BY <4>4, <4>5
      <4>7. QED
        BY <2>3, <3>3, <4>1, <4>6
    <3>7. QED
      BY <3>5, <3>6 DEF q2, p, T, FlushGood, c, told, gone
  <2>10. QED
    BY <2>8, <2>9
<1>6. FlushGood(s, 0, FlushPendingPurchases(s), n)
  <2>1. FlushPendingPurchases(s) = FlushPass!Fold(s, 0, c, s.pending)
    BY FlushIsFold DEF c
  <2>2. QED
    BY <1>4, <1>5, <2>1, FlushPass!FoldHolds
<1>7. SubSeq(s.pending, 1, n) = s.pending
  OBVIOUS
<1>8. QED
  BY <1>6, <1>7 DEF FlushGood

\* At the end nothing is owed, so the list is what was bought.
LEMMA EndStep ==
  ASSUME ShopInv, ShopEnd
  PROVE  ShopInv'
<1> DEFINE T == shop.startT
           q == FlushPendingPurchases(shop)
           c == [shop EXCEPT !.pending = <<>>]
<1>1. /\ ShopTypes /\ ~shop.over /\ shop.horn /\ shop.mapped
      /\ shop' = [q EXCEPT !.over = TRUE]
  BY DEF ShopInv, ShopEnd
<1>2. /\ DOMAIN shop = ShopFields /\ shop.bought \in Seq(Entry) /\ shop.list \in Seq(Items) /\ shop.pending \in Seq(Held)
      /\ shop.left \in [Items -> Nat] /\ T \in Int /\ -1 <= T
  BY <1>1 DEF ShopTypes
<1>3. NoneToCome
  <2>1. DOMAIN shop.bought = 1..Len(shop.bought)
    BY <1>2
  <2>2. QED
    BY <2>1 DEF ShopEnd, NoneToCome
<1>4. ASSUME NEW i \in Items
      PROVE  /\ shop.left[i] >= N(shop.pending, InHand(i, T))
             /\ N(shop.list, {i}) + N(shop.pending, Fresh(i, T)) = N(shop.bought, All(i))
  <2>1. /\ N(shop.bought, Unlogged(i)) \in Nat /\ N(shop.bought, Early(i, T)) \in Nat /\ N(shop.bought, Late(i, T)) \in Nat
        /\ N(shop.bought, Read(i)) \in Nat /\ N(shop.bought, All(i)) \in Nat
        /\ N(shop.list, {i}) \in Nat /\ N(shop.pending, InHand(i, T)) \in Nat /\ N(shop.pending, Fresh(i, T)) \in Nat
    BY <1>2, NNat
  <2>2. N(shop.bought, Late(i, T)) = 0 /\ N(shop.bought, Early(i, T)) = 0
    <3>1. \A k \in 1..Len(shop.bought) : shop.bought[k] \notin Late(i, T) /\ shop.bought[k] \notin Early(i, T)
      BY <1>3 DEF NoneToCome, Late, Early
    <3> HIDE DEF T
    <3>2. QED
      BY <3>1, NNone
  <2>3. CASE T # -1
    <3>1. /\ shop.left[i] = N(shop.bought, Unlogged(i)) + N(shop.bought, Early(i, T)) + N(shop.pending, InHand(i, T))
          /\ N(shop.list, {i}) + N(shop.pending, Fresh(i, T)) + N(shop.bought, Late(i, T)) = N(shop.bought, All(i))
      BY <1>1, <2>3 DEF ShopInv, AfterInventory
    <3> HIDE DEF T
    <3>2. QED
      BY <2>1, <2>2, <3>1
  <2>4. CASE T = -1
    <3>1. BeforeInventory
      BY <1>1, <2>4 DEF ShopInv
    <3>2. shop.left[i] = 0 /\ N(shop.list, {i}) + N(shop.pending, Waits(i)) = N(shop.bought, Read(i))
      BY <3>1 DEF BeforeInventory
    <3>3. N(shop.bought, Unlogged(i)) = 0
      <4>1. \A k \in 1..Len(shop.bought) : shop.bought[k] \notin Unlogged(i)
        BY <1>1, <3>1 DEF BeforeInventory, Unlogged
      <4>2. QED
        BY <4>1, NNone
    <3>4. N(shop.bought, All(i)) = N(shop.bought, Unlogged(i)) + N(shop.bought, Early(i, T)) + N(shop.bought, Late(i, T)) + N(shop.bought, Read(i))
      BY <1>2, EntryParts
    <3>5. N(shop.pending, Waits(i)) = N(shop.pending, InHand(i, T)) + N(shop.pending, Fresh(i, T))
      BY <1>2, HeldParts
    <3>6. N(shop.pending, InHand(i, T)) = 0
      <4>1. ASSUME NEW k \in 1..Len(shop.pending) PROVE shop.pending[k] \notin InHand(i, T)
        <5>1. shop.pending[k] \in Held /\ 0 <= shop.pending[k].time
          BY <1>1, <1>2 DEF ShopTypes
        <5>2. shop.pending[k].time \in Int
          BY <5>1 DEF Held
        <5>3. QED
          BY <2>4, <5>1, <5>2 DEF InHand
      <4> HIDE DEF T
      <4>2. QED
        BY <4>1, NNone
    <3> HIDE DEF T
    <3>7. QED
      BY <2>1, <2>2, <3>2, <3>3, <3>4, <3>5, <3>6
  <2>5. QED
    BY <2>3, <2>4
<1>5. Beside(q, c) /\ \A i \in Items : N(q.list, {i}) = N(shop.list, {i}) + N(shop.pending, Fresh(i, T))
  BY <1>1, <1>2, <1>4, FlushGives
<1>6. /\ DOMAIN c = ShopFields /\ c.tick = shop.tick /\ c.bought = shop.bought /\ c.startT = T /\ c.pending = <<>>
  BY <1>2 DEF ShopFields
<1>7. c.horn = shop.horn /\ c.mapped = shop.mapped
  BY <1>2 DEF ShopFields
<1>8. /\ DOMAIN q = ShopFields /\ q.tick = shop.tick /\ q.bought = shop.bought /\ q.startT = T /\ q.pending = <<>>
      /\ q.list \in Seq(Items) /\ q.left \in [Items -> Nat]
      /\ q.horn = shop.horn /\ q.mapped = shop.mapped
  <2> HIDE DEF q, c
  <2>1. QED
    BY <1>5, <1>6, <1>7 DEF Beside
<1> HIDE DEF q, c
<1>9. /\ DOMAIN shop' = ShopFields /\ shop'.tick = shop.tick /\ shop'.bought = shop.bought /\ shop'.startT = T /\ shop'.pending = <<>>
      /\ shop'.list = q.list /\ shop'.left = q.left
  BY <1>1, <1>8 DEF ShopFields
<1>10. shop'.horn = shop.horn /\ shop'.mapped = shop.mapped /\ shop'.over = TRUE
  BY <1>1, <1>8 DEF ShopFields
<1>11. ShopTypes'
  <2>1. <<>> \in Seq(Held) /\ 1..Len(<<>>) = {}
    OBVIOUS
  <2>2. shop'.horn \in BOOLEAN /\ shop'.mapped \in BOOLEAN
    BY <1>1, <1>10 DEF ShopTypes
  <2>3. shop'.over \in BOOLEAN
    BY <1>10
  <2>4. /\ shop'.tick \in Nat /\ shop'.startT \in Int /\ -1 <= shop'.startT /\ shop'.startT <= shop'.tick
        /\ \A k \in 1..Len(shop'.bought) : 0 <= shop'.bought[k].time /\ shop'.bought[k].time <= shop'.tick
    BY <1>1, <1>9 DEF ShopTypes
  <2>5. \A k \in 1..Len(shop'.pending) : FALSE
    BY <1>9, <2>1
  <2>6. QED
    BY <1>2, <1>8, <1>9, <2>1, <2>2, <2>3, <2>4, <2>5 DEF ShopTypes
<1>12. BoughtOnce'
  <2> SUFFICES ASSUME NEW i \in Items
               PROVE  Count(shop'.list, i) = Cardinality({k \in DOMAIN shop'.bought : shop'.bought[k].item = i})
    BY DEF BoughtOnce
  <2>1. Count(shop'.list, i) = N(q.list, {i})
    BY <1>8, <1>9, CountIsN
  <2>2. Cardinality({k \in DOMAIN shop.bought : shop.bought[k].item = i}) = N(shop.bought, All(i))
    BY <1>2, BoughtIsN
  <2>3. N(q.list, {i}) = N(shop.bought, All(i))
    BY <1>4, <1>5
  <2>4. QED
    BY <1>9, <2>1, <2>2, <2>3
<1>13. NoneToCome'
  BY <1>3, <1>9 DEF NoneToCome
<1>14. QED
  BY <1>1, <1>10, <1>11, <1>12, <1>13 DEF ShopInv

\* Every step keeps the account.
LEMMA ShopInvNext == ShopInv /\ [ShopNext]_shop => ShopInv'
<1> SUFFICES ASSUME ShopInv, [ShopNext]_shop PROVE ShopInv'
  OBVIOUS
<1>1. ASSUME NEW i \in Items, Buy(i) PROVE ShopInv'
  BY <1>1, BuyStep
<1>2. ASSUME NEW k \in DOMAIN shop.bought, ReadEntry(k) PROVE ShopInv'
  BY <1>2, ReadStep
<1>3. CASE ReadInventory
  BY <1>3, InventoryStep
<1>4. CASE MapHero \/ ShopTick \/ Horn
  BY <1>4, SmallSteps
<1>5. CASE ShopEnd
  BY <1>5, EndStep
<1>6. CASE UNCHANGED shop
  BY <1>6 DEF ShopInv, ShopTypes, BoughtOnce, NoneToCome, BeforeInventory, AfterInventory
<1>7. QED
  BY <1>1, <1>2, <1>3, <1>4, <1>5, <1>6 DEF ShopNext

\* The account, closed, is the property.
LEMMA ShopInvFollows == ShopInv => BoughtOnce
BY DEF ShopInv, BoughtOnce

\* Every item bought is listed exactly as often as it was bought, for any items,
\* any number of purchases and any order of log entries, inventory and mapping.
THEOREM EveryPurchaseIsListedOnce == Spec => []BoughtOnce
<1>1. Init => ShopInv
  BY ShopInvInit DEF Init
<1>2. ShopInv /\ [Next]_parserVars => ShopInv'
  BY ShopInvNext DEF Next, parserVars
<1>3. QED
  BY <1>1, <1>2, ShopInvFollows, PTL DEF Spec

-----------------------------------------------------------------------------
(*****************************************************************************)
(* Lists whose elements are picked, and times that fall into stretches       *)
(*****************************************************************************)
\* The step and the invariant of the loop of Kept
KeepOp(T, s, q, x) == IF x \in T THEN Append(q, x) ELSE q

KeepGood(T, s, q, k) ==
  /\ q \in Seq(ToSet(s))
  /\ \A j \in 1..k : s[j] \in T => \E i \in 1..Len(q) : q[i] = s[j]
  /\ \A i \in 1..Len(q) : q[i] \in T /\ \E j \in 1..k : q[i] = s[j]
  /\ \A i, j \in 1..Len(q) : i < j => \E m, l \in 1..k : m < l /\ q[i] = s[m] /\ q[j] = s[l]

KeepPass == INSTANCE FoldRule WITH Op <- KeepOp, Good <- KeepGood

\* Kept is that loop.
LEMMA KeptIsFold == \A s, T : Kept(s, T) = KeepPass!Fold(T, s, <<>>, s)
BY DEF KeepPass!Fold, KeepOp, Kept, FoldLeft, KeepPass!MapThenFoldSet, MapThenFoldSet, KeepPass!Highest, Max

\* What Append does to a sequence's elements
LEMMA Appended ==
  ASSUME NEW E, NEW q \in Seq(E), NEW x \in E
  PROVE  /\ Append(q, x) \in Seq(E) /\ Len(q) \in Nat /\ Len(Append(q, x)) = Len(q) + 1
         /\ Append(q, x)[Len(q) + 1] = x
         /\ \A i \in 1..Len(q) : Append(q, x)[i] = q[i] /\ i \in 1..(Len(q) + 1) /\ i < Len(q) + 1
         /\ \A i \in 1..(Len(q) + 1) : i \in 1..Len(q) \/ i = Len(q) + 1
         /\ Len(q) + 1 \in 1..(Len(q) + 1)
OBVIOUS

\* Replacing an element of a sequence
LEMMA SetAt ==
  ASSUME NEW E, NEW s \in Seq(E), NEW i \in 1..Len(s), NEW x \in E
  PROVE  /\ [s EXCEPT ![i] = x] \in Seq(E) /\ Len([s EXCEPT ![i] = x]) = Len(s)
         /\ [s EXCEPT ![i] = x][i] = x
         /\ \A j \in 1..Len(s) : j # i => [s EXCEPT ![i] = x][j] = s[j]
OBVIOUS

\* The kept elements are those of T, each of its own place and in their order.
LEMMA KeptGives ==
  ASSUME NEW E, NEW s \in Seq(E), NEW T
  PROVE  KeepGood(T, s, Kept(s, T), Len(s))
<1>1. KeepGood(T, s, <<>>, 0)
  <2>1. <<>> \in Seq(ToSet(s)) /\ 1..Len(<<>>) = {} /\ 1..0 = {}
    OBVIOUS
  <2>2. QED
    BY <2>1 DEF KeepGood
<1>2. ASSUME NEW k \in 0..(Len(s) - 1), NEW q, KeepGood(T, s, q, k)
      PROVE  KeepGood(T, s, KeepOp(T, s, q, s[k + 1]), k + 1)
  <2> DEFINE x == s[k + 1]
             n == Len(q)
  <2>1. /\ k \in Nat /\ k + 1 \in 1..Len(s) /\ x \in ToSet(s)
        /\ \A j \in 1..(k + 1) : j \in 1..k \/ j = k + 1
        /\ \A j \in 1..k : j \in 1..(k + 1) /\ j < k + 1
        /\ k + 1 \in 1..(k + 1)
    BY DEF ToSet
  <2>2. /\ q \in Seq(ToSet(s))
        /\ \A j \in 1..k : s[j] \in T => \E i \in 1..n : q[i] = s[j]
        /\ \A i \in 1..n : q[i] \in T /\ \E j \in 1..k : q[i] = s[j]
        /\ \A i, j \in 1..n : i < j => \E m, l \in 1..k : m < l /\ q[i] = s[m] /\ q[j] = s[l]
    BY <1>2 DEF KeepGood
  <2>3. CASE x \notin T
    <3>1. KeepOp(T, s, q, x) = q
      BY <2>3 DEF KeepOp
    <3>2. KeepGood(T, s, q, k + 1)
      <4>1. \A j \in 1..(k + 1) : s[j] \in T => \E i \in 1..n : q[i] = s[j]
        BY <2>1, <2>2, <2>3
      <4>2. \A i \in 1..n : q[i] \in T /\ \E j \in 1..(k + 1) : q[i] = s[j]
        BY <2>1, <2>2
      <4>3. \A i, j \in 1..n : i < j => \E m, l \in 1..(k + 1) : m < l /\ q[i] = s[m] /\ q[j] = s[l]
        BY <2>1, <2>2
      <4>4. QED
        BY <2>2, <4>1, <4>2, <4>3 DEF KeepGood
    <3>3. QED
      BY <3>1, <3>2
  <2>4. CASE x \in T
    <3> DEFINE r == Append(q, x)
    <3>1. KeepOp(T, s, q, x) = r
      BY <2>4 DEF KeepOp
    <3>2. /\ r \in Seq(ToSet(s)) /\ n \in Nat /\ Len(r) = n + 1 /\ r[n + 1] = x
          /\ \A i \in 1..n : r[i] = q[i] /\ i \in 1..(n + 1) /\ i < n + 1
          /\ \A i \in 1..(n + 1) : i \in 1..n \/ i = n + 1
          /\ n + 1 \in 1..(n + 1)
      BY <2>1, <2>2, Appended
    <3>3. KeepGood(T, s, r, k + 1)
      <4> HIDE DEF r, n
      <4>1. ASSUME NEW j \in 1..(k + 1), s[j] \in T PROVE \E i \in 1..(n + 1) : r[i] = s[j]
        <5>1. CASE j \in 1..k
          <6>1. PICK i \in 1..n : q[i] = s[j]
            BY <2>2, <4>1, <5>1
          <6>2. QED
            BY <3>2, <6>1
        <5>2. CASE j = k + 1
          BY <3>2, <5>2
        <5>3. QED
          BY <2>1, <5>1, <5>2
      <4>2. ASSUME NEW i \in 1..(n + 1) PROVE r[i] \in T /\ \E j \in 1..(k + 1) : r[i] = s[j]
        <5>1. CASE i \in 1..n
          <6>1. q[i] \in T /\ r[i] = q[i]
            BY <2>2, <3>2, <5>1
          <6>2. PICK j \in 1..k : q[i] = s[j]
            BY <2>2, <5>1
          <6>3. QED
            BY <2>1, <6>1, <6>2
        <5>2. CASE i = n + 1
          BY <2>1, <2>4, <3>2, <5>2
        <5>3. QED
          BY <3>2, <5>1, <5>2
      <4>3. ASSUME NEW i \in 1..(n + 1), NEW j \in 1..(n + 1), i < j
            PROVE  \E m, l \in 1..(k + 1) : m < l /\ r[i] = s[m] /\ r[j] = s[l]
        <5>1. i \in 1..n
          <6>1. n \in Nat
            BY <3>2
          <6>2. QED
            BY <4>3, <6>1
        <5>2. CASE j \in 1..n
          <6>1. PICK m \in 1..k, l \in 1..k : m < l /\ q[i] = s[m] /\ q[j] = s[l]
            BY <2>2, <4>3, <5>1, <5>2
          <6>2. r[i] = q[i] /\ r[j] = q[j] /\ m \in 1..(k + 1) /\ l \in 1..(k + 1)
            BY <2>1, <3>2, <5>1, <5>2
          <6>3. QED
            BY <6>1, <6>2
        <5>3. CASE j = n + 1
          <6>1. PICK m \in 1..k : q[i] = s[m]
            BY <2>2, <5>1
          <6>2. m < k + 1 /\ r[i] = s[m] /\ r[j] = s[k + 1]
            BY <2>1, <3>2, <5>1, <5>3, <6>1
          <6>3. QED
            BY <2>1, <6>2
        <5>4. QED
          BY <3>2, <5>2, <5>3
      <4>4. QED
        BY <3>2, <4>1, <4>2, <4>3 DEF KeepGood
    <3>4. QED
      BY <3>1, <3>3
  <2>5. QED
    BY <2>3, <2>4
<1>3. KeepGood(T, s, KeepPass!Fold(T, s, <<>>, s), Len(s))
  BY <1>1, <1>2, KeepPass!FoldHolds
<1>4. QED
  BY <1>3, KeptIsFold

\* The intervals st[i]..la[i] are the stretches of the times T: within one no two
\* times in a row are further apart than gap, and two are.
Stretches(T, gap, I, st, la) ==
  /\ T \in SUBSET Nat /\ gap \in Nat /\ st \in [I -> Nat] /\ la \in [I -> Nat]
  /\ \A i \in I : la[i] \in T
  /\ \A t \in T : \E i \in I : st[i] <= t /\ t <= la[i]
  /\ \A i \in I : \A t \in T : st[i] <= t /\ t < la[i] => \E z \in T : t < z /\ z - t <= gap
  /\ \A i, j \in I : i # j => st[i] > la[j] + gap \/ st[j] > la[i] + gap

\* t is in interval i, and u is linked to it exactly when it is there too.
LEMMA LinkedIsTogether ==
  ASSUME NEW T, NEW gap, NEW I, NEW st, NEW la, Stretches(T, gap, I, st, la),
         NEW i \in I, NEW t \in T, st[i] <= t, t <= la[i], NEW u \in T
  PROVE  (IF t <= u THEN Linked(T, t, u, gap) ELSE Linked(T, u, t, gap)) <=> st[i] <= u /\ u <= la[i]
<1>T. /\ T \in SUBSET Nat /\ gap \in Nat /\ st \in [I -> Nat] /\ la \in [I -> Nat]
      /\ \A h \in I : la[h] \in T
      /\ \A z \in T : \E h \in I : st[h] <= z /\ z <= la[h]
      /\ \A h \in I : \A z \in T : st[h] <= z /\ z < la[h] => \E w \in T : z < w /\ w - z <= gap
      /\ \A h, j \in I : h # j => st[h] > la[j] + gap \/ st[j] > la[h] + gap
  BY DEF Stretches
<1> USE <1>T
<1>0. \A j \in I : st[j] \in Nat /\ la[j] \in Nat
  OBVIOUS
<1>1. ASSUME NEW j \in I, NEW x \in T, NEW y \in T, st[j] <= x, x <= la[j], x <= y
      PROVE  Linked(T, x, y, gap) <=> y <= la[j]
  <2>1. ASSUME y <= la[j], NEW w \in T, x <= w, w < y PROVE \E z \in T : w < z /\ z - w <= gap
    <3>1. w \in Nat /\ x \in Nat /\ y \in Nat
      OBVIOUS
    <3>2. st[j] <= w /\ w < la[j]
      BY <1>0, <1>1, <2>1, <3>1
    <3>3. QED
      BY <3>2
  <2>2. ASSUME ~(y <= la[j]), Linked(T, x, y, gap) PROVE FALSE
    <3>1. la[j] \in T /\ x <= la[j] /\ la[j] < y
      BY <1>0, <1>1, <2>2
    <3>2. PICK z \in T : la[j] < z /\ z - la[j] <= gap
      BY <2>2, <3>1 DEF Linked
    <3>3. PICK m \in I : st[m] <= z /\ z <= la[m]
      OBVIOUS
    <3>4. z \in Nat /\ st[m] \in Nat /\ la[m] \in Nat /\ st[j] \in Nat /\ la[j] \in Nat /\ st[j] <= la[j]
      BY <1>0, <1>1
    <3>5. m # j
      BY <3>2, <3>3, <3>4
    <3>6. st[m] > la[j] + gap \/ st[j] > la[m] + gap
      BY <3>5
    <3>7. QED
      BY <3>2, <3>3, <3>4, <3>6
  <2>3. QED
    BY <2>1, <2>2 DEF Linked
<1>2. CASE t <= u
  <2>1. t \in Nat /\ u \in Nat
    OBVIOUS
  <2>2. Linked(T, t, u, gap) <=> u <= la[i]
    BY <1>1, <1>2
  <2>3. st[i] <= u
    BY <1>0, <1>2, <2>1
  <2>4. QED
    BY <1>2, <2>2, <2>3
<1>3. CASE ~(t <= u)
  <2>1. t \in Nat /\ u \in Nat /\ u <= t /\ u <= la[i]
    BY <1>0, <1>3
  <2>2. PICK j \in I : st[j] <= u /\ u <= la[j]
    OBVIOUS
  <2>3. Linked(T, u, t, gap) <=> t <= la[j]
    BY <1>1, <2>1, <2>2
  <2>4. st[j] \in Nat /\ la[j] \in Nat /\ st[i] \in Nat /\ la[i] \in Nat
    BY <1>0
  <2>5. ASSUME t <= la[j] PROVE i = j
    <3>1. ~(st[i] > la[j] + gap) /\ ~(st[j] > la[i] + gap)
      BY <2>1, <2>2, <2>4, <2>5
    <3>2. QED
      BY <3>1
  <2>6. ASSUME st[i] <= u PROVE i = j
    <3>1. ~(st[i] > la[j] + gap) /\ ~(st[j] > la[i] + gap)
      BY <2>1, <2>2, <2>4, <2>6
    <3>2. QED
      BY <3>1
  <2>7. QED
    BY <1>3, <2>1, <2>2, <2>3, <2>5, <2>6
<1>4. QED
  BY <1>2, <1>3

\* R orders S, one element after the other.
StrictOrder(R, S) ==
  /\ \A x \in S : <<x, x>> \notin R
  /\ \A x, y \in S : x = y \/ <<x, y>> \in R \/ <<y, x>> \in R
  /\ \A x, y, z \in S : <<x, y>> \in R /\ <<y, z>> \in R => <<x, z>> \in R

\* q has the elements of S, each once, in the order of R.
InOrderOf(q, S, R) ==
  /\ q \in Seq(S) /\ Len(q) = Cardinality(S)
  /\ \A x \in S : \E k \in 1..Len(q) : q[k] = x
  /\ \A i, j \in 1..Len(q) : i < j => <<q[i], q[j]>> \in R

\* Where an element comes
PlaceIn(S, R, x) == Cardinality({y \in S : <<y, x>> \in R}) + 1

\* What comes later has more before it, and no place stays empty.
LEMMA PlacesAreDense ==
  ASSUME NEW S, IsFiniteSet(S), NEW R, StrictOrder(R, S)
  PROVE  /\ \A x \in S : PlaceIn(S, R, x) \in 1..Cardinality(S)
         /\ \A x, y \in S : <<x, y>> \in R => PlaceIn(S, R, x) < PlaceIn(S, R, y)
         /\ \A k \in 1..Cardinality(S) : \E x \in S : PlaceIn(S, R, x) = k
<1> DEFINE n == Cardinality(S)
           lower(x) == {y \in S : <<y, x>> \in R}
           f == [x \in S |-> PlaceIn(S, R, x)]
           T == 1..n
<1>1. n \in Nat
  BY FS_CardinalityType
<1>2. \A x \in S : IsFiniteSet(lower(x)) /\ Cardinality(lower(x)) \in Nat
  <2> SUFFICES ASSUME NEW x \in S PROVE IsFiniteSet(lower(x)) /\ Cardinality(lower(x)) \in Nat
    OBVIOUS
  <2>1. lower(x) \in SUBSET S
    OBVIOUS
  <2> HIDE DEF lower
  <2>2. IsFiniteSet(lower(x))
    BY <2>1, FS_Subset
  <2>3. QED
    BY <2>2, FS_CardinalityType
<1>3. ASSUME NEW x \in S PROVE PlaceIn(S, R, x) \in T
  <2>1. lower(x) \in SUBSET S /\ x \notin lower(x)
    BY DEF StrictOrder
  <2> HIDE DEF lower
  <2>2. Cardinality(lower(x)) <= n /\ (n = Cardinality(lower(x)) => S = lower(x))
    BY <2>1, FS_Subset
  <2>3. Cardinality(lower(x)) # n
    BY <2>1, <2>2
  <2>4. Cardinality(lower(x)) + 1 \in T
    BY <1>1, <1>2, <2>2, <2>3
  <2>5. QED
    BY <2>4 DEF PlaceIn, lower
<1>4. ASSUME NEW x \in S, NEW y \in S, <<x, y>> \in R PROVE PlaceIn(S, R, x) < PlaceIn(S, R, y)
  <2>1. lower(x) \in SUBSET lower(y) /\ x \notin lower(x) /\ x \in lower(y)
    BY <1>4 DEF StrictOrder
  <2> HIDE DEF lower
  <2>2. Cardinality(lower(x)) <= Cardinality(lower(y)) /\ (Cardinality(lower(y)) = Cardinality(lower(x)) => lower(y) = lower(x))
    BY <1>2, <2>1, FS_Subset
  <2>3. Cardinality(lower(x)) < Cardinality(lower(y))
    BY <1>2, <2>1, <2>2
  <2>4. Cardinality(lower(x)) + 1 < Cardinality(lower(y)) + 1
    BY <1>2, <2>3
  <2>5. QED
    BY <2>4 DEF PlaceIn, lower
<1>5. f \in Injection(S, T)
  <2>1. f \in [S -> T]
    BY <1>3
  <2>2. ASSUME NEW x \in S, NEW y \in S, f[x] = f[y] PROVE x = y
    <3>1. PlaceIn(S, R, x) = PlaceIn(S, R, y) /\ PlaceIn(S, R, x) \in Int
      BY <1>3, <2>2
    <3>2. ~(PlaceIn(S, R, x) < PlaceIn(S, R, y)) /\ ~(PlaceIn(S, R, y) < PlaceIn(S, R, x))
      BY <3>1
    <3>3. QED
      BY <1>4, <3>2 DEF StrictOrder
  <2> HIDE DEF f, T
  <2>3. QED
    BY <2>1, <2>2 DEF Injection, IsInjective
<1>6. IsFiniteSet(T) /\ Cardinality(T) = n
  BY <1>1, FS_Interval
<1>7. f \in Surjection(S, T)
  <2> HIDE DEF f, T
  <2>1. QED
    BY <1>5, <1>6, FS_Injection
<1>8. ASSUME NEW k \in T PROVE \E x \in S : PlaceIn(S, R, x) = k
  <2>1. \E x \in S : f[x] = k
    <3> HIDE DEF f, T
    <3>1. QED
      BY <1>7 DEF Surjection
  <2>2. QED
    BY <2>1
<1>9. QED
  BY <1>3, <1>4, <1>8

\* What the sort of Timeline returns
LEMMA SortedGives ==
  ASSUME NEW S, IsFiniteSet(S), NEW R, StrictOrder(R, S), NEW q,
         q = [k \in 1..Cardinality(S) |-> CHOOSE x \in S : PlaceIn(S, R, x) = k]
  PROVE  InOrderOf(q, S, R)
<1> DEFINE n == Cardinality(S)
<1>1. n \in Nat
  BY FS_CardinalityType
<1>2. \A k \in 1..n : q[k] \in S /\ PlaceIn(S, R, q[k]) = k
  BY PlacesAreDense
<1>3. q \in [1..n -> S]
  BY <1>2
<1>4. q \in Seq(S) /\ Len(q) = n
  <2>1. \A m \in Nat : \A f : f \in [1..m -> S] => f \in Seq(S) /\ Len(f) = m
    OBVIOUS
  <2> HIDE DEF n
  <2>2. QED
    BY <1>1, <1>3, <2>1
<1>5. ASSUME NEW x \in S PROVE \E k \in 1..n : q[k] = x
  <2> DEFINE k == PlaceIn(S, R, x)
  <2>1. k \in 1..n /\ k \in Int
    BY PlacesAreDense
  <2>2. q[k] \in S /\ PlaceIn(S, R, q[k]) = PlaceIn(S, R, x) /\ ~(PlaceIn(S, R, x) < PlaceIn(S, R, x))
    BY <1>2, <2>1
  <2> HIDE DEF k
  <2>3. <<q[k], x>> \notin R /\ <<x, q[k]>> \notin R
    BY <2>2, PlacesAreDense
  <2>4. QED
    BY <2>1, <2>2, <2>3 DEF StrictOrder
<1>6. ASSUME NEW i \in 1..n, NEW j \in 1..n, i < j PROVE <<q[i], q[j]>> \in R
  <2>1. q[i] \in S /\ q[j] \in S /\ PlaceIn(S, R, q[i]) = i /\ PlaceIn(S, R, q[j]) = j
    BY <1>2
  <2>2. q[i] # q[j] /\ ~(PlaceIn(S, R, q[j]) < PlaceIn(S, R, q[i]))
    BY <1>6, <2>1
  <2>3. <<q[j], q[i]>> \notin R
    BY <2>1, <2>2, PlacesAreDense
  <2>4. QED
    BY <2>1, <2>2, <2>3 DEF StrictOrder
<1>7. QED
  BY <1>4, <1>5, <1>6 DEF InOrderOf

\* The order of farmerFirst, and that of numbers
FarmsMore(s) ==
  {z \in Nat \X Nat : s.score[z[1]] > s.score[z[2]] \/ (s.score[z[1]] = s.score[z[2]] /\ z[1] < z[2])}
Less == {z \in Nat \X Nat : z[1] < z[2]}

\* What the two sorts return
LEMMA FarmersListed ==
  ASSUME NEW s, NEW S \in SUBSET Nat, IsFiniteSet(S), \A i \in S : s.score[i] \in Nat
  PROVE  InOrderOf(FarmerFirst(s, S), S, FarmsMore(s)) /\ StrictOrder(FarmsMore(s), S)
<1> DEFINE R == FarmsMore(s)
           before(i, j) == s.score[i] > s.score[j] \/ (s.score[i] = s.score[j] /\ i < j)
           place == [x \in S |-> Cardinality({y \in S : before(y, x)}) + 1]
           mine(k) == CHOOSE x \in S : place[x] = k
           its(k) == CHOOSE x \in S : PlaceIn(S, R, x) = k
           sorted == [k \in 1..Cardinality(S) |-> mine(k)]
<1>1. FarmerFirst(s, S) = sorted
  BY DEF FarmerFirst, Sorted
<1>2. \A x \in S : PlaceIn(S, R, x) = place[x]
  <2> SUFFICES ASSUME NEW x \in S PROVE PlaceIn(S, R, x) = place[x]
    OBVIOUS
  <2>1. {y \in S : <<y, x>> \in R} = {y \in S : before(y, x)}
    BY DEF FarmsMore
  <2>2. QED
    BY <2>1 DEF PlaceIn
<1>3. StrictOrder(R, S)
  <2>1. \A x \in S : <<x, x>> \notin R
    BY DEF FarmsMore
  <2>2. \A x, y \in S : x = y \/ <<x, y>> \in R \/ <<y, x>> \in R
    BY DEF FarmsMore
  <2>3. \A x, y, z \in S : <<x, y>> \in R /\ <<y, z>> \in R => <<x, z>> \in R
    BY DEF FarmsMore
  <2>4. QED
    BY <2>1, <2>2, <2>3 DEF StrictOrder
<1> HIDE DEF place, R
<1>4. \A k : mine(k) = its(k)
  BY <1>2
<1>5. FarmerFirst(s, S) = [k \in 1..Cardinality(S) |-> its(k)]
  <2> HIDE DEF mine, its
  <2>1. QED
    BY <1>1, <1>4
<1>6. InOrderOf(FarmerFirst(s, S), S, R)
  BY <1>3, <1>5, SortedGives
<1>7. QED
  BY <1>3, <1>6 DEF R

LEMMA NumbersListed ==
  ASSUME NEW S \in SUBSET Nat, IsFiniteSet(S)
  PROVE  InOrderOf(Ascending(S), S, Less) /\ StrictOrder(Less, S)
<1> DEFINE place == [x \in S |-> Cardinality({y \in S : y < x}) + 1]
           mine(k) == CHOOSE x \in S : place[x] = k
           its(k) == CHOOSE x \in S : PlaceIn(S, Less, x) = k
           sorted == [k \in 1..Cardinality(S) |-> mine(k)]
<1>1. Ascending(S) = sorted
  BY DEF Ascending, Sorted
<1>2. \A x \in S : PlaceIn(S, Less, x) = place[x]
  <2> SUFFICES ASSUME NEW x \in S PROVE PlaceIn(S, Less, x) = place[x]
    OBVIOUS
  <2>1. {y \in S : <<y, x>> \in Less} = {y \in S : y < x}
    BY DEF Less
  <2>2. QED
    BY <2>1 DEF PlaceIn
<1>3. StrictOrder(Less, S)
  BY DEF StrictOrder, Less
<1> HIDE DEF place
<1>4. \A k : mine(k) = its(k)
  BY <1>2
<1>5. Ascending(S) = [k \in 1..Cardinality(S) |-> its(k)]
  <2> HIDE DEF mine, its
  <2>1. QED
    BY <1>1, <1>4
<1>6. InOrderOf(Ascending(S), S, Less)
  BY <1>3, <1>5, SortedGives
<1>7. QED
  BY <1>3, <1>6

\* A listing has each element at one place.
LEMMA ListedOnce ==
  ASSUME NEW S, NEW R, StrictOrder(R, S), NEW q, InOrderOf(q, S, R)
  PROVE  /\ q \in [1..Len(q) -> S] /\ Len(q) \in Nat /\ ToSet(q) = S /\ DOMAIN q = 1..Len(q)
         /\ \A i, j \in 1..Len(q) : q[i] = q[j] => i = j
<1>1. q \in Seq(S) /\ \A x \in S : \E k \in 1..Len(q) : q[k] = x
  BY DEF InOrderOf
<1>2. q \in [1..Len(q) -> S] /\ Len(q) \in Nat /\ DOMAIN q = 1..Len(q)
  BY <1>1
<1>3. ToSet(q) = S
  BY <1>1, <1>2 DEF ToSet
<1>4. ASSUME NEW i \in 1..Len(q), NEW j \in 1..Len(q), q[i] = q[j] PROVE i = j
  <2>1. ~(i < j) /\ ~(j < i)
    BY <1>2, <1>4 DEF InOrderOf, StrictOrder
  <2>2. QED
    BY <1>2, <2>1
<1>5. QED
  BY <1>2, <1>3, <1>4

-----------------------------------------------------------------------------
(*****************************************************************************)
(* Lanes: a lane is changed only for a partner, and only when the samples    *)
(* do not name where the player stood.                                       *)
(*****************************************************************************)
TeamFields == {"walk", "partner", "lane", "score", "wards", "done", "out"}

\* Only lanes are reported before positions, and walks are those of the samples.
LaneInv ==
  /\ DOMAIN team = TeamFields
  /\ \A i \in DOMAIN team.walk : team.walk[i] \in Walks
  /\ LaneStoodIsReported

\* The loop over the players in detectLanes, with what it reads of one
MoveOp(s, d, lanes, i) ==
  LET p == s.partner[i]
      own == DetectErasedLane(s.walk[i])
      moves == p # -1 /\ lanes[p] \in {"safe", "off"} /\ ~(own # "" /\ own = lanes[i])
  IN  IF moves THEN [lanes EXCEPT ![i] = lanes[p]] ELSE lanes

\* A partner may have moved i.
Moved(s, l, i) ==
  LET own == DetectErasedLane(s.walk[i])
  IN  l \in {"safe", "off"} /\ s.partner[i] # -1 /\ ~(own # "" /\ own = DetectLane(s.walk[i]))

\* After some players: each has the lane of his samples, or one a partner gave.
MoveGood(s, d, lanes, k) ==
  /\ DOMAIN lanes = Trio
  /\ \A i \in Trio : lanes[i] = DetectLane(s.walk[i]) \/ Moved(s, lanes[i], i)

MovePass == INSTANCE FoldRule WITH Op <- MoveOp, Good <- MoveGood

\* The reconciled lanes are that loop's.
LEMMA ReconciledIsFold ==
  \A s : Reconciled(s) = MovePass!Fold(s, 0, [i \in Trio |-> DetectLane(s.walk[i])], Ascending(Trio))
BY DEF MovePass!Fold, MoveOp, Reconciled, FoldLeft, MovePass!MapThenFoldSet, MapThenFoldSet, MovePass!Highest, Max

\* So each lane is that of the samples or one a partner gave.
LEMMA ReconciledGives ==
  ASSUME NEW s
  PROVE  MoveGood(s, 0, Reconciled(s), Len(Ascending(Trio)))
<1> DEFINE order == Ascending(Trio)
           first == [i \in Trio |-> DetectLane(s.walk[i])]
<1>1. order \in Seq(Trio)
  <2>1. Trio \in SUBSET Nat /\ IsFiniteSet(Trio)
    BY RolesAssumption, FS_Subset
  <2>2. QED
    BY <2>1, NumbersListed DEF InOrderOf
<1>2. MoveGood(s, 0, first, 0)
  BY DEF MoveGood
<1>3. ASSUME NEW k \in 0..(Len(order) - 1), NEW lanes, MoveGood(s, 0, lanes, k)
      PROVE  MoveGood(s, 0, MoveOp(s, 0, lanes, order[k + 1]), k + 1)
  <2> DEFINE x == order[k + 1]
             next == MoveOp(s, 0, lanes, x)
  <2> HIDE DEF order, x
  <2>1. DOMAIN next = Trio /\ \A i \in Trio : i # x => next[i] = lanes[i]
    BY <1>3 DEF MoveOp, MoveGood
  <2>2. ASSUME x \in Trio, next[x] # lanes[x]
        PROVE  Moved(s, next[x], x)
    BY <1>3, <2>2 DEF MoveOp, MoveGood, Moved
  <2> HIDE DEF next
  <2>3. \A i \in Trio : next[i] = lanes[i] \/ Moved(s, next[i], i)
    BY <2>1, <2>2
  <2>4. MoveGood(s, 0, next, k + 1)
    BY <1>3, <2>1, <2>3 DEF MoveGood
  <2>5. QED
    BY <2>4 DEF next, x
<1>4. Reconciled(s) = MovePass!Fold(s, 0, first, order)
  BY ReconciledIsFold
<1> HIDE DEF order, first
<1>5. MoveGood(s, 0, MovePass!Fold(s, 0, first, order), Len(order))
  <2>1. \A k \in 0..(Len(order) - 1) : \A lanes :
          MoveGood(s, 0, lanes, k) => MoveGood(s, 0, MoveOp(s, 0, lanes, order[k + 1]), k + 1)
    BY <1>3
  <2>2. QED
    BY <1>1, <1>2, <2>1, MovePass!FoldHolds
<1>6. QED
  BY <1>4, <1>5 DEF order

\* What is reported of a lane that came about so, zone by zone
LEMMA LanesReported ==
  ASSUME NEW w \in Walks, NEW l, NEW p,
         l = DetectLane(w) \/ /\ l \in {"safe", "off"} /\ p # -1
                              /\ ~(DetectErasedLane(w) # "" /\ DetectErasedLane(w) = DetectLane(w))
  PROVE  LET stood == DetectErasedLane(w)
             out == Reported(w, l)
         IN  /\ stood # "" /\ DetectLane(w) = stood => out.lane = stood
             /\ stood # "" /\ DetectLane(w) \in {"jungle", "roam"} /\ p = -1 => out.lane = stood
             /\ out.lane = "mid" => stood = "mid" \/ (stood = "" /\ DetectStartLane(w) = "")
             /\ out.roamed => stood = "" /\ DetectLane(w) = "mid"
<1> DEFINE stood == DetectErasedLane(w)
           start == DetectStartLane(w)
           out == Reported(w, l)
           own == DetectLane(w)
<1>1. stood \in {"", "mid", "safe", "off"}
  BY DEF DetectErasedLane, LaneZoneToLane
<1>2. start \in {"", "safe", "off"}
  BY DEF DetectStartLane, LaneZoneToLane
<1>3. /\ out.lane = IF l \in {"jungle", "roam"} THEN IF stood = "" THEN l ELSE stood
                       ELSE IF l = "mid" THEN IF stood # "" THEN stood ELSE IF start = "" THEN l ELSE start
                       ELSE l
      /\ out.roamed <=> l = "mid" /\ stood = "" /\ start # ""
  <2>1. CASE l \in {"jungle", "roam"}
    BY <2>1 DEF Reported
  <2>2. CASE l = "mid" /\ stood = ""
    BY <2>2 DEF Reported
  <2>3. CASE l = "mid" /\ stood # ""
    BY <2>3 DEF Reported
  <2>4. CASE l \notin {"mid", "jungle", "roam"}
    BY <2>4 DEF Reported
  <2>5. QED
    BY <2>1, <2>2, <2>3, <2>4
<1>4. l = own \/ (l \in {"safe", "off"} /\ p # -1 /\ ~(stood # "" /\ stood = own))
  OBVIOUS
<1> SUFFICES /\ stood # "" /\ own = stood => out.lane = stood
             /\ stood # "" /\ own \in {"jungle", "roam"} /\ p = -1 => out.lane = stood
             /\ out.lane = "mid" => stood = "mid" \/ (stood = "" /\ start = "")
             /\ out.roamed => stood = "" /\ own = "mid"
  OBVIOUS
<1> HIDE DEF stood, start, out, own
<1>5. stood # "" /\ own = stood => out.lane = stood
  BY <1>1, <1>3, <1>4
<1>6. stood # "" /\ own \in {"jungle", "roam"} /\ p = -1 => out.lane = stood
  BY <1>1, <1>3, <1>4
<1>7. out.lane = "mid" => stood = "mid" \/ (stood = "" /\ start = "")
  BY <1>1, <1>2, <1>3
<1>8. ASSUME out.roamed PROVE stood = "" /\ own = "mid"
  <2>1. l = "mid" /\ stood = ""
    BY <1>3, <1>8
  <2>2. QED
    BY <1>4, <2>1
<1>9. QED
  BY <1>5, <1>6, <1>7, <1>8

\* Nothing is reported at the start.
LEMMA LaneInvInit == RolesInit => LaneInv
BY DEF RolesInit, LaneInv, LaneStoodIsReported, TeamFields

\* Every step keeps the samples and what is reported of them.
LEMMA LaneInvNext == LaneInv /\ [RolesNext]_team => LaneInv'
<1> SUFFICES ASSUME LaneInv, [RolesNext]_team PROVE LaneInv'
  OBVIOUS
<1>1. DOMAIN team = TeamFields /\ \A i \in DOMAIN team.walk : team.walk[i] \in Walks
  BY DEF LaneInv
<1>2. ASSUME NEW w \in Walks, NEW p \in Trio \cup {-1}, WalkLane(w, p) PROVE LaneInv'
  <2> DEFINE i == Min(Rest(team.walk, Trio))
  <2>1. /\ team.done = "no"
        /\ team' = [team EXCEPT !.walk = With(@, i, w), !.partner = With(@, i, p)]
    BY <1>2 DEF WalkLane
  <2> HIDE DEF i
  <2>2. DOMAIN team' = TeamFields /\ team'.done = "no" /\ team'.walk = With(team.walk, i, w)
    BY <1>1, <2>1 DEF TeamFields
  <2>3. \A j \in DOMAIN With(team.walk, i, w) : With(team.walk, i, w)[j] \in Walks
    BY <1>1 DEF With
  <2>4. QED
    BY <2>2, <2>3 DEF LaneInv, LaneStoodIsReported
<1>3. CASE NameLanes
  <2>1. /\ Rest(team.walk, Trio) = {}
        /\ team' = [team EXCEPT !.done = "lanes", !.out = DetectLanes(team)]
    BY <1>3 DEF NameLanes
  <2>2. /\ DOMAIN team' = TeamFields /\ team'.walk = team.walk /\ team'.partner = team.partner
        /\ team'.out = DetectLanes(team)
    BY <1>1, <2>1 DEF TeamFields
  <2>3. ASSUME NEW i \in Trio
        PROVE  LET w == team.walk[i]
                   stood == DetectErasedLane(w)
               IN  /\ stood # "" /\ DetectLane(w) = stood => team'.out[i].lane = stood
                   /\ stood # "" /\ DetectLane(w) \in {"jungle", "roam"} /\ team.partner[i] = -1 => team'.out[i].lane = stood
                   /\ team'.out[i].lane = "mid" => stood = "mid" \/ (stood = "" /\ DetectStartLane(w) = "")
                   /\ team'.out[i].roamed => stood = "" /\ DetectLane(w) = "mid"
    <3> DEFINE l == Reconciled(team)[i]
               w == team.walk[i]
               p == team.partner[i]
    <3>1. l = DetectLane(w) \/ Moved(team, l, i)
      BY ReconciledGives DEF MoveGood
    <3>2. w \in Walks
      BY <1>1, <2>1 DEF Rest
    <3>3. team'.out[i] = Reported(w, l)
      BY <2>2 DEF DetectLanes
    <3>5. l = DetectLane(w) \/ /\ l \in {"safe", "off"} /\ p # -1
                               /\ ~(DetectErasedLane(w) # "" /\ DetectErasedLane(w) = DetectLane(w))
      BY <3>1 DEF Moved
    <3> HIDE DEF l, w, p
    <3>6. LET stood == DetectErasedLane(w)
              out == Reported(w, l)
          IN  /\ stood # "" /\ DetectLane(w) = stood => out.lane = stood
              /\ stood # "" /\ DetectLane(w) \in {"jungle", "roam"} /\ p = -1 => out.lane = stood
              /\ out.lane = "mid" => stood = "mid" \/ (stood = "" /\ DetectStartLane(w) = "")
              /\ out.roamed => stood = "" /\ DetectLane(w) = "mid"
      BY <3>2, <3>5, LanesReported
    <3>7. QED
      BY <3>3, <3>6 DEF w, p
  <2>4. LaneStoodIsReported'
    BY <2>2, <2>3 DEF LaneStoodIsReported
  <2>5. QED
    BY <1>1, <2>2, <2>4 DEF LaneInv
<1>4. ASSUME NEW x \in Seats, Seat(x) PROVE LaneInv'
  <2> DEFINE i == Min(Rest(team.lane, Team))
  <2>1. /\ team.done = "no"
        /\ team' = [team EXCEPT !.lane = With(@, i, x.lane), !.score = With(@, i, x.score), !.wards = With(@, i, x.wards)]
    BY <1>4 DEF Seat
  <2> HIDE DEF i
  <2>2. DOMAIN team' = TeamFields /\ team'.done = "no" /\ team'.walk = team.walk
    BY <1>1, <2>1 DEF TeamFields
  <2>3. QED
    BY <1>1, <2>2 DEF LaneInv, LaneStoodIsReported
<1>5. CASE NamePositions
  <2>1. team' = [team EXCEPT !.done = "positions", !.out = AssignPositions(team)]
    BY <1>5 DEF NamePositions
  <2>2. DOMAIN team' = TeamFields /\ team'.done = "positions" /\ team'.walk = team.walk
    BY <1>1, <2>1 DEF TeamFields
  <2>3. QED
    BY <1>1, <2>2 DEF LaneInv, LaneStoodIsReported
<1>6. CASE UNCHANGED team
  BY <1>6 DEF LaneInv, LaneStoodIsReported
<1>7. QED
  BY <1>2, <1>3, <1>4, <1>5, <1>6 DEF RolesNext

\* Every lane a player stood is reported under the conditions the code names, for
\* any team, samples and partners.
THEOREM LanesStoodAreReported == Spec => []LaneStoodIsReported
<1>1. Init => LaneInv
  BY LaneInvInit DEF Init
<1>2. LaneInv /\ [Next]_parserVars => LaneInv'
  BY LaneInvNext DEF Next, parserVars
<1>3. LaneInv => LaneStoodIsReported
  BY DEF LaneInv
<1>4. QED
  BY <1>1, <1>2, <1>3, PTL DEF Spec

-----------------------------------------------------------------------------
(*****************************************************************************)
(* Positions: three cores are drawn, and each takes the slot its lane names  *)
(* or one of those no lane named.                                            *)
(*****************************************************************************)
\* A full side with a lane and a score for each player
FullSide(s) == s.lane \in [Team -> Lanes] /\ s.score \in [Team -> Nat]

\* Pairs and triples
LEMMA CountPair ==
  ASSUME NEW a, NEW b, a # b
  PROVE  IsFiniteSet({a, b}) /\ Cardinality({a, b}) = 2
<1>1. IsFiniteSet({a}) /\ Cardinality({a}) = 1
  BY FS_Singleton
<1>2. {a, b} = {a} \cup {b} /\ b \notin {a}
  OBVIOUS
<1>3. QED
  BY <1>1, <1>2, FS_AddElement

LEMMA CountTriple ==
  ASSUME NEW a, NEW b, NEW c, a # b, a # c, b # c
  PROVE  IsFiniteSet({a, b, c}) /\ Cardinality({a, b, c}) = 3
<1>1. IsFiniteSet({a, b}) /\ Cardinality({a, b}) = 2
  BY CountPair
<1>2. {a, b, c} = {a, b} \cup {c} /\ c \notin {a, b}
  OBVIOUS
<1>3. QED
  BY <1>1, <1>2, FS_AddElement

\* The first m of a list
LEMMA FirstOf ==
  ASSUME NEW S, NEW q \in Seq(S), NEW m \in 1..Len(q)
  PROVE  ToSet(SubSeq(q, 1, m)) = {q[i] : i \in 1..m}
<1>1. Len(SubSeq(q, 1, m)) = m /\ \A i \in 1..m : SubSeq(q, 1, m)[i] = q[i]
  OBVIOUS
<1>2. DOMAIN SubSeq(q, 1, m) = 1..m
  BY <1>1
<1>3. QED
  BY <1>1, <1>2 DEF ToSet

\* a, b and c are the cores and d and e the supports of a side.
Drawn(s, a, b, c, d, e) ==
  /\ Team = {a, b, c, d, e}
  /\ a # b /\ a # c /\ a # d /\ a # e /\ b # c /\ b # d /\ b # e /\ c # d /\ c # e /\ d # e
  /\ Cores(s) = {a, b, c} /\ Team \ Cores(s) = {d, e}
  /\ SoloMid(s) \subseteq {a}
  /\ \A i \in Cores(s) \ SoloMid(s), j \in {d, e} : s.score[i] >= s.score[j]

\* At most one player is the lone mid.
LEMMA OneSoloMid ==
  ASSUME NEW s, FullSide(s)
  PROVE  SoloMid(s) = {} \/ \E m \in Team : SoloMid(s) = {m} /\ {i \in Team : s.lane[i] = "mid"} = {m}
<1> DEFINE mids == {i \in Team : s.lane[i] = "mid"}
           all == MapThenSumSet(LAMBDA i : s.wards[i], Team)
<1>1. SoloMid(s) = IF Cardinality(mids) = 1 THEN {i \in mids : all < 5 \/ 4 * s.wards[i] < all} ELSE {}
  BY DEF SoloMid
<1> HIDE DEF all
<1>2. IsFiniteSet(mids) /\ mids \subseteq Team
  <2>1. mids \in SUBSET Team /\ IsFiniteSet(Team)
    BY RolesAssumption
  <2> HIDE DEF mids
  <2>2. QED
    BY <2>1, FS_Subset
<1> HIDE DEF mids
<1>3. CASE Cardinality(mids) = 1
  <2>1. PICK m : mids = {m}
    BY <1>2, <1>3, FS_Singleton
  <2>2. SoloMid(s) \subseteq {m} /\ m \in Team
    BY <1>1, <1>2, <1>3, <2>1
  <2>3. QED
    BY <2>1, <2>2 DEF mids
<1>4. QED
  BY <1>1, <1>3

\* The draw of a side
LEMMA Draw ==
  ASSUME NEW s, FullSide(s)
  PROVE  \E a, b, c, d, e \in Team : Drawn(s, a, b, c, d, e)
<1> DEFINE solo == SoloMid(s)
           T == Team \ solo
           r == FarmerFirst(s, T)
           n == Cardinality(solo)
<1>1. Team \in SUBSET Nat /\ IsFiniteSet(Team) /\ Cardinality(Team) = 5
  BY RolesAssumption
<1>2. Cores(s) = solo \cup ToSet(SubSeq(r, 1, 3 - n))
  BY DEF Cores
<1>3. \A i \in Team : s.score[i] \in Nat
  BY DEF FullSide
<1>4. T \in SUBSET Nat /\ T \in SUBSET Team /\ IsFiniteSet(T)
  <2>1. T \in SUBSET Team
    OBVIOUS
  <2> HIDE DEF T
  <2>2. QED
    BY <1>1, <2>1, FS_Subset
<1>5. InOrderOf(r, T, FarmsMore(s)) /\ StrictOrder(FarmsMore(s), T)
  <2> HIDE DEF T
  <2>1. QED
    BY <1>3, <1>4, FarmersListed
<1>6. /\ r \in [1..Len(r) -> T] /\ Len(r) \in Nat /\ ToSet(r) = T
      /\ \A i, j \in 1..Len(r) : r[i] = r[j] => i = j
      /\ r \in Seq(T) /\ Len(r) = Cardinality(T)
  <2> HIDE DEF T, r
  <2>1. QED
    BY <1>5, ListedOnce DEF InOrderOf
<1>7. ASSUME NEW i \in 1..Len(r), NEW j \in 1..Len(r), i < j PROVE s.score[r[i]] >= s.score[r[j]]
  <2>1. <<r[i], r[j]>> \in FarmsMore(s)
    BY <1>5, <1>7 DEF InOrderOf
  <2>2. r[i] \in Team /\ r[j] \in Team
    BY <1>6
  <2> HIDE DEF r
  <2>3. s.score[r[i]] \in Nat /\ s.score[r[j]] \in Nat
    BY <1>3, <2>2
  <2>4. s.score[r[i]] > s.score[r[j]] \/ s.score[r[i]] = s.score[r[j]]
    BY <2>1 DEF FarmsMore
  <2>5. QED
    BY <2>3, <2>4
<1>8. CASE solo = {}
  <2>1. n = 0 /\ Len(r) = 5 /\ T = Team
    BY <1>1, <1>6, <1>8, FS_EmptySet
  <2> HIDE DEF r, n
  <2>2. /\ Team = {r[1], r[2], r[3], r[4], r[5]}
        /\ \A i, j \in 1..5 : r[i] = r[j] => i = j
    <3>1. Team = {r[i] : i \in 1..5}
      BY <1>6, <2>1 DEF ToSet
    <3>2. 1..5 = {1, 2, 3, 4, 5}
      OBVIOUS
    <3>3. {r[i] : i \in 1..5} = {r[1], r[2], r[3], r[4], r[5]}
      BY <3>2
    <3>4. QED
      BY <1>6, <2>1, <3>1, <3>3
  <2>3. ToSet(SubSeq(r, 1, 3 - n)) = {r[1], r[2], r[3]}
    <3>1. ToSet(SubSeq(r, 1, 3)) = {r[i] : i \in 1..3}
      <4>1. r \in Seq(T) /\ 3 \in 1..Len(r)
        BY <1>6, <2>1
      <4> HIDE DEF T
      <4>2. QED
        BY <4>1, FirstOf
    <3>2. 3 - n = 3 /\ 1..3 = {1, 2, 3}
      BY <2>1
    <3>3. {r[i] : i \in 1..3} = {r[1], r[2], r[3]}
      BY <3>2
    <3>4. QED
      BY <3>1, <3>2, <3>3
  <2>4. Cores(s) = {r[1], r[2], r[3]}
    BY <1>2, <1>8, <2>3
  <2>5. /\ r[1] # r[2] /\ r[1] # r[3] /\ r[1] # r[4] /\ r[1] # r[5] /\ r[2] # r[3] /\ r[2] # r[4] /\ r[2] # r[5]
        /\ r[3] # r[4] /\ r[3] # r[5] /\ r[4] # r[5]
    BY <2>2
  <2>6. Team \ Cores(s) = {r[4], r[5]}
    BY <2>2, <2>4, <2>5
  <2>7. \A i \in 1..3, j \in 4..5 : s.score[r[i]] >= s.score[r[j]]
    BY <1>7, <2>1
  <2>8. \A i \in Cores(s) \ solo, j \in {r[4], r[5]} : s.score[i] >= s.score[j]
    BY <1>8, <2>4, <2>7
  <2>9. Drawn(s, r[1], r[2], r[3], r[4], r[5])
    BY <1>8, <2>2, <2>4, <2>5, <2>6, <2>8 DEF Drawn
  <2>10. QED
    BY <2>2, <2>9
<1>9. CASE solo # {}
  <2>1. PICK m \in Team : solo = {m}
    BY <1>9, OneSoloMid
  <2>2. n = 1 /\ Cardinality(T) = 4
    <3>1. Cardinality({m}) = 1
      BY FS_Singleton
    <3>2. Cardinality(Team \ {m}) = 4
      BY <1>1, <2>1, FS_RemoveElement
    <3>3. QED
      BY <2>1, <3>1, <3>2
  <2>3. Len(r) = 4 /\ m \notin T /\ Team = T \cup {m}
    BY <1>6, <2>1, <2>2
  <2> HIDE DEF r, n, T
  <2>4. /\ T = {r[1], r[2], r[3], r[4]}
        /\ \A i, j \in 1..4 : r[i] = r[j] => i = j
    <3>1. T = {r[i] : i \in 1..4}
      BY <1>6, <2>3 DEF ToSet
    <3>2. 1..4 = {1, 2, 3, 4}
      OBVIOUS
    <3>3. {r[i] : i \in 1..4} = {r[1], r[2], r[3], r[4]}
      BY <3>2
    <3>4. QED
      BY <1>6, <2>3, <3>1, <3>3
  <2>5. ToSet(SubSeq(r, 1, 3 - n)) = {r[1], r[2]}
    <3>1. ToSet(SubSeq(r, 1, 2)) = {r[i] : i \in 1..2}
      <4>1. r \in Seq(T) /\ 2 \in 1..Len(r)
        BY <1>6, <2>3
      <4>2. QED
        BY <4>1, FirstOf
    <3>2. 3 - n = 2 /\ 1..2 = {1, 2}
      BY <2>2
    <3>3. {r[i] : i \in 1..2} = {r[1], r[2]}
      BY <3>2
    <3>4. QED
      BY <3>1, <3>2, <3>3
  <2>6. Cores(s) = {m, r[1], r[2]}
    BY <1>2, <2>1, <2>5
  <2>7. r[1] # r[2] /\ r[1] # r[3] /\ r[1] # r[4] /\ r[2] # r[3] /\ r[2] # r[4] /\ r[3] # r[4]
    BY <2>4
  <2>8. m # r[1] /\ m # r[2] /\ m # r[3] /\ m # r[4] /\ Team = {m, r[1], r[2], r[3], r[4]}
    BY <2>3, <2>4
  <2>9. Team \ Cores(s) = {r[3], r[4]}
    BY <2>6, <2>7, <2>8
  <2>10. \A i \in 1..2, j \in 3..4 : s.score[r[i]] >= s.score[r[j]]
    BY <1>7, <2>3
  <2>11. \A i \in Cores(s) \ solo, j \in {r[3], r[4]} : s.score[i] >= s.score[j]
    BY <2>1, <2>6, <2>10
  <2>12. Drawn(s, m, r[1], r[2], r[3], r[4])
    BY <2>1, <2>6, <2>7, <2>8, <2>9, <2>11 DEF Drawn
  <2>13. QED
    BY <2>8, <2>12
<1>10. QED
  BY <1>8, <1>9

\* The supports: the pair gets 4 and 5, and the lanes decide which.
LEMMA SupportsAre ==
  ASSUME NEW s, FullSide(s), NEW d \in Team, NEW e \in Team, d # e, Team \ Cores(s) = {d, e}
  PROVE  /\ SupportSlots(s) \in [{d, e} -> {4, 5}] /\ SupportSlots(s)[d] # SupportSlots(s)[e]
         /\ \A i, j \in {d, e} : SupportSlots(s)[i] = 4 /\ SupportSlots(s)[j] = 5
              => (s.lane[i] = "safe" => s.lane[j] = "safe") /\ (s.lane[j] = "off" => s.lane[i] = "off")
<1> DEFINE pair == FarmerFirst(s, Team \ Cores(s))
           richer == pair[1]
           poorer == pair[2]
           in(l) == {i \in {richer, poorer} : s.lane[i] = l}
           five == CASE Cardinality(in("safe")) = 1 -> CHOOSE i \in in("safe") : TRUE
                     [] Cardinality(in("safe")) # 1 /\ in("off") = {poorer} -> richer
                     [] OTHER -> poorer
<1>1. SupportSlots(s) = [i \in {richer, poorer} |-> IF i = five THEN 5 ELSE 4]
  BY DEF SupportSlots
<1>2. {d, e} \in SUBSET Nat /\ IsFiniteSet({d, e}) /\ \A i \in {d, e} : s.score[i] \in Nat
  <2>1. d \in Nat /\ e \in Nat
    BY RolesAssumption
  <2>2. IsFiniteSet({d, e})
    BY CountPair
  <2>3. QED
    BY <2>1, <2>2 DEF FullSide
<1>3. {richer, poorer} = {d, e} /\ richer # poorer
  <2>1. InOrderOf(pair, {d, e}, FarmsMore(s)) /\ StrictOrder(FarmsMore(s), {d, e})
    BY <1>2, FarmersListed
  <2> HIDE DEF pair
  <2>2. Len(pair) = 2
    <3>1. Cardinality({d, e}) = 2
      BY CountPair
    <3>2. QED
      BY <2>1, <3>1 DEF InOrderOf
  <2>3. /\ pair \in [1..Len(pair) -> {d, e}] /\ ToSet(pair) = {d, e}
        /\ \A i, j \in 1..Len(pair) : pair[i] = pair[j] => i = j
    BY <2>1, ListedOnce
  <2>4. QED
    BY <2>2, <2>3 DEF ToSet
<1> HIDE DEF pair, richer, poorer
<1>4. in("safe") \subseteq {d, e} /\ in("off") \subseteq {d, e} /\ in("safe") \cap in("off") = {}
      /\ \A i \in {d, e} : (i \in in("safe") <=> s.lane[i] = "safe") /\ (i \in in("off") <=> s.lane[i] = "off")
  BY <1>3
<1>5. IsFiniteSet(in("safe"))
  <2> HIDE DEF in
  <2>1. QED
    BY <1>2, <1>4, FS_Subset
<1>6. CASE Cardinality(in("safe")) = 1
  <2>1. five = CHOOSE i \in in("safe") : TRUE
    BY <1>6
  <2> HIDE DEF in, five
  <2>2. PICK x : in("safe") = {x}
    BY <1>5, <1>6, FS_Singleton
  <2>3. five = x /\ x \in {d, e}
    BY <1>4, <2>1, <2>2
  <2>4. s.lane[x] = "safe" /\ \A i \in {d, e} : i # x => s.lane[i] # "safe"
    BY <1>4, <2>2, <2>3
  <2>5. QED
    BY <1>1, <1>3, <2>3, <2>4
<1>7. CASE Cardinality(in("safe")) # 1 /\ in("off") = {poorer}
  <2>1. five = richer
    BY <1>7
  <2> HIDE DEF in, five
  <2>2. s.lane[poorer] = "off" /\ s.lane[richer] # "off"
    BY <1>3, <1>4, <1>7
  <2>3. QED
    BY <1>1, <1>3, <2>1, <2>2
<1>8. CASE Cardinality(in("safe")) # 1 /\ in("off") # {poorer}
  <2>1. five = poorer
    BY <1>8
  <2> HIDE DEF in, five
  <2>2. s.lane[poorer] = "off" => s.lane[richer] = "off"
    BY <1>3, <1>4, <1>8
  <2>3. s.lane[richer] = "safe" => s.lane[poorer] = "safe"
    <3> SUFFICES ASSUME s.lane[richer] = "safe", s.lane[poorer] # "safe" PROVE FALSE
      OBVIOUS
    <3>1. in("safe") = {richer}
      BY <1>3, <1>4
    <3>2. QED
      BY <1>8, <3>1, FS_Singleton
  <2>4. QED
    BY <1>1, <1>3, <2>1, <2>2, <2>3
<1>9. QED
  BY <1>6, <1>7, <1>8

\* The lanes that name slots, in the order of the code
LaneSlots == <<<<"mid", 2>>, <<"safe", 1>>, <<"off", 3>>>>

\* The step of the loop over them
LaneSlotOp(s, cores, got, x) ==
  LET fit == {k \in DOMAIN cores : cores[k] \notin DOMAIN got /\ s.lane[cores[k]] = x[1]}
  IN  IF fit = {} THEN got ELSE With(got, cores[Min(fit)], x[2])

\* After k lanes: some cores have a slot of those lanes, no two the same, and the lone
\* mid has his.
LaneSlotGood(s, cores, got, k) ==
  /\ got \in [DOMAIN got -> {LaneSlots[j][2] : j \in 1..k}]
  /\ DOMAIN got \subseteq ToSet(cores)
  /\ \A i, j \in DOMAIN got : got[i] = got[j] => i = j
  /\ k # 0 => \A i \in SoloMid(s) : i \in DOMAIN got /\ got[i] = 2

LaneSlotPass == INSTANCE FoldRule WITH Op <- LaneSlotOp, Good <- LaneSlotGood

\* The slots that lanes name
NamedSlots(s, cores) == LaneSlotPass!Fold(s, cores, <<>>, LaneSlots)

\* The slots the other cores take
OtherSlots(s, cores) ==
  LET got  == NamedSlots(s, cores)
      free == Ascending((1..3) \ Range(got))
      rest == Kept(cores, ToSet(cores) \ DOMAIN got)
  IN  [i \in ToSet(rest) |-> free[CHOOSE k \in DOMAIN rest : rest[k] = i]]

\* CoreSlots is that loop and the slots it leaves.
LEMMA CoreSlotsAre ==
  ASSUME NEW s
  PROVE  LET cores == FarmerFirst(s, Cores(s)) IN CoreSlots(s) = Both(NamedSlots(s, cores), OtherSlots(s, cores))
<1> DEFINE cores == FarmerFirst(s, Cores(s))
           named(g, x) ==
             LET fit == {k \in DOMAIN cores : cores[k] \notin DOMAIN g /\ s.lane[cores[k]] = x[1]}
             IN  IF fit = {} THEN g ELSE With(g, cores[Min(fit)], x[2])
           byLane == FoldLeft(named, <<>>, LaneSlots)
           its == Kept(cores, ToSet(cores) \ DOMAIN byLane)
           left == Ascending((1..3) \ Range(byLane))
<1>1. CoreSlots(s) = Both(byLane, [i \in ToSet(its) |-> left[CHOOSE k \in DOMAIN its : its[k] = i]])
  BY DEF CoreSlots, LaneSlots
<1>2. \A l : FoldLeft(named, <<>>, l) = LaneSlotPass!Fold(s, cores, <<>>, l)
  BY DEF LaneSlotPass!Fold, LaneSlotOp, FoldLeft, LaneSlotPass!MapThenFoldSet, MapThenFoldSet, LaneSlotPass!Highest, Max
<1> HIDE DEF named, cores
<1>3. byLane = NamedSlots(s, cores)
  BY <1>2 DEF NamedSlots
<1> HIDE DEF byLane
<1>4. OtherSlots(s, cores) = [i \in ToSet(its) |-> left[CHOOSE k \in DOMAIN its : its[k] = i]]
  BY <1>3 DEF OtherSlots
<1> HIDE DEF its, left
<1>5. QED
  BY <1>1, <1>3, <1>4 DEF cores

\* What the loop over the lanes leaves
LEMMA SlotsByLane ==
  ASSUME NEW s, FullSide(s), NEW n \in Nat, NEW cores \in [1..n -> Team], SoloMid(s) \subseteq ToSet(cores)
  PROVE  LaneSlotGood(s, cores, NamedSlots(s, cores), 3)
<1>1. LaneSlotGood(s, cores, <<>>, 0)
  <2>1. <<>> \in [{} -> {LaneSlots[j][2] : j \in 1..0}] /\ DOMAIN <<>> = {}
    OBVIOUS
  <2>2. QED
    BY <2>1 DEF LaneSlotGood
<1>2. /\ LaneSlots[1] = <<"mid", 2>> /\ LaneSlots[2] = <<"safe", 1>> /\ LaneSlots[3] = <<"off", 3>>
      /\ LaneSlots[1][2] = 2 /\ LaneSlots[2][2] = 1 /\ LaneSlots[3][2] = 3 /\ LaneSlots[1][1] = "mid"
      /\ Len(LaneSlots) = 3 /\ LaneSlots \in Seq({"mid", "safe", "off"} \X (1..3))
  BY DEF LaneSlots
<1>3. ASSUME NEW k \in 0..2, NEW got, LaneSlotGood(s, cores, got, k)
      PROVE  LaneSlotGood(s, cores, LaneSlotOp(s, cores, got, LaneSlots[k + 1]), k + 1)
  <2> DEFINE x == LaneSlots[k + 1]
             fit == {c \in DOMAIN cores : cores[c] \notin DOMAIN got /\ s.lane[cores[c]] = x[1]}
             him == cores[Min(fit)]
             named(m) == {LaneSlots[j][2] : j \in 1..m}
  <2>1. /\ got \in [DOMAIN got -> named(k)] /\ DOMAIN got \subseteq ToSet(cores)
        /\ \A i, j \in DOMAIN got : got[i] = got[j] => i = j
        /\ k # 0 => \A i \in SoloMid(s) : i \in DOMAIN got /\ got[i] = 2
    BY <1>3 DEF LaneSlotGood
  <2>2. named(k + 1) = named(k) \cup {x[2]} /\ x[2] \notin named(k) /\ (k = 0 => named(k) = {} /\ x = <<"mid", 2>>)
    <3>1. CASE k = 0
      <4>1. 1..0 = {} /\ 1..(0 + 1) = {1}
        OBVIOUS
      <4>2. QED
        BY <1>2, <3>1, <4>1
    <3>2. CASE k = 1
      <4>1. 1..1 = {1} /\ 1..(1 + 1) = {1, 2}
        OBVIOUS
      <4>2. QED
        BY <1>2, <3>2, <4>1
    <3>3. CASE k = 2
      <4>1. 1..2 = {1, 2} /\ 1..(2 + 1) = {1, 2, 3}
        OBVIOUS
      <4>2. QED
        BY <1>2, <3>3, <4>1
    <3>4. QED
      BY <3>1, <3>2, <3>3
  <2>3. fit = {} \/ (him \in ToSet(cores) /\ him \in Team /\ him \notin DOMAIN got /\ s.lane[him] = x[1])
    <3> SUFFICES ASSUME fit # {} PROVE him \in ToSet(cores) /\ him \in Team /\ him \notin DOMAIN got /\ s.lane[him] = x[1]
      OBVIOUS
    <3>1. fit \in SUBSET Nat
      OBVIOUS
    <3>2. Min(fit) \in fit
      <4> HIDE DEF fit
      <4>1. PICK c \in fit : \A d \in fit : c <= d
        BY <3>1, KeepPass!LeastNumber
      <4>2. QED
        BY <4>1 DEF Min
    <3>3. QED
      BY <3>2 DEF ToSet
  <2>4. LaneSlotOp(s, cores, got, x) = IF fit = {} THEN got ELSE With(got, him, x[2])
    BY DEF LaneSlotOp
  <2>5. k = 0 => DOMAIN got = {}
    BY <2>1, <2>2
  <2>6. k = 0 /\ SoloMid(s) # {} => fit # {} /\ \A i \in SoloMid(s) : him = i
    <3> SUFFICES ASSUME k = 0, SoloMid(s) # {} PROVE fit # {} /\ \A i \in SoloMid(s) : him = i
      OBVIOUS
    <3>1. PICK m \in Team : SoloMid(s) = {m} /\ {i \in Team : s.lane[i] = "mid"} = {m}
      BY OneSoloMid
    <3>2. x[1] = "mid"
      BY <2>2
    <3>3. PICK c \in 1..n : cores[c] = m
      BY <3>1 DEF ToSet
    <3>4. c \in fit
      BY <2>5, <3>1, <3>2, <3>3
    <3>5. QED
      BY <2>3, <3>1, <3>2, <3>4
  <2> HIDE DEF fit, him
  <2>7. CASE fit = {}
    <3>1. LaneSlotOp(s, cores, got, x) = got
      BY <2>4, <2>7
    <3>2. got \in [DOMAIN got -> named(k + 1)]
      <4> HIDE DEF named
      <4>1. QED
        BY <2>1, <2>2
    <3>3. \A i \in SoloMid(s) : i \in DOMAIN got /\ got[i] = 2
      BY <2>1, <2>6, <2>7
    <3>4. QED
      BY <2>1, <3>1, <3>2, <3>3 DEF LaneSlotGood
  <2>8. CASE fit # {}
    <3> DEFINE new == With(got, him, x[2])
    <3>1. /\ DOMAIN new = DOMAIN got \cup {him} /\ new[him] = x[2] /\ \A i \in DOMAIN got : new[i] = got[i]
          /\ new = [i \in DOMAIN new |-> new[i]]
      BY <2>3, <2>8 DEF With
    <3> HIDE DEF new, named, x
    <3>2. new \in [DOMAIN new -> named(k + 1)]
      BY <2>1, <2>2, <3>1
    <3>3. DOMAIN new \subseteq ToSet(cores)
      BY <2>1, <2>3, <2>8, <3>1
    <3>4. \A i, j \in DOMAIN new : new[i] = new[j] => i = j
      BY <2>1, <2>2, <3>1
    <3>5. \A i \in SoloMid(s) : i \in DOMAIN new /\ new[i] = 2
      BY <2>1, <2>2, <2>6, <3>1
    <3>6. LaneSlotGood(s, cores, new, k + 1)
      BY <3>2, <3>3, <3>4, <3>5 DEF LaneSlotGood, named
    <3>7. QED
      BY <2>4, <2>8, <3>6 DEF new, x
  <2>9. QED
    BY <2>7, <2>8
<1>4. LaneSlotGood(s, cores, LaneSlotPass!Fold(s, cores, <<>>, LaneSlots), Len(LaneSlots))
  <2>1. \A k \in 0..(Len(LaneSlots) - 1) : \A q : LaneSlotGood(s, cores, q, k)
          => LaneSlotGood(s, cores, LaneSlotOp(s, cores, q, LaneSlots[k + 1]), k + 1)
    BY <1>2, <1>3
  <2>2. QED
    BY <1>1, <1>2, <2>1, LaneSlotPass!FoldHolds
<1>5. QED
  BY <1>2, <1>4 DEF NamedSlots

\* Kept picks the elements of T, each once if the list has each once.
LEMMA KeptOnce ==
  ASSUME NEW S, NEW q \in Seq(S), \A i, j \in 1..Len(q) : q[i] = q[j] => i = j, NEW T, T \subseteq ToSet(q)
  PROVE  /\ ToSet(Kept(q, T)) = T /\ Len(Kept(q, T)) \in Nat /\ DOMAIN Kept(q, T) = 1..Len(Kept(q, T))
         /\ \A i, j \in DOMAIN Kept(q, T) : Kept(q, T)[i] = Kept(q, T)[j] => i = j
<1> DEFINE r == Kept(q, T)
           n == Len(q)
<1>1. n \in Nat /\ DOMAIN q = 1..n
  OBVIOUS
<1>2. KeepGood(T, q, r, Len(q))
  BY <1>1, KeptGives
<1> HIDE DEF r
<1>3. r \in Seq(ToSet(q)) /\ Len(r) \in Nat /\ DOMAIN r = 1..Len(r)
  BY <1>2 DEF KeepGood
<1>4. ToSet(r) = T
  <2>1. \A x \in T : \E j \in 1..n : q[j] = x
    BY <1>1 DEF ToSet
  <2>2. \A x \in T : \E j \in 1..Len(r) : r[j] = x
    <3> SUFFICES ASSUME NEW x \in T PROVE \E j \in 1..Len(r) : r[j] = x
      OBVIOUS
    <3>1. PICK j \in 1..Len(q) : q[j] = x
      BY <2>1
    <3>2. \A m \in 1..Len(q) : q[m] \in T => \E i \in 1..Len(r) : r[i] = q[m]
      BY <1>2 DEF KeepGood
    <3>3. QED
      BY <3>1, <3>2
  <2>3. \A j \in 1..Len(r) : r[j] \in T
    BY <1>2 DEF KeepGood
  <2>4. QED
    BY <1>3, <2>2, <2>3 DEF ToSet
<1>5. ASSUME NEW i \in 1..Len(r), NEW j \in 1..Len(r), r[i] = r[j] PROVE i = j
  <2>1. ASSUME NEW x \in 1..Len(r), NEW y \in 1..Len(r), r[x] = r[y] PROVE ~(x < y)
    <3> SUFFICES ASSUME x < y PROVE FALSE
      OBVIOUS
    <3>1. PICK m \in 1..n, l \in 1..n : m < l /\ r[x] = q[m] /\ r[y] = q[l]
      BY <1>1, <1>2 DEF KeepGood
    <3>2. m = l
      BY <2>1, <3>1
    <3>3. QED
      BY <3>1, <3>2
  <2>2. ~(i < j) /\ ~(j < i)
    BY <1>5, <2>1
  <2>3. QED
    BY <1>3, <2>2
<1>6. QED
  BY <1>3, <1>4, <1>5 DEF r

\* A list that has each of its elements once is as long as there are elements.
LEMMA OnceCounts ==
  ASSUME NEW n \in Nat, NEW q, DOMAIN q = 1..n, \A i, j \in 1..n : q[i] = q[j] => i = j
  PROVE  IsFiniteSet(ToSet(q)) /\ Cardinality(ToSet(q)) = n
<1> DEFINE f == [i \in 1..n |-> q[i]]
<1>1. f \in Bijection(1..n, ToSet(q))
  BY DEF Bijection, Injection, Surjection, IsInjective, ToSet
<1>2. IsFiniteSet(1..n) /\ Cardinality(1..n) = n
  BY FS_Interval
<1>3. ExistsBijection(1..n, ToSet(q))
  BY <1>1 DEF ExistsBijection
<1>4. QED
  BY <1>2, <1>3, FS_Bijection

\* So is what a one-to-one function makes of its domain.
LEMMA RangeCounts ==
  ASSUME NEW f, IsFiniteSet(DOMAIN f), \A i, j \in DOMAIN f : f[i] = f[j] => i = j
  PROVE  IsFiniteSet(Range(f)) /\ Cardinality(Range(f)) = Cardinality(DOMAIN f)
<1> DEFINE g == [i \in DOMAIN f |-> f[i]]
<1>1. g \in Bijection(DOMAIN f, Range(f))
  BY DEF Bijection, Injection, Surjection, IsInjective, Range
<1>2. ExistsBijection(DOMAIN f, Range(f))
  BY <1>1 DEF ExistsBijection
<1>3. QED
  BY <1>2, FS_Bijection

\* What is left of a finite set
LEMMA LeftOver ==
  ASSUME NEW S, IsFiniteSet(S), NEW T \in SUBSET S
  PROVE  IsFiniteSet(S \ T) /\ Cardinality(S \ T) = Cardinality(S) - Cardinality(T)
<1>1. S \cap T = T
  OBVIOUS
<1>2. QED
  BY <1>1, FS_Difference

\* Two one-to-one functions whose domains and ranges do not meet
LEMMA BothAreOne ==
  ASSUME NEW f, NEW g, DOMAIN f \cap DOMAIN g = {}, Range(f) \cap Range(g) = {},
         \A i, j \in DOMAIN f : f[i] = f[j] => i = j, \A i, j \in DOMAIN g : g[i] = g[j] => i = j
  PROVE  /\ DOMAIN Both(f, g) = DOMAIN f \cup DOMAIN g
         /\ Range(Both(f, g)) = Range(f) \cup Range(g)
         /\ \A i \in DOMAIN f : Both(f, g)[i] = f[i]
         /\ \A i \in DOMAIN g : Both(f, g)[i] = g[i]
         /\ \A i, j \in DOMAIN Both(f, g) : Both(f, g)[i] = Both(f, g)[j] => i = j
<1> DEFINE h == Both(f, g)
<1>1. DOMAIN h = DOMAIN f \cup DOMAIN g /\ \A i \in DOMAIN f : h[i] = f[i]
  BY DEF Both
<1>2. \A i \in DOMAIN g : h[i] = g[i]
  BY DEF Both
<1> HIDE DEF h
<1>3. Range(h) = Range(f) \cup Range(g)
  BY <1>1, <1>2 DEF Range
<1>4. \A i \in DOMAIN f : f[i] \in Range(f)
  BY DEF Range
<1>5. \A i \in DOMAIN g : g[i] \in Range(g)
  BY DEF Range
<1>6. ASSUME NEW i \in DOMAIN h, NEW j \in DOMAIN h, h[i] = h[j] PROVE i = j
  <2>1. CASE i \in DOMAIN f /\ j \in DOMAIN f
    BY <1>1, <1>6, <2>1
  <2>2. CASE i \in DOMAIN g /\ j \in DOMAIN g
    BY <1>2, <1>6, <2>2
  <2>3. CASE i \in DOMAIN f /\ j \in DOMAIN g
    BY <1>1, <1>2, <1>4, <1>5, <1>6, <2>3
  <2>4. CASE i \in DOMAIN g /\ j \in DOMAIN f
    BY <1>1, <1>2, <1>4, <1>5, <1>6, <2>4
  <2>5. QED
    BY <1>1, <2>1, <2>2, <2>3, <2>4
<1>7. QED
  BY <1>1, <1>2, <1>3, <1>6 DEF h

\* The cores get 1, 2 and 3, the lone mid 2.
LEMMA CoresGetSlots ==
  ASSUME NEW s, FullSide(s), NEW a \in Team, NEW b \in Team, NEW c \in Team, a # b, a # c, b # c,
         Cores(s) = {a, b, c}, SoloMid(s) \subseteq {a}
  PROVE  /\ DOMAIN CoreSlots(s) = {a, b, c} /\ Range(CoreSlots(s)) = 1..3
         /\ \A i, j \in {a, b, c} : CoreSlots(s)[i] = CoreSlots(s)[j] => i = j
         /\ \A i \in SoloMid(s) : CoreSlots(s)[i] = 2
<1> DEFINE C == {a, b, c}
           cores == FarmerFirst(s, Cores(s))
           got == NamedSlots(s, cores)
           D == DOMAIN got
           free == Ascending((1..3) \ Range(got))
           rest == Kept(cores, ToSet(cores) \ D)
           others == [i \in ToSet(rest) |-> free[CHOOSE k \in DOMAIN rest : rest[k] = i]]
<1>1. CoreSlots(s) = Both(got, others)
  <2>1. CoreSlots(s) = Both(NamedSlots(s, cores), OtherSlots(s, cores))
    BY CoreSlotsAre
  <2>2. OtherSlots(s, cores) = others
    BY DEF OtherSlots
  <2> HIDE DEF cores, others
  <2>3. QED
    BY <2>1, <2>2
<1>2. IsFiniteSet(C) /\ Cardinality(C) = 3 /\ C \in SUBSET Nat /\ \A i \in C : s.score[i] \in Nat
  <2>1. IsFiniteSet(C) /\ Cardinality(C) = 3
    BY CountTriple
  <2>2. QED
    BY <2>1, RolesAssumption DEF FullSide
<1>3. /\ cores \in [1..3 -> C] /\ cores \in Seq(C) /\ Len(cores) = 3 /\ ToSet(cores) = C
      /\ \A i, j \in 1..3 : cores[i] = cores[j] => i = j
  <2>1. InOrderOf(FarmerFirst(s, C), C, FarmsMore(s)) /\ StrictOrder(FarmsMore(s), C)
    <3> HIDE DEF C
    <3>1. QED
      BY <1>2, FarmersListed
  <2>2. cores = FarmerFirst(s, C)
    OBVIOUS
  <2> HIDE DEF cores, C
  <2>3. Len(cores) = 3
    BY <1>2, <2>1, <2>2 DEF InOrderOf
  <2>4. cores \in Seq(C)
    BY <2>1, <2>2 DEF InOrderOf
  <2>5. /\ cores \in [1..3 -> C] /\ ToSet(cores) = C
        /\ \A i, j \in 1..3 : cores[i] = cores[j] => i = j
    BY <2>1, <2>2, <2>3, ListedOnce
  <2>6. QED
    BY <2>3, <2>4, <2>5
<1>4. LaneSlotGood(s, cores, got, 3)
  <2>1. SoloMid(s) \subseteq ToSet(cores) /\ C \subseteq Team
    BY <1>3
  <2>2. cores \in [1..3 -> Team]
    <3> HIDE DEF cores, C
    <3>1. QED
      BY <1>3, <2>1
  <2> HIDE DEF cores
  <2>3. QED
    BY <2>1, <2>2, SlotsByLane
<1> HIDE DEF C, cores, got
<1>5. /\ Range(got) \subseteq 1..3 /\ D \subseteq C
      /\ \A i, j \in D : got[i] = got[j] => i = j
      /\ \A i \in SoloMid(s) : i \in D /\ got[i] = 2
  <2>1. {LaneSlots[j][2] : j \in 1..3} \subseteq 1..3
    <3>1. LaneSlots[1][2] = 2 /\ LaneSlots[2][2] = 1 /\ LaneSlots[3][2] = 3
      BY DEF LaneSlots
    <3>2. \A j \in 1..3 : j = 1 \/ j = 2 \/ j = 3
      OBVIOUS
    <3>3. QED
      BY <3>1, <3>2
  <2>2. QED
    BY <1>3, <1>4, <2>1 DEF LaneSlotGood, Range
<1>6. IsFiniteSet(D) /\ IsFiniteSet(Range(got)) /\ Cardinality(Range(got)) = Cardinality(D) /\ Cardinality(D) \in Nat
  <2>1. IsFiniteSet(D)
    BY <1>2, <1>5, FS_Subset
  <2>2. QED
    BY <1>5, <2>1, RangeCounts, FS_CardinalityType
<1>7. Cardinality(C \ D) = 3 - Cardinality(D)
  BY <1>2, <1>5, <1>6, LeftOver
<1>8. IsFiniteSet((1..3) \ Range(got)) /\ Cardinality((1..3) \ Range(got)) = 3 - Cardinality(D)
  <2>1. \A m \in Nat : IsFiniteSet(1..m) /\ Cardinality(1..m) = m
    BY FS_Interval
  <2>2. IsFiniteSet(1..3) /\ Cardinality(1..3) = 3
    BY <2>1
  <2>3. QED
    BY <1>5, <1>6, <2>2, LeftOver
<1>9. /\ ToSet(rest) = C \ D /\ Len(rest) = 3 - Cardinality(D) /\ DOMAIN rest = 1..Len(rest)
      /\ \A i, j \in DOMAIN rest : rest[i] = rest[j] => i = j
  <2>1. /\ ToSet(rest) = C \ D /\ Len(rest) \in Nat /\ DOMAIN rest = 1..Len(rest)
        /\ \A i, j \in DOMAIN rest : rest[i] = rest[j] => i = j
    <3> DEFINE T == ToSet(cores) \ D
    <3>1. T = C \ D /\ T \in SUBSET ToSet(cores) /\ rest = Kept(cores, T)
      BY <1>3
    <3> HIDE DEF T, rest
    <3> DEFINE r == Kept(cores, T)
    <3>2. /\ ToSet(r) = T /\ Len(r) \in Nat /\ DOMAIN r = 1..Len(r)
          /\ \A i, j \in DOMAIN r : r[i] = r[j] => i = j
      <4>1. \A i, j \in 1..Len(cores) : cores[i] = cores[j] => i = j
        BY <1>3
      <4>2. cores \in Seq(C) /\ T \subseteq ToSet(cores)
        BY <1>3, <3>1
      <4>3. QED
        BY <4>1, <4>2, KeptOnce
    <3> HIDE DEF r
    <3>3. QED
      BY <3>1, <3>2 DEF r
  <2>2. Cardinality(ToSet(rest)) = Len(rest)
    <3> HIDE DEF rest
    <3>1. QED
      BY <2>1, OnceCounts
  <2>3. QED
    BY <1>7, <2>1, <2>2
<1>10. /\ ToSet(free) = (1..3) \ Range(got) /\ Len(free) = 3 - Cardinality(D) /\ DOMAIN free = 1..Len(free)
       /\ \A i, j \in 1..Len(free) : free[i] = free[j] => i = j
  <2> DEFINE F == (1..3) \ Range(got)
  <2>1. F \in SUBSET Nat
    OBVIOUS
  <2> HIDE DEF F
  <2>2. InOrderOf(Ascending(F), F, Less) /\ StrictOrder(Less, F)
    BY <1>8, <2>1, NumbersListed DEF F
  <2>3. free = Ascending(F)
    BY DEF F
  <2> HIDE DEF free
  <2>4. Len(free) = 3 - Cardinality(D)
    BY <1>8, <2>2, <2>3 DEF InOrderOf, F
  <2>5. ToSet(free) = F /\ DOMAIN free = 1..Len(free) /\ \A i, j \in 1..Len(free) : free[i] = free[j] => i = j
    BY <2>2, <2>3, ListedOnce
  <2>6. QED
    BY <2>4, <2>5 DEF F
<1> HIDE DEF D, free, rest
<1>11. DOMAIN others = C \ D /\ \A k \in DOMAIN rest : others[rest[k]] = free[k]
  <2>1. ASSUME NEW k \in DOMAIN rest PROVE others[rest[k]] = free[k]
    <3>1. (CHOOSE l \in DOMAIN rest : rest[l] = rest[k]) = k
      BY <1>9
    <3>2. rest[k] \in ToSet(rest)
      BY DEF ToSet
    <3>3. QED
      BY <3>1, <3>2
  <2>2. QED
    BY <1>9, <2>1
<1> HIDE DEF others
<1>12. Range(others) = (1..3) \ Range(got) /\ \A i, j \in DOMAIN others : others[i] = others[j] => i = j
  <2>1. \A i \in DOMAIN others : \E k \in DOMAIN rest : i = rest[k] /\ others[i] = free[k]
    BY <1>9, <1>11 DEF ToSet
  <2>2. DOMAIN rest = DOMAIN free /\ \A k \in DOMAIN rest : rest[k] \in DOMAIN others
    BY <1>9, <1>10, <1>11 DEF ToSet
  <2>3. Range(others) = ToSet(free)
    BY <1>11, <2>1, <2>2 DEF Range, ToSet
  <2>4. QED
    BY <1>9, <1>10, <2>1, <2>2, <2>3
<1>13. /\ DOMAIN Both(got, others) = C /\ Range(Both(got, others)) = 1..3
       /\ \A i \in D : Both(got, others)[i] = got[i]
       /\ \A i, j \in C : Both(got, others)[i] = Both(got, others)[j] => i = j
  <2>0. D = DOMAIN got
    BY DEF D
  <2>1. DOMAIN got \cap DOMAIN others = {} /\ Range(got) \cap Range(others) = {}
    BY <1>11, <1>12, <2>0
  <2>2. DOMAIN got \cup DOMAIN others = C /\ Range(got) \cup Range(others) = 1..3
    BY <1>5, <1>11, <1>12, <2>0
  <2>3. \A i, j \in DOMAIN got : got[i] = got[j] => i = j
    BY <1>5, <2>0
  <2>4. \A i, j \in DOMAIN others : others[i] = others[j] => i = j
    BY <1>12
  <2> DEFINE h == Both(got, others)
  <2>5. /\ DOMAIN h = DOMAIN got \cup DOMAIN others /\ Range(h) = Range(got) \cup Range(others)
        /\ \A i \in DOMAIN got : h[i] = got[i]
        /\ \A i, j \in DOMAIN h : h[i] = h[j] => i = j
    BY <2>1, <2>3, <2>4, BothAreOne
  <2> HIDE DEF h
  <2>6. QED
    BY <2>0, <2>2, <2>5 DEF h
<1>14. QED
  BY <1>1, <1>5, <1>13 DEF C

\* What PositionsPermute says of the positions out of a side s
PositionsFit(s, out) ==
  LET who(n) == CHOOSE i \in DOMAIN out : out[i] = n
      lane(n) == s.lane[who(n)]
  IN  /\ Range(out) = 1..Cardinality(DOMAIN s.lane) /\ DOMAIN out = DOMAIN s.lane
      /\ DOMAIN s.lane = Team =>
           /\ \A i \in SoloMid(s) : out[i] = 2
           /\ \A i, j \in Team : out[i] <= 3 /\ out[j] > 3 /\ i \notin SoloMid(s) => s.score[i] >= s.score[j]
           /\ lane(4) = "safe" => lane(5) = "safe"
           /\ lane(5) = "off" => lane(4) = "off"

\* A side of five gets them.
LEMMA FullSidesFit ==
  ASSUME NEW s, FullSide(s)
  PROVE  PositionsFit(s, AssignPositions(s))
<1> DEFINE cs == CoreSlots(s)
           ss == SupportSlots(s)
           out == Both(cs, ss)
<1>1. PICK a \in Team, b \in Team, c \in Team, d \in Team, e \in Team : Drawn(s, a, b, c, d, e)
  BY Draw
<1>2. DOMAIN s.lane = Team /\ Cardinality(DOMAIN s.lane) = 5
  BY RolesAssumption DEF FullSide
<1>3. AssignPositions(s) = out
  BY <1>2 DEF AssignPositions
<1>4. /\ DOMAIN cs = {a, b, c} /\ Range(cs) = 1..3
      /\ \A i, j \in {a, b, c} : cs[i] = cs[j] => i = j
      /\ \A i \in SoloMid(s) : cs[i] = 2
  BY <1>1, CoresGetSlots DEF Drawn
<1>5. /\ ss \in [{d, e} -> {4, 5}] /\ ss[d] # ss[e]
      /\ \A i, j \in {d, e} : ss[i] = 4 /\ ss[j] = 5
           => (s.lane[i] = "safe" => s.lane[j] = "safe") /\ (s.lane[j] = "off" => s.lane[i] = "off")
  <2>1. d # e /\ Team \ Cores(s) = {d, e}
    BY <1>1 DEF Drawn
  <2> HIDE DEF ss
  <2>2. QED
    BY <2>1, SupportsAre DEF ss
<1>6. Range(ss) = {4, 5} /\ DOMAIN ss = {d, e} /\ \A i, j \in {d, e} : ss[i] = ss[j] => i = j
  BY <1>5 DEF Range
<1> HIDE DEF cs, ss
<1>7. /\ DOMAIN out = {a, b, c, d, e} /\ Range(out) = 1..5
      /\ \A i \in {a, b, c} : out[i] = cs[i]
      /\ \A i \in {d, e} : out[i] = ss[i]
      /\ \A i, j \in DOMAIN out : out[i] = out[j] => i = j
  <2>1. DOMAIN cs \cap DOMAIN ss = {}
    BY <1>1, <1>4, <1>6 DEF Drawn
  <2>2. Range(cs) \cap Range(ss) = {}
    BY <1>4, <1>6
  <2>3. /\ DOMAIN out = DOMAIN cs \cup DOMAIN ss /\ Range(out) = Range(cs) \cup Range(ss)
        /\ \A i \in DOMAIN cs : out[i] = cs[i]
        /\ \A i \in DOMAIN ss : out[i] = ss[i]
        /\ \A i, j \in DOMAIN out : out[i] = out[j] => i = j
    <3>1. \A i, j \in DOMAIN cs : cs[i] = cs[j] => i = j
      BY <1>4
    <3>2. \A i, j \in DOMAIN ss : ss[i] = ss[j] => i = j
      BY <1>6
    <3>3. QED
      BY <2>1, <2>2, <3>1, <3>2, BothAreOne
  <2> HIDE DEF out
  <2>4. (1..3) \cup {4, 5} = 1..5
    OBVIOUS
  <2>5. QED
    BY <1>4, <1>6, <2>3, <2>4
<1> HIDE DEF out
<1>8. Team = {a, b, c, d, e}
  BY <1>1 DEF Drawn
<1>9. /\ \A i \in {a, b, c} : out[i] \in 1..3
      /\ \A i \in {d, e} : out[i] \in {4, 5}
  BY <1>4, <1>5, <1>7 DEF Range
<1>10. \A i \in SoloMid(s) : out[i] = 2
  <2>1. SoloMid(s) \subseteq {a}
    BY <1>1 DEF Drawn
  <2>2. QED
    BY <1>4, <1>7, <2>1
<1>11. ASSUME NEW i \in Team, NEW j \in Team, out[i] <= 3, out[j] > 3, i \notin SoloMid(s)
       PROVE  s.score[i] >= s.score[j]
  <2>1. i \in {a, b, c} /\ j \in {d, e}
    BY <1>8, <1>9, <1>11
  <2>2. QED
    BY <1>1, <1>11, <2>1 DEF Drawn
<1>12. \A i, j \in DOMAIN out : out[i] = 4 /\ out[j] = 5
         => (s.lane[i] = "safe" => s.lane[j] = "safe") /\ (s.lane[j] = "off" => s.lane[i] = "off")
  BY <1>5, <1>7, <1>9
<1> DEFINE who(n) == CHOOSE i \in DOMAIN out : out[i] = n
<1>13. who(4) \in DOMAIN out /\ out[who(4)] = 4 /\ who(5) \in DOMAIN out /\ out[who(5)] = 5
  <2>1. 4 \in Range(out) /\ 5 \in Range(out)
    BY <1>7
  <2>2. QED
    BY <2>1 DEF Range
<1> HIDE DEF who
<1>14. /\ s.lane[who(4)] = "safe" => s.lane[who(5)] = "safe"
       /\ s.lane[who(5)] = "off" => s.lane[who(4)] = "off"
  BY <1>12, <1>13
<1>15. PositionsFit(s, out)
  BY <1>2, <1>7, <1>8, <1>10, <1>11, <1>14 DEF PositionsFit, who
<1>16. QED
  BY <1>3, <1>15

\* A smaller side is ranked.
LEMMA SmallSidesFit ==
  ASSUME NEW s, DOMAIN s.lane \in SUBSET Team, DOMAIN s.lane # Team, s.score \in [DOMAIN s.lane -> Nat]
  PROVE  PositionsFit(s, AssignPositions(s))
<1> DEFINE D == DOMAIN s.lane
           r == FarmerFirst(s, D)
           out == [i \in D |-> CHOOSE k \in DOMAIN r : r[k] = i]
<1>1. IsFiniteSet(D) /\ D \in SUBSET Nat /\ Cardinality(D) # 5
  BY RolesAssumption, FS_Subset
<1>2. AssignPositions(s) = out
  BY <1>1 DEF AssignPositions
<1> HIDE DEF D
<1>3. InOrderOf(r, D, FarmsMore(s)) /\ StrictOrder(FarmsMore(s), D)
  <2>1. \A i \in D : s.score[i] \in Nat
    BY DEF D
  <2>2. QED
    BY <1>1, <2>1, FarmersListed
<1> HIDE DEF r
<1>4. /\ Len(r) = Cardinality(D) /\ ToSet(r) = D /\ DOMAIN r = 1..Cardinality(D)
      /\ \A i, j \in DOMAIN r : r[i] = r[j] => i = j
  BY <1>3, ListedOnce DEF InOrderOf
<1>5. \A i \in D : out[i] \in DOMAIN r /\ r[out[i]] = i
  <2> SUFFICES ASSUME NEW i \in D PROVE out[i] \in DOMAIN r /\ r[out[i]] = i
    OBVIOUS
  <2>1. \E k \in DOMAIN r : r[k] = i
    BY <1>4 DEF ToSet
  <2>2. QED
    BY <2>1
<1>6. \A k \in DOMAIN r : r[k] \in D
  BY <1>4 DEF ToSet
<1>7. DOMAIN out = D
  OBVIOUS
<1> HIDE DEF out
<1>8. Range(out) = DOMAIN r
  <2>1. \A k \in DOMAIN r : out[r[k]] = k
    BY <1>4, <1>5, <1>6
  <2>2. QED
    BY <1>5, <1>6, <1>7, <2>1 DEF Range
<1>9. PositionsFit(s, out)
  BY <1>4, <1>7, <1>8 DEF PositionsFit, D
<1>10. QED
  BY <1>2, <1>9

\* The invariant: the players seated so far have a lane and a score.
SeatInv ==
  /\ DOMAIN team = TeamFields
  /\ DOMAIN team.lane \subseteq Team
  /\ team.lane \in [DOMAIN team.lane -> Lanes] /\ team.score \in [DOMAIN team.lane -> Nat]
  /\ PositionsPermute

LEMMA SeatInvInit == RolesInit => SeatInv
<1> SUFFICES ASSUME RolesInit PROVE SeatInv
  OBVIOUS
<1>1. DOMAIN team = TeamFields /\ team.lane = <<>> /\ team.score = <<>> /\ team.done = "no"
  BY DEF RolesInit, TeamFields
<1>2. DOMAIN <<>> = {} /\ <<>> \in [{} -> Lanes] /\ <<>> \in [{} -> Nat]
  OBVIOUS
<1>3. QED
  BY <1>1, <1>2 DEF SeatInv, PositionsPermute

LEMMA SeatInvNext == SeatInv /\ [RolesNext]_team => SeatInv'
<1> SUFFICES ASSUME SeatInv, [RolesNext]_team PROVE SeatInv'
  OBVIOUS
<1>1. /\ DOMAIN team = TeamFields /\ DOMAIN team.lane \subseteq Team
      /\ team.lane \in [DOMAIN team.lane -> Lanes] /\ team.score \in [DOMAIN team.lane -> Nat]
  BY DEF SeatInv
<1>2. ASSUME NEW w \in Walks, NEW p \in Trio \cup {-1}, WalkLane(w, p) PROVE SeatInv'
  <2> DEFINE i == Min(Rest(team.walk, Trio))
  <2>1. /\ team.done = "no"
        /\ team' = [team EXCEPT !.walk = With(@, i, w), !.partner = With(@, i, p)]
    BY <1>2 DEF WalkLane
  <2> HIDE DEF i
  <2>2. DOMAIN team' = TeamFields /\ team'.done = "no" /\ team'.lane = team.lane /\ team'.score = team.score
    BY <1>1, <2>1 DEF TeamFields
  <2>3. QED
    BY <1>1, <2>2 DEF SeatInv, PositionsPermute
<1>3. CASE NameLanes
  <2>1. team' = [team EXCEPT !.done = "lanes", !.out = DetectLanes(team)]
    BY <1>3 DEF NameLanes
  <2>2. DOMAIN team' = TeamFields /\ team'.done = "lanes" /\ team'.lane = team.lane /\ team'.score = team.score
    BY <1>1, <2>1 DEF TeamFields
  <2>3. QED
    BY <1>1, <2>2 DEF SeatInv, PositionsPermute
<1>4. ASSUME NEW x \in Seats, Seat(x) PROVE SeatInv'
  <2> DEFINE left == Rest(team.lane, Team)
             i == Min(left)
  <2>1. /\ team.done = "no" /\ left # {}
        /\ team' = [team EXCEPT !.lane = With(@, i, x.lane), !.score = With(@, i, x.score), !.wards = With(@, i, x.wards)]
    BY <1>4 DEF Seat
  <2>2. left \in SUBSET Nat /\ left \subseteq Team
    BY RolesAssumption DEF Rest
  <2> HIDE DEF left
  <2>3. i \in Team
    <3>1. PICK c \in left : \A d \in left : c <= d
      BY <2>1, <2>2, KeepPass!LeastNumber
    <3>2. i \in left
      BY <3>1 DEF Min
    <3>3. QED
      BY <2>2, <3>2
  <2> HIDE DEF i
  <2>4. /\ DOMAIN team' = TeamFields /\ team'.done = "no"
        /\ team'.lane = With(team.lane, i, x.lane) /\ team'.score = With(team.score, i, x.score)
    BY <1>1, <2>1 DEF TeamFields
  <2>5. x.lane \in Lanes /\ x.score \in Nat
    BY RolesAssumption
  <2>6. /\ DOMAIN team'.lane = DOMAIN team.lane \cup {i} /\ DOMAIN team'.lane \subseteq Team
        /\ team'.lane \in [DOMAIN team.lane \cup {i} -> Lanes]
    BY <1>1, <2>3, <2>4, <2>5 DEF With
  <2>7. team'.score \in [DOMAIN team.lane \cup {i} -> Nat]
    BY <1>1, <2>4, <2>5 DEF With
  <2>8. QED
    BY <2>4, <2>6, <2>7 DEF SeatInv, PositionsPermute
<1>5. CASE NamePositions
  <2>1. team' = [team EXCEPT !.done = "positions", !.out = AssignPositions(team)]
    BY <1>5 DEF NamePositions
  <2>2. PositionsFit(team, AssignPositions(team))
    <3>1. CASE DOMAIN team.lane = Team
      BY <1>1, <3>1, FullSidesFit DEF FullSide
    <3>2. CASE DOMAIN team.lane # Team
      BY <1>1, <3>2, SmallSidesFit
    <3>3. QED
      BY <3>1, <3>2
  <2>3. /\ DOMAIN team' = TeamFields /\ team'.lane = team.lane /\ team'.score = team.score /\ team'.wards = team.wards
        /\ team'.out = AssignPositions(team)
    BY <1>1, <2>1 DEF TeamFields
  <2>4. SoloMid(team') = SoloMid(team)
    BY <2>3 DEF SoloMid
  <2>5. PositionsPermute'
    <3>1. PositionsFit(team', team'.out)
      BY <2>2, <2>3, <2>4 DEF PositionsFit
    <3>2. QED
      BY <3>1 DEF PositionsFit, PositionsPermute
  <2>6. QED
    BY <1>1, <2>3, <2>5 DEF SeatInv
<1>6. CASE UNCHANGED team
  <2>1. team' = team
    BY <1>6
  <2>2. QED
    BY <2>1 DEF SeatInv, PositionsPermute
<1>7. QED
  BY <1>2, <1>3, <1>4, <1>5, <1>6 DEF RolesNext

\* A side of five gets each position once, and the lone mid, the better farmers and
\* the lanes of the supports get theirs, for any lanes, scores and wards.
THEOREM PositionsArePermuted == Spec => []PositionsPermute
<1>1. Init => SeatInv
  BY SeatInvInit DEF Init
<1>2. SeatInv /\ [Next]_parserVars => SeatInv'
  BY SeatInvNext DEF Next, parserVars
<1>3. SeatInv => PositionsPermute
  BY DEF SeatInv
<1>4. QED
  BY <1>1, <1>2, <1>3, PTL DEF Spec

-----------------------------------------------------------------------------
(*****************************************************************************)
(* Skills: an account of the points. An entry that cost a point, and a       *)
(* point that waits for its rise, are each one of the points the parser      *)
(* knows of; it knows of none until it has scanned the hero, and until       *)
(* then rises are only sightings.                                            *)
(*****************************************************************************)
PsFields == {"seen", "slots", "spentSeen", "spent", "credits", "rises", "prev", "build"}

\* q is a list, of whatever elements.
Listing(q) == Len(q) \in Nat /\ q = [i \in 1..Len(q) |-> q[i]]

\* The entries of a build that cost a point
Costly(q) == {i \in DOMAIN q : q[i].name \notin Talents}
Paid(q)   == Cardinality(Costly(q))

\* The entries that cost a point and the waiting points are n at most.
Account(p, n) ==
  /\ DOMAIN p = PsFields /\ DOMAIN p.seen = Names
  /\ Listing(p.build) /\ Listing(p.credits)
  /\ Paid(p.build) + Len(p.credits) <= n

\* The points known and the sightings are the same in p and q.
SameHero(p, q) == q.spent = p.spent /\ q.spentSeen = p.spentSeen /\ q.seen = p.seen

\* What Append does to any list
LEMMA ListingAppend ==
  ASSUME NEW q, Listing(q), NEW x
  PROVE  /\ Listing(Append(q, x)) /\ Len(Append(q, x)) = Len(q) + 1
         /\ Append(q, x)[Len(q) + 1] = x
         /\ \A i \in 1..Len(q) : Append(q, x)[i] = q[i]
<1> DEFINE E == {q[i] : i \in 1..Len(q)} \cup {x}
<1>1. q \in Seq(E) /\ x \in E
  BY DEF Listing
<1> HIDE DEF E
<1>2. /\ Append(q, x) \in Seq(E) /\ Len(Append(q, x)) = Len(q) + 1
      /\ Append(q, x)[Len(q) + 1] = x
      /\ \A i \in 1..Len(q) : Append(q, x)[i] = q[i]
  BY <1>1
<1>3. ASSUME NEW r \in Seq(E) PROVE Listing(r)
  BY DEF Listing
<1>4. QED
  BY <1>2, <1>3

\* An entry adds one at most to what was paid, a talent nothing.
LEMMA PaidAppend ==
  ASSUME NEW q, Listing(q), NEW x
  PROVE  /\ Paid(q) \in Nat
         /\ Paid(Append(q, x)) \in Nat /\ Paid(Append(q, x)) <= Paid(q) + 1
         /\ x.name \in Talents => Paid(Append(q, x)) = Paid(q)
<1> DEFINE n == Len(q)
           r == Append(q, x)
<1>1. n \in Nat /\ DOMAIN q = 1..n /\ DOMAIN r = 1..(n + 1) /\ r[n + 1] = x /\ \A i \in 1..n : r[i] = q[i]
  <2>1. Listing(r) /\ Len(r) = n + 1 /\ r[n + 1] = x /\ \A i \in 1..n : r[i] = q[i]
    BY ListingAppend
  <2>2. n \in Nat /\ DOMAIN q = 1..n
    BY DEF Listing
  <2>3. DOMAIN r = 1..(n + 1)
    <3> HIDE DEF r, n
    <3>1. QED
      BY <2>1 DEF Listing
  <2>4. QED
    BY <2>1, <2>2, <2>3
<1>2. IsFiniteSet(Costly(q)) /\ Paid(q) \in Nat
  <2>1. IsFiniteSet(1..n)
    BY <1>1, FS_Interval
  <2>2. Costly(q) \in SUBSET (1..n)
    <3> HIDE DEF n
    <3>1. QED
      BY <1>1 DEF Costly
  <2>3. QED
    BY <2>1, <2>2, FS_Subset, FS_CardinalityType DEF Paid
<1>3. Costly(r) = IF x.name \in Talents THEN Costly(q) ELSE Costly(q) \cup {n + 1}
  <2> HIDE DEF r, n
  <2>1. \A i : i \in 1..(n + 1) <=> i \in 1..n \/ i = n + 1
    BY <1>1
  <2>2. \A i : i \in Costly(r) <=> (i \in 1..n /\ q[i].name \notin Talents) \/ (i = n + 1 /\ x.name \notin Talents)
    BY <1>1, <2>1 DEF Costly
  <2>3. \A i : i \in Costly(q) <=> i \in 1..n /\ q[i].name \notin Talents
    BY <1>1 DEF Costly
  <2>4. QED
    BY <2>2, <2>3
<1>4. Cardinality(Costly(q) \cup {n + 1}) \in Nat /\ Cardinality(Costly(q) \cup {n + 1}) <= Paid(q) + 1
  <2>1. IsFiniteSet(Costly(q) \cup {n + 1}) /\ Cardinality(Costly(q) \cup {n + 1}) \in {Paid(q), Paid(q) + 1}
    BY <1>2, FS_AddElement DEF Paid
  <2>2. Cardinality(Costly(q) \cup {n + 1}) \in Nat
    BY <2>1, FS_CardinalityType
  <2>3. QED
    BY <1>2, <2>1, <2>2
<1>5. QED
  BY <1>2, <1>3, <1>4 DEF Paid

\* appendSkillUp adds one at most, and touches neither points nor sightings.
LEMMA UpStep ==
  ASSUME NEW p, NEW n \in Int, Account(p, n), NEW a, NEW l, NEW t
  PROVE  LET q == AppendSkillUp(p, a, l, t)
         IN  /\ Account(q, n + 1) /\ SameHero(p, q)
             /\ a \in Talents => Account(q, n)
<1> DEFINE q == AppendSkillUp(p, a, l, t)
           e == [name |-> a, level |-> l, time |-> t]
<1>1. /\ DOMAIN p = PsFields /\ DOMAIN p.seen = Names /\ Listing(p.build) /\ Listing(p.credits)
      /\ Paid(p.build) + Len(p.credits) <= n /\ Paid(p.build) \in Nat /\ Len(p.credits) \in Nat
  BY PaidAppend DEF Account, Listing
<1>2. CASE l <= p.prev[a]
  <2>1. q = p
    BY <1>2 DEF AppendSkillUp
  <2>2. Account(p, n + 1)
    BY <1>1 DEF Account
  <2>3. QED
    BY <2>1, <2>2 DEF SameHero
<1>3. CASE ~(l <= p.prev[a])
  <2>1. q = [p EXCEPT !.build = Append(@, e), !.prev[a] = l]
    BY <1>3 DEF AppendSkillUp
  <2>2. /\ DOMAIN q = PsFields /\ q.seen = p.seen /\ q.spent = p.spent /\ q.spentSeen = p.spentSeen
        /\ q.credits = p.credits /\ q.build = Append(p.build, e)
    BY <1>1, <2>1 DEF PsFields
  <2>3. /\ Listing(q.build) /\ Paid(q.build) \in Nat /\ Paid(q.build) <= Paid(p.build) + 1
        /\ a \in Talents => Paid(q.build) = Paid(p.build)
    BY <1>1, <2>2, ListingAppend, PaidAppend
  <2> HIDE DEF q
  <2>4. Paid(q.build) + Len(q.credits) <= n + 1 /\ (a \in Talents => Paid(q.build) + Len(q.credits) <= n)
    BY <1>1, <2>2, <2>3
  <2>5. Listing(q.credits) /\ DOMAIN q.seen = Names
    BY <1>1, <2>2
  <2>6. Account(q, n + 1) /\ (a \in Talents => Account(q, n))
    BY <2>2, <2>3, <2>4, <2>5 DEF Account
  <2>7. SameHero(p, q)
    BY <2>2 DEF SameHero
  <2>8. QED
    BY <2>6, <2>7 DEF q
<1>4. QED
  BY <1>2, <1>3

\* A point that finds its rise, or waits for it, or is let go
LEMMA PayStep ==
  ASSUME NEW p, NEW n \in Int, Account(p, n), NEW c, NEW now
  PROVE  Account(PayPoint(p, c, now), n + 1) /\ SameHero(p, PayPoint(p, c, now))
<1> DEFINE q == PayPoint(p, c, now)
<1>1. /\ DOMAIN p = PsFields /\ DOMAIN p.seen = Names /\ Listing(p.build) /\ Listing(p.credits)
      /\ Paid(p.build) + Len(p.credits) <= n /\ Paid(p.build) \in Nat /\ Len(p.credits) \in Nat
  BY PaidAppend DEF Account, Listing
<1>2. CASE Candidates(p, c, now) = {}
  <2>1. q = IF now - c <= Window THEN [p EXCEPT !.credits = Append(@, c)] ELSE p
    BY <1>2 DEF PayPoint
  <2>2. CASE now - c <= Window
    <3>1. /\ DOMAIN q = PsFields /\ q.seen = p.seen /\ q.spent = p.spent /\ q.spentSeen = p.spentSeen
          /\ q.credits = Append(p.credits, c) /\ q.build = p.build
      BY <1>1, <2>1, <2>2 DEF PsFields
    <3>2. Listing(q.credits) /\ Len(q.credits) = Len(p.credits) + 1
      BY <1>1, <3>1, ListingAppend
    <3> HIDE DEF q
    <3>3. Paid(q.build) + Len(q.credits) <= n + 1 /\ Listing(q.build) /\ DOMAIN q.seen = Names
      BY <1>1, <3>1, <3>2
    <3>4. Account(q, n + 1)
      BY <3>1, <3>2, <3>3 DEF Account
    <3>5. SameHero(p, q)
      BY <3>1 DEF SameHero
    <3>6. QED
      BY <3>4, <3>5 DEF q
  <2>3. CASE ~(now - c <= Window)
    <3>1. q = p
      BY <2>1, <2>3
    <3>2. Account(p, n + 1)
      BY <1>1 DEF Account
    <3>3. QED
      BY <3>1, <3>2 DEF SameHero
  <2>4. QED
    BY <2>2, <2>3
<1>3. CASE Candidates(p, c, now) # {}
  <2> DEFINE i == CHOOSE i \in Candidates(p, c, now) : TRUE
             r == p.rises[i]
             o == [p EXCEPT !.rises = RemoveAt(@, i)]
  <2>1. q = IF r.name = Attributes /\ AbilitiesMaxed(p) THEN [o EXCEPT !.prev[r.name] = r.level]
            ELSE AppendSkillUp(o, r.name, r.level, r.time)
    BY <1>3 DEF PayPoint
  <2>2. Account(o, n) /\ SameHero(p, o)
    <3>1. /\ DOMAIN o = PsFields /\ o.seen = p.seen /\ o.spent = p.spent /\ o.spentSeen = p.spentSeen
          /\ o.credits = p.credits /\ o.build = p.build
      <4> HIDE DEF i
      <4>1. QED
        BY <1>1 DEF PsFields
    <3> HIDE DEF o
    <3>2. QED
      BY <1>1, <3>1 DEF Account, SameHero
  <2> HIDE DEF o
  <2>3. CASE r.name = Attributes /\ AbilitiesMaxed(p)
    <3> DEFINE w == r.name
               v == r.level
    <3>1. q = [o EXCEPT !.prev[w] = v]
      BY <2>1, <2>3
    <3> HIDE DEF w, v, q
    <3>2. DOMAIN o = PsFields
      BY <2>2 DEF Account
    <3>3. /\ DOMAIN q = PsFields /\ q.seen = o.seen /\ q.spent = o.spent /\ q.spentSeen = o.spentSeen
          /\ q.credits = o.credits /\ q.build = o.build
      BY <3>1, <3>2 DEF PsFields
    <3>4. Paid(o.build) \in Nat /\ Len(o.credits) \in Nat
      BY <2>2, PaidAppend DEF Account, Listing
    <3>5. Listing(o.build) /\ Listing(o.credits) /\ DOMAIN o.seen = Names /\ Paid(o.build) + Len(o.credits) <= n
      BY <2>2 DEF Account
    <3>6. Paid(q.build) + Len(q.credits) <= n + 1 /\ Listing(q.build) /\ Listing(q.credits) /\ DOMAIN q.seen = Names
      BY <3>3, <3>4, <3>5
    <3>7. Account(q, n + 1)
      BY <3>3, <3>6 DEF Account
    <3>8. SameHero(p, q)
      BY <2>2, <3>3, Zenon DEF SameHero
    <3>9. QED
      BY <3>7, <3>8 DEF q
  <2>4. CASE ~(r.name = Attributes /\ AbilitiesMaxed(p))
    <3> DEFINE w == r.name
               v == r.level
               u == r.time
    <3>1. q = AppendSkillUp(o, w, v, u)
      BY <2>1, <2>4
    <3> HIDE DEF w, v, u, q
    <3>2. Account(q, n + 1) /\ SameHero(o, q)
      BY <2>2, <3>1, UpStep
    <3>3. SameHero(p, q)
      BY <2>2, <3>2, Zenon DEF SameHero
    <3>4. QED
      BY <3>2, <3>3 DEF q
  <2>5. QED
    BY <2>3, <2>4
<1>4. QED
  BY <1>2, <1>3

\* The loop of matchSkills over the waiting points, with what stays of p
MatchOp(now, base, q, c) == PayPoint(q, c, now)
MatchGood(now, base, q, k) == Account(q, base.left + k) /\ SameHero(base.of, q)
MatchPass == INSTANCE FoldRule WITH Op <- MatchOp, Good <- MatchGood

\* The points of matchSkills are paid in that loop.
LEMMA MatchIsFold ==
  \A p, now, b : FoldLeft(LAMBDA q, c : PayPoint(q, c, now), [p EXCEPT !.credits = <<>>], p.credits)
                   = MatchPass!Fold(now, b, [p EXCEPT !.credits = <<>>], p.credits)
BY DEF MatchPass!Fold, MatchOp, FoldLeft, MatchPass!MapThenFoldSet, MapThenFoldSet, MatchPass!Highest, Max

\* matchSkills pays with the points it has.
LEMMA MatchStep ==
  ASSUME NEW p, NEW n \in Int, Account(p, n), NEW now
  PROVE  Account(MatchSkills(p, now), n) /\ SameHero(p, MatchSkills(p, now))
<1> DEFINE b == [left |-> n - Len(p.credits), of |-> p]
           p0 == [p EXCEPT !.credits = <<>>]
           paid == FoldLeft(LAMBDA q, c : PayPoint(q, c, now), p0, p.credits)
           cs == p.credits
           m == Len(cs)
<1>1. /\ DOMAIN p = PsFields /\ DOMAIN p.seen = Names /\ Listing(p.build) /\ Listing(cs)
      /\ Paid(p.build) + m <= n /\ Paid(p.build) \in Nat /\ m \in Nat
  BY PaidAppend DEF Account, Listing
<1>2. b.left = n - m /\ b.of = p /\ b.left \in Int
  BY <1>1
<1>3. Account(p0, n - m) /\ SameHero(p, p0)
  <2>1. /\ DOMAIN p0 = PsFields /\ p0.seen = p.seen /\ p0.spent = p.spent /\ p0.spentSeen = p.spentSeen
        /\ p0.credits = <<>> /\ p0.build = p.build
    BY <1>1 DEF PsFields
  <2>2. Listing(<<>>) /\ Len(<<>>) = 0
    BY DEF Listing
  <2> HIDE DEF p0, m
  <2>3. Paid(p0.build) + Len(p0.credits) <= n - m
    BY <1>1, <2>1, <2>2
  <2>4. Account(p0, n - m)
    BY <1>1, <2>1, <2>2, <2>3 DEF Account
  <2>5. SameHero(p, p0)
    BY <2>1 DEF SameHero
  <2>6. QED
    BY <2>4, <2>5
<1>4. paid = MatchPass!Fold(now, b, p0, cs)
  <2> HIDE DEF b
  <2>1. QED
    BY MatchIsFold
<1> HIDE DEF b, p0, cs, m
<1>5. MatchGood(now, b, MatchPass!Fold(now, b, p0, cs), m)
  <2>1. MatchGood(now, b, p0, 0)
    BY <1>1, <1>2, <1>3 DEF MatchGood
  <2>2. ASSUME NEW k \in 0..(m - 1), NEW q, MatchGood(now, b, q, k)
        PROVE  MatchGood(now, b, MatchOp(now, b, q, cs[k + 1]), k + 1)
    <3> DEFINE c == cs[k + 1]
               j == b.left + k
    <3>1. j \in Int /\ b.left + (k + 1) = j + 1
      BY <1>2, <2>2
    <3>2. Account(q, j) /\ SameHero(p, q)
      BY <1>2, <2>2 DEF MatchGood
    <3> HIDE DEF c, j
    <3>3. Account(PayPoint(q, c, now), j + 1) /\ SameHero(q, PayPoint(q, c, now))
      BY <3>1, <3>2, PayStep
    <3>4. SameHero(p, PayPoint(q, c, now))
      BY <3>2, <3>3, Zenon DEF SameHero
    <3>5. MatchGood(now, b, PayPoint(q, c, now), k + 1)
      BY <1>2, <3>1, <3>3, <3>4 DEF MatchGood
    <3>6. QED
      BY <3>5 DEF MatchOp, c
  <2>3. cs \in Seq({cs[i] : i \in 1..Len(cs)})
    BY <1>1 DEF Listing
  <2>4. QED
    BY <2>1, <2>2, <2>3, MatchPass!FoldHolds DEF m
<1>6. Account(paid, n) /\ SameHero(p, paid)
  <2>1. b.left + m = n
    BY <1>1, <1>2
  <2>2. QED
    BY <1>2, <1>4, <1>5, <2>1 DEF MatchGood
<1>7. MatchSkills(p, now) = [paid EXCEPT !.rises = Kept(paid.rises, {r \in ToSet(paid.rises) : now - r.time <= Window})]
  BY DEF MatchSkills, p0
<1> HIDE DEF paid
<1>8. Account(MatchSkills(p, now), n) /\ SameHero(paid, MatchSkills(p, now))
  <2> DEFINE o == [paid EXCEPT !.rises = Kept(paid.rises, {r \in ToSet(paid.rises) : now - r.time <= Window})]
  <2>1. /\ DOMAIN o = PsFields /\ o.seen = paid.seen /\ o.spent = paid.spent /\ o.spentSeen = paid.spentSeen
        /\ o.credits = paid.credits /\ o.build = paid.build
    BY <1>6 DEF PsFields, Account
  <2> HIDE DEF o
  <2>2. Account(o, n)
    BY <1>6, <2>1 DEF Account
  <2>3. SameHero(paid, o)
    BY <2>1 DEF SameHero
  <2>4. QED
    BY <1>7, <2>2, <2>3 DEF o
<1>9. SameHero(p, MatchSkills(p, now))
  BY <1>6, <1>8, Zenon DEF SameHero
<1>10. QED
  BY <1>8, <1>9

\* A rise, once the points are known: it waits for one.
LEMMA RecordStep ==
  ASSUME NEW p, NEW n \in Int, Account(p, n), p.spentSeen, NEW a, NEW l, NEW t
  PROVE  Account(RecordSkillUp(p, a, l, t), n) /\ SameHero(p, RecordSkillUp(p, a, l, t))
<1> DEFINE o == [p EXCEPT !.rises = Append(@, [name |-> a, level |-> l, time |-> t])]
<1>1. CASE l <= p.prev[a]
  <2>1. RecordSkillUp(p, a, l, t) = p
    BY <1>1 DEF RecordSkillUp
  <2>2. QED
    BY <2>1 DEF SameHero
<1>2. CASE ~(l <= p.prev[a]) /\ a \notin Talents
  <2>1. RecordSkillUp(p, a, l, t) = MatchSkills(o, t)
    BY <1>2 DEF RecordSkillUp
  <2>2. /\ DOMAIN o = PsFields /\ o.seen = p.seen /\ o.spent = p.spent /\ o.spentSeen = p.spentSeen
        /\ o.credits = p.credits /\ o.build = p.build
    BY DEF PsFields, Account
  <2> HIDE DEF o
  <2>3. Account(o, n)
    BY <2>2 DEF Account
  <2>4. Account(MatchSkills(o, t), n) /\ SameHero(o, MatchSkills(o, t))
    BY <2>3, MatchStep
  <2>5. SameHero(p, MatchSkills(o, t))
    BY <2>2, <2>4, Zenon DEF SameHero
  <2>6. QED
    BY <2>1, <2>4, <2>5
<1>3. CASE ~(l <= p.prev[a]) /\ a \in Talents
  <2>1. RecordSkillUp(p, a, l, t) = AppendSkillUp(p, a, l, t)
    BY <1>3 DEF RecordSkillUp
  <2>2. QED
    BY <1>3, <2>1, UpStep
<1>4. QED
  BY <1>1, <1>2, <1>3

\* A new sighting of an ability
LEMMA Sighted ==
  ASSUME NEW p, NEW n, Account(p, n), NEW a \in Names, NEW l
  PROVE  LET q == [p EXCEPT !.seen[a] = l]
         IN  /\ Account(q, n) /\ q.spent = p.spent /\ q.spentSeen = p.spentSeen
             /\ q.seen[a] = l /\ (\A b \in Names : b # a => q.seen[b] = p.seen[b])
             /\ q.build = p.build /\ q.credits = p.credits
<1> DEFINE q == [p EXCEPT !.seen[a] = l]
<1>1. DOMAIN p = PsFields /\ DOMAIN p.seen = Names
  BY DEF Account
<1>2. /\ DOMAIN q = PsFields /\ q.seen = [p.seen EXCEPT ![a] = l] /\ q.spent = p.spent /\ q.spentSeen = p.spentSeen
      /\ q.credits = p.credits /\ q.build = p.build
  BY <1>1 DEF PsFields
<1>3. DOMAIN q.seen = Names /\ q.seen[a] = l /\ (\A b \in Names : b # a => q.seen[b] = p.seen[b])
  BY <1>1, <1>2
<1> HIDE DEF q
<1>4. Account(q, n)
  BY <1>2, <1>3 DEF Account
<1>5. QED
  BY <1>2, <1>3, <1>4 DEF q

\* observeAbilityLevel and observeHeroAbility, once the points are known
LEMMA ObserveSteps ==
  ASSUME NEW p, NEW n \in Int, Account(p, n), p.spentSeen, NEW a \in Names, NEW l, NEW t
  PROVE  /\ Account(ObserveAbilityLevel(p, a, l, t), n)
         /\ ObserveAbilityLevel(p, a, l, t).spent = p.spent /\ ObserveAbilityLevel(p, a, l, t).spentSeen
         /\ Account(ObserveHeroAbility(p, a, l, t), n)
         /\ ObserveHeroAbility(p, a, l, t).spent = p.spent /\ ObserveHeroAbility(p, a, l, t).spentSeen
<1> DEFINE o == [p EXCEPT !.seen[a] = l]
           r == RecordSkillUp(o, a, l, t)
<1>1. Account(o, n) /\ o.spent = p.spent /\ o.spentSeen
  BY Sighted
<1>2. ObserveAbilityLevel(p, a, l, t) \in {p, r} /\ ObserveHeroAbility(p, a, l, t) \in {p, o, r}
  BY DEF ObserveAbilityLevel, ObserveHeroAbility
<1> HIDE DEF o
<1>3. Account(r, n) /\ SameHero(o, r)
  BY <1>1, RecordStep
<1>4. r.spent = p.spent /\ r.spentSeen
  BY <1>1, <1>3 DEF SameHero
<1> HIDE DEF r
<1>5. QED
  BY <1>1, <1>2, <1>3, <1>4

\* A slot of the hero, and the loop over the slots
SlotOp(c, levels, q, a) ==
  ObserveHeroAbility(IF a \in Basics THEN [q EXCEPT !.slots[a] = levels[a]] ELSE q, a, levels[a], c.time)

\* Once the points are known, a scan keeps the account; before, it only sights.
SlotGood(c, levels, q, k) ==
  /\ (q.spentSeen <=> c.of.spentSeen) /\ q.spent = c.of.spent
  /\ c.of.spentSeen => Account(q, c.of.spent)
  /\ ~c.of.spentSeen => /\ Account(q, 0)
                        /\ \A a \in Names : q.seen[a] \in {None, levels[a]}

SlotPass == INSTANCE FoldRule WITH Op <- SlotOp, Good <- SlotGood

\* The scan of the slots is that loop.
LEMMA ScanIsFold == \A p, c : ScanSlots(p, c.time) = SlotPass!Fold(c, lvl, p, SlotOrder)
BY DEF SlotPass!Fold, SlotOp, ScanSlots, FoldLeft, SlotPass!MapThenFoldSet, MapThenFoldSet, SlotPass!Highest, Max

\* The slot itself is no sighting.
LEMMA SlotNoted ==
  ASSUME NEW q, NEW n, Account(q, n), NEW a, NEW l
  PROVE  LET o == [q EXCEPT !.slots[a] = l]
         IN  /\ Account(o, n) /\ o.spent = q.spent /\ o.spentSeen = q.spentSeen /\ o.seen = q.seen
<1> DEFINE o == [q EXCEPT !.slots[a] = l]
<1>1. DOMAIN q = PsFields /\ DOMAIN q.seen = Names
  BY DEF Account
<1>2. /\ DOMAIN o = PsFields /\ o.seen = q.seen /\ o.spent = q.spent /\ o.spentSeen = q.spentSeen
      /\ o.credits = q.credits /\ o.build = q.build
  BY <1>1 DEF PsFields
<1> HIDE DEF o
<1>3. Account(o, n)
  BY <1>2 DEF Account
<1>4. QED
  BY <1>2, <1>3 DEF o

\* One slot more
LEMMA SlotStep ==
  ASSUME NEW c, NEW levels \in [Names -> Nat], NEW q, NEW k, SlotGood(c, levels, q, k), NEW a \in Names, c.of.spent \in Int
  PROVE  SlotGood(c, levels, SlotOp(c, levels, q, a), k + 1)
<1> DEFINE o == IF a \in Basics THEN [q EXCEPT !.slots[a] = levels[a]] ELSE q
           l == levels[a]
           n == c.of.spent
           r == SlotOp(c, levels, q, a)
<1>1. r = ObserveHeroAbility(o, a, l, c.time)
  BY DEF SlotOp
<1>2. \A m : Account(q, m) => Account(o, m) /\ o.spent = q.spent /\ o.spentSeen = q.spentSeen /\ o.seen = q.seen
  BY SlotNoted
<1> HIDE DEF o, r
<1>3. CASE c.of.spentSeen
  <2>1. Account(o, n) /\ o.spent = n /\ o.spentSeen
    BY <1>2, <1>3 DEF SlotGood
  <2>2. Account(r, n) /\ r.spent = n /\ r.spentSeen
    BY <1>1, <2>1, ObserveSteps
  <2>3. QED
    BY <1>3, <2>2 DEF SlotGood, r
<1>4. CASE ~c.of.spentSeen
  <2>1. /\ Account(o, 0) /\ o.spent = n /\ (o.spentSeen <=> c.of.spentSeen)
        /\ \A b \in Names : o.seen[b] \in {None, levels[b]}
    BY <1>2, <1>4 DEF SlotGood
  <2>2. CASE o.seen[a] = None
    <3>1. r = [o EXCEPT !.seen[a] = l]
      BY <1>1, <2>2 DEF ObserveHeroAbility
    <3>2. /\ Account(r, 0) /\ r.spent = n /\ (r.spentSeen <=> c.of.spentSeen)
          /\ r.seen[a] = l /\ \A b \in Names : b # a => r.seen[b] = o.seen[b]
      BY <2>1, <3>1, Sighted
    <3>3. \A b \in Names : r.seen[b] \in {None, levels[b]}
      BY <2>1, <3>2
    <3>4. QED
      BY <1>4, <3>2, <3>3 DEF SlotGood, r
  <2>3. CASE o.seen[a] # None
    <3>1. o.seen[a] = l /\ l \in Nat
      BY <2>1, <2>3
    <3>2. ~(l > o.seen[a])
      BY <3>1
    <3>3. r = o
      BY <1>1, <2>3, <3>2 DEF ObserveHeroAbility
    <3>4. QED
      BY <1>4, <2>1, <3>3 DEF SlotGood, r
  <2>4. QED
    BY <2>2, <2>3
<1>5. QED
  BY <1>3, <1>4

\* What a scan of the slots leaves
LEMMA ScanKeeps ==
  ASSUME SkillAssumption, lvl \in [Names -> Nat], NEW p, NEW t, p.spent \in Int,
         p.spentSeen => Account(p, p.spent),
         ~p.spentSeen => Account(p, 0) /\ \A a \in Names : p.seen[a] = None
  PROVE  LET q == ScanSlots(p, t)
         IN  /\ (q.spentSeen <=> p.spentSeen) /\ q.spent = p.spent
             /\ p.spentSeen => Account(q, p.spent)
             /\ ~p.spentSeen => Account(q, 0)
<1> DEFINE c == [of |-> p, time |-> t]
<1>1. SlotOrder \in Seq(Names)
  BY DEF SkillAssumption
<1>2. c.of = p /\ c.time = t
  OBVIOUS
<1> HIDE DEF c
<1>3. SlotGood(c, lvl, p, 0)
  BY <1>2 DEF SlotGood
<1>4. ASSUME NEW k \in 0..(Len(SlotOrder) - 1), NEW q, SlotGood(c, lvl, q, k)
      PROVE  SlotGood(c, lvl, SlotOp(c, lvl, q, SlotOrder[k + 1]), k + 1)
  <2>1. SlotOrder[k + 1] \in Names
    BY <1>1
  <2>2. QED
    BY <1>2, <1>4, <2>1, SlotStep
<1>5. SlotGood(c, lvl, SlotPass!Fold(c, lvl, p, SlotOrder), Len(SlotOrder))
  BY <1>1, <1>3, <1>4, SlotPass!FoldHolds
<1>6. ScanSlots(p, t) = SlotPass!Fold(c, lvl, p, SlotOrder)
  BY <1>2, ScanIsFold
<1>7. QED
  BY <1>2, <1>5, <1>6 DEF SlotGood

\* skillSpent: a credit for each new point
LEMMA SpentStep ==
  ASSUME NEW p, p.spent \in Int, Account(p, p.spent), NEW n \in Int, NEW t
  PROVE  LET q == SkillSpent(p, n, t)
         IN  /\ q.spent = (IF n > p.spent THEN n ELSE p.spent) /\ q.spentSeen
             /\ Account(q, q.spent)
<1> DEFINE new == [i \in 1..(n - p.spent) |-> t]
           cs == p.credits \o new
           m == IF n > p.spent THEN n ELSE p.spent
           o == [p EXCEPT !.credits = @ \o new, !.spent = IF n > @ THEN n ELSE @, !.spentSeen = TRUE]
<1>1. /\ DOMAIN p = PsFields /\ DOMAIN p.seen = Names /\ Listing(p.build) /\ Listing(p.credits)
      /\ Paid(p.build) + Len(p.credits) <= p.spent /\ Paid(p.build) \in Nat /\ Len(p.credits) \in Nat
  BY PaidAppend DEF Account, Listing
<1>2. Listing(cs) /\ Len(cs) = Len(p.credits) + m - p.spent
  <2> DEFINE E == {p.credits[i] : i \in 1..Len(p.credits)} \cup {t}
             d == IF n > p.spent THEN n - p.spent ELSE 0
  <2>1. p.credits \in Seq(E)
    BY <1>1 DEF Listing
  <2>2. new \in [1..d -> E] /\ d \in Nat
    BY Z3
  <2>3. new \in Seq(E) /\ Len(new) = d
    <3> HIDE DEF new, d, E
    <3>1. QED
      BY <2>2
  <2> HIDE DEF new, E, d
  <2>4. cs \in Seq(E) /\ Len(cs) = Len(p.credits) + d
    BY <2>1, <2>3
  <2>5. Listing(cs)
    <3> HIDE DEF cs
    <3>1. QED
      BY <2>4 DEF Listing
  <2>6. Len(p.credits) + d = Len(p.credits) + m - p.spent
    BY <1>1 DEF d
  <2>7. QED
    BY <2>4, <2>5, <2>6
<1>3. /\ DOMAIN o = PsFields /\ o.seen = p.seen /\ o.spent = m /\ o.spentSeen
      /\ o.credits = cs /\ o.build = p.build
  <2> HIDE DEF new
  <2>1. QED
    BY <1>1 DEF PsFields
<1>4. SkillSpent(p, n, t) = MatchSkills(o, t)
  BY DEF SkillSpent
<1>5. m \in Int
  OBVIOUS
<1> HIDE DEF o, cs, m
<1>6. Account(o, m)
  <2>1. Paid(o.build) + Len(o.credits) <= m
    BY <1>1, <1>2, <1>3, <1>5
  <2>2. QED
    BY <1>1, <1>2, <1>3, <2>1 DEF Account
<1>7. Account(MatchSkills(o, t), m) /\ SameHero(o, MatchSkills(o, t))
  BY <1>5, <1>6, MatchStep
<1>8. QED
  BY <1>3, <1>4, <1>7 DEF SameHero, m

\* One ability's levels, read as points: the loop over them
UpOp(c, d, q, l) == AppendSkillUp(q, c.name, l, d)
UpGood(c, d, q, k) == Account(q, c.base + k) /\ SameHero(c.of, q)
UpPass == INSTANCE FoldRule WITH Op <- UpOp, Good <- UpGood

\* The step of the loop over the abilities is a loop over its levels.
AllUps(t, levels, q, a) == FoldLeft(LAMBDA r, l : AppendSkillUp(r, a, l, t), q, [l \in 1..levels[a] |-> l])

\* It is the loop above.
LEMMA UpsIsFold ==
  \A t, levels, q, c : AllUps(t, levels, q, c.name) = UpPass!Fold(c, t, q, [l \in 1..levels[c.name] |-> l])
BY DEF AllUps, UpPass!Fold, UpOp, FoldLeft, UpPass!MapThenFoldSet, MapThenFoldSet, UpPass!Highest, Max

\* It lists as many entries as it has levels, at most.
LEMMA UpsStep ==
  ASSUME NEW t, NEW levels \in [Names -> Nat], NEW q, NEW n \in Int, Account(q, n), NEW a \in Names
  PROVE  Account(AllUps(t, levels, q, a), n + levels[a]) /\ SameHero(q, AllUps(t, levels, q, a))
<1> DEFINE c == [name |-> a, base |-> n, of |-> q]
           m == levels[a]
           s == [l \in 1..m |-> l]
<1>1. c.name = a /\ c.base = n /\ c.of = q
  OBVIOUS
<1>2. m \in Nat
  OBVIOUS
<1> HIDE DEF c, m
<1>3. s \in Seq(Nat) /\ Len(s) = m
  BY <1>2
<1>4. UpGood(c, t, q, 0)
  BY <1>1 DEF UpGood, SameHero
<1>5. ASSUME NEW k \in 0..(m - 1), NEW r, UpGood(c, t, r, k)
      PROVE  UpGood(c, t, UpOp(c, t, r, s[k + 1]), k + 1)
  <2> DEFINE o == UpOp(c, t, r, s[k + 1])
             l == s[k + 1]
  <2>1. Account(r, n + k) /\ n + k \in Int /\ SameHero(q, r) /\ n + (k + 1) = n + k + 1
    BY <1>1, <1>5 DEF UpGood
  <2>2. o = AppendSkillUp(r, a, l, t)
    BY <1>1 DEF UpOp
  <2> HIDE DEF o, l
  <2>3. Account(o, n + k + 1) /\ SameHero(r, o)
    BY <2>1, <2>2, UpStep
  <2>4. SameHero(q, o)
    BY <2>1, <2>3, Zenon DEF SameHero
  <2>5. QED
    BY <1>1, <2>1, <2>3, <2>4 DEF UpGood, o
<1> HIDE DEF s
<1>6. UpGood(c, t, UpPass!Fold(c, t, q, s), m)
  BY <1>3, <1>4, <1>5, UpPass!FoldHolds
<1>7. AllUps(t, levels, q, a) = UpPass!Fold(c, t, q, s)
  BY <1>1, UpsIsFold DEF s, m
<1>8. QED
  BY <1>1, <1>6, <1>7 DEF UpGood, m

\* The two loops of a first sighting, over the same abilities: the levels summed up,
\* and the levels listed
AnyGood(c, d, q, k) == TRUE
SumOp(c, levels, n, a) == n + levels[a]
SumPass == INSTANCE FoldRule WITH Op <- SumOp, Good <- AnyGood
AllPass == INSTANCE FoldRule WITH Op <- AllUps, Good <- AnyGood

\* The sum is the first one.
LEMMA SumIsFold ==
  \A t, first : FoldLeft(LAMBDA n, a : n + lvl[a], 0, first) = SumPass!Fold(t, lvl, 0, first)
BY DEF SumPass!Fold, SumOp, FoldLeft, SumPass!MapThenFoldSet, MapThenFoldSet, SumPass!Highest, Max

\* As many points are listed as levels summed up, at most.
LEMMA ListedAsSummed ==
  ASSUME NEW t, NEW levels \in [Names -> Nat], NEW p, Account(p, 0), NEW first \in Seq(Names)
  PROVE  LET sum == SumPass!Fold(t, levels, 0, first)
         IN  sum \in Int /\ Account(AllPass!Fold(t, levels, p, first), sum)
<1>1. PICK g : SumPass!IsRun(t, levels, 0, first, g)
  BY SumPass!Runs
<1>2. PICK h : AllPass!IsRun(t, levels, p, first, h)
  BY AllPass!Runs
<1> DEFINE n == Len(first)
           S == {k \in Nat : k <= n => g[k] \in Int /\ Account(h[k], g[k])}
<1>3. n \in Nat
  OBVIOUS
<1>4. 0 \in S
  BY <1>1, <1>2 DEF SumPass!IsRun, AllPass!IsRun
<1>5. ASSUME NEW k \in 0..(n - 1), k \in S PROVE k + 1 \in S
  <2> DEFINE a == first[k + 1]
             q == h[k]
             v == g[k]
  <2>1. k \in Nat /\ k <= n /\ k + 1 \in 1..n /\ a \in Names
    BY <1>3
  <2>2. v \in Int /\ Account(q, v)
    BY <1>5, <2>1
  <2>3. g[k + 1] = v + levels[a] /\ h[k + 1] = AllUps(t, levels, q, a)
    BY <1>1, <1>2, <1>5 DEF SumPass!IsRun, AllPass!IsRun, SumOp
  <2> HIDE DEF a, q, v
  <2>4. Account(AllUps(t, levels, q, a), v + levels[a])
    BY <2>1, <2>2, UpsStep
  <2>5. v + levels[a] \in Int
    BY <2>1, <2>2
  <2>6. QED
    BY <2>1, <2>3, <2>4, <2>5
<1>6. n \in S
  <2> HIDE DEF S, n
  <2>1. \A k \in 0..n : k \in S
    BY <1>3, <1>4, <1>5, SumPass!UpTo
  <2>2. QED
    BY <1>3, <2>1
<1>7. SumPass!Fold(t, levels, 0, first) = g[n] /\ AllPass!Fold(t, levels, p, first) = h[n]
  BY <1>1, <1>2 DEF SumPass!IsRun, AllPass!IsRun
<1>8. QED
  BY <1>3, <1>6, <1>7

\* FirstLevels in terms of the two
LEMMA FirstIsFolds ==
  \A p, t : FirstLevels(p, t) =
    LET first == Kept(SlotOrder, Basics)
    IN  IF ~p.spentSeen /\ points > 0 /\ SumPass!Fold(t, lvl, 0, first) = points
        THEN [AllPass!Fold(t, lvl, p, first) EXCEPT !.spent = points, !.spentSeen = TRUE] ELSE p
<1> SUFFICES ASSUME NEW p, NEW t
             PROVE FirstLevels(p, t) =
                    LET first == Kept(SlotOrder, Basics)
                    IN  IF ~p.spentSeen /\ points > 0 /\ SumPass!Fold(t, lvl, 0, first) = points
                        THEN [AllPass!Fold(t, lvl, p, first) EXCEPT !.spent = points, !.spentSeen = TRUE] ELSE p
  OBVIOUS
<1> DEFINE first == Kept(SlotOrder, Basics)
           all(q, a) == FoldLeft(LAMBDA r, l : AppendSkillUp(r, a, l, t), q, [l \in 1..lvl[a] |-> l])
<1>1. FoldLeft(all, p, first) = AllPass!Fold(t, lvl, p, first)
  BY DEF AllPass!Fold, AllUps, FoldLeft, AllPass!MapThenFoldSet, MapThenFoldSet, AllPass!Highest, Max
<1>2. FoldLeft(LAMBDA n, a : n + lvl[a], 0, first) = SumPass!Fold(t, lvl, 0, first)
  BY SumIsFold
<1>3. FirstLevels(p, t) = IF ~p.spentSeen /\ points > 0 /\ FoldLeft(LAMBDA n, a : n + lvl[a], 0, first) = points
                          THEN [FoldLeft(all, p, first) EXCEPT !.spent = points, !.spentSeen = TRUE] ELSE p
  BY DEF FirstLevels
<1>4. QED
  BY <1>1, <1>2, <1>3

\* A hero first seen with points spent
LEMMA FirstStep ==
  ASSUME SkillAssumption, lvl \in [Names -> Nat], points \in Nat, NEW p, p.spent \in 0..points, Account(p, p.spent),
         ~p.spentSeen => Account(p, 0), NEW t
  PROVE  FirstLevels(p, t).spent \in 0..points /\ Account(FirstLevels(p, t), FirstLevels(p, t).spent)
<1> DEFINE first == Kept(SlotOrder, Basics)
           sum == SumPass!Fold(t, lvl, 0, first)
           q == AllPass!Fold(t, lvl, p, first)
           o == [q EXCEPT !.spent = points, !.spentSeen = TRUE]
<1>1. FirstLevels(p, t) = IF ~p.spentSeen /\ points > 0 /\ sum = points THEN o ELSE p
  BY FirstIsFolds
<1>2. first \in Seq(Names)
  <2>1. SlotOrder \in Seq(Names) /\ ToSet(SlotOrder) = Names
    BY DEF SkillAssumption
  <2>2. KeepGood(Basics, SlotOrder, first, Len(SlotOrder))
    BY <2>1, KeptGives
  <2>3. QED
    BY <2>1, <2>2 DEF KeepGood
<1>3. CASE ~p.spentSeen /\ points > 0 /\ sum = points
  <2>1. Account(q, points)
    <3> HIDE DEF first
    <3>1. QED
      BY <1>2, <1>3, ListedAsSummed
  <2> HIDE DEF q
  <2>2. /\ DOMAIN o = PsFields /\ o.seen = q.seen /\ o.spent = points
        /\ o.credits = q.credits /\ o.build = q.build
    BY <2>1 DEF PsFields, Account
  <2> HIDE DEF o
  <2>3. Account(o, points)
    BY <2>1, <2>2 DEF Account
  <2>4. FirstLevels(p, t) = o
    BY <1>1, <1>3
  <2>5. QED
    BY <2>2, <2>3, <2>4
<1>4. CASE ~(~p.spentSeen /\ points > 0 /\ sum = points)
  <2>1. FirstLevels(p, t) = p
    BY <1>1, <1>4
  <2>2. QED
    BY <2>1
<1>5. QED
  BY <1>3, <1>4

\* With the count known: every listed upgrade and waiting credit has a point of its
\* own; until the hero was scanned nothing was sighted.
SkillInv ==
  /\ lvl \in [Names -> Nat] /\ points \in Nat
  /\ counters => /\ ps.spent \in 0..points
                 /\ Account(ps, ps.spent)
                 /\ ~ps.spentSeen => Account(ps, 0) /\ \A a \in Names : ps.seen[a] = None

\* Nothing is listed at the start.
LEMMA SkillInvInit == SkillInit => SkillInv
<1> SUFFICES ASSUME SkillInit PROVE SkillInv
  OBVIOUS
<1>1. lvl \in [Names -> Nat] /\ points \in Nat
  BY DEF SkillInit
<1>2. ps = Blank
  BY DEF SkillInit
<1>3. /\ DOMAIN ps = PsFields /\ ps.seen = [a \in Names |-> None] /\ ps.spent = 0
      /\ ps.credits = <<>> /\ ps.build = <<>>
  BY <1>2 DEF Blank, PsFields
<1>4. Listing(<<>>) /\ Len(<<>>) = 0 /\ Paid(<<>>) = 0
  <2>1. Listing(<<>>) /\ Len(<<>>) = 0 /\ Costly(<<>>) = {}
    BY DEF Listing, Costly
  <2>2. QED
    BY <2>1, FS_EmptySet DEF Paid
<1>5. Account(ps, 0)
  BY <1>3, <1>4 DEF Account
<1>6. QED
  BY <1>1, <1>3, <1>5 DEF SkillInv

\* The hero's entity: its slots, and its count
LEMMA ScanHeroStep ==
  ASSUME SkillInv, ScanHero
  PROVE  SkillInv'
<1>1. lvl' = lvl /\ points' = points /\ counters' = counters
  BY DEF ScanHero, world
<1>2. CASE counters
  <2> DEFINE p == ScanSlots(ps, clock)
             f == FirstLevels(p, clock)
             r == SkillSpent(f, points, clock)
  <2>1. ps' = r
    BY <1>2 DEF ScanHero
  <2>2. /\ lvl \in [Names -> Nat] /\ points \in Nat /\ ps.spent \in 0..points /\ Account(ps, ps.spent)
        /\ ~ps.spentSeen => Account(ps, 0) /\ \A a \in Names : ps.seen[a] = None
    BY <1>2 DEF SkillInv
  <2>3. /\ (p.spentSeen <=> ps.spentSeen) /\ p.spent = ps.spent
        /\ ps.spentSeen => Account(p, ps.spent)
        /\ ~ps.spentSeen => Account(p, 0)
    BY <2>2, SkillAssumption, ScanKeeps
  <2> HIDE DEF p
  <2>4. Account(p, p.spent)
    <3>1. CASE ps.spentSeen
      BY <2>3, <3>1
    <3>2. CASE ~ps.spentSeen
      <4>1. Account(p, 0) /\ p.spent \in Nat
        BY <2>2, <2>3, <3>2
      <4>2. Paid(p.build) \in Nat /\ Len(p.credits) \in Nat
        BY <4>1, PaidAppend DEF Account, Listing
      <4>3. QED
        BY <4>1, <4>2 DEF Account
    <3>3. QED
      BY <3>1, <3>2
  <2>5. f.spent \in 0..points /\ Account(f, f.spent)
    BY <2>2, <2>3, <2>4, SkillAssumption, FirstStep
  <2> HIDE DEF f
  <2>6. r.spent = (IF points > f.spent THEN points ELSE f.spent) /\ r.spentSeen /\ Account(r, r.spent)
    BY <2>2, <2>5, SpentStep
  <2> HIDE DEF r
  <2>7. r.spent \in 0..points
    BY <2>2, <2>5, <2>6
  <2>8. QED
    BY <1>1, <2>1, <2>2, <2>6, <2>7 DEF SkillInv
<1>3. CASE ~counters
  BY <1>1, <1>3 DEF SkillInv
<1>4. QED
  BY <1>2, <1>3

\* An ability's entity, seen only once the hero was
LEMMA AbilityStep ==
  ASSUME SkillInv, NEW a \in Names, AbilityUpdate(a)
  PROVE  SkillInv'
<1>1. lvl' = lvl /\ points' = points /\ counters' = counters /\ ps' = ObserveAbilityLevel(ps, a, lvl[a], clock)
  BY DEF AbilityUpdate, world
<1>2. CASE counters /\ ps.spentSeen
  <2> DEFINE q == ObserveAbilityLevel(ps, a, lvl[a], clock)
             l == lvl[a]
  <2>1. ps.spent \in Int /\ Account(ps, ps.spent)
    BY <1>2 DEF SkillInv
  <2> HIDE DEF l
  <2>2. Account(q, ps.spent) /\ q.spent = ps.spent /\ q.spentSeen
    BY <1>2, <2>1, ObserveSteps DEF l
  <2> HIDE DEF q
  <2>3. QED
    BY <1>1, <1>2, <2>2 DEF SkillInv, q
<1>3. CASE counters /\ ~ps.spentSeen
  <2>1. ps' = ps
    BY <1>1, <1>3 DEF ObserveAbilityLevel, SkillInv
  <2>2. QED
    BY <1>1, <2>1 DEF SkillInv
<1>4. CASE ~counters
  BY <1>1, <1>4 DEF SkillInv
<1>5. QED
  BY <1>2, <1>3, <1>4

\* A new entity in an ability's place
LEMMA RecreateStep ==
  ASSUME SkillInv, NEW a \in Names, Recreate(a)
  PROVE  SkillInv'
<1>1. lvl' = lvl /\ points' = points /\ counters' = counters /\ ps' = [ps EXCEPT !.seen[a] = None]
  BY DEF Recreate, world
<1>2. CASE counters
  <2>1. /\ ps.spent \in 0..points /\ Account(ps, ps.spent)
        /\ ~ps.spentSeen => Account(ps, 0) /\ \A b \in Names : ps.seen[b] = None
    BY <1>2 DEF SkillInv
  <2>2. /\ Account(ps', ps.spent) /\ ps'.spent = ps.spent /\ ps'.spentSeen = ps.spentSeen
        /\ ps'.seen[a] = None /\ (\A b \in Names : b # a => ps'.seen[b] = ps.seen[b])
    BY <1>1, <2>1, Sighted
  <2>3. ~ps.spentSeen => Account(ps', 0)
    BY <1>1, <2>1, Sighted
  <2>4. ~ps'.spentSeen => Account(ps', 0) /\ \A b \in Names : ps'.seen[b] = None
    BY <2>1, <2>2, <2>3
  <2>5. QED
    BY <1>1, <1>2, <2>1, <2>2, <2>4 DEF SkillInv
<1>3. CASE ~counters
  BY <1>1, <1>3 DEF SkillInv
<1>4. QED
  BY <1>2, <1>3

\* The world: levels and points only grow.
LEMMA WorldStep ==
  ASSUME SkillInv, ps' = ps, counters' = counters,
         \/ \E rest : Apply(rest)
         \/ lvl' = lvl /\ points' = points
  PROVE  SkillInv'
<1>1. lvl' \in [Names -> Nat] /\ points' \in Nat /\ points <= points' /\ points \in Nat
  BY DEF SkillInv, Apply
<1>2. ps.spent \in 0..points => ps'.spent \in 0..points'
  BY <1>1
<1>3. QED
  BY <1>1, <1>2 DEF SkillInv

\* Every step keeps the account.
LEMMA SkillInvNext == SkillInv /\ [SkillNext]_skillVars => SkillInv'
<1> SUFFICES ASSUME SkillInv, [SkillNext]_skillVars PROVE SkillInv'
  OBVIOUS
<1>1. CASE ScanHero
  BY <1>1, ScanHeroStep
<1>2. ASSUME NEW a \in Names, AbilityUpdate(a) PROVE SkillInv'
  BY <1>2, AbilityStep
<1>3. ASSUME NEW a \in Names, Recreate(a) PROVE SkillInv'
  BY <1>3, RecreateStep
<1>4. ASSUME NEW a \in Basics \cup {Attributes}, SpendPoint(a) PROVE SkillInv'
  <2>1. ps' = ps /\ counters' = counters /\ \E rest : Apply(rest)
    BY <1>4 DEF SpendPoint, Upgrade
  <2>2. QED
    BY <2>1, WorldStep
<1>5. ASSUME NEW g \in Granted, Grant(g) PROVE SkillInv'
  <2>1. ps' = ps /\ counters' = counters /\ \E rest : Apply(rest)
    BY <1>5 DEF Grant, Upgrade
  <2>2. QED
    BY <2>1, WorldStep
<1>6. ASSUME NEW x \in Talents, TakeTalent(x) PROVE SkillInv'
  <2>1. ps' = ps /\ counters' = counters /\ \E rest : Apply(rest)
    BY <1>6 DEF TakeTalent
  <2>2. QED
    BY <2>1, WorldStep
<1>7. CASE RestArrives
  <2>1. ps' = ps /\ counters' = counters /\ \E rest : Apply(rest)
    BY <1>7 DEF RestArrives
  <2>2. QED
    BY <2>1, WorldStep
<1>8. CASE SkillTick
  <2>1. ps' = ps /\ counters' = counters /\ lvl' = lvl /\ points' = points
    BY <1>8 DEF SkillTick
  <2>2. QED
    BY <2>1, WorldStep
<1>9. CASE SkillEnd
  <2> DEFINE now == MaxTime + Window + 1
             q == MatchSkills(ps, now)
  <2>1. counters' = counters /\ lvl' = lvl /\ points' = points /\ ps' = q
    BY <1>9 DEF SkillEnd
  <2>2. CASE counters
    <3> HIDE DEF now
    <3>1. /\ ps.spent \in 0..points /\ Account(ps, ps.spent)
          /\ ~ps.spentSeen => Account(ps, 0) /\ \A b \in Names : ps.seen[b] = None
      BY <2>2 DEF SkillInv
    <3>2. Account(q, ps.spent) /\ SameHero(ps, q) /\ (~ps.spentSeen => Account(q, 0))
      BY <3>1, MatchStep
    <3> HIDE DEF q
    <3>3. q.spent = ps.spent /\ (~q.spentSeen => Account(q, 0) /\ \A b \in Names : q.seen[b] = None)
      BY <3>1, <3>2 DEF SameHero
    <3>4. QED
      BY <2>1, <2>2, <3>1, <3>2, <3>3 DEF SkillInv
  <2>3. CASE ~counters
    BY <2>1, <2>3 DEF SkillInv
  <2>4. QED
    BY <2>2, <2>3
<1>10. CASE UNCHANGED skillVars
  <2>1. ps' = ps /\ counters' = counters /\ lvl' = lvl /\ points' = points
    BY <1>10 DEF skillVars, world
  <2>2. QED
    BY <2>1, WorldStep
<1>11. QED
  BY <1>1, <1>2, <1>3, <1>4, <1>5, <1>6, <1>7, <1>8, <1>9, <1>10 DEF SkillNext

\* The account, read at once, is the property.
LEMMA SkillInvFollows == SkillInv => PaidOnce
<1> SUFFICES ASSUME SkillInv, counters
             PROVE  Cardinality({i \in DOMAIN ps.build : ps.build[i].name \notin Talents}) + Len(ps.credits) <= points
  BY DEF PaidOnce
<1>1. Account(ps, ps.spent) /\ ps.spent \in 0..points /\ points \in Nat
  BY DEF SkillInv
<1>2. Paid(ps.build) + Len(ps.credits) <= ps.spent /\ Paid(ps.build) \in Nat /\ Len(ps.credits) \in Nat
  BY <1>1, PaidAppend DEF Account, Listing
<1>3. Paid(ps.build) + Len(ps.credits) <= points
  BY <1>1, <1>2
<1>4. QED
  BY <1>3 DEF Paid, Costly

\* No skill point is listed twice or listed and kept, for any hero, any order of the
\* entities and any number of points.
THEOREM EveryPointPaysOnce == Spec => []PaidOnce
<1>1. Init => SkillInv
  BY SkillInvInit DEF Init
<1>2. SkillInv /\ [Next]_parserVars => SkillInv'
  BY SkillInvNext DEF Next, parserVars, skillVars
<1>3. QED
  BY <1>1, <1>2, SkillInvFollows, PTL DEF Spec
=============================================================================
