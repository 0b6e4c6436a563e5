-------------------------------- MODULE Wards --------------------------------
(***************************************************************************)
(* Wards, their kills and the bounties, on a clock that is known late      *)
(* (main.go: ActualGameSeconds, rebasePreHorn, the ward entities, the ward *)
(* DEATH entries, finalizeWard, dewardBounties).                           *)
(*                                                                         *)
(* Until the replay tells when the horn was, the parser stamps what it     *)
(* sees far below any game time and moves the stamps when it learns it.    *)
(* A killed ward's entity is deleted some seconds after its DEATH entry,   *)
(* with nothing that names the kill.  Time is counted in seconds.          *)
(***************************************************************************)
EXTENDS Timeline

CONSTANTS Placers,     \* players, as numbers
          Light,       \* those of one side
          Owners,      \* those who place wards
          Slots,       \* entity indexes, used again once free
          HornAt,      \* the tick of the horn
          Decay,       \* how long the entity of a killed ward stays
          WardPlans,   \* the kinds of wards and who may kill them, and bounds on the wards and on when
                       \* the last is placed
          LastTick     \* bound on the length of the replay

ASSUME WardsAssumption ==
  /\ Placers \subseteq Nat \ {0} /\ Light \cup Owners \subseteq Placers
  /\ HornAt \in 1..LastTick /\ Decay \subseteq 6..8
  /\ \A s \in WardPlans : s.kinds \subseteq {0, 1} /\ s.killers \subseteq Placers \cup {0} /\ s.most \in Nat /\ s.by \in Nat
  /\ LastTick - Epoch <= -Band /\ Band > LastTick

VARIABLES field,  \* the wards as they are, and what of them is still to be told
          wlog    \* the parser's record

SameSide(p, q) == (p \in Light) <=> (q \in Light)

(***************************************************************************)
(* The parser                                                              *)
(***************************************************************************)
NewLog ==
  [start   |-> 0,                              \* GameStartTime
   active  |-> [i \in Slots |-> <<>>],         \* ActiveWards: player, place in his list, start
   wards   |-> [p \in Placers |-> <<>>],       \* Wards of a player
   kills   |-> <<>>,                           \* PendingDewards
   dewards |-> [p \in Placers |-> <<>>],       \* Dewards of a player
   chats   |-> <<>>,                           \* WardChats
   gold    |-> <<>>]                           \* WardGold

\* Mutant of RebasePreHorn: the kills that wait for their ward are forgotten.
RebasePreHorn_ForgetsKills(w, start) ==
  LET move(t) == Rebased(t, Epoch - start)
      all(s)  == [i \in DOMAIN s |-> [s[i] EXCEPT !.time = move(@)]]
  IN  [w EXCEPT !.active  = [i \in Slots |-> IF @[i] = <<>> THEN <<>> ELSE [@[i] EXCEPT !.time = move(@)]],
                !.wards   = [p \in Placers |-> [i \in DOMAIN @[p] |->
                              [@[p][i] EXCEPT !.time = move(@), !.end = move(@)]]],
                !.dewards = [p \in Placers |-> all(@[p])],
                !.chats   = all(@)]

\* Every stamp is moved; of the unexported ones each is named.
RebasePreHorn(w, start) ==
  LET move(t) == Rebased(t, Epoch - start)
      all(s)  == [i \in DOMAIN s |-> [s[i] EXCEPT !.time = move(@)]]
  IN  [w EXCEPT !.active  = [i \in Slots |-> IF @[i] = <<>> THEN <<>> ELSE [@[i] EXCEPT !.time = move(@)]],
                !.wards   = [p \in Placers |-> [i \in DOMAIN @[p] |->
                              [@[p][i] EXCEPT !.time = move(@), !.end = move(@)]]],
                !.kills   = all(@),
                !.dewards = [p \in Placers |-> all(@[p])],
                !.chats   = all(@)]

\* The game rules: the horn is moved to only once.
StartTime(w, start) ==
  IF w.start = 0 THEN [RebasePreHorn(w, start) EXCEPT !.start = start] ELSE [w EXCEPT !.start = start]

WardCreated(w, i, p, kind, raw) ==
  LET t == ActualGameSeconds(w, raw)
  IN  [w EXCEPT !.wards[p] = Append(@, [time |-> t, kind |-> kind, end |-> 0, dur |-> 0, killed |-> FALSE]),
                !.active[i] = [player |-> p, at |-> Len(w.wards[p]) + 1, time |-> t]]

\* A ward's DEATH entry that its own expiry did not write; killer 0 is no hero.
WardDeath(w, kind, killer, denied, raw) ==
  LET t == ActualGameSeconds(w, raw)
      q == [w EXCEPT !.kills = Append(@, [time |-> t, kind |-> kind, used |-> FALSE])]
  IN  IF killer = 0 THEN q
      ELSE [q EXCEPT !.dewards[killer] = Append(@, [time |-> t, kind |-> kind, denied |-> denied, paid |-> 0])]

\* finalizeWard: the kill of its kind that is nearest to 7.2 seconds ago is its own.
FinalizeWard(w, i, raw) ==
  LET a    == w.active[i]
      now  == ActualGameSeconds(w, raw)
      kind == w.wards[a.player][a.at].kind
      lag(k) == now - w.kills[k].time
      off(k) == Gap(10 * lag(k), 72)
      fit  == {k \in DOMAIN w.kills : ~w.kills[k].used /\ w.kills[k].kind = kind /\ lag(k) \in 5..9}
      best == {k \in fit : \A j \in fit : off(k) < off(j) \/ (off(k) = off(j) /\ k <= j)}
  IN  IF a = <<>> THEN w
      ELSE [w EXCEPT !.active[i] = <<>>,
                     !.wards[a.player][a.at].end = now,
                     !.wards[a.player][a.at].dur = IF now < a.time THEN 0 ELSE now - a.time,
                     !.wards[a.player][a.at].killed = best # {},
                     !.kills = [k \in DOMAIN @ |-> [@[k] EXCEPT !.used = @ \/ k \in best]]]

\* Mutant of Announced: an announcement may pay for two wards.
Announced_Again(w, p, ev, used) ==
  LET dt(j) == Gap(w.chats[j].time, ev.time)
      fit   == {j \in DOMAIN w.chats : w.chats[j].kind = ev.kind /\ w.chats[j].killer = p /\ dt(j) <= 1}
  IN  {j \in fit : \A k \in fit : dt(j) < dt(k) \/ (dt(j) = dt(k) /\ k <= j)}

\* The announcement of deward ev of p: the nearest in time, the later of two
Announced(w, p, ev, used) ==
  LET dt(j) == Gap(w.chats[j].time, ev.time)
      fit   == {j \in (DOMAIN w.chats) \ used : w.chats[j].kind = ev.kind /\ w.chats[j].killer = p /\ dt(j) <= 1}
  IN  {j \in fit : \A k \in fit : dt(j) < dt(k) \/ (dt(j) = dt(k) /\ k <= j)}

\* Or else the first gold his side was paid in that tick
WardKillGold(w, p, ev, used) ==
  LET due == {j \in (DOMAIN w.gold) \ used : w.gold[j].time = ev.time /\ SameSide(w.gold[j].to, p)}
  IN  {j \in due : \A k \in due : j <= k}

DewardBounties(w) ==
  LET pay(st, d) ==
        LET ev   == st.w.dewards[d[1]][d[2]]
            told == Announced(w, d[1], ev, st.chats)
            gold == WardKillGold(w, d[1], ev, st.gold)
        IN  CASE ~ev.denied /\ told # {} ->
                   [st EXCEPT !.chats = @ \cup told,
                              !.w.dewards[d[1]][d[2]].paid = w.chats[CHOOSE j \in told : TRUE].value]
              [] ~ev.denied /\ told = {} /\ gold # {} ->
                   [st EXCEPT !.gold = @ \cup gold,
                              !.w.dewards[d[1]][d[2]].paid = w.gold[CHOOSE j \in gold : TRUE].value]
              [] OTHER -> st
      all == Sorted(UNION {{p} \X DOMAIN w.dewards[p] : p \in Placers},
                    LAMBDA d, e : d[1] < e[1] \/ (d[1] = e[1] /\ d[2] < e[2]))
  IN  FoldLeft(pay, [w |-> w, chats |-> {}, gold |-> {}], all).w

(***************************************************************************)
(* The replay.  A ward of field.wards has its number in the order of all   *)
(* of them: a bounty is told apart by it.                                  *)
(***************************************************************************)
WardsInit ==
  /\ \E announced \in BOOLEAN, s \in WardPlans :  \* old replays do not tell who was paid
       field = [tick |-> 0, plan |-> s, wards |-> <<>>, owed |-> {}, announced |-> announced, over |-> FALSE]
  /\ wlog = NewLog

Standing == {n \in DOMAIN field.wards : field.wards[n].gone = -1}

Place(i, p, kind) ==
  /\ ~field.over /\ field.tick <= field.plan.by /\ Len(field.wards) < field.plan.most /\ Cardinality(Standing) < Cardinality(Slots)
  /\ i = CHOOSE j \in Slots : \A n \in Standing : field.wards[n].slot # j
  /\ field' = [field EXCEPT !.wards = Append(@, [slot |-> i, owner |-> p, at |-> Len(wlog.wards[p]) + 1, kind |-> kind,
                                                 placed |-> field.tick, died |-> -1, by |-> -1, gone |-> -1])]
  /\ wlog' = WardCreated(wlog, i, p, kind, field.tick)

\* A hero, a tower or the ward's own side destroys it.  Only an enemy hero is paid:
\* in the entry of that tick, and announced within the second.
KillWard(n, killer) ==
  LET w == field.wards[n]
      denied == killer # 0 /\ SameSide(killer, w.owner)
      paid == killer # 0 /\ ~denied
      logged == WardDeath(wlog, w.kind, killer, denied, field.tick)
  IN  /\ n \in Standing /\ w.died = -1 /\ ~field.over
      /\ field' = [field EXCEPT !.wards[n].died = field.tick, !.wards[n].by = killer,
                                !.owed = IF paid /\ field.announced THEN @ \cup {n} ELSE @]
      /\ wlog' = IF paid /\ wlog.start > 0
                 THEN [logged EXCEPT !.gold = Append(@, [time |-> ActualGameSeconds(wlog, field.tick),
                                                         to |-> killer, value |-> n])]
                 ELSE logged

Announce(n) ==
  /\ n \in field.owed
  /\ wlog' = [wlog EXCEPT !.chats = Append(@, [time |-> ActualGameSeconds(wlog, field.tick), value |-> n,
                                               kind |-> field.wards[n].kind, killer |-> field.wards[n].by])]
  /\ field' = [field EXCEPT !.owed = @ \ {n}]

\* The entity goes: its corpse has decayed, or the ward expires, which happens far
\* from any kill of its kind.
DeleteWard(n) ==
  LET w == field.wards[n]
      near(m) == /\ field.wards[m].kind = w.kind /\ field.wards[m].died # -1
                 /\ field.tick - field.wards[m].died <= 9
  IN  /\ n \in Standing /\ ~field.over
      /\ IF w.died = -1 THEN \A m \in DOMAIN field.wards : ~near(m) ELSE field.tick - w.died \in Decay
      /\ field' = [field EXCEPT !.wards[n].gone = field.tick]
      /\ wlog' = FinalizeWard(wlog, w.slot, field.tick)

\* The game rules carry the time of the horn from then on.
RulesUpdate ==
  /\ ~field.over /\ field.tick >= HornAt
  /\ wlog' = StartTime(wlog, HornAt)
  /\ UNCHANGED field

WardsTick ==
  /\ ~field.over /\ field.tick < LastTick
  /\ field.tick = HornAt => wlog.start > 0
  /\ \A n \in field.owed : field.wards[n].died = field.tick
  /\ \A n \in Standing : LET w == field.wards[n] IN w.died # -1 => \E d \in Decay : field.tick - w.died < d
  /\ field' = [field EXCEPT !.tick = @ + 1]
  /\ UNCHANGED wlog

WardsEnd ==
  /\ ~field.over /\ wlog.start > 0 /\ field.owed = {}
  /\ field' = [field EXCEPT !.over = TRUE]
  /\ wlog' = DewardBounties(wlog)

WardsNext ==
  \/ \E i \in Slots, p \in Owners, kind \in field.plan.kinds : Place(i, p, kind)
  \/ \E n \in DOMAIN field.wards : \/ \E killer \in field.plan.killers : KillWard(n, killer)
                                   \/ Announce(n)
                                   \/ DeleteWard(n)
  \/ RulesUpdate \/ WardsTick \/ WardsEnd

-----------------------------------------------------------------------------
\* Once the horn is known, every ward stands in its owner's list at its time on the
\* game clock and one that is gone with its real lifetime, wherever the horn falls
\* among its placing, death and deletion.  Who is flagged was killed, and who was
\* killed is flagged unless two others of its kind were killed just before it and
\* took each the next one's kill (AllKillsFlagged).
WardsEndAsTheyDid ==
  LET killed(n) == field.wards[n].died # -1
      before(n) == {m \in DOMAIN field.wards \ {n} : /\ killed(m) /\ field.wards[m].kind = field.wards[n].kind
                                                     /\ field.wards[n].died - field.wards[m].died \in 0..3}
  IN  wlog.start > 0 => \A n \in DOMAIN field.wards :
        LET w == field.wards[n]
            e == wlog.wards[w.owner][w.at]
        IN  /\ e.time = w.placed - HornAt /\ e.kind = w.kind
            /\ w.gone # -1 => e.end = w.gone - HornAt /\ e.dur = w.gone - w.placed
            /\ e.killed => w.gone # -1 /\ killed(n)
            /\ w.gone # -1 /\ killed(n) /\ ~e.killed => Cardinality(before(n)) >= 2

\* A ward that is gone is flagged as killed exactly when it was: "destroyed by the
\* enemy (deward) vs natural expiry" (main.go:62), for corpses that stay as long as
\* was measured (main.go:2077).
AllKillsFlagged ==
  wlog.start > 0 => \A n \in DOMAIN field.wards :
    LET w == field.wards[n] IN w.gone # -1 => (wlog.wards[w.owner][w.at].killed <=> w.died # -1)

\* At the end every bounty has gone to one deward: with announcements to a kill of
\* the same hero and kind, without them, for kills after the horn, to one of his side.
BountiesPaidOnce ==
  LET hero(n) == field.wards[n].by
      paid  == {n \in DOMAIN field.wards : hero(n) > 0 /\ ~SameSide(hero(n), field.wards[n].owner)}
      due   == IF field.announced THEN paid ELSE {n \in paid : field.wards[n].died > HornAt}
      lists == UNION {{p} \X DOMAIN wlog.dewards[p] : p \in Placers}
      got(n) == {d \in lists : wlog.dewards[d[1]][d[2]].paid = n}
  IN  field.over => \A n \in due :
        \E d \in lists : /\ got(n) = {d} /\ SameSide(d[1], hero(n))
                         /\ field.announced => d[1] = hero(n) /\ wlog.dewards[d[1]][d[2]].kind = field.wards[n].kind
=============================================================================
