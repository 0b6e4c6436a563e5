---------------------------- MODULE EventsProofs -----------------------------
(***************************************************************************)
(* The parser's lists of deaths, teamfights, assists and smokes against    *)
(* what happened in the game, for any players and any order of the log's   *)
(* entries.                                                                *)
(*                                                                         *)
(* What is said of one player's deaths is said of his list s, his pending  *)
(* gold g, his laning deaths l, his deaths D, the entries E still unread   *)
(* and the tick t; what holds of the state follows from these.             *)
(***************************************************************************)
EXTENDS ParserProofs

Ev   == [time : Nat, killer : Heroes \cup {-1}, rein : BOOLEAN, assists : SUBSET Heroes, gold : BOOLEAN]
Kill == [time : Nat, target : Heroes]

GameFields  == {"tick", "died", "entries", "owed", "over"}
BoardFields == {"evs", "kills", "laned", "gold", "rises", "assists"}

\* The death x is of tick t and the entry that names its killer is still unread.
Unread(x, E, t) == x.time = t /\ \E e \in E : e.victim = x.victim /\ e.killer = x.killer

\* The list s ends with an event of tick t.
Top(s, t) == Len(s) > 0 /\ s[Len(s)].time = t

\* What a list can have of the deaths D
Had(D, s, t)     == {x \in D : x.time < t \/ Top(s, t)}
HadLane(D, s, t) == {x \in Had(D, s, t) : InLane(x.time, x.rein)}

\* The deaths of one player, no two of them in one tick
DeathsOf(D, p, t) ==
  /\ IsFiniteSet(D)
  /\ \A x \in D : /\ x.victim = p /\ x.killer \in Heroes \cup {-1} /\ x.time \in Nat /\ x.time <= t
                  /\ x.rein \in BOOLEAN
  /\ \A x, y \in D : x.time = y.time => x = y

\* An entry is of a death of this tick: its own, or a clone's; its own comes once.
EntriesOf(E, D, p, t) ==
  /\ \A e \in E : e.victim = p =>
       /\ e.killer \in Heroes \cup {-1} /\ e.listed \subseteq Heroes
       /\ \E x \in D : x.time = t /\ e.rein = x.rein /\ e.killer \in {x.killer, p}
  /\ \A e, f \in E : e.victim = p /\ f.victim = p /\ e.killer # p /\ f.killer # p => e = f

EventIs(ev, x, E, t) ==
  /\ ev.time = x.time /\ ev.rein = x.rein /\ (ev.gold <=> ~x.rein)
  /\ ev.killer = x.killer \/ (Unread(x, E, t) /\ ev.killer = x.victim)

\* The list of one player: in the order of time, each event a death of his, with
\* its killer unless that entry is still to come, and no death but those without.
Ordered(s) == \A i, j \in 1..Len(s) : i < j => s[i].time < s[j].time
AllDeaths(s, D, E, t) == \A i \in 1..Len(s) : \E x \in D : EventIs(s[i], x, E, t)
AllListed(s, g, D, E, t) ==
  \A x \in D : (\E i \in 1..Len(s) : s[i].time = x.time) \/ (Unread(x, E, t) /\ (g <=> ~x.rein))
ClonesFirst(s, D, E, t, p) ==
  \A x \in D : Unread(x, E, t) /\ x.killer # p /\ Top(s, t) => s[Len(s)].killer = p
GoldTaken(s, g, t) == Top(s, t) => ~g
Tallied(s, l, D, t) == Len(s) = Cardinality(Had(D, s, t)) /\ l = Cardinality(HadLane(D, s, t))

ListFits(s, g, l, D, E, t, p) ==
  /\ Ordered(s) /\ AllDeaths(s, D, E, t) /\ AllListed(s, g, D, E, t)
  /\ ClonesFirst(s, D, E, t, p) /\ GoldTaken(s, g, t) /\ Tallied(s, l, D, t)

-----------------------------------------------------------------------------
\* Only the last event can be of this tick.
LEMMA TopIsToday ==
  ASSUME NEW p, NEW t \in Nat, NEW s \in Seq(Ev), NEW D, NEW E, DeathsOf(D, p, t), Ordered(s),
         AllDeaths(s, D, E, t)
  PROVE  /\ \A i \in 1..Len(s) : s[i].time <= t /\ (s[i].time = t => i = Len(s) /\ Top(s, t))
         /\ \A x \in D : x.time = t /\ (\E i \in 1..Len(s) : s[i].time = x.time) => Top(s, t)
<1>1. Len(s) \in Nat /\ \A i \in 1..Len(s) : s[i] \in Ev
  OBVIOUS
<1>2. \A i \in 1..Len(s) : s[i].time \in Nat
  BY <1>1 DEF Ev
<1>3. \A i \in 1..Len(s) : s[i].time <= t
  BY DEF AllDeaths, EventIs, DeathsOf
<1>4. \A i \in 1..Len(s) : s[i].time = t => i = Len(s)
  <2> SUFFICES ASSUME NEW i \in 1..Len(s), s[i].time = t, i # Len(s) PROVE FALSE
    OBVIOUS
  <2>1. Len(s) \in 1..Len(s) /\ i < Len(s)
    BY <1>1
  <2>2. QED
    BY <2>1, <1>2, <1>3 DEF Ordered
<1>5. QED
  BY <1>1, <1>3, <1>4 DEF Top

\* A player dies who has not died this tick: his entries are to come.
LEMMA DiedNow ==
  ASSUME NEW p, NEW t \in Nat, NEW s \in Seq(Ev), NEW g, NEW l, NEW D, NEW E, NEW E2, NEW y,
         DeathsOf(D, p, t), ListFits(s, g, l, D, E, t, p), \A x \in D : x.time # t,
         y.victim = p, y.time = t, \E e \in E2 : e.victim = p /\ e.killer = y.killer
  PROVE  \A h : (h <=> ~y.rein) => ListFits(s, h, l, D \cup {y}, E2, t, p)
<1>1. ~Top(s, t)
  BY TopIsToday DEF ListFits, AllDeaths, EventIs, Top
<1>2. \A x \in D : ~Unread(x, E, t) /\ ~Unread(x, E2, t)
  BY DEF Unread
<1>3. Unread(y, E2, t)
  BY DEF Unread
<1>4. AllDeaths(s, D \cup {y}, E2, t)
  BY <1>2 DEF ListFits, AllDeaths, EventIs
<1>5. \A h : (h <=> ~y.rein) => AllListed(s, h, D \cup {y}, E2, t)
  BY <1>2, <1>3 DEF ListFits, AllListed
<1>6. Had(D \cup {y}, s, t) = Had(D, s, t)
  BY <1>1 DEF Had
<1>7. HadLane(D \cup {y}, s, t) = HadLane(D, s, t)
  BY <1>6 DEF HadLane
<1>8. QED
  BY <1>1, <1>4, <1>5, <1>6, <1>7 DEF ListFits, ClonesFirst, GoldTaken, Tallied

\* The record of a player whose entries stay as they are
LEMMA ListKept ==
  ASSUME NEW p, NEW t, NEW s, NEW g, NEW l, NEW D, NEW E, NEW E2,
         ListFits(s, g, l, D, E, t, p), \A x \in D : x.victim = p,
         \A e : e.victim = p => (e \in E <=> e \in E2)
  PROVE  ListFits(s, g, l, D, E2, t, p)
<1>1. \A x \in D : Unread(x, E, t) <=> Unread(x, E2, t)
  BY DEF Unread
<1>2. \A x \in D : \A ev : EventIs(ev, x, E, t) <=> EventIs(ev, x, E2, t)
  BY <1>1 DEF EventIs
<1>3. QED
  BY <1>1, <1>2 DEF ListFits, AllDeaths, AllListed, ClonesFirst

\* When every entry is read, every death is in the list, with its killer.
LEMMA NoneUnread ==
  ASSUME NEW p, NEW t \in Nat, NEW s \in Seq(Ev), NEW g, NEW l, NEW D, DeathsOf(D, p, t),
         ListFits(s, g, l, D, {}, t, p)
  PROVE  /\ Had(D, s, t) = D
         /\ \A i \in 1..Len(s) : \E x \in D : EventIs(s[i], x, {}, t) /\ s[i].killer = x.killer
         /\ \A x \in D : \E i \in 1..Len(s) : s[i].time = x.time
<1>1. \A x : ~Unread(x, {}, t)
  BY DEF Unread
<1>2. \A x \in D : \E i \in 1..Len(s) : s[i].time = x.time
  BY <1>1 DEF ListFits, AllListed
<1>3. Had(D, s, t) = D
  <2> SUFFICES ASSUME NEW x \in D PROVE x.time < t \/ Top(s, t)
    BY DEF Had
  <2>1. x.time \in Nat /\ x.time <= t
    BY DEF DeathsOf
  <2>2. x.time = t => Top(s, t)
    BY <1>2, TopIsToday DEF ListFits
  <2>3. QED
    BY <2>1, <2>2
<1>4. \A i \in 1..Len(s) : \E x \in D : EventIs(s[i], x, {}, t) /\ s[i].killer = x.killer
  BY <1>1 DEF ListFits, AllDeaths, EventIs
<1>5. QED
  BY <1>2, <1>3, <1>4

\* What was today's is now of an earlier tick.
LEMMA TickPassed ==
  ASSUME NEW p, NEW t \in Nat, NEW s \in Seq(Ev), NEW g, NEW l, NEW D, DeathsOf(D, p, t),
         ListFits(s, g, l, D, {}, t, p)
  PROVE  ListFits(s, g, l, D, {}, t + 1, p) /\ DeathsOf(D, p, t + 1)
<1>1. \A x, u : ~Unread(x, {}, u)
  BY DEF Unread
<1>2. DeathsOf(D, p, t + 1) /\ \A x \in D : x.time < t + 1
  BY DEF DeathsOf
<1>3. ~Top(s, t + 1)
  <2>1. \A i \in 1..Len(s) : s[i].time <= t
    BY TopIsToday DEF ListFits
  <2>2. Len(s) \in Nat
    OBVIOUS
  <2>3. Len(s) > 0 => Len(s) \in 1..Len(s)
    BY <2>2
  <2>4. \A n \in Int : n <= t => n # t + 1
    OBVIOUS
  <2>5. \A i \in 1..Len(s) : s[i].time \in Int
    <3>1. \A i \in 1..Len(s) : s[i] \in Ev
      OBVIOUS
    <3>2. QED
      BY <3>1 DEF Ev
  <2>6. QED
    BY <2>1, <2>3, <2>4, <2>5 DEF Top
<1>4. AllDeaths(s, D, {}, t + 1) /\ AllListed(s, g, D, {}, t + 1)
  <2>1. /\ \A i \in 1..Len(s) : \E x \in D : EventIs(s[i], x, {}, t) /\ s[i].killer = x.killer
        /\ \A x \in D : \E i \in 1..Len(s) : s[i].time = x.time
    BY NoneUnread
  <2>2. \A ev, x : EventIs(ev, x, {}, t) /\ ev.killer = x.killer => EventIs(ev, x, {}, t + 1)
    BY DEF EventIs
  <2>3. AllDeaths(s, D, {}, t + 1)
    BY <2>1, <2>2 DEF AllDeaths
  <2>4. QED
    BY <2>1, <2>3 DEF AllListed
<1>5. Had(D, s, t + 1) = Had(D, s, t)
  BY <1>2, NoneUnread DEF Had
<1>6. HadLane(D, s, t + 1) = HadLane(D, s, t)
  BY <1>5 DEF HadLane
<1>7. Ordered(s) /\ ClonesFirst(s, D, {}, t + 1, p) /\ GoldTaken(s, g, t + 1)
  BY <1>1, <1>3 DEF ListFits, ClonesFirst, GoldTaken
<1>8. Tallied(s, l, D, t + 1)
  BY <1>5, <1>6 DEF ListFits, Tallied
<1>9. QED
  BY <1>2, <1>4, <1>7, <1>8 DEF ListFits

\* Who assisted is no matter here.
LEMMA SameEvents ==
  ASSUME NEW p, NEW t, NEW s, NEW z, NEW g, NEW l, NEW D, NEW E, ListFits(s, g, l, D, E, t, p),
         Len(z) = Len(s), Len(s) \in Nat,
         \A i \in 1..Len(s) : /\ z[i].time = s[i].time /\ z[i].killer = s[i].killer
                              /\ z[i].rein = s[i].rein /\ z[i].gold = s[i].gold
  PROVE  ListFits(z, g, l, D, E, t, p)
<1>1. Len(s) > 0 => Len(s) \in 1..Len(s)
  OBVIOUS
<1>2. Top(z, t) = Top(s, t) /\ (Top(s, t) => z[Len(z)].killer = s[Len(s)].killer)
  BY <1>1 DEF Top
<1>3. Had(D, z, t) = Had(D, s, t)
  BY <1>2 DEF Had
<1>4. HadLane(D, z, t) = HadLane(D, s, t)
  BY <1>3 DEF HadLane
<1>5. Ordered(z)
  BY DEF ListFits, Ordered
<1>6. AllDeaths(z, D, E, t)
  BY DEF ListFits, AllDeaths, EventIs
<1>7. AllListed(z, g, D, E, t)
  BY DEF ListFits, AllListed
<1>8. QED
  BY <1>2, <1>3, <1>4, <1>5, <1>6, <1>7 DEF ListFits, ClonesFirst, GoldTaken, Tallied

\* The entry e is of the death d, the only one of this tick.
IsOf(e, d, D, E, p, t) ==
  /\ d.time = t /\ e.rein = d.rein /\ e.killer \in {d.killer, p}
  /\ \A x \in D : x.time = t => x = d
  /\ \A x \in D \ {d} : x.time < t
  /\ \A x \in D \ {d} : ~Unread(x, E, t) /\ ~Unread(x, E \ {e}, t)
  /\ e.killer = d.killer => Unread(d, E, t)
  /\ e.killer # d.killer /\ Unread(d, E, t) => Unread(d, E \ {e}, t)
  /\ d.killer # p /\ e.killer = d.killer => ~Unread(d, E \ {e}, t)

\* Today's death of an entry, and what the list says of it
LEMMA EntrysDeath ==
  ASSUME NEW p, NEW t \in Nat, NEW D, NEW E, NEW e \in E, DeathsOf(D, p, t), EntriesOf(E, D, p, t), e.victim = p
  PROVE  \E d \in D : IsOf(e, d, D, E, p, t)
<1>1. PICK d \in D : d.time = t /\ e.rein = d.rein /\ e.killer \in {d.killer, p}
  BY DEF EntriesOf
<1>2. \A x \in D : x.time = t => x = d
  BY <1>1 DEF DeathsOf
<1>3. \A x \in D \ {d} : x.time < t
  <2>1. \A x \in D \ {d} : x.time # t /\ x.time \in Nat /\ x.time <= t
    BY <1>2 DEF DeathsOf
  <2>2. QED
    BY <2>1
<1>4. \A x \in D \ {d} : ~Unread(x, E, t) /\ ~Unread(x, E \ {e}, t)
  BY <1>2 DEF Unread
<1>5. d.victim = p
  BY DEF DeathsOf
<1>6. /\ e.killer = d.killer => Unread(d, E, t)
      /\ e.killer # d.killer /\ Unread(d, E, t) => Unread(d, E \ {e}, t)
  BY <1>1, <1>5 DEF Unread
<1>7. d.killer # p /\ e.killer = d.killer => ~Unread(d, E \ {e}, t)
  BY <1>5 DEF Unread, EntriesOf
<1>8. QED
  BY <1>1, <1>2, <1>3, <1>4, <1>6, <1>7 DEF IsOf

\* An entry of the player p meets his record.
Meets(e, p, t, s, g, l, D, E) ==
  /\ e \in E /\ e.victim = p /\ p \in Heroes /\ t \in Nat /\ s \in Seq(Ev) /\ g \in BOOLEAN /\ l \in Int
  /\ DeathsOf(D, p, t) /\ EntriesOf(E, D, p, t) /\ ListFits(s, g, l, D, E, t, p)

\* An entry that is passed over is no loss.
LEMMA PassedOver ==
  ASSUME NEW p, NEW t, NEW s, NEW g, NEW l, NEW D, NEW E, NEW e,
         Meets(e, p, t, s, g, l, D, E), LinkedDeath(s, t, p, e.killer)
  PROVE  /\ ListFits(s, g, l, D, E \ {e}, t, p)
         /\ e.killer = p
<1>a. /\ p \in Heroes /\ t \in Nat /\ s \in Seq(Ev) /\ g \in BOOLEAN /\ l \in Int /\ e \in E
      /\ DeathsOf(D, p, t) /\ EntriesOf(E, D, p, t) /\ ListFits(s, g, l, D, E, t, p) /\ e.victim = p
  BY DEF Meets
<1> USE <1>a
<1>0. PICK d \in D : IsOf(e, d, D, E, p, t)
  BY EntrysDeath, Zenon
<1>1. /\ d.time = t /\ e.rein = d.rein /\ e.killer \in {d.killer, p}
      /\ \A x \in D : x.time = t => x = d
      /\ \A x \in D \ {d} : ~Unread(x, E, t) /\ ~Unread(x, E \ {e}, t)
      /\ e.killer = d.killer => Unread(d, E, t)
      /\ e.killer # d.killer /\ Unread(d, E, t) => Unread(d, E \ {e}, t)
  BY <1>0 DEF IsOf
<1>2. Top(s, t)
  <2>1. s # <<>> => Len(s) > 0
    OBVIOUS
  <2>2. QED
    BY <2>1 DEF LinkedDeath, Top
<1>3. e.killer = p
  <2>1. CASE d.killer = p
    BY <2>1, <1>1
  <2>2. CASE d.killer # p
    <3>1. Unread(d, E, t) => s[Len(s)].killer = p
      BY <1>2, <2>2 DEF ListFits, ClonesFirst
    <3>2. e.killer = d.killer => e.killer = p
      BY <3>1, <1>1, <2>2 DEF LinkedDeath
    <3>3. QED
      BY <3>2, <1>1
  <2>3. QED
    BY <2>1, <2>2
<1>4. d.killer # p => (Unread(d, E, t) <=> Unread(d, E \ {e}, t))
  BY <1>1, <1>3 DEF Unread
<1>5. \A x \in D : x.killer # p => (Unread(x, E, t) <=> Unread(x, E \ {e}, t))
  BY <1>1, <1>4
<1>6. \A x \in D : Unread(x, E \ {e}, t) => Unread(x, E, t)
  BY DEF Unread
<1>7. \A x \in D : x.victim = p
  BY DEF DeathsOf
<1>8. AllDeaths(s, D, E \ {e}, t)
  <2>1. \A x \in D : \A r : EventIs(r, x, E, t) => EventIs(r, x, E \ {e}, t)
    BY <1>5, <1>7 DEF EventIs
  <2>2. QED
    BY <2>1 DEF ListFits, AllDeaths
<1>9. \A x \in D : \E i \in 1..Len(s) : s[i].time = x.time
  <2>1. Len(s) \in 1..Len(s) /\ s[Len(s)].time = t
    <3>1. Len(s) \in Nat
      OBVIOUS
    <3>2. QED
      BY <1>2, <3>1 DEF Top
  <2>2. QED
    BY <2>1, <1>1 DEF ListFits, AllListed
<1>10. AllListed(s, g, D, E \ {e}, t) /\ ClonesFirst(s, D, E \ {e}, t, p)
  BY <1>6, <1>9 DEF ListFits, AllListed, ClonesFirst
<1>11. QED
  BY <1>3, <1>8, <1>10 DEF ListFits

\* The event an entry gets, given who assisted and the gold it took
EventOf(e, t, a, g) == [time |-> t, killer |-> e.killer, rein |-> e.rein, assists |-> a, gold |-> g]

\* The first entry of a death: it gets its event.
LEMMA FirstEntry ==
  ASSUME NEW p, NEW t, NEW s, NEW g, NEW l, NEW D, NEW E, NEW e, NEW a \in SUBSET Heroes,
         Meets(e, p, t, s, g, l, D, E), ~Top(s, t)
  PROVE  /\ Append(s, EventOf(e, t, a, g)) \in Seq(Ev)
         /\ ListFits(Append(s, EventOf(e, t, a, g)), FALSE, l + (IF InLane(t, e.rein) THEN 1 ELSE 0), D, E \ {e}, t, p)
<1> DEFINE ev == EventOf(e, t, a, g)
           z == Append(s, ev)
           m == l + (IF InLane(t, e.rein) THEN 1 ELSE 0)
           len == Len(s)
<1>a. /\ p \in Heroes /\ t \in Nat /\ s \in Seq(Ev) /\ g \in BOOLEAN /\ l \in Int /\ e \in E
      /\ DeathsOf(D, p, t) /\ EntriesOf(E, D, p, t) /\ ListFits(s, g, l, D, E, t, p) /\ e.victim = p
  BY DEF Meets
<1> USE <1>a
<1>b. ev = [time |-> t, killer |-> e.killer, rein |-> e.rein, assists |-> a, gold |-> g]
  BY DEF EventOf
<1> HIDE DEF ev
<1> USE <1>b
<1>0. PICK d \in D : IsOf(e, d, D, E, p, t)
  BY EntrysDeath, Zenon
<1>1. /\ d.time = t /\ e.rein = d.rein /\ e.killer \in {d.killer, p}
      /\ \A x \in D : x.time = t => x = d
      /\ \A x \in D \ {d} : x.time < t
      /\ \A x \in D \ {d} : ~Unread(x, E, t) /\ ~Unread(x, E \ {e}, t)
      /\ e.killer = d.killer => Unread(d, E, t)
      /\ e.killer # d.killer /\ Unread(d, E, t) => Unread(d, E \ {e}, t)
      /\ d.killer # p /\ e.killer = d.killer => ~Unread(d, E \ {e}, t)
  BY <1>0 DEF IsOf
<1>2. /\ d.victim = p /\ d.rein \in BOOLEAN /\ ev \in Ev
      /\ ev.time = t /\ ev.killer = e.killer /\ ev.rein = d.rein /\ ev.gold = g
  BY <1>1 DEF DeathsOf, EntriesOf, Ev
<1> HIDE DEF Ev
<1>3. z \in Seq(Ev) /\ len \in Nat /\ Len(z) = len + 1 /\ z[len + 1] = ev /\ \A i \in 1..len : z[i] = s[i] /\ s[i] \in Ev
  BY <1>2
<1> HIDE DEF z, len
<1>4. \A i \in 1..len : s[i].time \in Nat /\ s[i].time < t
  <2>1. \A i \in 1..len : s[i].time \in Nat
    BY <1>3 DEF Ev
  <2>2. \A i \in 1..len : s[i].time <= t /\ s[i].time # t
    BY TopIsToday DEF ListFits, len
  <2>3. QED
    BY <2>1, <2>2
<1>5. \A i \in 1..Len(z) : (i \in 1..len /\ z[i] = s[i]) \/ (i = len + 1 /\ z[i] = ev)
  BY <1>3
<1>6. Ordered(z)
  <2> SUFFICES ASSUME NEW i \in 1..Len(z), NEW j \in 1..Len(z), i < j PROVE z[i].time < z[j].time
    BY DEF Ordered
  <2>1. i \in 1..len
    BY <1>3
  <2>2. CASE j = len + 1
    BY <2>1, <2>2, <1>2, <1>3, <1>4
  <2>3. CASE j \in 1..len
    BY <2>1, <2>3, <1>3 DEF ListFits, Ordered, len
  <2>4. QED
    BY <1>5, <2>2, <2>3
<1>7. Unread(d, E, t) /\ (g <=> ~d.rein)
  <2>1. ~\E i \in 1..len : s[i].time = d.time
    BY <1>1, <1>4
  <2>2. QED
    BY <2>1 DEF ListFits, AllListed, len
<1>8. EventIs(ev, d, E \ {e}, t)
  BY <1>1, <1>2, <1>7 DEF EventIs
<1>9. AllDeaths(z, D, E \ {e}, t)
  <2> SUFFICES ASSUME NEW i \in 1..Len(z) PROVE \E x \in D : EventIs(z[i], x, E \ {e}, t)
    BY DEF AllDeaths
  <2>1. CASE i \in 1..len /\ z[i] = s[i]
    <3>1. PICK x \in D : EventIs(s[i], x, E, t)
      BY <2>1 DEF ListFits, AllDeaths, len
    <3>2. x # d
      BY <3>1, <2>1, <1>1, <1>4 DEF EventIs
    <3>3. EventIs(s[i], x, E \ {e}, t)
      BY <3>1, <3>2, <1>1 DEF EventIs
    <3>4. QED
      BY <2>1, <3>3
  <2>2. QED
    BY <2>1, <1>5, <1>8
<1>10. Top(z, t) /\ z[Len(z)] = ev
  BY <1>2, <1>3 DEF Top
<1>11. \A x \in D : \E i \in 1..Len(z) : z[i].time = x.time
  <2> SUFFICES ASSUME NEW x \in D PROVE \E i \in 1..Len(z) : z[i].time = x.time
    OBVIOUS
  <2>1. CASE x = d
    <3>1. len + 1 \in 1..Len(z)
      BY <1>3
    <3>2. QED
      BY <3>1, <2>1, <1>1, <1>2, <1>3
  <2>2. CASE x # d
    <3>1. \E i \in 1..len : s[i].time = x.time
      BY <2>2, <1>1 DEF ListFits, AllListed, len
    <3>2. 1..len \subseteq 1..Len(z)
      BY <1>3
    <3>3. QED
      BY <3>1, <3>2, <1>3
  <2>3. QED
    BY <2>1, <2>2
<1>12. AllListed(z, FALSE, D, E \ {e}, t) /\ GoldTaken(z, FALSE, t)
  BY <1>11 DEF AllListed, GoldTaken
<1>13. ClonesFirst(z, D, E \ {e}, t, p)
  <2> SUFFICES ASSUME NEW x \in D, Unread(x, E \ {e}, t), x.killer # p PROVE ev.killer = p
    BY <1>10 DEF ClonesFirst
  <2>1. x = d
    BY <1>1
  <2>2. QED
    BY <2>1, <1>1, <1>2
<1>14. Had(D, z, t) = Had(D, s, t) \cup {d} /\ d \notin Had(D, s, t)
  <2>1. ~(d.time < t)
    BY <1>1
  <2>2. d \notin Had(D, s, t)
    BY <2>1 DEF Had
  <2>3. Had(D, z, t) = D
    BY <1>10 DEF Had
  <2>4. \A x \in D \ {d} : x \in Had(D, s, t)
    BY <1>1 DEF Had
  <2>5. Had(D, s, t) \subseteq D
    BY DEF Had
  <2>6. QED
    BY <2>2, <2>3, <2>4, <2>5
<1>15. IsFiniteSet(Had(D, s, t)) /\ IsFiniteSet(HadLane(D, s, t))
  <2>1. Had(D, s, t) \subseteq D /\ HadLane(D, s, t) \subseteq D /\ IsFiniteSet(D)
    BY DEF Had, HadLane, DeathsOf
  <2>2. QED
    BY <2>1, FS_Subset
<1>16. Cardinality(Had(D, z, t)) = Cardinality(Had(D, s, t)) + 1
  BY <1>14, <1>15, FS_AddElement
<1>17. Cardinality(HadLane(D, z, t)) = Cardinality(HadLane(D, s, t)) + (IF InLane(t, e.rein) THEN 1 ELSE 0)
  <2>1. CASE InLane(t, e.rein)
    <3>1. HadLane(D, z, t) = HadLane(D, s, t) \cup {d} /\ d \notin HadLane(D, s, t)
      BY <2>1, <1>1, <1>14 DEF HadLane
    <3>2. QED
      BY <3>1, <2>1, <1>15, FS_AddElement
  <2>2. CASE ~InLane(t, e.rein)
    <3>1. HadLane(D, z, t) = HadLane(D, s, t)
      BY <2>2, <1>1, <1>14 DEF HadLane
    <3>2. Cardinality(HadLane(D, s, t)) \in Nat
      BY <1>15, FS_CardinalityType
    <3>3. QED
      BY <3>1, <3>2, <2>2
  <2>3. QED
    BY <2>1, <2>2
<1>18. Tallied(z, m, D, t)
  BY <1>3, <1>16, <1>17 DEF Tallied, ListFits, len
<1>19. ListFits(z, FALSE, m, D, E \ {e}, t, p)
  BY <1>6, <1>9, <1>12, <1>13, <1>18 DEF ListFits
<1>20. QED
  BY <1>3, <1>19 DEF z, ev

\* Only the last event can be a clone's of this tick.
LEMMA OwnDeaths ==
  ASSUME NEW p, NEW t \in Nat, NEW s \in Seq(Ev), NEW D, NEW E, DeathsOf(D, p, t), Ordered(s), AllDeaths(s, D, E, t)
  PROVE  /\ Top(s, t) /\ s[Len(s)].killer = p => SelfDeaths(s, t, p) = {Len(s)}
         /\ ~(Top(s, t) /\ s[Len(s)].killer = p) => SelfDeaths(s, t, p) = {}
<1>1. Len(s) \in Nat /\ DOMAIN s = 1..Len(s)
  OBVIOUS
<1>2. \A i \in 1..Len(s) : s[i].time = t => i = Len(s)
  BY TopIsToday
<1>3. \A i \in SelfDeaths(s, t, p) : i = Len(s) /\ Len(s) > 0 /\ s[Len(s)].time = t /\ s[Len(s)].killer = p
  <2> SUFFICES ASSUME NEW i \in SelfDeaths(s, t, p)
               PROVE  i = Len(s) /\ Len(s) > 0 /\ s[Len(s)].time = t /\ s[Len(s)].killer = p
    OBVIOUS
  <2>1. i \in 1..Len(s) /\ \A j \in i..Len(s) : s[j].time = t /\ s[j].killer = p
    BY <1>1 DEF SelfDeaths
  <2>2. i \in i..Len(s) /\ Len(s) > 0
    BY <1>1, <2>1
  <2>3. QED
    BY <2>1, <2>2, <1>2
<1>4. Top(s, t) /\ s[Len(s)].killer = p => Len(s) \in SelfDeaths(s, t, p)
  <2> SUFFICES ASSUME Top(s, t), s[Len(s)].killer = p PROVE Len(s) \in SelfDeaths(s, t, p)
    OBVIOUS
  <2>1. Len(s) \in DOMAIN s
    BY <1>1 DEF Top
  <2>2. \A j \in Len(s)..Len(s) : s[j].time = t /\ s[j].killer = p
    <3>1. \A n \in Nat : \A j \in n..n : j = n
      OBVIOUS
    <3>2. QED
      BY <1>1, <3>1 DEF Top
  <2>3. QED
    BY <2>1, <2>2 DEF SelfDeaths
<1>5. QED
  BY <1>3, <1>4 DEF Top

\* A sequence without its last element
LEMMA AllButLast ==
  ASSUME NEW S, NEW s \in Seq(S), Len(s) > 0
  PROVE  /\ SubSeq(s, 1, Len(s) - 1) \in Seq(S) /\ Len(SubSeq(s, 1, Len(s) - 1)) = Len(s) - 1
         /\ \A i \in 1..Len(s) - 1 : SubSeq(s, 1, Len(s) - 1)[i] = s[i]
<1> DEFINE n == Len(s) - 1
<1>1. n \in Nat /\ n + 1 = Len(s)
  OBVIOUS
<1> HIDE DEF n
<1>2. \A i \in 1..n : s[i] \in S
  BY <1>1
<1>3. SubSeq(s, 1, n) \in Seq(S) /\ Len(SubSeq(s, 1, n)) = n /\ \A i \in 1..n : SubSeq(s, 1, n)[i] = s[i]
  BY <1>1, <1>2
<1>4. QED
  BY <1>3 DEF n

\* The entry of a death that a clone's was taken for: its event takes that one's place.
LEMMA TakesPlace ==
  ASSUME NEW p, NEW t, NEW s, NEW g, NEW l, NEW D, NEW E, NEW e, NEW a \in SUBSET Heroes,
         Meets(e, p, t, s, g, l, D, E), e.killer # p, Top(s, t), s[Len(s)].killer = p
  PROVE  /\ Append(SubSeq(s, 1, Len(s) - 1), EventOf(e, t, a, s[Len(s)].gold)) \in Seq(Ev)
         /\ s[Len(s)].rein = e.rein
         /\ ListFits(Append(SubSeq(s, 1, Len(s) - 1), EventOf(e, t, a, s[Len(s)].gold)), FALSE, l, D, E \ {e}, t, p)
<1> DEFINE ev == EventOf(e, t, a, s[Len(s)].gold)
           z == Append(SubSeq(s, 1, Len(s) - 1), ev)
           len == Len(s)
<1>a. /\ p \in Heroes /\ t \in Nat /\ s \in Seq(Ev) /\ g \in BOOLEAN /\ l \in Int /\ e \in E
      /\ DeathsOf(D, p, t) /\ EntriesOf(E, D, p, t) /\ ListFits(s, g, l, D, E, t, p) /\ e.victim = p
  BY DEF Meets
<1> USE <1>a
<1>b. ev = [time |-> t, killer |-> e.killer, rein |-> e.rein, assists |-> a, gold |-> s[len].gold]
  BY DEF EventOf
<1> HIDE DEF ev
<1> USE <1>b
<1>0. PICK d \in D : IsOf(e, d, D, E, p, t)
  BY EntrysDeath, Zenon
<1>1. /\ d.time = t /\ e.rein = d.rein /\ e.killer = d.killer
      /\ \A x \in D : x.time = t => x = d
      /\ \A x \in D \ {d} : x.time < t
      /\ \A x \in D \ {d} : ~Unread(x, E, t) /\ ~Unread(x, E \ {e}, t)
      /\ ~Unread(d, E \ {e}, t)
  BY <1>0 DEF IsOf
<1>2. len \in Nat /\ len > 0 /\ len \in 1..len /\ s[len].time = t
  BY DEF Top
<1>3. EventIs(s[len], d, E, t)
  <2>1. PICK x \in D : EventIs(s[len], x, E, t)
    BY <1>2 DEF ListFits, AllDeaths
  <2>2. x = d
    BY <2>1, <1>1, <1>2 DEF EventIs
  <2>3. QED
    BY <2>1, <2>2
<1>4. s[len] \in Ev
  BY <1>2
<1>5. /\ d.victim = p /\ d.rein \in BOOLEAN /\ ev \in Ev
      /\ ev.time = t /\ ev.killer = d.killer /\ ev.rein = d.rein /\ ev.gold = s[len].gold
  BY <1>1, <1>4 DEF DeathsOf, EntriesOf, Ev
<1>6. EventIs(ev, d, E \ {e}, t)
  BY <1>1, <1>3, <1>5 DEF EventIs
<1> HIDE DEF Ev
<1>7. z \in Seq(Ev) /\ Len(z) = len /\ z[len] = ev /\ \A i \in 1..len : i # len => z[i] = s[i]
  <2> DEFINE k == SubSeq(s, 1, len - 1)
  <2>1. k \in Seq(Ev) /\ Len(k) = len - 1 /\ \A i \in 1..len - 1 : k[i] = s[i]
    BY <1>2, AllButLast
  <2> HIDE DEF k
  <2>2. Append(k, ev) \in Seq(Ev) /\ Len(Append(k, ev)) = len /\ Append(k, ev)[len] = ev
        /\ \A i \in 1..len - 1 : Append(k, ev)[i] = k[i]
    BY <2>1, <1>2, <1>5
  <2>3. z = Append(k, ev)
    BY DEF k
  <2>4. \A i \in 1..len : i # len => i \in 1..len - 1
    BY <1>2
  <2>5. QED
    BY <2>1, <2>2, <2>3, <2>4
<1> HIDE DEF z, len
<1>8. \A i \in 1..len : z[i].time = s[i].time
  BY <1>2, <1>5, <1>7
<1>9. Top(z, t) /\ Len(z) = Len(s)
  BY <1>2, <1>5, <1>7 DEF Top, len
<1>10. Ordered(z)
  BY <1>7, <1>8 DEF ListFits, Ordered, len
<1>11. AllDeaths(z, D, E \ {e}, t)
  <2> SUFFICES ASSUME NEW i \in 1..len PROVE \E x \in D : EventIs(z[i], x, E \ {e}, t)
    BY <1>7 DEF AllDeaths
  <2>1. CASE i = len
    BY <2>1, <1>6, <1>7
  <2>2. CASE i # len
    <3>1. PICK x \in D : EventIs(s[i], x, E, t)
      BY DEF ListFits, AllDeaths, len
    <3>2. s[i].time # t
      BY <2>2, TopIsToday DEF ListFits, len
    <3>3. ~Unread(x, E, t)
      BY <3>1, <3>2 DEF EventIs, Unread
    <3>4. EventIs(s[i], x, E \ {e}, t)
      BY <3>1, <3>3 DEF EventIs
    <3>5. QED
      BY <3>4, <2>2, <1>7
  <2>3. QED
    BY <2>1, <2>2
<1>12. \A x \in D : \E i \in 1..len : z[i].time = x.time
  <2> SUFFICES ASSUME NEW x \in D PROVE \E i \in 1..len : z[i].time = x.time
    OBVIOUS
  <2>1. CASE x = d
    BY <2>1, <1>1, <1>2, <1>8
  <2>2. CASE x # d
    <3>1. \E i \in 1..len : s[i].time = x.time
      BY <2>2, <1>1 DEF ListFits, AllListed, len
    <3>2. QED
      BY <3>1, <1>8
  <2>3. QED
    BY <2>1, <2>2
<1>13. AllListed(z, FALSE, D, E \ {e}, t) /\ GoldTaken(z, FALSE, t)
  BY <1>7, <1>12 DEF AllListed, GoldTaken
<1>14. ClonesFirst(z, D, E \ {e}, t, p)
  BY <1>1 DEF ClonesFirst
<1>15. Had(D, z, t) = Had(D, s, t)
  BY <1>9 DEF Had
<1>16. HadLane(D, z, t) = HadLane(D, s, t)
  BY <1>15 DEF HadLane
<1>17. Tallied(z, l, D, t)
  BY <1>9, <1>15, <1>16 DEF ListFits, Tallied
<1>18. s[len].rein = e.rein
  BY <1>1, <1>3 DEF EventIs
<1>19. ListFits(z, FALSE, l, D, E \ {e}, t, p)
  BY <1>10, <1>11, <1>13, <1>14, <1>17 DEF ListFits
<1>20. QED
  BY <1>7, <1>18, <1>19 DEF z, len, ev

ListOK(p) == ListFits(board.evs[p], board.gold[p], board.laned[p], DiedOf(p), game.entries, game.tick, p)

\* The kills of a player that are counted
KillsHad(p) == {x \in game.died : x.killer = p /\ x.victim # p /\ ~Unread(x, game.entries, game.tick)}

GameOK ==
  /\ DOMAIN game = GameFields /\ game.tick \in Nat /\ IsFiniteSet(game.died)
  /\ \A x \in game.died : x.victim \in Heroes
  /\ \A e \in game.entries : e.victim \in Heroes
  /\ \A p \in Heroes : DeathsOf(DiedOf(p), p, game.tick) /\ EntriesOf(game.entries, DiedOf(p), p, game.tick)

BoardOK ==
  /\ DOMAIN board = BoardFields
  /\ board.evs \in [Heroes -> Seq(Ev)] /\ board.kills \in [Heroes -> Seq(Kill)]
  /\ board.laned \in [Heroes -> Int] /\ board.gold \in [Heroes -> BOOLEAN]

DeathsInv ==
  /\ GameOK /\ BoardOK
  /\ \A p \in Heroes : ListOK(p)
  /\ \A p \in Heroes : Len(board.kills[p]) = Cardinality(KillsHad(p))

-----------------------------------------------------------------------------
\* Nobody has died before the replay starts.
LEMMA DeathsInvInit == DeathsInit => DeathsInv
<1> SUFFICES ASSUME DeathsInit PROVE DeathsInv
  OBVIOUS
<1>1. game = NewGame /\ board = NewBoard
  BY DEF DeathsInit
<1>2. DOMAIN game = GameFields /\ game.tick = 0 /\ game.died = {} /\ game.entries = {}
  BY <1>1 DEF NewGame, GameFields
<1>3. /\ DOMAIN board = BoardFields /\ board.evs = [p \in Heroes |-> <<>>] /\ board.kills = [p \in Heroes |-> <<>>]
      /\ board.laned = [p \in Heroes |-> 0] /\ board.gold = [p \in Heroes |-> FALSE]
  BY <1>1 DEF NewBoard, BoardFields
<1>4. \A p \in Heroes : DiedOf(p) = {} /\ KillsHad(p) = {}
  BY <1>2 DEF DiedOf, KillsHad
<1>5. IsFiniteSet({}) /\ Cardinality({}) = 0
  BY FS_EmptySet
<1>6. GameOK
  BY <1>2, <1>4, <1>5 DEF GameOK, DeathsOf, EntriesOf
<1>7. BoardOK
  <2>1. \A S : <<>> \in Seq(S)
    OBVIOUS
  <2>2. <<>> \in Seq(Ev) /\ <<>> \in Seq(Kill)
    BY <2>1, Zenon
  <2> HIDE DEF Ev, Kill
  <2>3. QED
    BY <1>3, <2>2 DEF BoardOK
<1>8. \A p \in Heroes : board.evs[p] = <<>> /\ board.kills[p] = <<>> /\ board.laned[p] = 0 /\ Len(<<>>) = 0
  BY <1>3
<1>9. \A g, p : ListFits(<<>>, g, 0, {}, {}, 0, p)
  <2> TAKE g, p
  <2>1. Len(<<>>) = 0 /\ ~Top(<<>>, 0)
    BY DEF Top
  <2>2. Had({}, <<>>, 0) = {} /\ HadLane({}, <<>>, 0) = {}
    BY DEF Had, HadLane
  <2>3. Ordered(<<>>) /\ AllDeaths(<<>>, {}, {}, 0)
    BY <2>1 DEF Ordered, AllDeaths
  <2>4. QED
    BY <1>5, <2>1, <2>2, <2>3 DEF ListFits, AllListed, ClonesFirst, GoldTaken, Tallied
<1>10. \A p \in Heroes : ListOK(p)
  BY <1>2, <1>4, <1>8, <1>9 DEF ListOK
<1>11. QED
  BY <1>4, <1>5, <1>6, <1>7, <1>8, <1>10 DEF DeathsInv

-----------------------------------------------------------------------------
\* A death happens: its entries are to be read.
LEMMA DieKeeps ==
  ASSUME DeathsInv, NEW d \in Deaths, Die(d)
  PROVE  DeathsInv'
<1> DEFINE y == [victim |-> d.victim, killer |-> d.killer, rein |-> d.rein, helped |-> d.helped, time |-> game.tick]
           v == d.victim
           t == game.tick
           own == [kind |-> "death", victim |-> d.victim, killer |-> d.killer, listed |-> d.listed, rein |-> d.rein]
           clone(i) == [own EXCEPT !.kind = <<"clone", i>>, !.killer = d.victim,
                                   !.listed = d.listed \cup ({d.killer} \cap Heroes)]
<1>1. v \in Heroes /\ d.killer \in Heroes \cup {-1} /\ d.listed \subseteq Heroes /\ d.rein \in BOOLEAN
  BY DeathsAssumption
<1>2. PICK New : /\ game'.died = game.died \cup {y} /\ game'.entries = game.entries \cup New
                 /\ game'.tick = t /\ DOMAIN game' = GameFields
                 /\ own \in New /\ \A e \in New : e = own \/ \E i \in 0..2 : e = clone(i)
  <2>1. PICK c \in (IF d.victim = Meepo THEN 0..2 ELSE {0}) :
           game' = [game EXCEPT !.died = @ \cup {y},
                                !.entries = @ \cup {own} \cup {clone(i) : i \in 1..c},
                                !.owed = @ \cup {<<p, d.victim, game.tick>> : p \in d.helped}]
    BY DEF Die
  <2> DEFINE New == {own} \cup {clone(i) : i \in 1..c}
             o == game.owed \cup {<<p, d.victim, game.tick>> : p \in d.helped}
  <2>2. game' = [game EXCEPT !.died = game.died \cup {y}, !.entries = game.entries \cup New, !.owed = o]
    BY <2>1
  <2>3. own \in New /\ \A e \in New : e = own \/ \E i \in 0..2 : e = clone(i)
    <3>1. 1..c \subseteq 0..2
      OBVIOUS
    <3>2. QED
      BY <3>1
  <2> HIDE DEF New, o, y, own, clone
  <2>4. /\ game'.died = game.died \cup {y} /\ game'.entries = game.entries \cup New
        /\ game'.tick = t /\ DOMAIN game' = GameFields
    BY <2>2 DEF DeathsInv, GameOK, GameFields
  <2>5. QED
    BY <2>3, <2>4
<1>3. /\ own.victim = v /\ own.killer = d.killer /\ own.rein = d.rein /\ own.listed = d.listed
      /\ \A i : /\ clone(i).victim = v /\ clone(i).killer = v /\ clone(i).rein = d.rein
                /\ clone(i).listed = d.listed \cup ({d.killer} \cap Heroes)
  OBVIOUS
<1>4. y.victim = v /\ y.killer = d.killer /\ y.rein = d.rein /\ y.time = t
  OBVIOUS
<1> HIDE DEF y, own, clone
<1>5. \A e \in New : /\ e.victim = v /\ e.killer \in {d.killer, v} /\ e.rein = d.rein /\ e.listed \subseteq Heroes
                     /\ e.killer # v => e = own
  BY <1>1, <1>2, <1>3
<1> HIDE DEF v, t
<1>6. t \in Nat /\ DeathsOf(DiedOf(v), v, t) /\ EntriesOf(game.entries, DiedOf(v), v, t)
  BY <1>1 DEF DeathsInv, GameOK, t
<1>7. \A x \in DiedOf(v) : x.time # t
  BY DEF Die, DiedOf, t, v
<1>8. DiedOf(v)' = DiedOf(v) \cup {y} /\ \A p \in Heroes : p # v => DiedOf(p)' = DiedOf(p)
  BY <1>2, <1>4 DEF DiedOf
<1>9. ~\E e \in game.entries : e.victim = v
  BY <1>6, <1>7 DEF EntriesOf
<1>10. DeathsOf(DiedOf(v) \cup {y}, v, t)
  <2>1. IsFiniteSet(DiedOf(v) \cup {y})
    BY <1>6, FS_AddElement DEF DeathsOf
  <2>2. QED
    BY <1>1, <1>4, <1>6, <1>7, <2>1 DEF DeathsOf
<1>11. EntriesOf(game.entries \cup New, DiedOf(v) \cup {y}, v, t)
  <2>1. \A e \in game.entries \cup New : e.victim = v => e \in New
    BY <1>9
  <2>2. \A e \in New : /\ e.killer \in Heroes \cup {-1} /\ e.listed \subseteq Heroes
                       /\ y.time = t /\ e.rein = y.rein /\ e.killer \in {y.killer, v}
    BY <1>1, <1>4, <1>5
  <2>3. \A e, f \in New : e.killer # v /\ f.killer # v => e = f
    BY <1>5
  <2>4. QED
    BY <2>1, <2>2, <2>3 DEF EntriesOf
<1>12. \A p \in Heroes : p # v => \A e : e.victim = p => (e \in game.entries <=> e \in game.entries \cup New)
  BY <1>5
<1>13. GameOK'
  <2>1. IsFiniteSet(game.died \cup {y})
    BY FS_AddElement DEF DeathsInv, GameOK
  <2>2. \A p \in Heroes : DeathsOf(DiedOf(p)', p, t) /\ EntriesOf(game'.entries, DiedOf(p)', p, t)
    <3> SUFFICES ASSUME NEW p \in Heroes PROVE DeathsOf(DiedOf(p)', p, t) /\ EntriesOf(game'.entries, DiedOf(p)', p, t)
      OBVIOUS
    <3>1. CASE p = v
      BY <3>1, <1>2, <1>8, <1>10, <1>11
    <3>2. CASE p # v
      <4>1. DeathsOf(DiedOf(p), p, t) /\ EntriesOf(game.entries, DiedOf(p), p, t)
        BY DEF DeathsInv, GameOK, t
      <4>2. EntriesOf(game.entries \cup New, DiedOf(p), p, t)
        BY <4>1, <3>2, <1>12 DEF EntriesOf
      <4>3. QED
        BY <3>2, <4>1, <4>2, <1>2, <1>8
    <3>3. QED
      BY <3>1, <3>2
  <2>3. /\ \A x \in game.died \cup {y} : x.victim \in Heroes
        /\ \A e \in game.entries \cup New : e.victim \in Heroes
    BY <1>1, <1>4, <1>5 DEF DeathsInv, GameOK, v
  <2>4. QED
    BY <1>2, <1>6, <2>1, <2>2, <2>3 DEF GameOK
<1>14. /\ DOMAIN board' = BoardFields /\ board'.evs = board.evs /\ board'.kills = board.kills
       /\ board'.laned = board.laned /\ board'.gold = [board.gold EXCEPT ![v] = ~d.rein]
  <2>1. board' = [board EXCEPT !.gold[v] = ~d.rein]
    BY DEF Die, v
  <2>2. QED
    BY <2>1 DEF DeathsInv, BoardOK, BoardFields
<1>15. BoardOK' /\ (board'.gold[v] <=> ~d.rein) /\ \A p \in Heroes : p # v => board'.gold[p] = board.gold[p]
  <2>1. (~d.rein) \in BOOLEAN /\ board.gold \in [Heroes -> BOOLEAN] /\ v \in Heroes
    BY <1>1 DEF DeathsInv, BoardOK, v
  <2>2. board'.gold \in [Heroes -> BOOLEAN]
    BY <1>14, <2>1
  <2>3. board'.gold[v] = ~d.rein
    BY <1>14, <2>1
  <2>4. \A p \in Heroes : p # v => board'.gold[p] = board.gold[p]
    BY <1>14, <2>1
  <2>5. QED
    BY <1>14, <2>2, <2>3, <2>4 DEF DeathsInv, BoardOK
<1>16. \A p \in Heroes : ListOK(p)'
  <2> SUFFICES ASSUME NEW p \in Heroes
               PROVE  ListFits(board.evs[p], board'.gold[p], board.laned[p], DiedOf(p)', game'.entries, t, p)
    BY <1>2, <1>14 DEF ListOK
  <2>1. board.evs[p] \in Seq(Ev) /\ DeathsOf(DiedOf(p), p, t)
        /\ ListFits(board.evs[p], board.gold[p], board.laned[p], DiedOf(p), game.entries, t, p)
    BY DEF DeathsInv, BoardOK, GameOK, ListOK, t
  <2>2. CASE p = v
    <3>1. \E e \in game.entries \cup New : e.victim = v /\ e.killer = y.killer
      BY <1>2, <1>3, <1>4
    <3>2. board'.gold[v] <=> ~y.rein
      BY <1>4, <1>15
    <3>3. QED
      <4>1. \A h : (h <=> ~y.rein) =>
                ListFits(board.evs[p], h, board.laned[p], DiedOf(p) \cup {y}, game.entries \cup New, t, p)
        BY <2>1, <2>2, <3>1, <1>4, <1>6, <1>7, DiedNow
      <4>2. ListFits(board.evs[p], board'.gold[p], board.laned[p], DiedOf(p) \cup {y}, game.entries \cup New, t, p)
        BY <4>1, <3>2, <2>2
      <4>3. DiedOf(p)' = DiedOf(p) \cup {y} /\ game'.entries = game.entries \cup New
        BY <2>2, <1>2, <1>8
      <4>4. QED
        BY <4>2, <4>3
  <2>3. CASE p # v
    <3>1. \A x \in DiedOf(p) : x.victim = p
      BY DEF DiedOf
    <3>2. \A e : e.victim = p => (e \in game.entries <=> e \in game.entries \cup New)
      BY <1>12, <2>3
    <3>3. ListFits(board.evs[p], board.gold[p], board.laned[p], DiedOf(p), game.entries \cup New, t, p)
      BY <2>1, <3>1, <3>2, ListKept
    <3>4. QED
      BY <3>3, <2>3, <1>2, <1>8, <1>15
  <2>4. QED
    BY <2>2, <2>3
<1>17. \A p \in Heroes : KillsHad(p)' = KillsHad(p)
  <2>1. Unread(y, game.entries \cup New, t)
    BY <1>2, <1>3, <1>4 DEF Unread
  <2>2. \A x \in game.died : Unread(x, game.entries \cup New, t) <=> Unread(x, game.entries, t)
    <3>1. \A x \in game.died : x.victim = v => ~Unread(x, game.entries \cup New, t) /\ ~Unread(x, game.entries, t)
      BY <1>7 DEF Unread, DiedOf
    <3>2. \A x \in game.died : x.victim # v => (Unread(x, game.entries \cup New, t) <=> Unread(x, game.entries, t))
      BY <1>5 DEF Unread
    <3>3. QED
      BY <3>1, <3>2
  <2>3. QED
    BY <2>1, <2>2, <1>2 DEF KillsHad, t
<1>18. QED
  BY <1>13, <1>14, <1>15, <1>16, <1>17 DEF DeathsInv

\* An entry that is not passed over puts an event at the end of the victim's list,
\* in the place of a clone's if the list ends with one, and counts a kill.
Written(e, v, t) ==
  /\ DOMAIN board' = BoardFields
  /\ \E z \in Seq(Ev), l \in Int :
       /\ board'.evs = [board.evs EXCEPT ![v] = z] /\ board'.laned = [board.laned EXCEPT ![v] = l]
       /\ ListFits(z, FALSE, l, DiedOf(v), game.entries \ {e}, t, v)
  /\ board'.gold = [board.gold EXCEPT ![v] = FALSE]
  /\ board'.kills = [p \in Heroes |-> IF p = e.killer /\ e.killer # v
                                      THEN Append(board.kills[p], [time |-> t, target |-> v]) ELSE board.kills[p]]

\* What an entry does to the board
LEMMA EntryDoes ==
  ASSUME NEW e, NEW v \in Heroes, NEW t, BoardOK,
         Meets(e, v, t, board.evs[v], board.gold[v], board.laned[v], DiedOf(v), game.entries),
         ~LinkedDeath(board.evs[v], t, v, e.killer), board' = DeathEntry(board, e, t)
  PROVE  Written(e, v, t)
<1> DEFINE s    == board.evs[v]
           len    == Len(s)
           self == e.killer = v
           old  == IF self THEN {} ELSE SelfDeaths(s, t, v)
           kept == SubSeq(s, 1, len - Cardinality(old))
           a    == IF self THEN {} ELSE e.listed \ {e.killer}
           g    == board.gold[v] \/ \E i \in old : s[i].gold
           ev   == EventOf(e, t, a, g)
           lane == {i \in old : InLane(t, s[i].rein)}
           in   == IF InLane(t, e.rein) THEN 1 ELSE 0
           m    == board.laned[v] - Cardinality(lane) + in
           z    == Append(kept, ev)
           k    == [p \in Heroes |-> IF p = e.killer /\ ~self
                                     THEN Append(board.kills[p], [time |-> t, target |-> v]) ELSE board.kills[p]]
<1>0. /\ e.victim = v /\ t \in Nat /\ e \in game.entries /\ EntriesOf(game.entries, DiedOf(v), v, t)
      /\ DeathsOf(DiedOf(v), v, t) /\ ListFits(s, board.gold[v], board.laned[v], DiedOf(v), game.entries, t, v)
  BY DEF Meets
<1> USE <1>0
<1>1. board' = [board EXCEPT !.evs[v] = z, !.gold[v] = FALSE, !.laned[v] = m, !.kills = k]
  BY DEF DeathEntry, EventOf
<1>2. s \in Seq(Ev) /\ len \in Nat /\ board.gold[v] \in BOOLEAN /\ board.laned[v] \in Int
  BY DEF BoardOK
<1>3. a \in SUBSET Heroes
  BY DEF EntriesOf
<1> HIDE DEF a, k
<1>4. /\ DOMAIN board' = BoardFields /\ board'.evs = [board.evs EXCEPT ![v] = z]
      /\ board'.gold = [board.gold EXCEPT ![v] = FALSE] /\ board'.laned = [board.laned EXCEPT ![v] = m]
      /\ board'.kills = k
  <2> HIDE DEF z, m
  <2>1. QED
    BY <1>1 DEF BoardOK, BoardFields
<1>5. Cardinality({}) = 0 /\ \A i : Cardinality({i}) = 1
  BY FS_EmptySet, FS_Singleton
<1>6. z \in Seq(Ev) /\ m \in Int /\ ListFits(z, FALSE, m, DiedOf(v), game.entries \ {e}, t, v)
  <2>1. CASE ~Top(s, t)
    <3>1. old = {} /\ lane = {}
      BY <2>1, <1>2, OwnDeaths DEF ListFits
    <3> HIDE DEF old, lane
    <3>0. Cardinality(old) = 0 /\ Cardinality(lane) = 0
      BY <3>1, <1>5
    <3>2. g = board.gold[v]
      BY <3>1, <1>2
    <3>3. kept = s
      <4>1. len - Cardinality(old) = len
        BY <3>0, <1>2
      <4>2. SubSeq(s, 1, len) = s
        BY <1>2
      <4>3. QED
        BY <4>1, <4>2
    <3>4. m = board.laned[v] + in /\ m \in Int
      BY <3>0, <1>2
    <3> HIDE DEF g, m, kept
    <3>5. /\ Append(s, ev) \in Seq(Ev)
          /\ ListFits(Append(s, ev), FALSE, board.laned[v] + (IF InLane(t, e.rein) THEN 1 ELSE 0), DiedOf(v),
                    game.entries \ {e}, t, v)
      <4>1. Append(s, EventOf(e, t, a, board.gold[v])) \in Seq(Ev)
            /\ ListFits(Append(s, EventOf(e, t, a, board.gold[v])), FALSE,
                      board.laned[v] + (IF InLane(t, e.rein) THEN 1 ELSE 0), DiedOf(v), game.entries \ {e}, t, v)
        BY <2>1, <1>3, FirstEntry
      <4>2. QED
        BY <4>1, <3>2
    <3>6. z = Append(s, ev) /\ m = board.laned[v] + (IF InLane(t, e.rein) THEN 1 ELSE 0)
      BY <3>3, <3>4
    <3> HIDE DEF z, ev
    <3>7. QED
      BY <3>4, <3>5, <3>6
  <2>2. CASE Top(s, t)
    <3>1. ~self /\ s[len].killer = v
      <4>1. s # <<>> /\ s[len].time = t
        BY <2>2, <1>2 DEF Top
      <4>2. QED
        BY <4>1 DEF LinkedDeath
    <3>2. old = {len}
      BY <2>2, <3>1, <1>2, OwnDeaths DEF ListFits
    <3>3. ~board.gold[v]
      BY <2>2 DEF ListFits, GoldTaken
    <3>4. s[len] \in Ev
      BY <2>2, <1>2 DEF Top
    <3>5. g = s[len].gold
      <4>1. s[len].gold \in BOOLEAN
        BY <3>4 DEF Ev
      <4>2. g <=> s[len].gold
        BY <3>2, <3>3
      <4>3. QED
        BY <4>1, <4>2
    <3>6. kept = SubSeq(s, 1, len - 1)
      BY <3>2, <1>5
    <3>7. lane = (IF InLane(t, s[len].rein) THEN {len} ELSE {})
      BY <3>2
    <3> HIDE DEF g, old, lane, kept
    <3>8. /\ Append(SubSeq(s, 1, len - 1), ev) \in Seq(Ev) /\ s[len].rein = e.rein
          /\ ListFits(Append(SubSeq(s, 1, len - 1), ev), FALSE, board.laned[v], DiedOf(v), game.entries \ {e}, t, v)
      <4> DEFINE w == Append(SubSeq(s, 1, len - 1), EventOf(e, t, a, s[len].gold))
      <4>1. /\ w \in Seq(Ev) /\ s[len].rein = e.rein
            /\ ListFits(w, FALSE, board.laned[v], DiedOf(v), game.entries \ {e}, t, v)
        <5>1. /\ Meets(e, v, t, s, board.gold[v], board.laned[v], DiedOf(v), game.entries)
              /\ e.killer # v /\ Top(s, t) /\ s[Len(s)].killer = v
          BY <2>2, <3>1
        <5> HIDE DEF s
        <5>2. \A b \in SUBSET Heroes :
                 /\ Append(SubSeq(s, 1, Len(s) - 1), EventOf(e, t, b, s[Len(s)].gold)) \in Seq(Ev)
                 /\ s[Len(s)].rein = e.rein
                 /\ ListFits(Append(SubSeq(s, 1, Len(s) - 1), EventOf(e, t, b, s[Len(s)].gold)), FALSE, board.laned[v],
                           DiedOf(v), game.entries \ {e}, t, v)
          BY <5>1, TakesPlace
        <5>3. QED
          BY <5>2, <1>3
      <4>2. w = Append(SubSeq(s, 1, len - 1), ev)
        BY <3>5
      <4> HIDE DEF w, ev
      <4>3. QED
        BY <4>1, <4>2
    <3>9. Cardinality(lane) = in
      BY <3>7, <3>8, <1>5
    <3>10. m = board.laned[v]
      BY <3>9, <1>2
    <3>11. z = Append(SubSeq(s, 1, len - 1), ev)
      BY <3>6
    <3> HIDE DEF z, ev, m
    <3>12. QED
      BY <3>8, <3>10, <3>11, <1>2
  <2>3. QED
    BY <2>1, <2>2
<1>7. QED
  <2> HIDE DEF z, m
  <2>1. QED
    BY <1>4, <1>6 DEF k, Written

\* An entry is read: the victim's list, his laning deaths and the killer's kills follow.
LEMMA LogEntryKeeps ==
  ASSUME DeathsInv, NEW e \in game.entries, LogEntry(e)
  PROVE  DeathsInv'
<1>0. PICK v, t : v = e.victim /\ t = game.tick
  OBVIOUS
<1> DEFINE E == game.entries \ {e}
<1>1. /\ DOMAIN game' = GameFields /\ game'.entries = E /\ game'.tick = t /\ game'.died = game.died
      /\ board' = DeathEntry(board, e, t)
  BY <1>0 DEF LogEntry, DeathsInv, GameOK, GameFields
<1>2. \A p : DiedOf(p)' = DiedOf(p)
  BY <1>1 DEF DiedOf
<1>3. v \in Heroes /\ t \in Nat /\ e \in game.entries /\ IsFiniteSet(game.died)
  BY <1>0 DEF DeathsInv, GameOK
<1>4. \A p \in Heroes : /\ DeathsOf(DiedOf(p), p, t) /\ EntriesOf(game.entries, DiedOf(p), p, t)
                        /\ ListFits(board.evs[p], board.gold[p], board.laned[p], DiedOf(p), game.entries, t, p)
                        /\ board.evs[p] \in Seq(Ev) /\ board.gold[p] \in BOOLEAN /\ board.laned[p] \in Int
                        /\ Len(board.kills[p]) = Cardinality(KillsHad(p)) /\ board.kills[p] \in Seq(Kill)
  BY <1>0 DEF DeathsInv, GameOK, BoardOK, ListOK
<1>5. BoardOK
  BY DEF DeathsInv
<1>6. GameOK'
  <2>1. \A p \in Heroes : EntriesOf(E, DiedOf(p), p, t)
    BY <1>4 DEF EntriesOf
  <2>2. \A f \in E : f.victim \in Heroes
    BY <1>0 DEF DeathsInv, GameOK
  <2>3. \A x \in game.died : x.victim \in Heroes
    BY <1>0 DEF DeathsInv, GameOK
  <2> HIDE DEF E
  <2>4. QED
    BY <1>1, <1>2, <1>3, <1>4, <2>1, <2>2, <2>3 DEF GameOK
<1>7. \A x : x.victim # v \/ x.killer # e.killer => (Unread(x, E, t) <=> Unread(x, game.entries, t))
  BY <1>0 DEF Unread
<1>8. \A p \in Heroes : p # v => ListFits(board.evs[p], board.gold[p], board.laned[p], DiedOf(p), E, t, p)
  <2> SUFFICES ASSUME NEW p \in Heroes, p # v
               PROVE  ListFits(board.evs[p], board.gold[p], board.laned[p], DiedOf(p), E, t, p)
    OBVIOUS
  <2>1. \A x \in DiedOf(p) : x.victim = p
    BY DEF DiedOf
  <2>2. \A f : f.victim = p => (f \in game.entries <=> f \in E)
    BY <1>0
  <2>3. QED
    BY <1>4, <2>1, <2>2, ListKept
<1>9. Meets(e, v, t, board.evs[v], board.gold[v], board.laned[v], DiedOf(v), game.entries)
  BY <1>0, <1>3, <1>4 DEF Meets
<1>10. CASE LinkedDeath(board.evs[v], t, v, e.killer)
  <2>1. board' = board
    BY <1>0, <1>1, <1>10 DEF DeathEntry
  <2>2. e.killer = v /\ ListFits(board.evs[v], board.gold[v], board.laned[v], DiedOf(v), E, t, v)
    BY <1>9, <1>10, PassedOver
  <2>3. \A p \in Heroes : ListOK(p)'
    <3> SUFFICES ASSUME NEW p \in Heroes
                 PROVE  ListFits(board.evs[p], board.gold[p], board.laned[p], DiedOf(p), E, t, p)
      BY <2>1, <1>1, <1>2 DEF ListOK
    <3>1. QED
      BY <2>2, <1>8
  <2>4. \A p \in Heroes : KillsHad(p)' = KillsHad(p)
    <3>1. \A x \in game.died : x.killer # x.victim => (Unread(x, E, t) <=> Unread(x, game.entries, t))
      BY <2>2, <1>7
    <3>2. QED
      BY <3>1, <1>0, <1>1 DEF KillsHad
  <2>5. QED
    BY <1>4, <1>5, <1>6, <2>1, <2>3, <2>4 DEF DeathsInv, BoardOK
<1>11. CASE ~LinkedDeath(board.evs[v], t, v, e.killer)
  <2>2. /\ DOMAIN board' = BoardFields
        /\ \E z \in Seq(Ev), l \in Int :
             /\ board'.evs = [board.evs EXCEPT ![v] = z] /\ board'.laned = [board.laned EXCEPT ![v] = l]
             /\ ListFits(z, FALSE, l, DiedOf(v), E, t, v)
        /\ board'.gold = [board.gold EXCEPT ![v] = FALSE]
        /\ board'.kills = [p \in Heroes |-> IF p = e.killer /\ e.killer # v
                                            THEN Append(board.kills[p], [time |-> t, target |-> v]) ELSE board.kills[p]]
    <3>1. Written(e, v, t)
      BY <1>1, <1>3, <1>5, <1>9, <1>11, EntryDoes
    <3>2. QED
      BY <3>1 DEF Written
  <2>3. PICK z \in Seq(Ev), l \in Int :
           /\ board'.evs = [board.evs EXCEPT ![v] = z] /\ board'.laned = [board.laned EXCEPT ![v] = l]
           /\ ListFits(z, FALSE, l, DiedOf(v), E, t, v)
    BY <2>2
  <2>4. /\ board'.evs \in [Heroes -> Seq(Ev)] /\ board'.laned \in [Heroes -> Int] /\ board'.gold \in [Heroes -> BOOLEAN]
        /\ board'.evs[v] = z /\ board'.laned[v] = l /\ board'.gold[v] = FALSE
        /\ \A p \in Heroes : p # v => /\ board'.evs[p] = board.evs[p] /\ board'.laned[p] = board.laned[p]
                                      /\ board'.gold[p] = board.gold[p]
    BY <1>3, <1>5, <2>2, <2>3 DEF BoardOK
  <2>5. \A p \in Heroes : ListOK(p)'
    <3> SUFFICES ASSUME NEW p \in Heroes
                 PROVE  ListFits(board'.evs[p], board'.gold[p], board'.laned[p], DiedOf(p), E, t, p)
      BY <1>1, <1>2 DEF ListOK
    <3>1. CASE p = v
      BY <3>1, <2>3, <2>4
    <3>2. CASE p # v
      BY <3>2, <2>4, <1>8
    <3>3. QED
      BY <3>1, <3>2
  <2>6. \A p \in Heroes : board'.kills[p] \in Seq(Kill) /\ Len(board'.kills[p]) = Cardinality(KillsHad(p)')
    <3> SUFFICES ASSUME NEW p \in Heroes
                 PROVE  board'.kills[p] \in Seq(Kill) /\ Len(board'.kills[p]) = Cardinality(KillsHad(p)')
      OBVIOUS
    <3>0. /\ KillsHad(p)' = {x \in game.died : x.killer = p /\ x.victim # p /\ ~Unread(x, E, t)}
          /\ KillsHad(p) = {x \in game.died : x.killer = p /\ x.victim # p /\ ~Unread(x, game.entries, t)}
      BY <1>0, <1>1 DEF KillsHad
    <3>1. CASE ~(p = e.killer /\ e.killer # v)
      <4>1. \A x \in game.died : x.killer = p /\ x.victim # p => (Unread(x, E, t) <=> Unread(x, game.entries, t))
        BY <3>1, <1>7
      <4>2. KillsHad(p)' = KillsHad(p)
        BY <4>1, <3>0
      <4>3. board'.kills[p] = board.kills[p]
        BY <2>2, <3>1
      <4>4. QED
        BY <4>2, <4>3, <1>4
    <3>2. CASE p = e.killer /\ e.killer # v
      <4>0. DeathsOf(DiedOf(v), v, t) /\ EntriesOf(game.entries, DiedOf(v), v, t)
        BY <1>3, <1>4
      <4>1. PICK d \in DiedOf(v) : IsOf(e, d, DiedOf(v), game.entries, v, t)
        BY <1>0, <1>3, <4>0, EntrysDeath
      <4>2. /\ d.killer = p /\ d.victim = v /\ d \in game.died /\ d.victim # p
            /\ Unread(d, game.entries, t) /\ ~Unread(d, E, t) /\ \A x \in DiedOf(v) : x.time = t => x = d
        BY <4>1, <3>2 DEF IsOf, DiedOf
      <4>3. \A x \in game.died : x # d => (Unread(x, E, t) <=> Unread(x, game.entries, t))
        <5>1. \A x \in game.died : x # d /\ x.victim = v => x.time # t
          BY <4>2 DEF DiedOf
        <5>2. \A x \in game.died : x # d /\ x.victim = v => ~Unread(x, E, t) /\ ~Unread(x, game.entries, t)
          BY <5>1 DEF Unread
        <5>3. QED
          BY <5>2, <1>7
      <4>4. KillsHad(p)' = KillsHad(p) \cup {d} /\ d \notin KillsHad(p)
        BY <4>2, <4>3, <3>0
      <4>5. IsFiniteSet(KillsHad(p))
        <5>1. KillsHad(p) \subseteq game.died
          BY DEF KillsHad
        <5>2. QED
          BY <5>1, <1>3, FS_Subset
      <4>6. Cardinality(KillsHad(p)') = Cardinality(KillsHad(p)) + 1
        BY <4>4, <4>5, FS_AddElement
      <4>7. board'.kills[p] = Append(board.kills[p], [time |-> t, target |-> v])
        BY <2>2, <3>2
      <4>8. [time |-> t, target |-> v] \in Kill
        BY <1>3 DEF Kill
      <4>9. board'.kills[p] \in Seq(Kill) /\ Len(board'.kills[p]) = Len(board.kills[p]) + 1
        <5> HIDE DEF Kill
        <5>1. \A q \in Seq(Kill), k \in Kill : Append(q, k) \in Seq(Kill) /\ Len(Append(q, k)) = Len(q) + 1
          OBVIOUS
        <5>2. QED
          BY <5>1, <4>7, <4>8, <1>4
      <4>10. QED
        BY <4>6, <4>9, <1>4
    <3>3. QED
      BY <3>1, <3>2
  <2>7. BoardOK'
    <3>1. board'.kills \in [Heroes -> Seq(Kill)]
      <4>1. DOMAIN board'.kills = Heroes
        BY <2>2
      <4>2. \E f : board'.kills = [p \in Heroes |-> f[p]]
        BY <2>2
      <4>3. QED
        BY <4>1, <4>2, <2>6
    <3>2. QED
      BY <2>2, <2>4, <3>1 DEF BoardOK
  <2>8. QED
    BY <1>6, <2>5, <2>6, <2>7 DEF DeathsInv
<1>12. QED
  BY <1>10, <1>11

\* A step that leaves the deaths, their entries and their lists as they are
LEMMA DeathsRest ==
  ASSUME DeathsInv, DOMAIN game' = GameFields, game'.tick = game.tick, game'.died = game.died,
         game'.entries = game.entries, DOMAIN board' = BoardFields, board'.evs = board.evs,
         board'.kills = board.kills, board'.laned = board.laned, board'.gold = board.gold
  PROVE  DeathsInv'
<1>1. \A p : DiedOf(p)' = DiedOf(p) /\ KillsHad(p)' = KillsHad(p)
  BY DEF DiedOf, KillsHad
<1>2. GameOK' /\ BoardOK'
  BY <1>1 DEF DeathsInv, GameOK, BoardOK
<1>3. \A p \in Heroes : ListOK(p)'
  BY <1>1 DEF DeathsInv, ListOK
<1>4. QED
  BY <1>1, <1>2, <1>3 DEF DeathsInv

\* A rise of an assist counter is no death.
LEMMA CounterRisesKeeps ==
  ASSUME DeathsInv, NEW p, NEW x, CounterRises(p, x)
  PROVE  DeathsInv'
<1>1. /\ DOMAIN game' = GameFields /\ game'.tick = game.tick /\ game'.died = game.died
      /\ game'.entries = game.entries
  BY DEF DeathsInv, GameOK, GameFields, CounterRises
<1>2. /\ DOMAIN board' = BoardFields /\ board'.evs = board.evs /\ board'.kills = board.kills
      /\ board'.laned = board.laned /\ board'.gold = board.gold
  BY DEF DeathsInv, BoardOK, BoardFields, CounterRises
<1>3. QED
  BY <1>1, <1>2, DeathsRest

\* The tick ends when its entries are read.
LEMMA NextTickKeeps ==
  ASSUME DeathsInv, NextTick
  PROVE  DeathsInv'
<1>1. /\ DOMAIN game' = GameFields /\ game'.tick = game.tick + 1 /\ game'.died = game.died
      /\ game.entries = {} /\ game'.entries = {} /\ board' = board
  BY DEF DeathsInv, GameOK, GameFields, NextTick
<1>2. \A p : DiedOf(p)' = DiedOf(p)
  BY <1>1 DEF DiedOf
<1>3. game.tick \in Nat /\ IsFiniteSet(game.died) /\ \A x \in game.died : x.victim \in Heroes
  BY DEF DeathsInv, GameOK
<1>4. \A p \in Heroes : /\ DeathsOf(DiedOf(p), p, game.tick + 1)
                        /\ ListFits(board.evs[p], board.gold[p], board.laned[p], DiedOf(p), {}, game.tick + 1, p)
  <2> SUFFICES ASSUME NEW p \in Heroes
               PROVE  /\ DeathsOf(DiedOf(p), p, game.tick + 1)
                      /\ ListFits(board.evs[p], board.gold[p], board.laned[p], DiedOf(p), {}, game.tick + 1, p)
    OBVIOUS
  <2>1. /\ board.evs[p] \in Seq(Ev) /\ DeathsOf(DiedOf(p), p, game.tick)
        /\ ListFits(board.evs[p], board.gold[p], board.laned[p], DiedOf(p), {}, game.tick, p)
    BY <1>1 DEF DeathsInv, GameOK, BoardOK, ListOK
  <2>2. QED
    BY <2>1, <1>3, TickPassed
<1>5. \A p : EntriesOf({}, DiedOf(p), p, game.tick + 1)
  BY DEF EntriesOf
<1>6. GameOK'
  BY <1>1, <1>2, <1>3, <1>4, <1>5 DEF GameOK
<1>7. \A p \in Heroes : ListOK(p)'
  BY <1>1, <1>2, <1>4 DEF ListOK
<1>8. \A p : KillsHad(p)' = KillsHad(p)
  BY <1>1 DEF KillsHad, Unread
<1>9. QED
  BY <1>1, <1>6, <1>7, <1>8 DEF DeathsInv, BoardOK

\* The scoreboard's assists change no more of an event than its assists.
LEMMA EndOfReplayKeeps ==
  ASSUME DeathsInv, EndOfReplay
  PROVE  DeathsInv'
<1>1. /\ DOMAIN game' = GameFields /\ game'.tick = game.tick /\ game'.died = game.died
      /\ game'.entries = game.entries
  BY DEF DeathsInv, GameOK, GameFields, EndOfReplay
<1>2. PICK got, new :
         board' = [board EXCEPT !.assists = new,
                                !.evs = [v \in Heroes |-> [i \in DOMAIN board.evs[v] |->
                                  [board.evs[v][i] EXCEPT !.assists = {p \in Heroes : \E x \in got[p] : x[1] = <<v, i>>}]]]]
  <2> DEFINE got == [p \in Heroes |-> Credited(board, p)]
             event(p, k) ==
               IF \E x \in got[p] : x[2] = k
               THEN LET d == (CHOOSE x \in got[p] : x[2] = k)[1]
                    IN  [time |-> At(board, d), target |-> d[1], death |-> d]
               ELSE [time |-> board.rises[p][k], target |-> -1, death |-> <<>>]
             new == [p \in Heroes |-> [k \in DOMAIN board.rises[p] |-> event(p, k)]]
  <2>1. board' = [board EXCEPT !.assists = new,
                                !.evs = [v \in Heroes |-> [i \in DOMAIN board.evs[v] |->
                                  [board.evs[v][i] EXCEPT !.assists = {p \in Heroes : \E x \in got[p] : x[1] = <<v, i>>}]]]]
    BY DEF EndOfReplay, FromScoreboard
  <2> HIDE DEF got, new
  <2>2. QED
    BY <2>1
<1> DEFINE who(v, i) == {p \in Heroes : \E x \in got[p] : x[1] = <<v, i>>}
           told == [v \in Heroes |-> [i \in DOMAIN board.evs[v] |-> [board.evs[v][i] EXCEPT !.assists = who(v, i)]]]
<1>3. \A v, i : who(v, i) \in SUBSET Heroes
  OBVIOUS
<1>4. board' = [board EXCEPT !.assists = new, !.evs = told]
  BY <1>2
<1> HIDE DEF who
<1>5. \A v \in Heroes : /\ board.evs[v] \in Seq(Ev) /\ told[v] \in Seq(Ev) /\ Len(told[v]) = Len(board.evs[v])
                        /\ \A i \in 1..Len(board.evs[v]) :
                             /\ told[v][i].time = board.evs[v][i].time /\ told[v][i].killer = board.evs[v][i].killer
                             /\ told[v][i].rein = board.evs[v][i].rein /\ told[v][i].gold = board.evs[v][i].gold
  <2> SUFFICES ASSUME NEW v \in Heroes
               PROVE  /\ board.evs[v] \in Seq(Ev) /\ told[v] \in Seq(Ev) /\ Len(told[v]) = Len(board.evs[v])
                      /\ \A i \in 1..Len(board.evs[v]) :
                           /\ told[v][i].time = board.evs[v][i].time /\ told[v][i].killer = board.evs[v][i].killer
                           /\ told[v][i].rein = board.evs[v][i].rein /\ told[v][i].gold = board.evs[v][i].gold
    OBVIOUS
  <2> DEFINE s == board.evs[v]
             z == [i \in DOMAIN s |-> [s[i] EXCEPT !.assists = who(v, i)]]
  <2>1. s \in Seq(Ev)
    BY DEF DeathsInv, BoardOK
  <2>2. told[v] = z
    OBVIOUS
  <2> HIDE DEF s, told
  <2>3. Len(s) \in Nat /\ DOMAIN s = 1..Len(s) /\ \A i \in 1..Len(s) : s[i] \in Ev
    BY <2>1
  <2>4. \A i \in 1..Len(s) : /\ z[i] \in Ev /\ z[i].time = s[i].time /\ z[i].killer = s[i].killer
                             /\ z[i].rein = s[i].rein /\ z[i].gold = s[i].gold
    <3> SUFFICES ASSUME NEW i \in 1..Len(s)
                 PROVE  /\ z[i] \in Ev /\ z[i].time = s[i].time /\ z[i].killer = s[i].killer
                        /\ z[i].rein = s[i].rein /\ z[i].gold = s[i].gold
      OBVIOUS
    <3>1. z[i] = [s[i] EXCEPT !.assists = who(v, i)]
      BY <2>3
    <3>2. s[i] \in Ev /\ who(v, i) \in SUBSET Heroes
      BY <2>3, <1>3
    <3> HIDE DEF z
    <3>3. QED
      BY <3>1, <3>2 DEF Ev
  <2>5. z \in [1..Len(s) -> Ev] /\ DOMAIN z = 1..Len(s)
    BY <2>3, <2>4
  <2> HIDE DEF z, Ev
  <2>6. \A n \in Nat : \A f : f \in [1..n -> Ev] => f \in Seq(Ev) /\ Len(f) = n
    OBVIOUS
  <2>7. z \in Seq(Ev) /\ Len(z) = Len(s)
    BY <2>3, <2>5, <2>6
  <2>8. QED
    BY <2>1, <2>2, <2>4, <2>7 DEF s
<1> HIDE DEF told
<1>6. /\ DOMAIN board' = BoardFields /\ board'.evs = told /\ board'.kills = board.kills
      /\ board'.laned = board.laned /\ board'.gold = board.gold
  BY <1>4 DEF DeathsInv, BoardOK, BoardFields
<1>7. \A p : DiedOf(p)' = DiedOf(p) /\ KillsHad(p)' = KillsHad(p)
  BY <1>1 DEF DiedOf, KillsHad
<1>8. GameOK'
  BY <1>1, <1>7 DEF DeathsInv, GameOK
<1>9. DOMAIN told = Heroes /\ told \in [Heroes -> Seq(Ev)]
  <2>1. DOMAIN told = Heroes /\ told = [v \in Heroes |-> told[v]]
    BY DEF told
  <2>2. QED
    BY <2>1, <1>5
<1>10. BoardOK'
  BY <1>6, <1>9 DEF DeathsInv, BoardOK
<1>11. \A p \in Heroes : ListOK(p)'
  <2> SUFFICES ASSUME NEW p \in Heroes
               PROVE  ListFits(told[p], board.gold[p], board.laned[p], DiedOf(p), game.entries, game.tick, p)
    BY <1>1, <1>6, <1>7 DEF ListOK
  <2>1. ListFits(board.evs[p], board.gold[p], board.laned[p], DiedOf(p), game.entries, game.tick, p)
    BY DEF DeathsInv, ListOK
  <2>2. Len(board.evs[p]) \in Nat
    BY <1>5
  <2>3. QED
    BY <2>1, <2>2, <1>5, SameEvents
<1>12. QED
  BY <1>6, <1>7, <1>8, <1>10, <1>11 DEF DeathsInv

-----------------------------------------------------------------------------
\* Once the entries are read, the lists are the deaths.
LEMMA ListsAreDeaths == DeathsInv => DeathsListedOnce
<1> SUFFICES ASSUME DeathsInv, game.entries = {}, NEW p \in Heroes
             PROVE  /\ {[time |-> e.time, killer |-> e.killer, gold |-> e.gold] : e \in ToSet(board.evs[p])}
                         = {[time |-> x.time, killer |-> x.killer, gold |-> ~x.rein] : x \in DiedOf(p)}
                    /\ Len(board.evs[p]) = Cardinality(DiedOf(p))
                    /\ board.laned[p] = Cardinality({x \in DiedOf(p) : InLane(x.time, x.rein)})
                    /\ Len(board.kills[p]) = Cardinality({x \in game.died : x.killer = p /\ x.victim # p})
  BY DEF DeathsListedOnce
<1> DEFINE s == board.evs[p]
           D == DiedOf(p)
<1>1. /\ s \in Seq(Ev) /\ DeathsOf(D, p, game.tick) /\ game.tick \in Nat
      /\ ListFits(s, board.gold[p], board.laned[p], D, {}, game.tick, p)
  BY DEF DeathsInv, GameOK, BoardOK, ListOK
<1>2. /\ Had(D, s, game.tick) = D
      /\ \A i \in 1..Len(s) : \E x \in D : EventIs(s[i], x, {}, game.tick) /\ s[i].killer = x.killer
      /\ \A x \in D : \E i \in 1..Len(s) : s[i].time = x.time
  <2> HIDE DEF s, D
  <2>1. PICK t, g, l : t = game.tick /\ g = board.gold[p] /\ l = board.laned[p]
    OBVIOUS
  <2>2. t \in Nat /\ s \in Seq(Ev) /\ DeathsOf(D, p, t) /\ ListFits(s, g, l, D, {}, t, p)
    BY <1>1, <2>1
  <2>3. /\ Had(D, s, t) = D
        /\ \A i \in 1..Len(s) : \E x \in D : EventIs(s[i], x, {}, t) /\ s[i].killer = x.killer
        /\ \A x \in D : \E i \in 1..Len(s) : s[i].time = x.time
    BY <2>2, NoneUnread, SMTT(30)
  <2>4. QED
    BY <2>1, <2>3
<1>3. HadLane(D, s, game.tick) = {x \in D : InLane(x.time, x.rein)}
  BY <1>2 DEF HadLane
<1>4. KillsHad(p) = {x \in game.died : x.killer = p /\ x.victim # p}
  BY DEF KillsHad, Unread
<1>5. ToSet(s) = {s[i] : i \in 1..Len(s)}
  BY <1>1 DEF ToSet
<1>6. \A i \in 1..Len(s) : s[i].gold \in BOOLEAN
  <2>1. \A i \in 1..Len(s) : s[i] \in Ev
    BY <1>1
  <2>2. QED
    BY <2>1 DEF Ev
<1>7. \A x \in D : x.rein \in BOOLEAN
  BY <1>1 DEF DeathsOf
<1> DEFINE Same(e, x) == e.time = x.time /\ e.killer = x.killer /\ e.gold = ~x.rein
           L == {[time |-> e.time, killer |-> e.killer, gold |-> e.gold] : e \in ToSet(s)}
           R == {[time |-> x.time, killer |-> x.killer, gold |-> ~x.rein] : x \in D}
<1>8. \A i \in 1..Len(s) : \E x \in D : Same(s[i], x)
  <2> SUFFICES ASSUME NEW i \in 1..Len(s) PROVE \E x \in D : Same(s[i], x)
    OBVIOUS
  <2>1. PICK x \in D : EventIs(s[i], x, {}, game.tick) /\ s[i].killer = x.killer
    BY <1>2
  <2>2. s[i].gold = ~x.rein
    <3>1. s[i].gold <=> ~x.rein
      BY <2>1 DEF EventIs
    <3>2. s[i].gold \in BOOLEAN /\ x.rein \in BOOLEAN
      BY <1>6, <1>7
    <3>3. QED
      BY <3>1, <3>2
  <2>3. QED
    BY <2>1, <2>2 DEF EventIs
<1>9. \A x \in D : \E i \in 1..Len(s) : Same(s[i], x)
  <2> SUFFICES ASSUME NEW x \in D PROVE \E i \in 1..Len(s) : Same(s[i], x)
    OBVIOUS
  <2>1. PICK i \in 1..Len(s) : s[i].time = x.time
    BY <1>2
  <2>2. PICK y \in D : Same(s[i], y)
    BY <1>8
  <2>3. y = x
    BY <2>1, <2>2, <1>1 DEF DeathsOf
  <2>4. QED
    BY <2>2, <2>3
<1> HIDE DEF s, D
<1>10. L = R
  <2>1. L \subseteq R
    <3> SUFFICES ASSUME NEW e \in ToSet(s)
                 PROVE  [time |-> e.time, killer |-> e.killer, gold |-> e.gold] \in R
      OBVIOUS
    <3>1. PICK x \in D : Same(e, x)
      BY <1>5, <1>8
    <3>2. QED
      BY <3>1
  <2>2. R \subseteq L
    <3> SUFFICES ASSUME NEW x \in D
                 PROVE  [time |-> x.time, killer |-> x.killer, gold |-> ~x.rein] \in L
      OBVIOUS
    <3>1. PICK i \in 1..Len(s) : Same(s[i], x)
      BY <1>9
    <3>2. s[i] \in ToSet(s)
      BY <1>5
    <3>3. QED
      BY <3>1, <3>2
  <2>3. QED
    BY <2>1, <2>2
<1>11. Len(s) = Cardinality(D) /\ board.laned[p] = Cardinality({x \in D : InLane(x.time, x.rein)})
  BY <1>1, <1>2, <1>3 DEF ListFits, Tallied
<1>12. Len(board.kills[p]) = Cardinality({x \in game.died : x.killer = p /\ x.victim # p})
  BY <1>4 DEF DeathsInv
<1>13. QED
  BY <1>10, <1>11, <1>12 DEF s, D

\* Every step of the parser keeps it.
LEMMA DeathsInvNext == DeathsInv /\ [Next]_parserVars => DeathsInv'
<1> SUFFICES ASSUME DeathsInv, [Next]_parserVars PROVE DeathsInv'
  OBVIOUS
<1>1. CASE DeathsNext
  <2>1. ASSUME NEW d \in Deaths, Die(d) PROVE DeathsInv'
    BY <2>1, DieKeeps
  <2>2. ASSUME NEW e \in game.entries, LogEntry(e) PROVE DeathsInv'
    BY <2>2, LogEntryKeeps
  <2>3. ASSUME NEW p \in Heroes, NEW x \in game.owed, CounterRises(p, x) PROVE DeathsInv'
    BY <2>3, CounterRisesKeeps
  <2>4. CASE NextTick
    BY <2>4, NextTickKeeps
  <2>5. CASE EndOfReplay
    BY <2>5, EndOfReplayKeeps
  <2>6. QED
    BY <1>1, <2>1, <2>2, <2>3, <2>4, <2>5 DEF DeathsNext
<1>2. CASE UNCHANGED <<game, board>>
  <2>1. game' = game /\ board' = board
    BY <1>2
  <2>2. QED
    BY <2>1, DeathsRest DEF DeathsInv, GameOK, BoardOK
<1>3. DeathsNext \/ UNCHANGED <<game, board>>
  BY DEF Next, parserVars
<1>4. QED
  BY <1>1, <1>2, <1>3

\* Whatever the order of a tick's entries and however many clones die with a Meepo,
\* each death is listed once, with its killer and its gold, and counted once for the
\* lane and once as a kill (main.go, the DEATH entries of the combat log).
THEOREM DeathsListed == Spec => []DeathsListedOnce
<1>1. Init => DeathsInv
  BY DeathsInvInit DEF Init
<1>2. QED
  BY <1>1, DeathsInvNext, ListsAreDeaths, PTL DEF Spec

-----------------------------------------------------------------------------
(*****************************************************************************)
(* Teamfights: the loop over the sorted deaths keeps the stretches of what   *)
(* it has read.                                                              *)
(*****************************************************************************)
\* The deaths of a list in the order of time, each once
DeathsInTime(b, all) ==
  /\ all \in Seq(ToSet(all))
  /\ \A j \in 1..Len(all) : At(b, all[j]) \in Nat
  /\ \A j, l \in 1..Len(all) : j < l => all[j] # all[l] /\ At(b, all[j]) <= At(b, all[l])

\* When a run of deaths starts and ends, and what it has
Starts(b, c) == At(b, c[1])
Stops(b, c)  == At(b, c[Len(c)])
Has(c, d)    == \E m \in 1..Len(c) : c[m] = d

\* c is a stretch of the first k deaths.
Run(b, all, c, k) ==
  /\ c \in Seq(ToSet(all)) /\ Len(c) > 0
  /\ \A m \in 1..Len(c) : \E j \in 1..k : c[m] = all[j]
  /\ \A m, n \in 1..Len(c) : m < n => \E j, l \in 1..k : j < l /\ c[m] = all[j] /\ c[n] = all[l]
  /\ \A j \in 1..k : Has(c, all[j]) <=> Starts(b, c) <= At(b, all[j]) /\ At(b, all[j]) <= Stops(b, c)
  /\ \A j \in 1..k : Starts(b, c) <= At(b, all[j]) /\ At(b, all[j]) < Stops(b, c)
       => \E l \in 1..k : At(b, all[j]) < At(b, all[l]) /\ At(b, all[l]) - At(b, all[j]) <= FightGap

\* The step of the loop of Teamfights
FightOp(b, all, cs, d) ==
  IF cs # <<>> /\ At(b, d) - At(b, cs[Len(cs)][Len(cs[Len(cs)])]) <= FightGap
  THEN [cs EXCEPT ![Len(cs)] = Append(@, d)] ELSE Append(cs, <<d>>)

\* After k deaths: the runs are stretches of them, have them all and are apart.
FightGood(b, all, cs, k) ==
  /\ cs \in Seq(Seq(ToSet(all)))
  /\ \A i \in 1..Len(cs) : Run(b, all, cs[i], k)
  /\ \A j \in 1..k : \E i \in 1..Len(cs) : Has(cs[i], all[j])
  /\ \A i, j \in 1..Len(cs) : i < j => Starts(b, cs[j]) > Stops(b, cs[i]) + FightGap
  /\ Len(cs) = 0 => k = 0
  /\ Len(cs) > 0 => k > 0 /\ cs[Len(cs)][Len(cs[Len(cs)])] = all[k]

FightPass == INSTANCE FoldRule WITH Op <- FightOp, Good <- FightGood

FightRuns(b, all) == FightPass!Fold(b, all, <<>>, all)

\* The first and last death of a run are deaths of the list, the first no later.
LEMMA RunTyped ==
  ASSUME NEW b, NEW all, DeathsInTime(b, all), NEW k \in 0..Len(all), NEW c, Run(b, all, c, k)
  PROVE  /\ Len(c) \in Nat \ {0} /\ Starts(b, c) \in Nat /\ Stops(b, c) \in Nat /\ Starts(b, c) <= Stops(b, c)
         /\ \A m \in 1..Len(c) : At(b, c[m]) \in Nat /\ Starts(b, c) <= At(b, c[m]) /\ At(b, c[m]) <= Stops(b, c)
<1>1. Len(c) \in Nat \ {0} /\ 1 \in 1..Len(c) /\ Len(c) \in 1..Len(c)
  BY DEF Run
<1>2. ASSUME NEW m \in 1..Len(c) PROVE At(b, c[m]) \in Nat /\ Starts(b, c) <= At(b, c[m]) /\ At(b, c[m]) <= Stops(b, c)
  <2>1. PICK j \in 1..k : c[m] = all[j]
    BY DEF Run
  <2>2. j \in 1..Len(all)
    BY DEF DeathsInTime
  <2>3. Has(c, all[j])
    BY <2>1 DEF Has
  <2>4. QED
    BY <2>1, <2>2, <2>3 DEF Run, DeathsInTime
<1>3. QED
  BY <1>1, <1>2 DEF Starts, Stops

\* A death that comes within the window of the run before it
LEMMA FightGrows ==
  ASSUME NEW b, NEW all, DeathsInTime(b, all), NEW k \in 1..(Len(all) - 1), NEW c, Run(b, all, c, k), c[Len(c)] = all[k],
         At(b, all[k + 1]) - Stops(b, c) <= FightGap
  PROVE  /\ Run(b, all, Append(c, all[k + 1]), k + 1)
         /\ Starts(b, Append(c, all[k + 1])) = Starts(b, c)
         /\ Append(c, all[k + 1])[Len(Append(c, all[k + 1]))] = all[k + 1]
         /\ \A d : Has(c, d) \/ d = all[k + 1] => Has(Append(c, all[k + 1]), d)
<1> DEFINE x == all[k + 1]
           e == Append(c, x)
           n == Len(c)
<1>1. /\ Len(all) \in Nat /\ k \in Nat /\ k + 1 \in 1..Len(all) /\ k \in 1..Len(all) /\ \A j \in 1..k : j \in 1..Len(all) /\ j < k + 1
      /\ \A j \in 1..(k + 1) : j \in 1..k \/ j = k + 1
  BY DEF DeathsInTime
<1>2. x \in ToSet(all) /\ c \in Seq(ToSet(all)) /\ n \in Nat \ {0}
  BY <1>1 DEF DeathsInTime, Run
<1>3. /\ e \in Seq(ToSet(all)) /\ Len(e) = n + 1 /\ e[n + 1] = x /\ \A i \in 1..n : e[i] = c[i]
      /\ \A i \in 1..n : i \in 1..(n + 1)
      /\ \A i \in 1..(n + 1) : i \in 1..n \/ i = n + 1
      /\ n + 1 \in 1..(n + 1) /\ n + 1 > 0
  <2> HIDE DEF x
  <2>1. QED
    BY <1>2, Appended
<1>4. Starts(b, e) = Starts(b, c) /\ Stops(b, e) = At(b, x) /\ Stops(b, c) = At(b, all[k])
  BY <1>2, <1>3 DEF Starts, Stops
<1>n. n = Len(c)
  OBVIOUS
<1> HIDE DEF e, n
<1>5. /\ At(b, x) \in Nat /\ Stops(b, c) <= At(b, x) /\ Stops(b, c) \in Nat /\ Starts(b, c) \in Nat /\ Starts(b, c) <= Stops(b, c)
      /\ \A j \in 1..k : At(b, all[j]) \in Nat /\ At(b, all[j]) <= Stops(b, c) /\ x # all[j]
  <2>1. k \in 0..Len(all)
    BY <1>1
  <2>2. Stops(b, c) \in Nat /\ Starts(b, c) \in Nat /\ Starts(b, c) <= Stops(b, c)
    BY <2>1, RunTyped
  <2>3. \A j \in 1..k : At(b, all[j]) \in Nat /\ x # all[j]
    BY <1>1 DEF DeathsInTime
  <2>4. \A j \in 1..k : At(b, all[j]) <= At(b, all[k])
    <3>1. \A j \in 1..k : j = k \/ j < k
      BY <1>1
    <3>2. QED
      BY <1>1, <2>3, <3>1 DEF DeathsInTime
  <2>5. At(b, x) \in Nat /\ At(b, all[k]) <= At(b, x)
    BY <1>1 DEF DeathsInTime
  <2>6. QED
    BY <1>4, <2>2, <2>3, <2>4, <2>5
<1>6. \A d : Has(e, d) <=> Has(c, d) \/ d = x
  BY <1>n, <1>3 DEF Has
<1>7. \A m \in 1..Len(e) : \E j \in 1..(k + 1) : e[m] = all[j]
  <2>1. \A m \in 1..n : \E j \in 1..k : c[m] = all[j]
    BY <1>n DEF Run
  <2>2. \A j \in 1..k : j \in 1..(k + 1)
    BY <1>1
  <2>3. k + 1 \in 1..(k + 1)
    BY <1>1
  <2>4. QED
    BY <1>3, <2>1, <2>2, <2>3
<1>8. ASSUME NEW m \in 1..Len(e), NEW l \in 1..Len(e), m < l
      PROVE  \E j, h \in 1..(k + 1) : j < h /\ e[m] = all[j] /\ e[l] = all[h]
  <2>1. m \in 1..n
    BY <1>2, <1>3, <1>8 DEF n
  <2>2. CASE l \in 1..n
    <3>1. PICK j \in 1..k, h \in 1..k : j < h /\ c[m] = all[j] /\ c[l] = all[h]
      BY <1>8, <2>1, <2>2 DEF Run, n
    <3>2. j \in 1..(k + 1) /\ h \in 1..(k + 1)
      BY <1>1
    <3>3. QED
      BY <1>3, <2>1, <2>2, <3>1, <3>2
  <2>3. CASE l = n + 1
    <3>1. PICK j \in 1..k : c[m] = all[j]
      BY <2>1 DEF Run, n
    <3>2. j \in 1..(k + 1) /\ k + 1 \in 1..(k + 1) /\ j < k + 1
      BY <1>1
    <3>3. QED
      BY <1>3, <2>1, <2>3, <3>1, <3>2
  <2>4. QED
    BY <1>3, <2>2, <2>3
<1>9. ASSUME NEW j \in 1..(k + 1)
      PROVE  Has(e, all[j]) <=> Starts(b, e) <= At(b, all[j]) /\ At(b, all[j]) <= Stops(b, e)
  <2>1. CASE j \in 1..k
    <3>1. Has(e, all[j]) <=> Has(c, all[j])
      BY <1>5, <1>6, <2>1
    <3>2. Has(c, all[j]) <=> Starts(b, c) <= At(b, all[j]) /\ At(b, all[j]) <= Stops(b, c)
      BY <2>1 DEF Run
    <3>3. At(b, all[j]) <= Stops(b, c) /\ At(b, all[j]) <= At(b, x)
      BY <1>5, <2>1
    <3>4. QED
      BY <1>4, <3>1, <3>2, <3>3
  <2>2. CASE j = k + 1
    <3>1. Has(e, all[j]) /\ Starts(b, c) <= At(b, x)
      BY <1>5, <1>6, <2>2
    <3>2. QED
      BY <1>4, <1>5, <2>2, <3>1
  <2>3. QED
    BY <1>1, <2>1, <2>2
<1>10. ASSUME NEW j \in 1..(k + 1), Starts(b, e) <= At(b, all[j]), At(b, all[j]) < Stops(b, e)
       PROVE  \E l \in 1..(k + 1) : At(b, all[j]) < At(b, all[l]) /\ At(b, all[l]) - At(b, all[j]) <= FightGap
  <2>1. j \in 1..k
    BY <1>1, <1>4, <1>5, <1>10
  <2>2. CASE At(b, all[j]) < Stops(b, c)
    <3>1. PICK l \in 1..k : At(b, all[j]) < At(b, all[l]) /\ At(b, all[l]) - At(b, all[j]) <= FightGap
      BY <1>4, <1>10, <2>1, <2>2 DEF Run
    <3>2. l \in 1..(k + 1)
      BY <1>1
    <3>3. QED
      BY <3>1, <3>2
  <2>3. CASE ~(At(b, all[j]) < Stops(b, c))
    <3>1. At(b, all[j]) = Stops(b, c)
      BY <1>5, <2>1, <2>3
    <3>2. k + 1 \in 1..(k + 1) /\ At(b, all[j]) < At(b, x)
      BY <1>1, <1>4, <1>10
    <3>3. QED
      BY <3>1, <3>2
  <2>4. QED
    BY <2>2, <2>3
<1>11. Run(b, all, e, k + 1)
  <2>1. e \in Seq(ToSet(all)) /\ Len(e) > 0
    BY <1>3
  <2>2. QED
    BY <2>1, <1>7, <1>8, <1>9, <1>10, Zenon DEF Run
<1>12. QED
  BY <1>3, <1>4, <1>6, <1>11 DEF e, x

\* An older run stays one when the next death comes later than it.
LEMMA RunLasts ==
  ASSUME NEW b, NEW all, DeathsInTime(b, all), NEW k \in 0..(Len(all) - 1), NEW c, Run(b, all, c, k),
         Stops(b, c) < At(b, all[k + 1])
  PROVE  Run(b, all, c, k + 1)
<1>1. /\ Len(all) \in Nat /\ k \in 0..Len(all) /\ k + 1 \in 1..Len(all) /\ \A j \in 1..k : j \in 1..(k + 1)
      /\ \A j \in 1..(k + 1) : j \in 1..k \/ j = k + 1
  BY DEF DeathsInTime
<1>2. /\ Stops(b, c) \in Nat /\ At(b, all[k + 1]) \in Nat
      /\ \A m \in 1..Len(c) : At(b, c[m]) \in Nat /\ At(b, c[m]) <= Stops(b, c)
  BY <1>1, RunTyped DEF DeathsInTime
<1>3. ~Has(c, all[k + 1]) /\ ~(At(b, all[k + 1]) <= Stops(b, c)) /\ ~(At(b, all[k + 1]) < Stops(b, c))
  BY <1>2 DEF Has
<1>4. c \in Seq(ToSet(all)) /\ Len(c) > 0
  BY DEF Run
<1>5. \A m \in 1..Len(c) : \E j \in 1..(k + 1) : c[m] = all[j]
  BY <1>1 DEF Run
<1>6. ASSUME NEW m \in 1..Len(c), NEW n \in 1..Len(c), m < n
      PROVE  \E j, l \in 1..(k + 1) : j < l /\ c[m] = all[j] /\ c[n] = all[l]
  <2>1. PICK j \in 1..k, l \in 1..k : j < l /\ c[m] = all[j] /\ c[n] = all[l]
    BY <1>6 DEF Run
  <2>2. j \in 1..(k + 1) /\ l \in 1..(k + 1)
    BY <1>1
  <2>3. QED
    BY <2>1, <2>2
<1>7. ASSUME NEW j \in 1..(k + 1)
      PROVE  Has(c, all[j]) <=> Starts(b, c) <= At(b, all[j]) /\ At(b, all[j]) <= Stops(b, c)
  BY <1>1, <1>3 DEF Run
<1>8. ASSUME NEW j \in 1..(k + 1), Starts(b, c) <= At(b, all[j]), At(b, all[j]) < Stops(b, c)
      PROVE  \E l \in 1..(k + 1) : At(b, all[j]) < At(b, all[l]) /\ At(b, all[l]) - At(b, all[j]) <= FightGap
  <2>1. j \in 1..k
    BY <1>1, <1>3, <1>8
  <2>2. PICK l \in 1..k : At(b, all[j]) < At(b, all[l]) /\ At(b, all[l]) - At(b, all[j]) <= FightGap
    BY <1>8, <2>1 DEF Run
  <2>3. QED
    BY <1>1, <2>2
<1>9. QED
  BY <1>4, <1>5, <1>6, <1>7, <1>8, Zenon DEF Run

\* A death that comes later than all before opens a run.
LEMMA FightOpens ==
  ASSUME NEW b, NEW all, DeathsInTime(b, all), NEW k \in 0..(Len(all) - 1),
         \A j \in 1..k : At(b, all[j]) < At(b, all[k + 1])
  PROVE  /\ Run(b, all, <<all[k + 1]>>, k + 1) /\ Starts(b, <<all[k + 1]>>) = At(b, all[k + 1])
         /\ Has(<<all[k + 1]>>, all[k + 1])
<1> DEFINE x == all[k + 1]
           c == <<x>>
<1>1. /\ Len(all) \in Nat /\ k + 1 \in 1..Len(all) /\ k + 1 \in 1..(k + 1) /\ \A j \in 1..k : j \in 1..Len(all)
      /\ \A j \in 1..(k + 1) : j \in 1..k \/ j = k + 1
  BY DEF DeathsInTime
<1>2. x \in ToSet(all) /\ At(b, x) \in Nat /\ \A j \in 1..k : At(b, all[j]) \in Nat /\ all[j] # x
  <2>1. x \in ToSet(all) /\ At(b, x) \in Nat /\ \A j \in 1..k : At(b, all[j]) \in Nat
    BY <1>1 DEF DeathsInTime
  <2>2. QED
    BY <2>1
<1> HIDE DEF x
<1>3. c \in Seq(ToSet(all)) /\ Len(c) = 1 /\ 1..Len(c) = {1} /\ c[1] = x
  BY <1>2
<1> HIDE DEF c
<1>4. Starts(b, c) = At(b, x) /\ Stops(b, c) = At(b, x)
  BY <1>3 DEF Starts, Stops
<1>5. \A d : Has(c, d) <=> d = x
  BY <1>3 DEF Has
<1>6. \A m \in 1..Len(c) : \E j \in 1..(k + 1) : c[m] = all[j]
  BY <1>1, <1>3 DEF x
<1>7. \A m, n \in 1..Len(c) : ~(m < n)
  BY <1>3
<1>8. ASSUME NEW j \in 1..(k + 1)
      PROVE  /\ Has(c, all[j]) <=> Starts(b, c) <= At(b, all[j]) /\ At(b, all[j]) <= Stops(b, c)
             /\ ~(Starts(b, c) <= At(b, all[j]) /\ At(b, all[j]) < Stops(b, c))
  <2>1. CASE j = k + 1
    BY <1>2, <1>4, <1>5, <2>1 DEF x
  <2>2. CASE j \in 1..k
    <3>1. At(b, all[j]) < At(b, x) /\ ~Has(c, all[j])
      BY <1>2, <1>5, <2>2 DEF x
    <3>2. QED
      BY <1>2, <1>4, <2>2, <3>1
  <2>3. QED
    BY <1>1, <2>1, <2>2
<1>9. Len(c) > 0
  BY <1>3
<1>10. Run(b, all, c, k + 1)
  BY <1>3, <1>6, <1>7, <1>8, <1>9, Zenon DEF Run
<1>11. QED
  BY <1>4, <1>5, <1>10 DEF c, x

\* One more death joins the last run,
LEMMA FightJoins ==
  ASSUME NEW b, NEW all, DeathsInTime(b, all), NEW k \in 0..(Len(all) - 1), NEW cs, FightGood(b, all, cs, k),
         Len(cs) > 0, At(b, all[k + 1]) - Stops(b, cs[Len(cs)]) <= FightGap
  PROVE  FightGood(b, all, [cs EXCEPT ![Len(cs)] = Append(@, all[k + 1])], k + 1)
<1> DEFINE n == Len(cs)
           c == cs[n]
           x == all[k + 1]
           e == Append(c, x)
           ds == [cs EXCEPT ![n] = e]
<1>1. /\ Len(all) \in Nat /\ k + 1 \in 1..Len(all) /\ k \in 1..(Len(all) - 1) /\ \A j \in 1..(k + 1) : j \in 1..k \/ j = k + 1
      /\ k \in 0..Len(all) /\ \A j \in 1..k : j \in 1..Len(all) /\ j < k + 1
  BY DEF DeathsInTime, FightGood
<1>2. cs \in Seq(Seq(ToSet(all))) /\ n \in 1..Len(cs) /\ n \in Nat /\ \A i \in 1..n : Run(b, all, cs[i], k)
  BY DEF FightGood
<1>3. c[Len(c)] = all[k] /\ x \in ToSet(all) /\ c \in Seq(ToSet(all))
  BY <1>1, <1>2 DEF FightGood, DeathsInTime
<1>4. /\ Run(b, all, e, k + 1) /\ Starts(b, e) = Starts(b, c) /\ e[Len(e)] = x
      /\ \A d : Has(c, d) \/ d = x => Has(e, d)
  BY <1>1, <1>2, <1>3, FightGrows
<1>5. e \in Seq(ToSet(all))
  BY <1>4 DEF Run
<1> HIDE DEF e, x
<1>6. ds \in Seq(Seq(ToSet(all))) /\ Len(ds) = n /\ ds[n] = e /\ \A j \in 1..n : j # n => ds[j] = cs[j]
  <2> HIDE DEF n
  <2>1. QED
    BY <1>2, <1>5, SetAt DEF n
<1>7. ASSUME NEW i \in 1..n, i # n
      PROVE  Run(b, all, ds[i], k + 1) /\ Starts(b, e) > Stops(b, ds[i]) + FightGap
  <2>1. i < n /\ Starts(b, c) > Stops(b, cs[i]) + FightGap
    BY <1>2, <1>7 DEF FightGood
  <2>2. Stops(b, cs[i]) \in Nat /\ Starts(b, c) \in Nat /\ Starts(b, c) <= Stops(b, c) /\ Stops(b, c) \in Nat
    BY <1>1, <1>2, RunTyped
  <2>3. Stops(b, c) <= At(b, x) /\ At(b, x) \in Nat
    BY <1>1, <1>3 DEF DeathsInTime, Stops, x
  <2>4. Stops(b, cs[i]) < At(b, x)
    BY <2>1, <2>2, <2>3, DeathsAssumption
  <2>5. Run(b, all, cs[i], k + 1)
    BY <1>1, <1>2, <2>4, RunLasts DEF x
  <2>6. QED
    BY <1>4, <1>6, <1>7, <2>1, <2>5
<1> HIDE DEF ds
<1>8. \A i \in 1..Len(ds) : Run(b, all, ds[i], k + 1)
  BY <1>4, <1>6, <1>7
<1>9. ASSUME NEW j \in 1..(k + 1) PROVE \E i \in 1..Len(ds) : Has(ds[i], all[j])
  <2>1. CASE j = k + 1
    BY <1>2, <1>4, <1>6, <2>1 DEF x
  <2>2. CASE j \in 1..k
    <3>1. PICK i \in 1..n : Has(cs[i], all[j])
      BY <2>2 DEF FightGood
    <3>2. Has(ds[i], all[j])
      BY <1>4, <1>6, <3>1
    <3>3. QED
      BY <1>6, <3>2
  <2>3. QED
    BY <1>1, <2>1, <2>2
<1>10. ASSUME NEW i \in 1..Len(ds), NEW j \in 1..Len(ds), i < j
       PROVE  Starts(b, ds[j]) > Stops(b, ds[i]) + FightGap
  <2>1. i \in 1..n /\ j \in 1..n /\ i # n
    BY <1>2, <1>6, <1>10
  <2>2. CASE j = n
    BY <1>6, <1>7, <2>1, <2>2
  <2>3. CASE j # n
    <3>1. Starts(b, cs[j]) > Stops(b, cs[i]) + FightGap
      BY <1>10, <2>1 DEF FightGood
    <3>2. QED
      BY <1>6, <2>1, <2>3, <3>1
  <2>4. QED
    BY <2>2, <2>3
<1>11. Len(ds) # 0 /\ k + 1 > 0 /\ ds[Len(ds)][Len(ds[Len(ds)])] = all[k + 1]
  BY <1>1, <1>2, <1>4, <1>6 DEF x
<1>12. FightGood(b, all, ds, k + 1)
  BY <1>6, <1>8, <1>9, <1>10, <1>11, Zenon DEF FightGood
<1>13. QED
  BY <1>12 DEF ds, e, x, n

\* or opens one.
LEMMA FightStarts ==
  ASSUME NEW b, NEW all, DeathsInTime(b, all), NEW k \in 0..(Len(all) - 1), NEW cs, FightGood(b, all, cs, k),
         Len(cs) = 0 \/ At(b, all[k + 1]) - Stops(b, cs[Len(cs)]) > FightGap
  PROVE  FightGood(b, all, Append(cs, <<all[k + 1]>>), k + 1)
<1> DEFINE n == Len(cs)
           x == all[k + 1]
           e == <<x>>
           ds == Append(cs, e)
<1>1. /\ Len(all) \in Nat /\ k + 1 \in 1..Len(all) /\ \A j \in 1..(k + 1) : j \in 1..k \/ j = k + 1
      /\ k \in 0..Len(all) /\ \A j \in 1..k : j \in 1..Len(all) /\ j < k + 1 /\ k \in 1..Len(all) /\ (j = k \/ j < k)
  BY DEF DeathsInTime
<1>2. cs \in Seq(Seq(ToSet(all))) /\ n \in Nat /\ \A i \in 1..n : Run(b, all, cs[i], k)
  BY DEF FightGood
<1>3. At(b, x) \in Nat /\ \A i \in 1..n : Stops(b, cs[i]) \in Nat /\ Starts(b, cs[i]) \in Nat /\ Starts(b, cs[i]) <= Stops(b, cs[i])
  BY <1>1, <1>2, RunTyped DEF DeathsInTime
<1>4. ASSUME NEW i \in 1..n PROVE At(b, x) > Stops(b, cs[i]) + FightGap
  <2>1. n \in 1..n /\ At(b, x) - Stops(b, cs[n]) > FightGap
    BY <1>2
  <2>2. CASE i = n
    BY <1>3, <2>1, <2>2, DeathsAssumption
  <2>3. CASE i # n
    <3>1. i < n
      BY <1>2, <2>3
    <3>2. Starts(b, cs[n]) > Stops(b, cs[i]) + FightGap
      BY <2>1, <3>1 DEF FightGood
    <3> HIDE DEF n
    <3>3. QED
      BY <1>3, <2>1, <3>2, DeathsAssumption
  <2>4. QED
    BY <2>2, <2>3
<1>5. ASSUME NEW j \in 1..k PROVE At(b, all[j]) < At(b, x)
  <2>1. PICK i \in 1..n : Has(cs[i], all[j])
    BY DEF FightGood
  <2>2. At(b, all[j]) <= Stops(b, cs[i]) /\ At(b, all[j]) \in Nat
    BY <1>1, <1>2, <2>1 DEF Run, DeathsInTime
  <2>3. QED
    BY <1>3, <1>4, <2>2, DeathsAssumption
<1>6. Run(b, all, e, k + 1) /\ Starts(b, e) = At(b, x) /\ Has(e, x)
  BY <1>5, FightOpens
<1>7. e[Len(e)] = x
  BY DEF e
<1>8. e \in Seq(ToSet(all))
  BY <1>6 DEF Run
<1> HIDE DEF e, x
<1>9. /\ ds \in Seq(Seq(ToSet(all))) /\ Len(ds) = n + 1 /\ ds[n + 1] = e /\ \A i \in 1..n : ds[i] = cs[i] /\ i \in 1..(n + 1)
      /\ \A i \in 1..(n + 1) : i \in 1..n \/ i = n + 1
      /\ n + 1 \in 1..(n + 1)
  BY <1>2, <1>8, Appended
<1> HIDE DEF ds
<1>10. \A i \in 1..Len(ds) : Run(b, all, ds[i], k + 1)
  <2>1. ASSUME NEW i \in 1..n PROVE Run(b, all, cs[i], k + 1)
    <3>1. Stops(b, cs[i]) < At(b, x)
      BY <1>3, <1>4, DeathsAssumption
    <3>2. QED
      BY <1>2, <3>1, RunLasts DEF x
  <2>2. QED
    BY <1>6, <1>9, <2>1
<1>11. ASSUME NEW j \in 1..(k + 1) PROVE \E i \in 1..Len(ds) : Has(ds[i], all[j])
  <2>1. CASE j = k + 1
    BY <1>6, <1>9, <2>1 DEF x
  <2>2. CASE j \in 1..k
    <3>1. PICK i \in 1..n : Has(cs[i], all[j])
      BY <2>2 DEF FightGood
    <3>2. QED
      BY <1>9, <3>1
  <2>3. QED
    BY <1>1, <2>1, <2>2
<1>12. ASSUME NEW i \in 1..Len(ds), NEW j \in 1..Len(ds), i < j
       PROVE  Starts(b, ds[j]) > Stops(b, ds[i]) + FightGap
  <2>1. i \in 1..n
    BY <1>2, <1>9, <1>12
  <2>2. CASE j = n + 1
    BY <1>4, <1>6, <1>9, <2>1, <2>2
  <2>3. CASE j \in 1..n
    <3>1. Starts(b, cs[j]) > Stops(b, cs[i]) + FightGap
      BY <1>12, <2>1, <2>3 DEF FightGood
    <3>2. QED
      BY <1>9, <2>1, <2>3, <3>1
  <2>4. QED
    BY <1>9, <2>2, <2>3
<1>13. Len(ds) # 0 /\ k + 1 > 0 /\ ds[Len(ds)][Len(ds[Len(ds)])] = all[k + 1]
  BY <1>1, <1>2, <1>7, <1>9 DEF x
<1>14. FightGood(b, all, ds, k + 1)
  BY <1>9, <1>10, <1>11, <1>12, <1>13, Zenon DEF FightGood
<1>15. QED
  BY <1>14 DEF ds, e, x

\* Deaths in order are grouped into their stretches.
LEMMA RunsGiven ==
  ASSUME NEW b, NEW all, DeathsInTime(b, all)
  PROVE  FightGood(b, all, FightRuns(b, all), Len(all))
<1>1. FightGood(b, all, <<>>, 0)
  <2>1. <<>> \in Seq(Seq(ToSet(all))) /\ 1..Len(<<>>) = {} /\ 1..0 = {} /\ Len(<<>>) = 0
    OBVIOUS
  <2>2. QED
    BY <2>1 DEF FightGood
<1>2. ASSUME NEW k \in 0..(Len(all) - 1), NEW cs, FightGood(b, all, cs, k)
      PROVE  FightGood(b, all, FightOp(b, all, cs, all[k + 1]), k + 1)
  <2>1. cs \in Seq(Seq(ToSet(all))) /\ Len(cs) \in Nat /\ (cs = <<>> <=> Len(cs) = 0)
    BY <1>2 DEF FightGood
  <2>2. CASE cs # <<>> /\ At(b, all[k + 1]) - Stops(b, cs[Len(cs)]) <= FightGap
    <3>1. Len(cs) > 0
      BY <2>1, <2>2
    <3>2. FightOp(b, all, cs, all[k + 1]) = [cs EXCEPT ![Len(cs)] = Append(@, all[k + 1])]
      BY <2>2 DEF FightOp, Stops
    <3>3. QED
      BY <1>2, <2>2, <3>1, <3>2, FightJoins
  <2>3. CASE ~(cs # <<>> /\ At(b, all[k + 1]) - Stops(b, cs[Len(cs)]) <= FightGap)
    <3>1. FightOp(b, all, cs, all[k + 1]) = Append(cs, <<all[k + 1]>>)
      BY <2>3 DEF FightOp, Stops
    <3>2. Len(cs) = 0 \/ At(b, all[k + 1]) - Stops(b, cs[Len(cs)]) > FightGap
      <4>1. ASSUME Len(cs) # 0 PROVE Stops(b, cs[Len(cs)]) \in Nat /\ At(b, all[k + 1]) \in Nat
        <5>1. Len(cs) \in 1..Len(cs) /\ k \in 0..Len(all) /\ k + 1 \in 1..Len(all)
          BY <2>1, <4>1 DEF DeathsInTime
        <5>2. QED
          BY <1>2, <5>1, RunTyped DEF FightGood, DeathsInTime
      <4>2. QED
        BY <2>1, <2>3, <4>1, DeathsAssumption
    <3>3. QED
      BY <1>2, <3>1, <3>2, FightStarts
  <2>4. QED
    BY <2>2, <2>3
<1>3. all \in Seq(ToSet(all))
  BY DEF DeathsInTime
<1>4. QED
  BY <1>1, <1>2, <1>3, FightPass!FoldHolds DEF FightRuns

\* The deaths D are those of the list all, one for one.
Lists(b, all, D) ==
  /\ \A x \in D : x.time \in Nat /\ \E j \in 1..Len(all) : all[j][1] = x.victim /\ At(b, all[j]) = x.time
  /\ \A j \in 1..Len(all) : \E x \in D : all[j][1] = x.victim /\ At(b, all[j]) = x.time
  /\ \A x, y \in D : x.victim = y.victim /\ x.time = y.time => x = y
  /\ \A j, l \in 1..Len(all) : all[j][1] = all[l][1] /\ At(b, all[j]) = At(b, all[l]) => j = l

\* The deaths that no quiet time separates from x
Fight(D, x) ==
  {y \in D : IF x.time <= y.time THEN Linked({z.time : z \in D}, x.time, y.time, FightGap)
             ELSE Linked({z.time : z \in D}, y.time, x.time, FightGap)}

\* Those of a run
Within(b, D, c) == {y \in D : Starts(b, c) <= y.time /\ y.time <= Stops(b, c)}

\* A run's deaths are those not separated from one of them,
LEMMA FightIsRun ==
  ASSUME NEW b, NEW all, DeathsInTime(b, all), NEW D, Lists(b, all, D), NEW cs, FightGood(b, all, cs, Len(all)),
         NEW i \in 1..Len(cs), NEW x \in Within(b, D, cs[i])
  PROVE  Fight(D, x) = Within(b, D, cs[i])
<1> DEFINE T == {z.time : z \in D}
           I == 1..Len(cs)
           st == [h \in I |-> Starts(b, cs[h])]
           la == [h \in I |-> Stops(b, cs[h])]
<1>1. Len(all) \in Nat /\ Len(all) \in 0..Len(all) /\ \A j \in 1..Len(all) : At(b, all[j]) \in T /\ At(b, all[j]) \in Nat
  BY DEF DeathsInTime, Lists
<1>2. \A t \in T : \E j \in 1..Len(all) : t = At(b, all[j])
  BY DEF Lists
<1>3. T \in SUBSET Nat /\ FightGap \in Nat /\ x.time \in T /\ x \in D
  BY <1>1, <1>2, DeathsAssumption DEF Within
<1>4. \A h \in I : Run(b, all, cs[h], Len(all))
  BY DEF FightGood
<1>5. \A h \in I : Starts(b, cs[h]) \in Nat /\ Stops(b, cs[h]) \in Nat
  BY <1>1, <1>4, RunTyped
<1>6. st \in [I -> Nat] /\ la \in [I -> Nat] /\ \A h \in I : st[h] = Starts(b, cs[h]) /\ la[h] = Stops(b, cs[h])
  BY <1>5
<1>7. \A h \in I : la[h] \in T
  <2> SUFFICES ASSUME NEW h \in I PROVE Stops(b, cs[h]) \in T
    BY <1>6
  <2>1. Len(cs[h]) \in 1..Len(cs[h])
    BY <1>1, <1>4, RunTyped
  <2>2. PICK j \in 1..Len(all) : cs[h][Len(cs[h])] = all[j]
    BY <1>4, <2>1 DEF Run
  <2>3. QED
    BY <1>1, <2>2 DEF Stops
<1>8. \A t \in T : \E h \in I : st[h] <= t /\ t <= la[h]
  <2> SUFFICES ASSUME NEW t \in T PROVE \E h \in I : Starts(b, cs[h]) <= t /\ t <= Stops(b, cs[h])
    BY <1>6
  <2>1. PICK j \in 1..Len(all) : t = At(b, all[j])
    BY <1>2
  <2>2. PICK h \in I : Has(cs[h], all[j])
    BY DEF FightGood
  <2>3. QED
    BY <1>4, <2>1, <2>2 DEF Run
<1>9. \A h \in I : \A t \in T : st[h] <= t /\ t < la[h] => \E z \in T : t < z /\ z - t <= FightGap
  <2> SUFFICES ASSUME NEW h \in I, NEW t \in T, Starts(b, cs[h]) <= t, t < Stops(b, cs[h])
               PROVE  \E z \in T : t < z /\ z - t <= FightGap
    BY <1>6
  <2>1. PICK j \in 1..Len(all) : t = At(b, all[j])
    BY <1>2
  <2>2. PICK l \in 1..Len(all) : At(b, all[j]) < At(b, all[l]) /\ At(b, all[l]) - At(b, all[j]) <= FightGap
    BY <1>4, <2>1 DEF Run
  <2>3. QED
    BY <1>1, <2>1, <2>2
<1>10. \A h, g \in I : h # g => st[h] > la[g] + FightGap \/ st[g] > la[h] + FightGap
  <2> SUFFICES ASSUME NEW h \in I, NEW g \in I, h # g
               PROVE  Starts(b, cs[h]) > Stops(b, cs[g]) + FightGap \/ Starts(b, cs[g]) > Stops(b, cs[h]) + FightGap
    BY <1>6
  <2>1. h < g \/ g < h
    OBVIOUS
  <2>2. QED
    BY <2>1 DEF FightGood
<1> HIDE DEF T, I, st, la
<1>11. i \in I /\ st[i] <= x.time /\ x.time <= la[i]
  BY <1>6 DEF I, Within
<1>12. \A u \in T : (IF x.time <= u THEN Linked(T, x.time, u, FightGap) ELSE Linked(T, u, x.time, FightGap))
                     <=> st[i] <= u /\ u <= la[i]
  <2> SUFFICES ASSUME NEW u \in T
               PROVE  (IF x.time <= u THEN Linked(T, x.time, u, FightGap) ELSE Linked(T, u, x.time, FightGap))
                        <=> st[i] <= u /\ u <= la[i]
    OBVIOUS
  <2>1. st \in [I -> Nat] /\ la \in [I -> Nat]
    BY <1>6
  <2>2. PICK t, h : t = x.time /\ h = i
    OBVIOUS
  <2>3. /\ t \in T /\ st[h] <= t /\ t <= la[h] /\ h \in I /\ T \in SUBSET Nat /\ FightGap \in Nat /\ u \in T
    BY <1>3, <1>11, <2>2
  <2>4. (IF t <= u THEN Linked(T, t, u, FightGap) ELSE Linked(T, u, t, FightGap)) <=> st[h] <= u /\ u <= la[h]
    <3>1. Stretches(T, FightGap, I, st, la)
      BY ONLY <2>1, <2>3, <1>7, <1>8, <1>9, <1>10 DEF Stretches
    <3>2. QED
      BY ONLY <2>3, <3>1, LinkedIsTogether
  <2>5. QED
    BY <2>2, <2>4
<1>13. \A y \in D : y.time \in T
  BY DEF T
<1>14. Fight(D, x) = {y \in D : IF x.time <= y.time THEN Linked(T, x.time, y.time, FightGap) ELSE Linked(T, y.time, x.time, FightGap)}
  BY DEF Fight, T
<1>15. QED
  BY <1>6, <1>11, <1>12, <1>13, <1>14 DEF Within

\* and as many as it lists, under the same names.
LEMMA RunIsWithin ==
  ASSUME NEW b, NEW all, DeathsInTime(b, all), NEW D, Lists(b, all, D), NEW c, Run(b, all, c, Len(all))
  PROVE  /\ IsFiniteSet(Within(b, D, c)) /\ Cardinality(Within(b, D, c)) = Len(c)
         /\ {<<d[1], At(b, d)>> : d \in ToSet(c)} = {<<y.victim, y.time>> : y \in Within(b, D, c)}
         /\ Within(b, D, c) # {}
<1> DEFINE W == Within(b, D, c)
           n == Len(c)
           Is(y, d) == d[1] = y.victim /\ At(b, d) = y.time
<1>1. /\ Len(all) \in 0..Len(all) /\ n \in Nat \ {0} /\ DOMAIN c = 1..n
      /\ \A m \in 1..n : \E j \in 1..Len(all) : c[m] = all[j]
      /\ \A m, l \in 1..n : m < l => \E j, h \in 1..Len(all) : j < h /\ c[m] = all[j] /\ c[l] = all[h]
  <2>1. all \in Seq(ToSet(all)) /\ c \in Seq(ToSet(all))
    BY DEF DeathsInTime, Run
  <2>2. Len(all) \in 0..Len(all) /\ n \in Nat /\ DOMAIN c = 1..n
    BY <2>1
  <2>3. n > 0
    BY DEF Run
  <2>4. QED
    BY <2>2, <2>3 DEF Run
<1>2. \A m \in 1..n : Starts(b, c) <= At(b, c[m]) /\ At(b, c[m]) <= Stops(b, c)
  BY <1>1, RunTyped
<1>3. ASSUME NEW m \in 1..n PROVE \E y \in W : Is(y, c[m])
  <2>1. PICK j \in 1..Len(all) : c[m] = all[j]
    BY <1>1
  <2>2. PICK y \in D : all[j][1] = y.victim /\ At(b, all[j]) = y.time
    BY DEF Lists
  <2>3. QED
    BY <1>2, <2>1, <2>2 DEF Within
<1>4. ASSUME NEW y \in W PROVE \E m \in 1..n : Is(y, c[m])
  <2>1. PICK j \in 1..Len(all) : all[j][1] = y.victim /\ At(b, all[j]) = y.time
    BY DEF Lists, Within
  <2>2. Has(c, all[j])
    BY <2>1 DEF Run, Within
  <2>3. QED
    BY <2>1, <2>2 DEF Has
<1>5. ASSUME NEW m \in 1..n, NEW l \in 1..n, NEW y \in W, Is(y, c[m]), Is(y, c[l]) PROVE m = l
  <2>1. \A g, h \in 1..n : g < h /\ Is(y, c[g]) => ~Is(y, c[h])
    <3> SUFFICES ASSUME NEW g \in 1..n, NEW h \in 1..n, g < h, Is(y, c[g]), Is(y, c[h]) PROVE FALSE
      OBVIOUS
    <3>1. PICK j \in 1..Len(all), k \in 1..Len(all) : j < k /\ c[g] = all[j] /\ c[h] = all[k]
      BY <1>1
    <3>2. j = k
      BY <3>1 DEF Lists
    <3>3. QED
      BY <3>1, <3>2
  <2>2. m < l \/ l < m \/ m = l
    BY <1>1
  <2>3. QED
    BY <1>5, <2>1, <2>2
<1>6. \A x, y \in W : \A m \in 1..n : Is(x, c[m]) /\ Is(y, c[m]) => x = y
  BY DEF Lists, Within
<1> HIDE DEF W, Is
<1> DEFINE f == [m \in 1..n |-> CHOOSE y \in W : Is(y, c[m])]
<1>7. \A m \in 1..n : f[m] \in W /\ Is(f[m], c[m])
  BY <1>3
<1>8. f \in Bijection(1..n, W)
  <2>1. f \in [1..n -> W]
    BY <1>7
  <2>2. \A m, l \in 1..n : f[m] = f[l] => m = l
    BY <1>5, <1>7
  <2>3. ASSUME NEW y \in W PROVE \E m \in 1..n : f[m] = y
    <3>1. PICK m \in 1..n : Is(y, c[m])
      BY <1>4
    <3>2. QED
      BY <1>6, <1>7, <3>1
  <2> HIDE DEF f
  <2>4. QED
    BY <2>1, <2>2, <2>3 DEF Bijection, Injection, Surjection, IsInjective
<1>9. ExistsBijection(1..n, W)
  BY <1>8 DEF ExistsBijection
<1>10. IsFiniteSet(1..n) /\ Cardinality(1..n) = n
  BY <1>1, FS_Interval
<1>11. IsFiniteSet(W) /\ Cardinality(W) = n
  BY <1>9, <1>10, FS_Bijection
<1>12. {<<d[1], At(b, d)>> : d \in ToSet(c)} = {<<y.victim, y.time>> : y \in W}
  <2>1. ASSUME NEW d \in ToSet(c) PROVE \E y \in W : <<d[1], At(b, d)>> = <<y.victim, y.time>>
    BY <1>1, <1>3 DEF ToSet, Is
  <2>2. ASSUME NEW y \in W PROVE \E d \in ToSet(c) : <<d[1], At(b, d)>> = <<y.victim, y.time>>
    BY <1>1, <1>4 DEF ToSet, Is
  <2>3. QED
    BY <2>1, <2>2
<1>13. W # {}
  <2>1. 1 \in 1..n
    BY <1>1
  <2>2. QED
    BY <1>3, <2>1
<1>14. QED
  BY <1>11, <1>12, <1>13 DEF W

\* What the property says of the fights of deaths D
FightsFit(b, D, fights) ==
  LET stretches == {s \in {Fight(D, x) : x \in D} : Cardinality(s) >= MinDeaths}
  IN  /\ {{<<d[1], At(b, d)>> : d \in ToSet(f)} : f \in ToSet(fights)} = {{<<y.victim, y.time>> : y \in s} : s \in stretches}
      /\ Len(fights) = Cardinality(stretches)
      /\ \A i, j \in DOMAIN fights : i < j => At(b, Last(fights[i])) < At(b, Head(fights[j]))

\* The runs that are kept are the stretches with enough deaths.
LEMMA FightsAreStretches ==
  ASSUME NEW b, NEW all, DeathsInTime(b, all), NEW D, Lists(b, all, D), NEW cs, FightGood(b, all, cs, Len(all)), NEW fights,
         fights = Kept(cs, {c \in ToSet(cs) : Len(c) >= MinDeaths})
  PROVE  FightsFit(b, D, fights)
<1> DEFINE big == {c \in ToSet(cs) : Len(c) >= MinDeaths}
           stretches == {s \in {Fight(D, x) : x \in D} : Cardinality(s) >= MinDeaths}
           W(c) == Within(b, D, c)
           n == Len(fights)
<1>1. cs \in Seq(Seq(ToSet(all))) /\ \A i \in 1..Len(cs) : Run(b, all, cs[i], Len(all)) /\ cs[i] \in ToSet(cs)
  <2>1. cs \in Seq(Seq(ToSet(all)))
    BY DEF FightGood
  <2>2. QED
    BY <2>1 DEF FightGood, ToSet
<1>2. KeepGood(big, cs, fights, Len(cs))
  <2> HIDE DEF big
  <2>1. fights = Kept(cs, big)
    BY DEF big
  <2>2. QED
    BY <1>1, <2>1, KeptGives
<1>3. n \in Nat /\ DOMAIN fights = 1..n /\ ToSet(fights) = {fights[m] : m \in 1..n}
  <2>1. fights \in Seq(ToSet(cs))
    BY <1>2 DEF KeepGood
  <2>2. n \in Nat /\ DOMAIN fights = 1..n
    BY <2>1
  <2>3. QED
    BY <2>2 DEF ToSet
<1>4. \A i \in 1..n : Len(fights[i]) >= MinDeaths /\ \E j \in 1..Len(cs) : fights[i] = cs[j]
  BY <1>2 DEF KeepGood
<1>5. \A i \in 1..n : Run(b, all, fights[i], Len(all))
  BY <1>1, <1>4
<1>6. Len(all) \in 0..Len(all)
  BY DEF DeathsInTime
<1>7. ASSUME NEW i \in 1..n, NEW j \in 1..n, i < j PROVE Stops(b, fights[i]) < Starts(b, fights[j])
  <2>1. PICK m \in 1..Len(cs), l \in 1..Len(cs) : m < l /\ fights[i] = cs[m] /\ fights[j] = cs[l]
    BY <1>2, <1>7 DEF KeepGood
  <2>2. Starts(b, cs[l]) > Stops(b, cs[m]) + FightGap
    BY <2>1 DEF FightGood
  <2>3. Stops(b, cs[m]) \in Nat /\ Starts(b, cs[l]) \in Nat
    BY <1>1, <1>6, RunTyped
  <2>4. QED
    BY <2>1, <2>2, <2>3, DeathsAssumption
<1>8. ASSUME NEW i \in 1..n PROVE W(fights[i]) \in stretches
  <2>1. PICK j \in 1..Len(cs) : fights[i] = cs[j]
    BY <1>4
  <2>2. W(fights[i]) # {} /\ Cardinality(W(fights[i])) = Len(fights[i])
    BY <1>5, RunIsWithin
  <2>3. PICK x \in W(fights[i]) : TRUE
    BY <2>2
  <2>4. Fight(D, x) = W(fights[i]) /\ x \in D
    <3>1. x \in Within(b, D, cs[j])
      BY <2>1, <2>3
    <3>2. Fight(D, x) = Within(b, D, cs[j]) /\ x \in D
      BY <3>1, FightIsRun DEF Within
    <3>3. QED
      BY <2>1, <3>2
  <2>5. QED
    BY <1>4, <2>2, <2>4
<1>9. ASSUME NEW s \in stretches PROVE \E i \in 1..n : s = W(fights[i])
  <2>1. PICK x \in D : s = Fight(D, x)
    OBVIOUS
  <2>2. PICK j \in 1..Len(all) : all[j][1] = x.victim /\ At(b, all[j]) = x.time
    BY DEF Lists
  <2>3. PICK i \in 1..Len(cs) : Has(cs[i], all[j])
    BY DEF FightGood
  <2>4. x \in W(cs[i])
    BY <1>1, <2>2, <2>3 DEF Run, Within
  <2>5. s = W(cs[i])
    BY <2>1, <2>4, FightIsRun
  <2>6. Cardinality(W(cs[i])) = Len(cs[i])
    BY <1>1, RunIsWithin
  <2>7. cs[i] \in big
    BY <1>1, <2>5, <2>6
  <2>8. \E m \in 1..n : fights[m] = cs[i]
    BY <1>2, <2>7 DEF KeepGood
  <2>9. QED
    BY <2>5, <2>8
<1>10. ASSUME NEW i \in 1..n, NEW j \in 1..n, W(fights[i]) = W(fights[j]) PROVE i = j
  <2>1. \A l, m \in 1..n : l < m => W(fights[l]) # W(fights[m])
    <3> SUFFICES ASSUME NEW l \in 1..n, NEW m \in 1..n, l < m, W(fights[l]) = W(fights[m]) PROVE FALSE
      OBVIOUS
    <3>1. PICK y \in W(fights[l]) : TRUE
      BY <1>5, RunIsWithin
    <3>2. y.time <= Stops(b, fights[l]) /\ Starts(b, fights[m]) <= y.time /\ y.time \in Nat
      BY <3>1 DEF Within, Lists
    <3>3. Stops(b, fights[l]) \in Nat /\ Starts(b, fights[m]) \in Nat
      BY <1>5, <1>6, RunTyped
    <3>4. Stops(b, fights[l]) < Starts(b, fights[m])
      BY <1>7
    <3> HIDE DEF W, n
    <3>5. QED
      BY ONLY <3>2, <3>3, <3>4
  <2>2. i < j \/ j < i \/ i = j
    BY <1>3
  <2>3. QED
    BY <1>10, <2>1, <2>2
<1> HIDE DEF W, n, stretches, big
<1>11. n = Cardinality(stretches)
  <2> DEFINE f == [i \in 1..n |-> W(fights[i])]
  <2>1. f \in [1..n -> stretches] /\ \A i \in 1..n : f[i] = W(fights[i])
    BY <1>8
  <2>2. \A s \in stretches : \E i \in 1..n : f[i] = s
    BY <1>9
  <2>3. \A i, j \in 1..n : f[i] = f[j] => i = j
    BY <1>10
  <2> HIDE DEF f
  <2>4. f \in Bijection(1..n, stretches)
    BY <2>1, <2>2, <2>3 DEF Bijection, Injection, Surjection, IsInjective
  <2>5. ExistsBijection(1..n, stretches)
    BY <2>4 DEF ExistsBijection
  <2>6. QED
    BY <1>3, <2>5, FS_CountingElements
<1>12. {{<<d[1], At(b, d)>> : d \in ToSet(f)} : f \in ToSet(fights)} = {{<<y.victim, y.time>> : y \in s} : s \in stretches}
  <2> DEFINE names(f) == {<<d[1], At(b, d)>> : d \in ToSet(f)}
             keys(s) == {<<y.victim, y.time>> : y \in s}
  <2>1. \A i \in 1..n : names(fights[i]) = keys(W(fights[i]))
    <3> SUFFICES ASSUME NEW i \in 1..n PROVE names(fights[i]) = keys(W(fights[i]))
      OBVIOUS
    <3>1. Run(b, all, fights[i], Len(all))
      BY <1>5
    <3>2. PICK c : c = fights[i]
      OBVIOUS
    <3>3. Run(b, all, c, Len(all))
      BY <3>1, <3>2
    <3>4. {<<d[1], At(b, d)>> : d \in ToSet(c)} = {<<y.victim, y.time>> : y \in Within(b, D, c)}
      BY <3>3, RunIsWithin
    <3>5. QED
      BY <3>2, <3>4 DEF W, names, keys
  <2> HIDE DEF names, keys
  <2>2. ASSUME NEW f \in ToSet(fights) PROVE \E s \in stretches : names(f) = keys(s)
    BY <1>3, <1>8, <2>1
  <2>3. ASSUME NEW s \in stretches PROVE \E f \in ToSet(fights) : names(f) = keys(s)
    BY <1>3, <1>9, <2>1
  <2>4. {names(f) : f \in ToSet(fights)} = {keys(s) : s \in stretches}
    BY <2>2, <2>3
  <2>5. QED
    BY <2>4 DEF names, keys
<1>13. \A i, j \in 1..n : i < j => At(b, Last(fights[i])) < At(b, Head(fights[j]))
  <2>1. \A i \in 1..n : Last(fights[i]) = fights[i][Len(fights[i])] /\ Head(fights[i]) = fights[i][1]
    BY DEF Last
  <2>2. QED
    BY <1>7, <2>1 DEF Starts, Stops
<1>14. QED
  BY <1>3, <1>11, <1>12, <1>13 DEF FightsFit, stretches, n

\* The deaths of all players, by player and place in his list
AllListedDeaths(b) == UNION {{v} \X DOMAIN b.evs[v] : v \in Heroes}

InTimeOf(b) == {x \in AllListedDeaths(b) \X AllListedDeaths(b) :
                  At(b, x[1]) < At(b, x[2]) \/ (At(b, x[1]) = At(b, x[2]) /\ Earlier(x[1], x[2]))}

\* Every list has its player's deaths, in the order of time.
ListsTell(b, D) ==
  /\ \A v \in Heroes : \E n \in Nat : DOMAIN b.evs[v] = 1..n
  /\ \A d \in AllListedDeaths(b) : At(b, d) \in Nat /\ \E x \in D : x.victim = d[1] /\ x.time = At(b, d)
  /\ \A x \in D : x.time \in Nat /\ \E d \in AllListedDeaths(b) : x.victim = d[1] /\ x.time = At(b, d)
  /\ \A d, e \in AllListedDeaths(b) : d[1] = e[1] /\ At(b, d) = At(b, e) => d = e
  /\ \A x, y \in D : x.victim = y.victim /\ x.time = y.time => x = y

LEMMA ListsTold ==
  ASSUME DeathsInv, game.entries = {}
  PROVE  ListsTell(board, game.died) /\ IsFiniteSet(game.died)
<1> DEFINE S == AllListedDeaths(board)
<1>0. IsFiniteSet(game.died)
  BY DEF DeathsInv, GameOK
<1>1. ASSUME NEW p \in Heroes
      PROVE  LET s == board.evs[p]
             IN  /\ s \in Seq(Ev) /\ Ordered(s)
                 /\ \A x \in DiedOf(p) : x.time \in Nat /\ \E i \in 1..Len(s) : s[i].time = x.time
                 /\ \A i \in 1..Len(s) : \E x \in DiedOf(p) : x.time = s[i].time
                 /\ \A x, y \in DiedOf(p) : x.time = y.time => x = y
  <2> DEFINE s == board.evs[p]
             D == DiedOf(p)
  <2>1. s \in Seq(Ev) /\ DeathsOf(D, p, game.tick) /\ game.tick \in Nat
    BY DEF DeathsInv, GameOK, BoardOK
  <2>2. PICK t, g, l : t = game.tick /\ g = board.gold[p] /\ l = board.laned[p]
    OBVIOUS
  <2>3. ListFits(s, g, l, D, {}, t, p)
    BY <1>1, <2>2 DEF DeathsInv, ListOK
  <2> HIDE DEF s, D
  <2>4. t \in Nat /\ s \in Seq(Ev) /\ DeathsOf(D, p, t)
    BY <2>1, <2>2
  <2>5. /\ \A i \in 1..Len(s) : \E x \in D : EventIs(s[i], x, {}, t) /\ s[i].killer = x.killer
        /\ \A x \in D : \E i \in 1..Len(s) : s[i].time = x.time
    BY <2>3, <2>4, NoneUnread, SMTT(30)
  <2>6. \A i \in 1..Len(s) : \E x \in D : x.time = s[i].time
    BY <2>5 DEF EventIs
  <2>7. (\A x \in D : x.time \in Nat) /\ \A x, y \in D : x.time = y.time => x = y
    BY <2>4 DEF DeathsOf
  <2>8. Ordered(s)
    BY <2>3 DEF ListFits
  <2>9. QED
    BY <2>1, <2>5, <2>6, <2>7, <2>8 DEF s, D
<1>2. \A v \in Heroes : Len(board.evs[v]) \in Nat /\ DOMAIN board.evs[v] = 1..Len(board.evs[v])
  BY <1>1
<1>3. ASSUME NEW d \in S
      PROVE  /\ d[1] \in Heroes /\ d[2] \in 1..Len(board.evs[d[1]]) /\ At(board, d) = board.evs[d[1]][d[2]].time
             /\ d = <<d[1], d[2]>>
  <2>1. PICK v \in Heroes : d \in {v} \X DOMAIN board.evs[v]
    BY DEF AllListedDeaths
  <2>2. d[1] = v /\ d[2] \in DOMAIN board.evs[v] /\ d = <<d[1], d[2]>>
    BY <2>1
  <2>3. QED
    BY <1>2, <2>2 DEF At
<1>4. ASSUME NEW v \in Heroes, NEW i \in 1..Len(board.evs[v])
      PROVE  <<v, i>> \in S /\ At(board, <<v, i>>) = board.evs[v][i].time
  BY <1>2 DEF AllListedDeaths, At
<1> HIDE DEF S
<1>5. ASSUME NEW d \in S PROVE At(board, d) \in Nat /\ \E x \in game.died : x.victim = d[1] /\ x.time = At(board, d)
  <2>1. PICK x \in DiedOf(d[1]) : x.time = At(board, d)
    BY <1>1, <1>3
  <2>2. QED
    BY <1>1, <1>3, <2>1 DEF DiedOf
<1>6. ASSUME NEW x \in game.died PROVE x.time \in Nat /\ \E d \in S : x.victim = d[1] /\ x.time = At(board, d)
  <2>1. x.victim \in Heroes /\ x \in DiedOf(x.victim)
    BY DEF DeathsInv, GameOK, DiedOf
  <2>2. PICK i \in 1..Len(board.evs[x.victim]) : board.evs[x.victim][i].time = x.time
    BY <1>1, <2>1
  <2>3. <<x.victim, i>> \in S /\ At(board, <<x.victim, i>>) = x.time
    BY <1>4, <2>1, <2>2
  <2>4. QED
    BY <1>1, <2>1, <2>3
<1>7. ASSUME NEW d \in S, NEW e \in S, d[1] = e[1], At(board, d) = At(board, e) PROVE d = e
  <2> DEFINE s == board.evs[d[1]]
  <2>1. d[1] \in Heroes /\ d[2] \in 1..Len(s) /\ e[2] \in 1..Len(s) /\ s[d[2]].time = At(board, d) /\ s[e[2]].time = At(board, d)
    BY <1>3, <1>7
  <2>2. Ordered(s) /\ Len(s) \in Nat
    BY <1>1, <1>2, <2>1
  <2>t. At(board, d) \in Nat
    BY <1>5
  <2> HIDE DEF s
  <2>3. ~(d[2] < e[2]) /\ ~(e[2] < d[2])
    BY <2>1, <2>2, <2>t DEF Ordered
  <2>4. d[2] = e[2]
    BY <2>1, <2>2, <2>3
  <2>5. QED
    BY <1>3, <1>7, <2>4
<1>8. ASSUME NEW x \in game.died, NEW y \in game.died, x.victim = y.victim, x.time = y.time PROVE x = y
  <2>1. x.victim \in Heroes /\ x \in DiedOf(x.victim) /\ y \in DiedOf(x.victim)
    BY <1>8 DEF DeathsInv, GameOK, DiedOf
  <2>2. QED
    BY <1>1, <1>8, <2>1
<1>9. QED
  BY <1>0, <1>2, <1>5, <1>6, <1>7, <1>8 DEF ListsTell, S

\* Teamfights sorts all deaths and keeps the runs of them that are large enough.
LEMMA TeamfightsAre ==
  ASSUME NEW b, NEW all,
         all = [k \in 1..Cardinality(AllListedDeaths(b)) |->
                  CHOOSE x \in AllListedDeaths(b) : PlaceIn(AllListedDeaths(b), InTimeOf(b), x) = k]
  PROVE  Teamfights(b) = Kept(FightRuns(b, all), {c \in ToSet(FightRuns(b, all)) : Len(c) >= MinDeaths})
<1> DEFINE S == AllListedDeaths(b)
           before(d, e) == At(b, d) < At(b, e) \/ (At(b, d) = At(b, e) /\ Earlier(d, e))
           place == [x \in S |-> Cardinality({y \in S : before(y, x)}) + 1]
           sorted == [k \in 1..Cardinality(S) |-> CHOOSE x \in S : place[x] = k]
           add(cs, d) == IF cs # <<>> /\ At(b, d) - At(b, cs[Len(cs)][Len(cs[Len(cs)])]) <= FightGap
                         THEN [cs EXCEPT ![Len(cs)] = Append(@, d)] ELSE Append(cs, <<d>>)
           runs == FoldLeft(add, <<>>, sorted)
<1>1. Teamfights(b) = Kept(runs, {c \in ToSet(runs) : Len(c) >= MinDeaths})
  BY DEF Teamfights, Sorted, AllListedDeaths
<1>2. \A x \in S : PlaceIn(S, InTimeOf(b), x) = place[x]
  <2> SUFFICES ASSUME NEW x \in S PROVE PlaceIn(S, InTimeOf(b), x) = place[x]
    OBVIOUS
  <2>1. {y \in S : <<y, x>> \in InTimeOf(b)} = {y \in S : before(y, x)}
    BY DEF InTimeOf
  <2>2. QED
    BY <2>1 DEF PlaceIn
<1>3. sorted = all
  <2> HIDE DEF S, place
  <2> DEFINE mine(k) == CHOOSE x \in S : place[x] = k
             its(k) == CHOOSE x \in S : PlaceIn(S, InTimeOf(b), x) = k
  <2>1. \A k : mine(k) = its(k)
    BY <1>2
  <2>2. sorted = [k \in 1..Cardinality(S) |-> mine(k)]
    OBVIOUS
  <2>3. all = [k \in 1..Cardinality(S) |-> its(k)]
    BY DEF S
  <2> HIDE DEF mine, its, sorted
  <2>4. QED
    BY <2>1, <2>2, <2>3
<1>4. \A s : FoldLeft(add, <<>>, s) = FightPass!Fold(b, all, <<>>, s)
  BY DEF FightPass!Fold, FightOp, FoldLeft, FightPass!MapThenFoldSet, MapThenFoldSet, FightPass!Highest, Max
<1> HIDE DEF add, sorted
<1>5. runs = FightRuns(b, all)
  BY <1>3, <1>4 DEF FightRuns
<1>6. QED
  BY <1>1, <1>5

\* The order by time, player and place has no ties.
LEMMA InTimeOrders ==
  ASSUME NEW b, NEW D, ListsTell(b, D)
  PROVE  StrictOrder(InTimeOf(b), AllListedDeaths(b))
<1> DEFINE S == AllListedDeaths(b)
           R == InTimeOf(b)
<1>1. ASSUME NEW d \in S PROVE d = <<d[1], d[2]>> /\ d[1] \in Nat /\ d[2] \in Nat /\ At(b, d) \in Nat
  <2>1. PICK v \in Heroes : d \in {v} \X DOMAIN b.evs[v]
    BY DEF AllListedDeaths
  <2>2. PICK n \in Nat : DOMAIN b.evs[v] = 1..n
    BY DEF ListsTell
  <2>3. v \in Nat /\ At(b, d) \in Nat
    BY DeathsAssumption DEF ListsTell
  <2>4. QED
    BY <2>1, <2>2, <2>3
<1>2. \A d, e \in S : <<d, e>> \in R <=> At(b, d) < At(b, e) \/ (At(b, d) = At(b, e) /\ (d[1] < e[1] \/ (d[1] = e[1] /\ d[2] < e[2])))
  BY DEF InTimeOf, Earlier
<1> HIDE DEF S, R
<1>3. ASSUME NEW d \in S, NEW e \in S PROVE d = e \/ <<d, e>> \in R \/ <<e, d>> \in R
  <2>1. d[1] = e[1] /\ d[2] = e[2] => d = e
    BY <1>1
  <2>2. /\ At(b, d) \in Nat /\ At(b, e) \in Nat /\ d[1] \in Nat /\ e[1] \in Nat /\ d[2] \in Nat /\ e[2] \in Nat
    BY <1>1
  <2>3. QED
    BY <1>2, <2>1, <2>2
<1>4. ASSUME NEW d \in S PROVE <<d, d>> \notin R
  BY <1>1, <1>2
<1>5. ASSUME NEW d \in S, NEW e \in S, NEW f \in S, <<d, e>> \in R, <<e, f>> \in R PROVE <<d, f>> \in R
  <2>1. /\ At(b, d) \in Nat /\ At(b, e) \in Nat /\ d[1] \in Nat /\ e[1] \in Nat /\ d[2] \in Nat /\ e[2] \in Nat
        /\ At(b, f) \in Nat /\ f[1] \in Nat /\ f[2] \in Nat
    BY <1>1
  <2>2. QED
    BY <1>2, <1>5, <2>1
<1>6. QED
  BY <1>3, <1>4, <1>5 DEF StrictOrder, S, R

\* Only so many deaths are listed as there were.
LEMMA ListedFinite ==
  ASSUME NEW b, NEW D, ListsTell(b, D), IsFiniteSet(D)
  PROVE  IsFiniteSet(AllListedDeaths(b))
<1> DEFINE S == AllListedDeaths(b)
           Is(d, x) == x.victim = d[1] /\ x.time = At(b, d)
           f == [d \in S |-> CHOOSE x \in D : Is(d, x)]
<1>1. \A d \in S : f[d] \in D /\ Is(d, f[d])
  BY DEF ListsTell
<1>3. f \in [S -> D]
  BY <1>1
<1> HIDE DEF f
<1>2. \A d, e \in S : f[d] = f[e] => d = e
  BY <1>1 DEF ListsTell
<1> HIDE DEF S
<1>4. f \in Injection(S, D)
  BY <1>2, <1>3 DEF Injection, IsInjective
<1>5. QED
  BY <1>4, FS_Injection DEF S

\* The fights of the listed deaths are the stretches.
LEMMA FightsOfDeaths ==
  ASSUME NEW b, NEW D, ListsTell(b, D), IsFiniteSet(D)
  PROVE  FightsFit(b, D, Teamfights(b))
<1> DEFINE S == AllListedDeaths(b)
           R == InTimeOf(b)
           all == [k \in 1..Cardinality(S) |-> CHOOSE x \in S : PlaceIn(S, R, x) = k]
           cs == FightRuns(b, all)
<1>1. StrictOrder(R, S) /\ IsFiniteSet(S)
  BY InTimeOrders, ListedFinite
<1>2. Teamfights(b) = Kept(cs, {c \in ToSet(cs) : Len(c) >= MinDeaths})
  BY TeamfightsAre
<1>3. InOrderOf(all, S, R)
  BY <1>1, SortedGives
<1> HIDE DEF all, cs
<1>4. all \in Seq(S) /\ Len(all) \in Nat /\ DOMAIN all = 1..Len(all) /\ \A j \in 1..Len(all) : all[j] \in S
  BY <1>3 DEF InOrderOf
<1>5. \A j, l \in 1..Len(all) : j < l => <<all[j], all[l]>> \in R
  BY <1>3 DEF InOrderOf
<1>6. \A d, e \in S : <<d, e>> \in R => At(b, d) <= At(b, e) /\ d # e
  <2> SUFFICES ASSUME NEW d \in S, NEW e \in S, <<d, e>> \in R PROVE At(b, d) <= At(b, e) /\ d # e
    OBVIOUS
  <2>1. At(b, d) \in Nat /\ At(b, e) \in Nat
    BY DEF ListsTell
  <2>2. At(b, d) < At(b, e) \/ At(b, d) = At(b, e)
    BY DEF InTimeOf
  <2>3. d # e
    BY <1>1 DEF StrictOrder
  <2>4. QED
    BY <2>1, <2>2, <2>3
<1> HIDE DEF S, R
<1>7. DeathsInTime(b, all)
  <2>1. ToSet(all) = {all[j] : j \in 1..Len(all)}
    BY <1>4 DEF ToSet
  <2>2. all \in Seq(ToSet(all))
    <3>1. all \in [1..Len(all) -> ToSet(all)]
      BY <1>4, <2>1
    <3>2. \A T : \A n \in Nat : \A f : f \in [1..n -> T] => f \in Seq(T)
      OBVIOUS
    <3>3. QED
      BY <1>4, <3>1, <3>2
  <2>3. \A j \in 1..Len(all) : At(b, all[j]) \in Nat
    BY <1>4 DEF ListsTell, S
  <2>4. QED
    BY <1>4, <1>5, <1>6, <2>2, <2>3 DEF DeathsInTime
<1>8. Lists(b, all, D)
  <2>1. \A d \in S : \E j \in 1..Len(all) : all[j] = d
    BY <1>3 DEF InOrderOf
  <2>2. \A j, l \in 1..Len(all) : all[j] = all[l] => j = l
    <3> SUFFICES ASSUME NEW j \in 1..Len(all), NEW l \in 1..Len(all), all[j] = all[l] PROVE j = l
      OBVIOUS
    <3>1. ~(j < l) /\ ~(l < j)
      BY <1>4, <1>5, <1>6
    <3>2. QED
      BY <3>1
  <2>3. ASSUME NEW x \in D PROVE x.time \in Nat /\ \E j \in 1..Len(all) : all[j][1] = x.victim /\ At(b, all[j]) = x.time
    <3>1. PICK d \in S : x.victim = d[1] /\ x.time = At(b, d)
      BY DEF ListsTell, S
    <3>2. QED
      BY <2>1, <3>1 DEF ListsTell
  <2>4. ASSUME NEW j \in 1..Len(all) PROVE \E x \in D : all[j][1] = x.victim /\ At(b, all[j]) = x.time
    BY <1>4 DEF ListsTell, S
  <2>5. ASSUME NEW j \in 1..Len(all), NEW l \in 1..Len(all), all[j][1] = all[l][1], At(b, all[j]) = At(b, all[l]) PROVE j = l
    BY <1>4, <2>2, <2>5 DEF ListsTell, S
  <2>6. \A x, y \in D : x.victim = y.victim /\ x.time = y.time => x = y
    BY DEF ListsTell
  <2>7. QED
    BY <2>3, <2>4, <2>5, <2>6 DEF Lists
<1>9. FightGood(b, all, cs, Len(all))
  BY <1>7, RunsGiven DEF cs
<1>10. QED
  BY <1>2, <1>7, <1>8, <1>9, FightsAreStretches

\* What the replay still owes the scoreboard when it is over: nothing.
DoneInv == game.over => game.entries = {} /\ game.owed = {}

LEMMA DoneInvInit == DeathsInit => DoneInv
BY DEF DeathsInit, NewGame, DoneInv

LEMMA DoneInvNext == DeathsInv /\ DoneInv /\ [DeathsNext]_<<game, board>> => DoneInv'
<1> SUFFICES ASSUME DeathsInv, DoneInv, [DeathsNext]_<<game, board>> PROVE DoneInv'
  OBVIOUS
<1>1. ASSUME NEW d \in Deaths, Die(d) PROVE DoneInv'
  <2>1. ~game.over
    BY <1>1 DEF Die
  <2>2. game'.over = game.over
    BY <1>1 DEF Die, DeathsInv, GameOK, GameFields
  <2>3. QED
    BY <2>1, <2>2 DEF DoneInv
<1>2. ASSUME NEW e \in game.entries, LogEntry(e) PROVE DoneInv'
  BY <1>2 DEF LogEntry, DoneInv
<1>3. ASSUME NEW p \in Heroes, NEW x \in game.owed, CounterRises(p, x) PROVE DoneInv'
  BY <1>3 DEF CounterRises, DoneInv
<1>4. CASE NextTick
  BY <1>4 DEF NextTick, DoneInv
<1>5. CASE EndOfReplay
  BY <1>5 DEF EndOfReplay, DoneInv, DeathsInv, GameOK, GameFields
<1>6. CASE UNCHANGED <<game, board>>
  BY <1>6 DEF DoneInv
<1>7. QED
  BY <1>1, <1>2, <1>3, <1>4, <1>5, <1>6 DEF DeathsNext

\* When the replay is over, its fights are shown.
LEMMA FightsShown == DeathsInv /\ DoneInv => TeamfightsAreStretches
<1> SUFFICES ASSUME DeathsInv, DoneInv, game.over
             PROVE  LET times == {x.time : x \in game.died}
                        joined(x, y) == IF x.time <= y.time THEN Linked(times, x.time, y.time, FightGap)
                                        ELSE Linked(times, y.time, x.time, FightGap)
                        stretches == {s \in {{y \in game.died : joined(x, y)} : x \in game.died} : Cardinality(s) >= MinDeaths}
                        fights == Teamfights(board)
                    IN  /\ {{<<d[1], At(board, d)>> : d \in ToSet(f)} : f \in ToSet(fights)}
                             = {{<<y.victim, y.time>> : y \in s} : s \in stretches}
                        /\ Len(fights) = Cardinality(stretches)
                        /\ \A i, j \in DOMAIN fights : i < j => At(board, Last(fights[i])) < At(board, Head(fights[j]))
  BY DEF TeamfightsAreStretches
<1>1. ListsTell(board, game.died) /\ IsFiniteSet(game.died)
  BY ListsTold DEF DoneInv
<1>2. FightsFit(board, game.died, Teamfights(board))
  BY <1>1, FightsOfDeaths
<1>3. QED
  BY <1>2 DEF FightsFit, Fight

\* Whatever dies in whichever order, the fights of a finished replay are the stretches
\* of its deaths with enough of them, each once and in the order of time
\* (main.go, detectTeamfights).
THEOREM FightsAreTheStretches == Spec => []TeamfightsAreStretches
<1>1. Init => DeathsInv /\ DoneInv
  BY DeathsInvInit, DoneInvInit DEF Init
<1>2. DeathsInv /\ DoneInv /\ [Next]_parserVars => DeathsInv' /\ DoneInv'
  <2>1. [Next]_parserVars => [DeathsNext]_<<game, board>>
    BY DEF Next, parserVars
  <2>2. QED
    BY <2>1, DeathsInvNext, DoneInvNext
<1>3. QED
  BY <1>1, <1>2, FightsShown, PTL DEF Spec

-----------------------------------------------------------------------------
(*****************************************************************************)
(* Assists: the rises of a counter are the deaths its player is credited     *)
(* with, one for one; the two loops pair each with one death at most.        *)
(*****************************************************************************)
\* Deaths and rises a player's assists are paired from
Scored(b, p) ==
  /\ IsFiniteSet(EnemyDeaths(b, p)) /\ b.rises[p] \in Seq(Nat)
  /\ \A d \in EnemyDeaths(b, p) : d = <<d[1], d[2]>> /\ d[1] \in Nat /\ d[2] \in Nat /\ At(b, d) \in Nat

Near(b, p, d, k) == Gap(At(b, d), b.rises[p][k]) <= Lag

\* Pairs of a death and a rise near it, no death and no rise twice
Matching(b, p, got) ==
  /\ got \subseteq EnemyDeaths(b, p) \X (1..Len(b.rises[p]))
  /\ \A x \in got : Near(b, p, x[1], x[2])
  /\ \A x, y \in got : x[1] = y[1] \/ x[2] = y[2] => x = y

\* A death and a rise with nothing else near them
Only(b, p, d, k) ==
  /\ d \in EnemyDeaths(b, p) /\ k \in 1..Len(b.rises[p]) /\ Near(b, p, d, k)
  /\ \A e \in EnemyDeaths(b, p) : Near(b, p, e, k) => e = d
  /\ \A j \in 1..Len(b.rises[p]) : Near(b, p, d, j) => j = k

\* The pairs that ListedPairs looks at, and their order
ListedNear(b, p) ==
  {x \in EnemyDeaths(b, p) \X DOMAIN b.rises[p] :
     p \in b.evs[x[1][1]][x[1][2]].assists /\ Gap(At(b, x[1]), b.rises[p][x[2]]) <= Lag}

Closer(b, p, x, y) ==
  LET dt(z) == Gap(At(b, z[1]), b.rises[p][z[2]])
  IN  dt(x) < dt(y) \/ (dt(x) = dt(y) /\ (Earlier(x[1], y[1]) \/ (x[1] = y[1] /\ x[2] < y[2])))

CloserIn(b, p) == {z \in ListedNear(b, p) \X ListedNear(b, p) : Closer(b, p, z[1], z[2])}

\* The step of the loop of ListedPairs
TakeOp(b, p, got, x) == IF \E y \in got : y[1] = x[1] \/ y[2] = x[2] THEN got ELSE got \cup {x}

TakeGood(b, p, got, k) == Matching(b, p, got)

TakePass == INSTANCE FoldRule WITH Op <- TakeOp, Good <- TakeGood

\* The distance between two times
LEMMA GapNat == \A t, u \in Nat : Gap(t, u) \in Nat /\ (t <= u => Gap(t, u) = u - t) /\ (u <= t => Gap(t, u) = t - u)
BY DEF Gap

\* The nearest pairs first: an order without ties
LEMMA CloserOrders ==
  ASSUME NEW b, NEW p, Scored(b, p)
  PROVE  StrictOrder(CloserIn(b, p), ListedNear(b, p)) /\ IsFiniteSet(ListedNear(b, p))
<1> DEFINE S == ListedNear(b, p)
           E == EnemyDeaths(b, p)
           n == Len(b.rises[p])
           dt(z) == Gap(At(b, z[1]), b.rises[p][z[2]])
<1>1. n \in Nat /\ DOMAIN b.rises[p] = 1..n /\ \A k \in 1..n : b.rises[p][k] \in Nat
  <2>1. b.rises[p] \in Seq(Nat)
    BY DEF Scored
  <2>2. QED
    BY <2>1
<1>2. ASSUME NEW z \in S
      PROVE  /\ z = <<z[1], z[2]>> /\ z[1] \in E /\ z[2] \in 1..n /\ z[1][1] \in Nat /\ z[1][2] \in Nat /\ z[1] = <<z[1][1], z[1][2]>>
             /\ dt(z) \in Nat
  <2>1. z \in E \X (1..n)
    BY <1>1 DEF ListedNear
  <2>2. z = <<z[1], z[2]>> /\ z[1] \in E /\ z[2] \in 1..n
    BY <2>1
  <2>3. z[1][1] \in Nat /\ z[1][2] \in Nat /\ z[1] = <<z[1][1], z[1][2]>> /\ At(b, z[1]) \in Nat
    BY <2>2 DEF Scored
  <2>4. dt(z) \in Nat
    BY <1>1, <2>2, <2>3, GapNat
  <2>5. QED
    BY <2>2, <2>3, <2>4
<1>3. \A x, y \in S : <<x, y>> \in CloserIn(b, p) <=>
        dt(x) < dt(y) \/ (dt(x) = dt(y) /\ (x[1][1] < y[1][1] \/ (x[1][1] = y[1][1] /\ x[1][2] < y[1][2]) \/ (x[1] = y[1] /\ x[2] < y[2])))
  BY DEF CloserIn, Closer, Earlier
<1>4. IsFiniteSet(S)
  <2>1. IsFiniteSet(E) /\ IsFiniteSet(1..n)
    BY <1>1, FS_Interval DEF Scored
  <2>2. IsFiniteSet(E \X (1..n))
    BY <2>1, FS_Product
  <2>3. S \in SUBSET (E \X (1..n))
    BY <1>1 DEF ListedNear
  <2>4. QED
    BY <2>2, <2>3, FS_Subset
<1> DEFINE u(z) == z[1][1]
           v(z) == z[1][2]
           w(z) == z[2]
<1>5. \A x, y \in S : /\ u(x) = u(y) /\ v(x) = v(y) /\ w(x) = w(y) => x = y
                      /\ x[1] = y[1] <=> u(x) = u(y) /\ v(x) = v(y)
  BY <1>2
<1>6. \A z \in S : dt(z) \in Nat /\ u(z) \in Nat /\ v(z) \in Nat /\ w(z) \in Nat
  BY <1>2
<1>7. \A x, y \in S : <<x, y>> \in CloserIn(b, p) <=>
        dt(x) < dt(y) \/ (dt(x) = dt(y) /\ (u(x) < u(y) \/ (u(x) = u(y) /\ (v(x) < v(y) \/ (v(x) = v(y) /\ w(x) < w(y))))))
  <2> SUFFICES ASSUME NEW x \in S, NEW y \in S
               PROVE  <<x, y>> \in CloserIn(b, p) <=>
                        dt(x) < dt(y) \/ (dt(x) = dt(y) /\ (u(x) < u(y) \/ (u(x) = u(y) /\ (v(x) < v(y) \/ (v(x) = v(y) /\ w(x) < w(y))))))
    OBVIOUS
  <2>1. <<x, y>> \in CloserIn(b, p) <=>
        dt(x) < dt(y) \/ (dt(x) = dt(y) /\ (u(x) < u(y) \/ (u(x) = u(y) /\ v(x) < v(y)) \/ (x[1] = y[1] /\ w(x) < w(y))))
    BY <1>3
  <2> HIDE DEF S, dt, u, v, w
  <2>2. QED
    BY <1>5, <2>1
<1> HIDE DEF S, dt, u, v, w
<1>8. \A x \in S : <<x, x>> \notin CloserIn(b, p)
  BY <1>6, <1>7
<1>9. ASSUME NEW x \in S, NEW y \in S PROVE x = y \/ <<x, y>> \in CloserIn(b, p) \/ <<y, x>> \in CloserIn(b, p)
  <2>1. /\ dt(x) \in Nat /\ u(x) \in Nat /\ v(x) \in Nat /\ w(x) \in Nat
        /\ dt(y) \in Nat /\ u(y) \in Nat /\ v(y) \in Nat /\ w(y) \in Nat
    BY <1>6
  <2>2. u(x) = u(y) /\ v(x) = v(y) /\ w(x) = w(y) => x = y
    BY <1>5
  <2>3. QED
    BY <1>7, <2>1, <2>2
<1>10. ASSUME NEW x \in S, NEW y \in S, NEW z \in S, <<x, y>> \in CloserIn(b, p), <<y, z>> \in CloserIn(b, p)
       PROVE  <<x, z>> \in CloserIn(b, p)
  <2>1. /\ dt(x) \in Nat /\ u(x) \in Nat /\ v(x) \in Nat /\ w(x) \in Nat
        /\ dt(y) \in Nat /\ u(y) \in Nat /\ v(y) \in Nat /\ w(y) \in Nat
        /\ dt(z) \in Nat /\ u(z) \in Nat /\ v(z) \in Nat /\ w(z) \in Nat
    BY <1>6
  <2>2. QED
    BY <1>7, <1>10, <2>1
<1>11. QED
  BY <1>4, <1>8, <1>9, <1>10 DEF StrictOrder, S

\* The pairs that the log names are a matching.
LEMMA ListedPairsMatch ==
  ASSUME NEW b, NEW p, Scored(b, p)
  PROVE  Matching(b, p, ListedPairs(b, p))
<1> DEFINE S == ListedNear(b, p)
           dt(z) == Gap(At(b, z[1]), b.rises[p][z[2]])
           before(x, y) == dt(x) < dt(y) \/ (dt(x) = dt(y) /\ (Earlier(x[1], y[1]) \/ (x[1] = y[1] /\ x[2] < y[2])))
           take(got, x) == IF \E y \in got : y[1] = x[1] \/ y[2] = x[2] THEN got ELSE got \cup {x}
           place == [x \in S |-> Cardinality({y \in S : before(y, x)}) + 1]
           sorted == [k \in 1..Cardinality(S) |-> CHOOSE x \in S : place[x] = k]
           q == [k \in 1..Cardinality(S) |-> CHOOSE x \in S : PlaceIn(S, CloserIn(b, p), x) = k]
<1>1. ListedPairs(b, p) = FoldLeft(take, {}, sorted)
  BY DEF ListedPairs, Sorted, ListedNear
<1>2. \A x \in S : PlaceIn(S, CloserIn(b, p), x) = place[x]
  <2> SUFFICES ASSUME NEW x \in S PROVE PlaceIn(S, CloserIn(b, p), x) = place[x]
    OBVIOUS
  <2>1. {y \in S : <<y, x>> \in CloserIn(b, p)} = {y \in S : before(y, x)}
    BY DEF CloserIn, Closer
  <2>2. QED
    BY <2>1 DEF PlaceIn
<1>3. sorted = q
  <2> HIDE DEF S, place
  <2>1. \A k : (CHOOSE x \in S : place[x] = k) = CHOOSE x \in S : PlaceIn(S, CloserIn(b, p), x) = k
    BY <1>2
  <2>2. QED
    BY <2>1 DEF S
<1>4. \A s : FoldLeft(take, {}, s) = TakePass!Fold(b, p, {}, s)
  BY DEF TakePass!Fold, TakeOp, FoldLeft, TakePass!MapThenFoldSet, MapThenFoldSet, TakePass!Highest, Max
<1> HIDE DEF take, sorted
<1>5. InOrderOf(q, S, CloserIn(b, p))
  BY CloserOrders, SortedGives
<1> HIDE DEF q
<1>6. \A x \in S : x[1] \in EnemyDeaths(b, p) /\ x[2] \in 1..Len(b.rises[p]) /\ Near(b, p, x[1], x[2])
                   /\ x \in EnemyDeaths(b, p) \X (1..Len(b.rises[p]))
  <2>1. DOMAIN b.rises[p] = 1..Len(b.rises[p])
    BY DEF Scored
  <2>2. QED
    BY <2>1 DEF ListedNear, Near
<1> HIDE DEF S
<1>7. \A k \in 0..(Len(q) - 1) : \A got : Matching(b, p, got) => Matching(b, p, TakeOp(b, p, got, q[k + 1]))
  <2> SUFFICES ASSUME NEW k \in 0..(Len(q) - 1), NEW got, Matching(b, p, got)
               PROVE  Matching(b, p, TakeOp(b, p, got, q[k + 1]))
    OBVIOUS
  <2>1. q[k + 1] \in S
    BY <1>5 DEF InOrderOf
  <2>2. QED
    BY <1>6, <2>1 DEF Matching, TakeOp
<1>8. Matching(b, p, {})
  BY DEF Matching
<1>9. TakeGood(b, p, TakePass!Fold(b, p, {}, q), Len(q))
  <2>1. TakeGood(b, p, {}, 0) /\ \A k \in 0..(Len(q) - 1) : \A got : TakeGood(b, p, got, k) => TakeGood(b, p, TakeOp(b, p, got, q[k + 1]), k + 1)
    BY <1>7, <1>8 DEF TakeGood
  <2>2. q \in Seq(S)
    BY <1>5 DEF InOrderOf
  <2>3. QED
    BY <2>1, <2>2, TakePass!FoldHolds
<1>10. QED
  BY <1>1, <1>3, <1>4, <1>9 DEF TakeGood

\* The step of the loop of Credited
RestOp(b, p, got, k) ==
  LET tick == NearestFree(b, p, k, got)
  IN  IF (\E x \in got : x[2] = k) \/ Cardinality(tick) # 1 THEN got ELSE got \cup {<<CHOOSE d \in tick : TRUE, k>>}

\* After k rises: a matching, and those with one death to go to went to it.
RestGood(b, p, got, k) ==
  Matching(b, p, got) /\ \A j \in 1..k : \A d : Only(b, p, d, j) => <<d, j>> \in got

RestPass == INSTANCE FoldRule WITH Op <- RestOp, Good <- RestGood

\* A rise goes to a death near it that no other has.
LEMMA NearestIsFree ==
  ASSUME NEW b, NEW p, Scored(b, p), NEW k \in 1..Len(b.rises[p]), NEW got
  PROVE  /\ \A d \in NearestFree(b, p, k, got) : d \in EnemyDeaths(b, p) /\ Near(b, p, d, k) /\ \A x \in got : x[1] # d
         /\ IsFiniteSet(NearestFree(b, p, k, got))
         /\ \A d : Only(b, p, d, k) /\ (\A x \in got : x[1] # d) => NearestFree(b, p, k, got) = {d}
<1> DEFINE t == b.rises[p][k]
           free == {d \in EnemyDeaths(b, p) : Gap(At(b, d), t) <= Lag /\ \A x \in got : x[1] # d}
           near == {d \in free : \A e \in free : Gap(At(b, d), t) <= Gap(At(b, e), t)}
           first == CHOOSE d \in near : \A e \in near \ {d} : Earlier(d, e)
           tick == {d \in free : At(b, d) = At(b, first)}
<1>1. NearestFree(b, p, k, got) = IF free = {} THEN {} ELSE tick
  BY DEF NearestFree
<1>2. \A d \in free : d \in EnemyDeaths(b, p) /\ Near(b, p, d, k) /\ \A x \in got : x[1] # d
  BY DEF Near
<1>3. IsFiniteSet(free)
  <2>1. free \in SUBSET EnemyDeaths(b, p)
    OBVIOUS
  <2> HIDE DEF free
  <2>2. QED
    BY <2>1, FS_Subset DEF Scored
<1>4. IsFiniteSet(IF free = {} THEN {} ELSE tick)
  <2>1. tick \in SUBSET free
    OBVIOUS
  <2> HIDE DEF free, tick
  <2>2. QED
    BY <1>3, <2>1, FS_Subset, FS_EmptySet
<1>5. ASSUME NEW d, Only(b, p, d, k), \A x \in got : x[1] # d PROVE NearestFree(b, p, k, got) = {d}
  <2>1. free = {d}
    BY <1>5 DEF Only, Near
  <2>2. near = {d}
    <3>1. Gap(At(b, d), t) \in Nat
      <4>1. At(b, d) \in Nat /\ t \in Nat
        BY <1>5 DEF Only, Scored
      <4>2. QED
        BY <4>1, GapNat
    <3> HIDE DEF free
    <3>2. QED
      BY <2>1, <3>1
  <2> HIDE DEF free, near
  <2>3. first = d
    BY <2>2
  <2> HIDE DEF first
  <2>4. QED
    BY <1>1, <2>1, <2>3
<1> HIDE DEF free, near, first
<1>6. \A d \in NearestFree(b, p, k, got) : d \in free
  BY <1>1
<1>7. QED
  BY <1>1, <1>2, <1>4, <1>5, <1>6

\* The next rise is paired, or has nothing to be paired with.
LEMMA RestStep ==
  ASSUME NEW b, NEW p, Scored(b, p), NEW k \in 0..(Len(b.rises[p]) - 1), NEW got, RestGood(b, p, got, k)
  PROVE  RestGood(b, p, RestOp(b, p, got, k + 1), k + 1)
<1> DEFINE n == k + 1
           tick == NearestFree(b, p, n, got)
           new == RestOp(b, p, got, n)
<1>1. Len(b.rises[p]) \in Nat /\ n \in 1..Len(b.rises[p]) /\ \A j \in 1..n : j \in 1..k \/ j = n
  BY DEF Scored
<1>2. Matching(b, p, got) /\ \A j \in 1..k : \A d : Only(b, p, d, j) => <<d, j>> \in got
  BY DEF RestGood
<1>3. CASE \E x \in got : x[2] = n
  <2>1. new = got
    BY <1>3 DEF RestOp
  <2>2. PICK x \in got : x[2] = n
    BY <1>3
  <2>3. x = <<x[1], n>> /\ x[1] \in EnemyDeaths(b, p) /\ Near(b, p, x[1], n)
    BY <1>2, <2>2 DEF Matching
  <2>4. \A d : Only(b, p, d, n) => <<d, n>> \in got
    BY <2>2, <2>3 DEF Only
  <2> HIDE DEF n, new
  <2>5. QED
    BY <1>1, <1>2, <2>1, <2>4 DEF RestGood, n, new
<1>4. CASE ~(\E x \in got : x[2] = n) /\ Cardinality(tick) # 1
  <2>1. new = got
    BY <1>4 DEF RestOp
  <2>2. ASSUME NEW d, Only(b, p, d, n) PROVE FALSE
    <3>1. \A x \in got : x[1] # d
      <4> SUFFICES ASSUME NEW x \in got, x[1] = d PROVE FALSE
        OBVIOUS
      <4>1. x[2] \in 1..Len(b.rises[p]) /\ Near(b, p, d, x[2])
        BY <1>2 DEF Matching
      <4>2. x[2] = n
        BY <2>2, <4>1 DEF Only
      <4>3. QED
        BY <1>4, <4>2
    <3>2. tick = {d}
      BY <1>1, <2>2, <3>1, NearestIsFree
    <3>3. QED
      BY <1>4, <3>2, FS_Singleton
  <2> HIDE DEF n, new
  <2>3. QED
    BY <1>1, <1>2, <2>1, <2>2 DEF RestGood, n, new
<1>5. CASE ~(\E x \in got : x[2] = n) /\ Cardinality(tick) = 1
  <2>1. PICK d : tick = {d}
    <3>1. IsFiniteSet(tick)
      BY <1>1, NearestIsFree
    <3>2. QED
      BY <1>5, <3>1, FS_Singleton
  <2>2. new = got \cup {<<d, n>>}
    <3>1. (CHOOSE e \in tick : TRUE) = d
      BY <2>1
    <3>2. QED
      BY <1>5, <3>1 DEF RestOp
  <2>3. d \in EnemyDeaths(b, p) /\ Near(b, p, d, n) /\ \A x \in got : x[1] # d
    BY <1>1, <2>1, NearestIsFree
  <2>4. Matching(b, p, new)
    BY <1>1, <1>2, <1>5, <2>2, <2>3 DEF Matching
  <2>5. \A e : Only(b, p, e, n) => e = d
    BY <2>3 DEF Only
  <2> HIDE DEF n, new
  <2>6. \A j \in 1..n : \A e : Only(b, p, e, j) => <<e, j>> \in new
    BY <1>1, <1>2, <2>2, <2>5
  <2>7. RestGood(b, p, new, n)
    BY <2>4, <2>6 DEF RestGood
  <2>8. QED
    BY <2>7 DEF n, new
<1>6. QED
  BY <1>3, <1>4, <1>5

\* A player's assists are a matching that has every pair with nothing else near it.
LEMMA CreditedMatches ==
  ASSUME NEW b, NEW p, Scored(b, p)
  PROVE  Matching(b, p, Credited(b, p)) /\ \A k \in 1..Len(b.rises[p]) : \A d : Only(b, p, d, k) => <<d, k>> \in Credited(b, p)
<1> DEFINE rest(got, k) ==
             LET tick == NearestFree(b, p, k, got)
             IN  IF (\E x \in got : x[2] = k) \/ Cardinality(tick) # 1 THEN got ELSE got \cup {<<CHOOSE d \in tick : TRUE, k>>}
           n == Len(b.rises[p])
           s == [k \in 1..n |-> k]
<1>1. n \in Nat /\ DOMAIN b.rises[p] = 1..n
  BY DEF Scored
<1>2. Credited(b, p) = FoldLeft(rest, ListedPairs(b, p), s)
  BY <1>1 DEF Credited
<1>3. \A got, q : FoldLeft(rest, got, q) = RestPass!Fold(b, p, got, q)
  BY DEF RestPass!Fold, RestOp, FoldLeft, RestPass!MapThenFoldSet, MapThenFoldSet, RestPass!Highest, Max
<1> HIDE DEF rest
<1>4. s \in Seq(Nat) /\ Len(s) = n /\ \A k \in 0..(n - 1) : s[k + 1] = k + 1
  BY <1>1
<1> HIDE DEF s
<1>5. RestGood(b, p, ListedPairs(b, p), 0)
  <2>1. 1..0 = {}
    OBVIOUS
  <2>2. QED
    BY <2>1, ListedPairsMatch DEF RestGood
<1>6. \A k \in 0..(Len(s) - 1) : \A got : RestGood(b, p, got, k) => RestGood(b, p, RestOp(b, p, got, s[k + 1]), k + 1)
  BY <1>4, RestStep
<1>7. RestGood(b, p, RestPass!Fold(b, p, ListedPairs(b, p), s), Len(s))
  BY <1>4, <1>5, <1>6, RestPass!FoldHolds
<1>8. QED
  BY <1>2, <1>3, <1>4, <1>7 DEF RestGood

\* The scoreboard's record nb of board b, for player p: each paired rise is an
\* assist in its death, the others in none, and a death has whose rises it was paired with.
ScoreOf(nb, b, p) ==
  LET n == Len(b.rises[p])
      got == Credited(b, p)
  IN  /\ DOMAIN nb.assists[p] = 1..n /\ Len(nb.assists[p]) = n
      /\ \A x \in got : LET a == nb.assists[p][x[2]] IN a.target = x[1][1] /\ a.time = At(b, x[1]) /\ a.death = x[1]
      /\ \A k \in 1..n : (\A x \in got : x[2] # k) => nb.assists[p][k].target = -1
      /\ EnemyDeaths(nb, p) = EnemyDeaths(b, p)
      /\ \A d \in EnemyDeaths(b, p) : p \in nb.evs[d[1]][d[2]].assists <=> \E x \in got : x[1] = d

LEMMA ScoreGiven ==
  ASSUME NEW b, DOMAIN b = BoardFields, b.evs \in [Heroes -> Seq(Ev)], NEW p \in Heroes, Scored(b, p), NEW nb, nb = FromScoreboard(b)
  PROVE  ScoreOf(nb, b, p)
<1> DEFINE got == [q \in Heroes |-> Credited(b, q)]
           n == Len(b.rises[p])
           event(q, k) ==
             IF \E x \in got[q] : x[2] = k
             THEN LET d == (CHOOSE x \in got[q] : x[2] = k)[1] IN [time |-> At(b, d), target |-> d[1], death |-> d]
             ELSE [time |-> b.rises[q][k], target |-> -1, death |-> <<>>]
           given == [q \in Heroes |-> [k \in DOMAIN b.rises[q] |-> event(q, k)]]
           told == [v \in Heroes |-> [i \in DOMAIN b.evs[v] |->
                      [b.evs[v][i] EXCEPT !.assists = {q \in Heroes : \E x \in got[q] : x[1] = <<v, i>>}]]]
<1>1. nb = [b EXCEPT !.assists = given, !.evs = told]
  BY DEF FromScoreboard
<1>2. nb.assists = given /\ nb.evs = told
  <2> HIDE DEF given, told
  <2>1. QED
    BY <1>1 DEF BoardFields
<1>3. n \in Nat /\ DOMAIN b.rises[p] = 1..n
  BY DEF Scored
<1>4. got[p] = Credited(b, p)
  OBVIOUS
<1>5. nb.assists[p] = [k \in 1..n |-> event(p, k)]
  BY <1>2, <1>3
<1>6. DOMAIN nb.assists[p] = 1..n /\ Len(nb.assists[p]) = n /\ \A k \in 1..n : nb.assists[p][k] = event(p, k)
  <2> HIDE DEF event
  <2>1. QED
    BY <1>3, <1>5
<1>7. Matching(b, p, Credited(b, p))
  BY CreditedMatches
<1>8. ASSUME NEW x \in Credited(b, p)
      PROVE  LET a == nb.assists[p][x[2]] IN a.target = x[1][1] /\ a.time = At(b, x[1]) /\ a.death = x[1]
  <2>1. x[2] \in 1..n /\ \A y \in Credited(b, p) : y[2] = x[2] => y = x
    BY <1>7 DEF Matching
  <2>2. (CHOOSE y \in got[p] : y[2] = x[2]) = x
    <3>1. \A y : y \in got[p] /\ y[2] = x[2] <=> y = x
      BY <1>4, <2>1
    <3> HIDE DEF got
    <3>2. QED
      BY <3>1
  <2>3. event(p, x[2]) = [time |-> At(b, x[1]), target |-> x[1][1], death |-> x[1]]
    BY <1>4, <2>2
  <2>4. nb.assists[p][x[2]] = [time |-> At(b, x[1]), target |-> x[1][1], death |-> x[1]]
    <3> HIDE DEF event
    <3>1. QED
      BY <1>6, <2>1, <2>3
  <2>5. QED
    BY ONLY <2>4
<1>9. ASSUME NEW k \in 1..n, \A x \in Credited(b, p) : x[2] # k PROVE nb.assists[p][k].target = -1
  <2>1. event(p, k) = [time |-> b.rises[p][k], target |-> -1, death |-> <<>>]
    BY <1>4, <1>9
  <2>2. nb.assists[p][k] = [time |-> b.rises[p][k], target |-> -1, death |-> <<>>]
    <3> HIDE DEF event
    <3>1. QED
      BY <1>6, <2>1
  <2>3. QED
    BY ONLY <2>2
<1>10. \A v \in Heroes : DOMAIN nb.evs[v] = DOMAIN b.evs[v]
  BY <1>2
<1>11. EnemyDeaths(nb, p) = EnemyDeaths(b, p)
  BY <1>10 DEF EnemyDeaths
<1>12. ASSUME NEW v \in Heroes, NEW i \in DOMAIN b.evs[v]
       PROVE  nb.evs[v][i].assists = {q \in Heroes : \E x \in got[q] : x[1] = <<v, i>>}
  <2>1. nb.evs[v][i] = [b.evs[v][i] EXCEPT !.assists = {q \in Heroes : \E x \in got[q] : x[1] = <<v, i>>}]
    BY <1>2
  <2>2. b.evs[v][i] \in Ev
    <3>1. b.evs[v] \in Seq(Ev)
      OBVIOUS
    <3>2. \A s \in Seq(Ev) : \A j \in DOMAIN s : s[j] \in Ev
      OBVIOUS
    <3>3. QED
      BY <3>1, <3>2
  <2> HIDE DEF got
  <2>3. QED
    BY <2>1, <2>2 DEF Ev
<1>13. ASSUME NEW d \in EnemyDeaths(b, p)
       PROVE  p \in nb.evs[d[1]][d[2]].assists <=> \E x \in Credited(b, p) : x[1] = d
  <2>1. PICK v \in Heroes : d \in {v} \X DOMAIN b.evs[v]
    BY DEF EnemyDeaths
  <2>2. d = <<d[1], d[2]>> /\ d[1] \in Heroes /\ d[2] \in DOMAIN b.evs[d[1]]
    BY <2>1
  <2> HIDE DEF got
  <2>3. nb.evs[d[1]][d[2]].assists = {q \in Heroes : \E x \in got[q] : x[1] = <<d[1], d[2]>>}
    BY <1>12, <2>2
  <2>4. p \in nb.evs[d[1]][d[2]].assists <=> \E x \in got[p] : x[1] = <<d[1], d[2]>>
    BY <2>3
  <2>5. QED
    BY <1>4, <2>2, <2>4
<1> HIDE DEF event, got, given, told
<1>14. QED
  BY <1>6, <1>8, <1>9, <1>11, <1>13 DEF ScoreOf

\* The rises r of a player are those for the deaths H, one for one, each no more
\* than a tick after its death.
RisesFor(r, H) ==
  \E f \in Bijection(1..Len(r), H) : \A k \in 1..Len(r) : f[k].time <= r[k] /\ r[k] <= f[k].time + 1

\* What the property says of player p
AddsUp(b, D, p) ==
  LET mine   == {x \in D : p \in x.helped}
      known  == {k \in DOMAIN b.assists[p] : b.assists[p][k].target # -1}
      enemy  == {x \in D : Side(x.victim) # Side(p)}
      alone(x) == \A y \in enemy \ {x} : Gap(x.time, y.time) > 2 * Lag
  IN  /\ Len(b.assists[p]) = Cardinality(mine)
      /\ \A j, k \in known : b.assists[p][j].death = b.assists[p][k].death => j = k
      /\ \A d \in EnemyDeaths(b, p) :
           p \in b.evs[d[1]][d[2]].assists <=> \E k \in known : b.assists[p][k].death = d
      /\ \A x \in mine : alone(x) =>
           \E k \in known : b.assists[p][k].target = x.victim /\ b.assists[p][k].time = x.time

\* Times within a tick of each other, and further apart
LEMMA Apartness ==
  \A t, u, r \in Nat : t <= r /\ r <= t + 1 =>
    /\ Gap(t, r) <= Lag
    /\ Gap(t, u) > 2 * Lag => Gap(u, r) > Lag
    /\ Gap(u, t) > 2 * Lag => Gap(u, r) > Lag
<1> SUFFICES ASSUME NEW t \in Nat, NEW u \in Nat, NEW r \in Nat, t <= r, r <= t + 1
             PROVE  /\ Gap(t, r) <= Lag
                    /\ Gap(t, u) > 2 * Lag => Gap(u, r) > Lag
                    /\ Gap(u, t) > 2 * Lag => Gap(u, r) > Lag
  OBVIOUS
<1>1. Lag \in Nat /\ Lag >= 1
  BY DeathsAssumption
<1>2. QED
  BY <1>1 DEF Gap

\* An enemy's listed deaths
LEMMA ScoredOfLists ==
  ASSUME NEW b, NEW D, ListsTell(b, D), IsFiniteSet(D), NEW p, b.rises[p] \in Seq(Nat)
  PROVE  /\ Scored(b, p)
         /\ \A d : d \in EnemyDeaths(b, p) <=> d \in AllListedDeaths(b) /\ Side(d[1]) # Side(p)
<1> DEFINE S == AllListedDeaths(b)
           E == EnemyDeaths(b, p)
<1>1. \A d : d \in E <=> d \in S /\ Side(d[1]) # Side(p)
  <2>1. \A d : d \in E <=> \E v \in Heroes : Side(v) # Side(p) /\ d \in {v} \X DOMAIN b.evs[v]
    BY DEF EnemyDeaths
  <2>2. \A d : d \in S <=> \E v \in Heroes : d \in {v} \X DOMAIN b.evs[v]
    BY DEF AllListedDeaths
  <2>3. \A v, d : d \in {v} \X DOMAIN b.evs[v] => d[1] = v
    OBVIOUS
  <2> HIDE DEF E, S
  <2>4. QED
    BY <2>1, <2>2, <2>3
<1>2. ASSUME NEW d \in S PROVE d = <<d[1], d[2]>> /\ d[1] \in Nat /\ d[2] \in Nat /\ At(b, d) \in Nat
  <2>1. PICK v \in Heroes : d \in {v} \X DOMAIN b.evs[v]
    BY DEF AllListedDeaths
  <2>2. PICK n \in Nat : DOMAIN b.evs[v] = 1..n
    BY DEF ListsTell
  <2>3. v \in Nat /\ At(b, d) \in Nat
    BY DeathsAssumption DEF ListsTell
  <2>4. QED
    BY <2>1, <2>2, <2>3
<1>3. IsFiniteSet(S)
  BY ListedFinite
<1> HIDE DEF E, S
<1>4. E \in SUBSET S
  BY <1>1
<1>5. IsFiniteSet(E)
  BY <1>3, <1>4, FS_Subset
<1>6. QED
  BY <1>1, <1>2, <1>5 DEF Scored, E, S

\* An assist in a death with no other enemy's near it is paired with that death.
LEMMA AloneIsOnly ==
  ASSUME NEW b, NEW D, ListsTell(b, D), IsFiniteSet(D), NEW p, b.rises[p] \in Seq(Nat),
         \A x \in D : x.victim \in Heroes /\ (p \in x.helped => Side(x.victim) # Side(p)),
         NEW f \in Bijection(1..Len(b.rises[p]), {x \in D : p \in x.helped}),
         \A k \in 1..Len(b.rises[p]) : f[k].time <= b.rises[p][k] /\ b.rises[p][k] <= f[k].time + 1,
         NEW x \in D, p \in x.helped,
         \A y \in D \ {x} : Side(y.victim) # Side(p) => Gap(x.time, y.time) > 2 * Lag
  PROVE  \E d \in EnemyDeaths(b, p) : \E k \in 1..Len(b.rises[p]) : d[1] = x.victim /\ At(b, d) = x.time /\ Only(b, p, d, k)
<1> DEFINE n == Len(b.rises[p])
           r == b.rises[p]
           H == {y \in D : p \in y.helped}
<1>1. /\ f \in [1..n -> H] /\ (\A j, k \in 1..n : f[j] = f[k] => j = k) /\ \A y \in H : \E k \in 1..n : f[k] = y
  BY DEF Bijection, Injection, Surjection, IsInjective
<1>2. n \in Nat /\ \A k \in 1..n : r[k] \in Nat
  OBVIOUS
<1>3. \A y \in D : y.time \in Nat
  BY DEF ListsTell
<1>4. PICK k \in 1..n : f[k] = x
  BY <1>1
<1>5. PICK d \in AllListedDeaths(b) : x.victim = d[1] /\ x.time = At(b, d)
  BY DEF ListsTell
<1>6. d \in EnemyDeaths(b, p)
  BY <1>5, ScoredOfLists
<1>7. Near(b, p, d, k)
  BY <1>2, <1>3, <1>4, <1>5, Apartness DEF Near
<1>8. ASSUME NEW e \in EnemyDeaths(b, p), Near(b, p, e, k) PROVE e = d
  <2>1. e \in AllListedDeaths(b) /\ Side(e[1]) # Side(p)
    BY ScoredOfLists
  <2>2. PICK y \in D : y.victim = e[1] /\ y.time = At(b, e)
    BY <2>1 DEF ListsTell
  <2>3. CASE y = x
    BY <1>5, <2>1, <2>2, <2>3 DEF ListsTell
  <2>4. CASE y # x
    <3>1. Gap(x.time, y.time) > 2 * Lag
      BY <2>1, <2>2, <2>4
    <3>2. Gap(y.time, r[k]) > Lag
      BY <1>2, <1>3, <1>4, <3>1, Apartness
    <3>3. Gap(y.time, r[k]) <= Lag
      BY <1>8, <2>2 DEF Near
    <3>4. Gap(y.time, r[k]) \in Nat /\ Lag \in Nat
      BY <1>2, <1>3, GapNat, DeathsAssumption
    <3>5. QED
      BY <3>2, <3>3, <3>4
  <2>5. QED
    BY <2>3, <2>4
<1>9. ASSUME NEW j \in 1..n, Near(b, p, d, j) PROVE j = k
  <2>1. f[j] \in D /\ Side(f[j].victim) # Side(p)
    BY <1>1
  <2>2. CASE f[j] = x
    BY <1>1, <1>4, <2>2
  <2>3. CASE f[j] # x
    <3>1. Gap(x.time, f[j].time) > 2 * Lag
      BY <2>1, <2>3
    <3>2. Gap(x.time, r[j]) > Lag
      BY <1>2, <1>3, <2>1, <3>1, Apartness
    <3>3. Gap(x.time, r[j]) <= Lag
      BY <1>5, <1>9 DEF Near
    <3>4. Gap(x.time, r[j]) \in Nat /\ Lag \in Nat
      BY <1>2, <1>3, GapNat, DeathsAssumption
    <3>5. QED
      BY <3>2, <3>3, <3>4
  <2>4. QED
    BY <2>2, <2>3
<1>10. Only(b, p, d, k)
  BY <1>6, <1>7, <1>8, <1>9 DEF Only
<1>11. QED
  BY <1>5, <1>6, <1>10

\* So the scoreboard's record adds up.
LEMMA ScoreAddsUp ==
  ASSUME NEW b, DOMAIN b = BoardFields, b.evs \in [Heroes -> Seq(Ev)], NEW D, ListsTell(b, D), IsFiniteSet(D),
         NEW p \in Heroes, b.rises[p] \in Seq(Nat),
         \A x \in D : x.victim \in Heroes /\ (p \in x.helped => Side(x.victim) # Side(p)),
         RisesFor(b.rises[p], {x \in D : p \in x.helped}), NEW nb, nb = FromScoreboard(b)
  PROVE  AddsUp(nb, D, p)
<1> DEFINE mine  == {x \in D : p \in x.helped}
           known == {k \in DOMAIN nb.assists[p] : nb.assists[p][k].target # -1}
           enemy  == {x \in D : Side(x.victim) # Side(p)}
           alone(x) == \A y \in enemy \ {x} : Gap(x.time, y.time) > 2 * Lag
           got   == Credited(b, p)
           n     == Len(b.rises[p])
<1>1. Scored(b, p)
  BY ScoredOfLists
<1>2. ScoreOf(nb, b, p) /\ Matching(b, p, got) /\ \A k \in 1..n : \A d : Only(b, p, d, k) => <<d, k>> \in got
  BY <1>1, ScoreGiven, CreditedMatches
<1>3. PICK f \in Bijection(1..n, mine) : \A k \in 1..n : f[k].time <= b.rises[p][k] /\ b.rises[p][k] <= f[k].time + 1
  BY DEF RisesFor
<1>4. Len(nb.assists[p]) = Cardinality(mine)
  <2>1. n \in Nat /\ Len(nb.assists[p]) = n
    BY <1>2 DEF ScoreOf
  <2>2. IsFiniteSet(1..n) /\ Cardinality(1..n) = n
    BY <2>1, FS_Interval
  <2>3. ExistsBijection(1..n, mine)
    BY <1>3 DEF ExistsBijection
  <2> HIDE DEF mine, n
  <2>4. QED
    BY <2>1, <2>2, <2>3, FS_Bijection
<1>5. \A x \in got : /\ x[1] \in EnemyDeaths(b, p) /\ x[2] \in 1..n /\ nb.assists[p][x[2]].target = x[1][1]
                     /\ nb.assists[p][x[2]].time = At(b, x[1]) /\ nb.assists[p][x[2]].death = x[1]
  BY <1>2 DEF ScoreOf, Matching
<1>6. \A k : k \in known <=> \E x \in got : x[2] = k
  <2>1. ASSUME NEW k \in known PROVE \E x \in got : x[2] = k
    BY <1>2 DEF ScoreOf
  <2>2. ASSUME NEW x \in got PROVE x[2] \in known
    <3>1. x[1][1] \in Nat /\ x[2] \in 1..n
      BY <1>1, <1>5 DEF Scored
    <3>2. nb.assists[p][x[2]].target # -1
      BY <1>5, <3>1
    <3>3. QED
      BY <1>2, <3>1, <3>2 DEF ScoreOf
  <2> HIDE DEF known, got
  <2>3. QED
    BY <2>1, <2>2
<1> HIDE DEF known, got
<1>7. \A j, k \in known : nb.assists[p][j].death = nb.assists[p][k].death => j = k
  <2> SUFFICES ASSUME NEW j \in known, NEW k \in known, nb.assists[p][j].death = nb.assists[p][k].death PROVE j = k
    OBVIOUS
  <2>1. PICK x \in got : x[2] = j
    BY <1>6
  <2>2. PICK y \in got : y[2] = k
    BY <1>6
  <2>3. x[1] = y[1]
    BY <1>5, <2>1, <2>2
  <2>4. x = y
    BY <1>2, <2>3 DEF Matching
  <2>5. QED
    BY <2>1, <2>2, <2>4
<1>8. ASSUME NEW d \in EnemyDeaths(nb, p)
      PROVE  p \in nb.evs[d[1]][d[2]].assists <=> \E k \in known : nb.assists[p][k].death = d
  <2>1. d \in EnemyDeaths(b, p)
    BY <1>2 DEF ScoreOf
  <2>2. p \in nb.evs[d[1]][d[2]].assists <=> \E x \in got : x[1] = d
    BY <1>2, <2>1 DEF ScoreOf, got
  <2>3. (\E x \in got : x[1] = d) <=> \E k \in known : nb.assists[p][k].death = d
    <3>1. ASSUME NEW x \in got, x[1] = d PROVE \E k \in known : nb.assists[p][k].death = d
      <4>1. x[2] \in known
        BY <1>6
      <4>2. QED
        BY <1>5, <3>1, <4>1
    <3>2. ASSUME NEW k \in known, nb.assists[p][k].death = d PROVE \E x \in got : x[1] = d
      <4>1. PICK x \in got : x[2] = k
        BY <1>6
      <4>2. QED
        BY <1>5, <3>2, <4>1
    <3>3. QED
      BY <3>1, <3>2
  <2>4. QED
    BY <2>2, <2>3
<1>9. ASSUME NEW x \in mine, alone(x)
      PROVE  \E k \in known : nb.assists[p][k].target = x.victim /\ nb.assists[p][k].time = x.time
  <2>1. \A y \in D \ {x} : Side(y.victim) # Side(p) => Gap(x.time, y.time) > 2 * Lag
    BY <1>9
  <2>2. PICK d \in EnemyDeaths(b, p), k \in 1..n : d[1] = x.victim /\ At(b, d) = x.time /\ Only(b, p, d, k)
    BY <1>3, <2>1, AloneIsOnly
  <2>3. PICK y \in got : y = <<d, k>>
    BY <1>2, <2>2
  <2>4. y[1] = d /\ y[2] = k
    BY <2>3
  <2>5. k \in known /\ nb.assists[p][k].target = x.victim /\ nb.assists[p][k].time = x.time
    BY <1>5, <1>6, <2>2, <2>4
  <2>6. QED
    BY <2>5
<1>10. QED
  BY <1>4, <1>7, <1>8, <1>9 DEF AddsUp, known

\* The deaths a player is credited with, and those his counter has told of
Helped(p) == {x \in game.died : p \in x.helped}
CreditTold(p) == {x \in Helped(p) : <<p, x.victim, x.time>> \notin game.owed}

\* The deaths that helpers were of the other side of, and what is owed for them: no
\* more than a tick late, and the rises are those told of.
RiseInv ==
  /\ \A x \in game.died : x.helped \subseteq Heroes /\ \A p \in x.helped : Side(x.victim) # Side(p)
  /\ \A o \in game.owed : \E x \in game.died : \E p \in x.helped :
       o = <<p, x.victim, x.time>> /\ x.time <= game.tick /\ game.tick <= x.time + 1
  /\ board.rises \in [Heroes -> Seq(Nat)]
  /\ \A p \in Heroes : RisesFor(board.rises[p], CreditTold(p))

AssistInv == RiseInv /\ AssistsAddUp

\* One more rise, for one more death
LEMMA RisesGrow ==
  ASSUME NEW r \in Seq(Nat), NEW H, RisesFor(r, H), NEW x, x \notin H, NEW t \in Nat, x.time <= t, t <= x.time + 1
  PROVE  RisesFor(Append(r, t), H \cup {x})
<1> DEFINE n == Len(r)
           s == Append(r, t)
<1>1. PICK f \in Bijection(1..n, H) : \A k \in 1..n : f[k].time <= r[k] /\ r[k] <= f[k].time + 1
  BY DEF RisesFor
<1>2. f \in [1..n -> H] /\ (\A j, k \in 1..n : f[j] = f[k] => j = k) /\ \A y \in H : \E k \in 1..n : f[k] = y
  BY <1>1 DEF Bijection, Injection, Surjection, IsInjective
<1>3. /\ s \in Seq(Nat) /\ n \in Nat /\ Len(s) = n + 1 /\ s[n + 1] = t /\ \A k \in 1..n : s[k] = r[k] /\ k \in 1..(n + 1) /\ k # n + 1
      /\ \A k \in 1..(n + 1) : k \in 1..n \/ k = n + 1
      /\ n + 1 \in 1..(n + 1)
  <2>1. \A k \in 1..n : k < n + 1
    BY Appended
  <2>2. QED
    BY <2>1, Appended
<1> DEFINE g == [k \in 1..(n + 1) |-> IF k = n + 1 THEN x ELSE f[k]]
<1>4. g[n + 1] = x /\ \A k \in 1..n : g[k] = f[k]
  BY <1>3
<1>5. g \in [1..(n + 1) -> H \cup {x}]
  BY <1>2, <1>3
<1> HIDE DEF g, s, n
<1>6. \A j, k \in 1..(n + 1) : g[j] = g[k] => j = k
  BY <1>2, <1>3, <1>4
<1>7. \A y \in H \cup {x} : \E k \in 1..(n + 1) : g[k] = y
  BY <1>2, <1>3, <1>4
<1>8. g \in Bijection(1..(n + 1), H \cup {x})
  BY <1>5, <1>6, <1>7 DEF Bijection, Injection, Surjection, IsInjective
<1>9. \A k \in 1..(n + 1) : g[k].time <= s[k] /\ s[k] <= g[k].time + 1
  BY <1>1, <1>3, <1>4
<1>10. RisesFor(s, H \cup {x})
  BY <1>3, <1>8, <1>9 DEF RisesFor
<1>11. QED
  BY <1>10 DEF s

LEMMA AssistInvInit == DeathsInit => AssistInv
<1> SUFFICES ASSUME DeathsInit PROVE AssistInv
  OBVIOUS
<1>1. game.died = {} /\ game.owed = {} /\ game.over = FALSE /\ board.rises = [p \in Heroes |-> <<>>]
  BY DEF DeathsInit, NewGame, NewBoard
<1>2. <<>> \in Seq(Nat) /\ Len(<<>>) = 0 /\ 1..0 = {}
  OBVIOUS
<1>3. RisesFor(<<>>, {})
  <2> DEFINE f == [k \in {} |-> 0]
  <2>1. f \in Bijection({}, {})
    BY DEF Bijection, Injection, Surjection, IsInjective
  <2> HIDE DEF f
  <2>2. QED
    BY <1>2, <2>1 DEF RisesFor
<1>4. \A p : CreditTold(p) = {}
  BY <1>1 DEF CreditTold, Helped
<1>5. RiseInv
  BY <1>1, <1>2, <1>3, <1>4 DEF RiseInv
<1>6. QED
  BY <1>1, <1>5 DEF AssistInv, AssistsAddUp

\* What a death owes is told later.
LEMMA DieOwes ==
  ASSUME DeathsInv, RiseInv, NEW d \in Deaths, Die(d)
  PROVE  RiseInv'
<1> DEFINE y == [victim |-> d.victim, killer |-> d.killer, rein |-> d.rein, helped |-> d.helped, time |-> game.tick]
           new == {<<p, d.victim, game.tick>> : p \in d.helped}
<1>1. /\ game'.died = game.died \cup {y} /\ game'.owed = game.owed \cup new /\ game'.tick = game.tick
      /\ board'.rises = board.rises /\ game.tick \in Nat
  BY DEF Die, DeathsInv, GameOK, GameFields, BoardOK, BoardFields
<1>2. \A x \in game.died : x.time = game.tick => x.victim # d.victim
  BY DEF Die
<1>3. /\ y.victim = d.victim /\ y.time = game.tick /\ y.helped = d.helped /\ y.helped \subseteq Heroes
      /\ \A p \in y.helped : Side(y.victim) # Side(p)
  BY DeathsAssumption DEF Side
<1> HIDE DEF y
<1>4. \A p : CreditTold(p)' = CreditTold(p)
  <2> TAKE p
  <2>1. ASSUME NEW x \in game.died, p \in x.helped PROVE <<p, x.victim, x.time>> \in game'.owed <=> <<p, x.victim, x.time>> \in game.owed
    BY <1>1, <1>2
  <2>2. p \in y.helped => <<p, y.victim, y.time>> \in game'.owed
    BY <1>1, <1>3
  <2>3. QED
    BY <1>1, <2>1, <2>2 DEF CreditTold, Helped
<1>5. \A x \in game'.died : x.helped \subseteq Heroes /\ \A p \in x.helped : Side(x.victim) # Side(p)
  BY <1>1, <1>3 DEF RiseInv
<1>6. ASSUME NEW o \in game'.owed
      PROVE  \E x \in game'.died : \E p \in x.helped : o = <<p, x.victim, x.time>> /\ x.time <= game.tick /\ game.tick <= x.time + 1
  <2>1. CASE o \in game.owed
    BY <1>1, <2>1 DEF RiseInv
  <2>2. CASE o \in new
    <3>1. PICK p \in d.helped : o = <<p, d.victim, game.tick>>
      BY <2>2
    <3>2. p \in y.helped /\ o = <<p, y.victim, y.time>> /\ y.time <= game.tick /\ game.tick <= y.time + 1
      BY <1>1, <1>3, <3>1
    <3>3. QED
      BY <1>1, <3>2
  <2>3. QED
    BY <1>1, <2>1, <2>2
<1>7. QED
  BY <1>1, <1>4, <1>5, <1>6 DEF RiseInv

\* A rise is told of what it was owed for.
LEMMA RiseTells ==
  ASSUME DeathsInv, RiseInv, NEW p \in Heroes, NEW o \in game.owed, CounterRises(p, o)
  PROVE  RiseInv'
<1>1. /\ game'.died = game.died /\ game'.owed = game.owed \ {o} /\ game'.tick = game.tick /\ game.tick \in Nat /\ o[1] = p
      /\ board'.rises = [board.rises EXCEPT ![p] = Append(@, game.tick)]
  BY DEF CounterRises, DeathsInv, GameOK, GameFields, BoardOK, BoardFields
<1>2. PICK y \in game.died : \E q \in y.helped : o = <<q, y.victim, y.time>> /\ y.time <= game.tick /\ game.tick <= y.time + 1
  BY DEF RiseInv
<1>3. p \in y.helped /\ o = <<p, y.victim, y.time>>
  BY <1>1, <1>2
<1>4. \A x, z \in game.died : x.victim = z.victim /\ x.time = z.time => x = z
  <2> SUFFICES ASSUME NEW x \in game.died, NEW z \in game.died, x.victim = z.victim, x.time = z.time PROVE x = z
    OBVIOUS
  <2>1. x.victim \in Heroes /\ x \in DiedOf(x.victim) /\ z \in DiedOf(x.victim)
    BY DEF DeathsInv, GameOK, DiedOf
  <2>2. QED
    BY <2>1 DEF DeathsInv, GameOK, DeathsOf
<1>5. \A q : q # p => CreditTold(q)' = CreditTold(q)
  BY <1>1, <1>3 DEF CreditTold, Helped
<1>6. CreditTold(p)' = CreditTold(p) \cup {y} /\ y \notin CreditTold(p)
  <2>1. \A x \in Helped(p) : <<p, x.victim, x.time>> = o <=> x = y
    BY <1>3, <1>4 DEF Helped
  <2>2. Helped(p)' = Helped(p) /\ y \in Helped(p)
    BY <1>1, <1>3 DEF Helped
  <2>3. QED
    BY <1>1, <1>3, <2>1, <2>2 DEF CreditTold
<1>7. board.rises \in [Heroes -> Seq(Nat)] /\ \A q \in Heroes : RisesFor(board.rises[q], CreditTold(q))
  BY DEF RiseInv
<1>8. RisesFor(Append(board.rises[p], game.tick), CreditTold(p) \cup {y})
  <2>1. board.rises[p] \in Seq(Nat)
    BY <1>7
  <2>2. QED
    BY <1>1, <1>2, <1>6, <1>7, <2>1, RisesGrow
<1>9. \A q \in Heroes : RisesFor(board'.rises[q], CreditTold(q)')
  <2>1. board'.rises[p] = Append(board.rises[p], game.tick) /\ \A q \in Heroes : q # p => board'.rises[q] = board.rises[q]
    BY <1>1, <1>7
  <2>2. RisesFor(board'.rises[p], CreditTold(p)')
    BY <1>6, <1>8, <2>1
  <2>3. \A q \in Heroes : q # p => RisesFor(board'.rises[q], CreditTold(q)')
    BY <1>5, <1>7, <2>1
  <2>4. QED
    BY <2>2, <2>3
<1>10. board'.rises \in [Heroes -> Seq(Nat)]
  <2>1. Append(board.rises[p], game.tick) \in Seq(Nat)
    BY <1>1, <1>7
  <2>2. QED
    BY <1>1, <1>7, <2>1
<1>11. QED
  BY <1>1, <1>9, <1>10 DEF RiseInv

\* An assist is put on the death it was for, also in the last tick.
LEMMA AssistInvNext == DeathsInv /\ DoneInv /\ AssistInv /\ [DeathsNext]_<<game, board>> => AssistInv'
<1> SUFFICES ASSUME DeathsInv, DoneInv, AssistInv, [DeathsNext]_<<game, board>> PROVE AssistInv'
  OBVIOUS
<1>1. DOMAIN game = GameFields /\ DOMAIN board = BoardFields /\ game.tick \in Nat
  BY DEF DeathsInv, GameOK, BoardOK
<1>2. ASSUME ~game.over, game'.over = game.over PROVE AssistsAddUp'
  BY <1>2 DEF AssistsAddUp
<1>3. ASSUME game'.died = game.died, game'.owed = game.owed, game'.tick = game.tick, board'.rises = board.rises PROVE RiseInv'
  <2>1. \A p : CreditTold(p)' = CreditTold(p)
    BY <1>3 DEF CreditTold, Helped
  <2>2. QED
    BY <1>3, <2>1 DEF AssistInv, RiseInv
<1>4. ASSUME NEW d \in Deaths, Die(d) PROVE AssistInv'
  <2>1. ~game.over /\ game'.over = game.over
    BY <1>1, <1>4 DEF Die, GameFields
  <2>2. QED
    BY <1>2, <1>4, <2>1, DieOwes DEF AssistInv
<1>5. ASSUME NEW e \in game.entries, LogEntry(e) PROVE AssistInv'
  <2>1. ~game.over
    BY <1>5 DEF DoneInv
  <2>2. game'.over = game.over /\ game'.died = game.died /\ game'.owed = game.owed /\ game'.tick = game.tick
    BY <1>1, <1>5 DEF LogEntry, GameFields
  <2>3. board' = DeathEntry(board, e, game.tick)
    BY <1>5 DEF LogEntry
  <2>4. board'.rises = board.rises
    BY <1>1, <2>3, SMTT(30) DEF DeathEntry, BoardFields
  <2>5. QED
    BY <1>2, <1>3, <2>1, <2>2, <2>4 DEF AssistInv
<1>6. ASSUME NEW p \in Heroes, NEW x \in game.owed, CounterRises(p, x) PROVE AssistInv'
  <2>1. ~game.over
    BY <1>6 DEF DoneInv
  <2>2. game'.over = game.over
    BY <1>1, <1>6 DEF CounterRises, GameFields
  <2>3. QED
    BY <1>2, <1>6, <2>1, <2>2, RiseTells DEF AssistInv
<1>7. CASE NextTick
  <2>1. /\ ~game.over /\ game'.over = game.over /\ game'.died = game.died /\ game'.owed = game.owed
        /\ game'.tick = game.tick + 1 /\ board' = board /\ \A o \in game.owed : o[3] = game.tick
    BY <1>1, <1>7 DEF NextTick, GameFields
  <2>2. \A p : CreditTold(p)' = CreditTold(p)
    BY <2>1 DEF CreditTold, Helped
  <2>3. ASSUME NEW o \in game'.owed
        PROVE  \E x \in game'.died : \E p \in x.helped : o = <<p, x.victim, x.time>> /\ x.time <= game'.tick /\ game'.tick <= x.time + 1
    <3>1. PICK x \in game.died : \E p \in x.helped : o = <<p, x.victim, x.time>> /\ x.time <= game.tick
      BY <2>1 DEF AssistInv, RiseInv
    <3>2. PICK p \in x.helped : o = <<p, x.victim, x.time>> /\ x.time <= game.tick
      BY <3>1
    <3>3. x.time = game.tick
      BY <2>1, <3>2
    <3>4. QED
      BY <1>1, <2>1, <3>2, <3>3
  <2>4. RiseInv'
    BY <2>1, <2>2, <2>3 DEF AssistInv, RiseInv
  <2>5. QED
    BY <1>2, <2>1, <2>4 DEF AssistInv
<1>8. CASE EndOfReplay
  <2>1. /\ game.entries = {} /\ game.owed = {} /\ game'.died = game.died /\ game'.owed = game.owed /\ game'.tick = game.tick
        /\ board' = FromScoreboard(board)
    BY <1>1, <1>8 DEF EndOfReplay, GameFields
  <2>2. board'.rises = board.rises
    BY <1>1, <2>1, SMTT(30) DEF FromScoreboard, BoardFields
  <2>3. ListsTell(board, game.died) /\ IsFiniteSet(game.died)
    BY <2>1, ListsTold
  <2>4. ASSUME NEW p \in Heroes PROVE AddsUp(board', game'.died, p)
    <3>1. {x \in game.died : p \in x.helped} = CreditTold(p)
      BY <2>1 DEF CreditTold, Helped
    <3>2. \A x \in game.died : x.victim \in Heroes /\ (p \in x.helped => Side(x.victim) # Side(p))
      BY DEF AssistInv, RiseInv, DeathsInv, GameOK
    <3>3. board.rises[p] \in Seq(Nat) /\ RisesFor(board.rises[p], CreditTold(p)) /\ board.evs \in [Heroes -> Seq(Ev)]
      BY DEF AssistInv, RiseInv, DeathsInv, BoardOK
    <3>4. QED
      BY <1>1, <2>1, <2>3, <3>1, <3>2, <3>3, ScoreAddsUp
  <2>5. AssistsAddUp'
    BY <2>4 DEF AssistsAddUp, AddsUp
  <2>6. QED
    BY <1>3, <2>1, <2>2, <2>5 DEF AssistInv
<1>9. CASE UNCHANGED <<game, board>>
  <2>1. game' = game /\ board' = board
    BY <1>9
  <2>2. AssistsAddUp'
    <3>1. game.over => \A p \in Heroes : AddsUp(board, game.died, p)
      BY DEF AssistInv, AssistsAddUp, AddsUp
    <3>2. game'.over => \A p \in Heroes : AddsUp(board', game'.died, p)
      BY <2>1, <3>1
    <3>3. QED
      BY <3>2 DEF AssistsAddUp, AddsUp
  <2>3. QED
    BY <1>3, <2>1, <2>2 DEF AssistInv
<1>10. QED
  BY <1>4, <1>5, <1>6, <1>7, <1>8, <1>9 DEF DeathsNext

\* The assists add up to the scoreboard's, no death credits a player twice, the two
\* lists agree, and an assist with no other enemy's death near is put on its death
\* (main.go, assistEventsFromScoreboard).
THEOREM AssistsAreTheScoreboards == Spec => []AssistsAddUp
<1>1. Init => DeathsInv /\ DoneInv /\ AssistInv
  BY DeathsInvInit, DoneInvInit, AssistInvInit DEF Init
<1>2. DeathsInv /\ DoneInv /\ AssistInv /\ [Next]_parserVars => DeathsInv' /\ DoneInv' /\ AssistInv'
  <2>1. [Next]_parserVars => [DeathsNext]_<<game, board>>
    BY DEF Next, parserVars
  <2>2. QED
    BY <2>1, DeathsInvNext, DoneInvNext, AssistInvNext
<1>3. AssistInv => AssistsAddUp
  BY DEF AssistInv
<1>4. QED
  BY <1>1, <1>2, <1>3, PTL DEF Spec

-----------------------------------------------------------------------------
(*****************************************************************************)
(* Smokes: the loop over the log keeps, side by side, the stretches of       *)
(* what it has read; each one that is shown is then an event of its own.     *)
(*****************************************************************************)
Use     == [player : Smokers, time : Nat]
Cluster == [start : Nat, last : Nat, side : BOOLEAN, heroes : SUBSET Smokers]

\* Use a is one of cluster c.
In(c, a) == SmokeSide(a.player) = c.side /\ c.start <= a.time /\ a.time <= c.last

\* The log is in time order.
InOrder(uses) == \A i, j \in 1..Len(uses) : i <= j => uses[i].time <= uses[j].time

\* A cluster has uses from its start to its last, all of its heroes' and no other's,
\* none further from the next than the window.
Stretch(uses, c, k) ==
  /\ c.start <= c.last
  /\ \E j \in 1..k : In(c, uses[j]) /\ uses[j].time = c.start
  /\ \E j \in 1..k : In(c, uses[j]) /\ uses[j].time = c.last
  /\ \A p : p \in c.heroes <=> \E j \in 1..k : In(c, uses[j]) /\ uses[j].player = p
  /\ \A j \in 1..k : In(c, uses[j]) /\ uses[j].time < c.last
                       => \E m \in 1..k : /\ In(c, uses[m]) /\ uses[j].time < uses[m].time
                                          /\ uses[m].time - uses[j].time <= SmokeGap

\* The step of the loop of SmokeClusters
ClusterOp(uses, d, cs, a) ==
  LET mine == {i \in DOMAIN cs : cs[i].side = SmokeSide(a.player)}
      open == {i \in mine : (\A j \in mine : j <= i) /\ a.time - cs[i].last <= SmokeGap}
  IN  IF open # {}
      THEN [i \in DOMAIN cs |-> IF i \in open THEN [cs[i] EXCEPT !.heroes = @ \cup {a.player}, !.last = a.time]
                                ELSE cs[i]]
      ELSE Append(cs, [start |-> a.time, last |-> a.time, side |-> SmokeSide(a.player), heroes |-> {a.player}])

\* Two clusters of a side are further apart than the window.
Apart(cs) ==
  \A i, j \in 1..Len(cs) : i < j /\ cs[i].side = cs[j].side => cs[j].start > cs[i].last + SmokeGap

\* After k uses: the clusters are stretches of them, they have them all, and are apart.
ClusterGood(uses, d, cs, k) ==
  /\ cs \in Seq(Cluster)
  /\ \A i \in 1..Len(cs) : Stretch(uses, cs[i], k)
  /\ \A j \in 1..k : \E i \in 1..Len(cs) : In(cs[i], uses[j])
  /\ Apart(cs)

ClusterPass == INSTANCE FoldRule WITH Op <- ClusterOp, Good <- ClusterGood

\* The clusters are that loop's.
LEMMA ClustersIsFold == \A uses : SmokeClusters(uses) = ClusterPass!Fold(uses, 0, <<>>, uses)
BY DEF ClusterPass!Fold, ClusterOp, SmokeClusters, FoldLeft, ClusterPass!MapThenFoldSet, MapThenFoldSet,
       ClusterPass!Highest, Max

\* A side is one of two.
LEMMA SideTyped == \A p : SmokeSide(p) \in BOOLEAN
BY DEF SmokeSide

\* A use that joins cluster i, the last of its side, in time
LEMMA Joins ==
  ASSUME NEW uses \in Seq(Use), InOrder(uses), NEW k \in 0..(Len(uses) - 1), NEW cs, ClusterGood(uses, 0, cs, k),
         NEW i \in 1..Len(cs), NEW c,
         LET a == uses[k + 1]
         IN  /\ cs[i].side = SmokeSide(a.player) /\ a.time - cs[i].last <= SmokeGap
             /\ \A j \in 1..Len(cs) : cs[j].side = SmokeSide(a.player) => j <= i
             /\ c \in Cluster /\ c.start = cs[i].start /\ c.last = a.time /\ c.side = cs[i].side
             /\ c.heroes = cs[i].heroes \cup {a.player}
  PROVE  ClusterGood(uses, 0, [cs EXCEPT ![i] = c], k + 1)
<1> DEFINE a == uses[k + 1]
           b == cs[i]
           ds == [cs EXCEPT ![i] = c]
           t == a.time
<1>1. /\ k \in Nat /\ Len(uses) \in Nat /\ k + 1 \in 1..Len(uses) /\ a \in Use /\ \A j \in 1..k : j \in 1..Len(uses) /\ uses[j] \in Use /\ j <= k + 1
      /\ \A j \in 1..(k + 1) : j \in 1..k \/ j = k + 1
      /\ \A j \in 1..k : j \in 1..(k + 1)
      /\ k + 1 \in 1..(k + 1)
  OBVIOUS
<1>2. cs \in Seq(Cluster) /\ Len(cs) \in Nat /\ b \in Cluster /\ \A j \in 1..Len(cs) : cs[j] \in Cluster
  BY DEF ClusterGood
<1>3. a.player \in Smokers /\ t \in Nat /\ b.start \in Nat /\ b.last \in Nat /\ b.heroes \in SUBSET Smokers /\ SmokeGap \in Nat
  BY <1>1, <1>2, SmokesAssumption DEF Use, Cluster
<1>4. c \in Cluster /\ c.start = b.start /\ c.last = t /\ c.side = b.side /\ c.heroes = b.heroes \cup {a.player}
  OBVIOUS
<1>5. ds \in Seq(Cluster) /\ Len(ds) = Len(cs) /\ ds[i] = c /\ \A j \in 1..Len(cs) : j # i => ds[j] = cs[j]
  <2>1. cs \in Seq(Cluster) /\ c \in Cluster
    BY <1>2, <1>4
  <2> HIDE DEF Cluster
  <2>2. QED
    BY <2>1, SetAt
<1>6. \A j \in 1..k : uses[j].time <= t /\ uses[j].time \in Nat
  BY <1>1 DEF InOrder, Use
<1>7. /\ \A m \in 1..Len(cs) : Stretch(uses, cs[m], k)
      /\ \A j \in 1..k : \E m \in 1..Len(cs) : In(cs[m], uses[j])
      /\ Apart(cs)
  BY DEF ClusterGood
<1>8. b.last <= t /\ b.start <= b.last
  <2>1. PICK j \in 1..k : In(b, uses[j]) /\ uses[j].time = b.last
    BY <1>7 DEF Stretch
  <2>2. QED
    BY <1>6, <1>7, <2>1 DEF Stretch
<1>9. ASSUME NEW m \in 1..Len(cs), m # i, cs[m].side = b.side
      PROVE  cs[m].last < b.start /\ cs[m].last \in Nat
  <2>1. m < i
    BY <1>1, <1>2, <1>9
  <2>2. b.start > cs[m].last + SmokeGap
    BY <1>7, <1>9, <2>1 DEF Apart
  <2>3. cs[m].last \in Nat
    BY <1>2 DEF Cluster
  <2>4. QED
    BY <1>3, <2>2, <2>3
\* an earlier use of the side in c's interval was in b's
<1>10. ASSUME NEW j \in 1..k PROVE In(c, uses[j]) <=> In(b, uses[j])
  <2>1. ASSUME In(b, uses[j]) PROVE In(c, uses[j])
    BY <1>4, <1>6, <2>1 DEF In
  <2>2. ASSUME In(c, uses[j]) PROVE In(b, uses[j])
    <3>1. PICK m \in 1..Len(cs) : In(cs[m], uses[j])
      BY <1>7
    <3>2. cs[m].side = b.side
      BY <1>4, <2>2, <3>1 DEF In
    <3>3. CASE m = i
      BY <3>1, <3>3
    <3>4. CASE m # i
      <4>1. cs[m].last < b.start /\ cs[m].last \in Nat
        BY <1>9, <3>2, <3>4
      <4>2. uses[j].time <= cs[m].last /\ b.start <= uses[j].time
        BY <1>4, <2>2, <3>1 DEF In
      <4>3. QED
        BY <1>3, <1>6, <4>1, <4>2, SMTT(30)
    <3>5. QED
      BY <3>3, <3>4
  <2>3. QED
    BY <2>1, <2>2
<1>11. In(c, a) /\ t = c.last
  BY <1>3, <1>4, <1>8 DEF In
<1>12. Stretch(uses, c, k + 1)
  <2>1. c.start <= c.last
    BY <1>3, <1>4, <1>8
  <2>2. \E j \in 1..(k + 1) : In(c, uses[j]) /\ uses[j].time = c.start
    <3>1. PICK j \in 1..k : In(b, uses[j]) /\ uses[j].time = b.start
      BY <1>7 DEF Stretch
    <3>2. QED
      BY <1>1, <1>4, <1>10, <3>1
  <2>3. \E j \in 1..(k + 1) : In(c, uses[j]) /\ uses[j].time = c.last
    BY <1>1, <1>11
  <2>4. ASSUME NEW p PROVE p \in c.heroes <=> \E j \in 1..(k + 1) : In(c, uses[j]) /\ uses[j].player = p
    <3>1. p \in b.heroes <=> \E j \in 1..k : In(b, uses[j]) /\ uses[j].player = p
      BY <1>7 DEF Stretch
    <3>2. p \in c.heroes <=> p \in b.heroes \/ p = a.player
      BY <1>4
    <3>3. QED
      BY <1>1, <1>10, <1>11, <3>1, <3>2
  <2>5. ASSUME NEW j \in 1..(k + 1), In(c, uses[j]), uses[j].time < c.last
        PROVE  \E m \in 1..(k + 1) : /\ In(c, uses[m]) /\ uses[j].time < uses[m].time
                                     /\ uses[m].time - uses[j].time <= SmokeGap
    <3>1. j \in 1..k /\ In(b, uses[j])
      <4>1. j # k + 1
        BY <1>3, <1>11, <2>5
      <4>2. QED
        BY <1>1, <1>10, <2>5, <4>1
    <3>2. CASE uses[j].time < b.last
      <4>1. PICK m \in 1..k : In(b, uses[m]) /\ uses[j].time < uses[m].time /\ uses[m].time - uses[j].time <= SmokeGap
        BY <1>7, <3>1, <3>2 DEF Stretch
      <4>2. QED
        BY <1>1, <1>10, <4>1
    <3>3. CASE ~(uses[j].time < b.last)
      <4>1. uses[j].time = b.last
        BY <1>3, <1>6, <3>1, <3>3 DEF In
      <4>2. t - b.last <= SmokeGap
        OBVIOUS
      <4>3. uses[k + 1].time - uses[j].time <= SmokeGap /\ uses[j].time < uses[k + 1].time
        BY <1>11, <2>5, <4>1, <4>2
      <4>4. QED
        BY <1>1, <1>11, <4>3
    <3>4. QED
      BY <3>2, <3>3
  <2>6. QED
    BY <2>1, <2>2, <2>3, <2>4, <2>5 DEF Stretch
<1>13. ASSUME NEW m \in 1..Len(cs), m # i PROVE Stretch(uses, cs[m], k + 1)
  <2>1. ~In(cs[m], a)
    <3>1. SUFFICES ASSUME In(cs[m], a) PROVE FALSE
      OBVIOUS
    <3>2. cs[m].side = b.side /\ t <= cs[m].last
      BY <3>1 DEF In
    <3>3. cs[m].last < b.start /\ cs[m].last \in Nat
      BY <1>9, <1>13, <3>2
    <3>4. QED
      BY <1>3, <1>8, <3>2, <3>3, SMTT(30)
  <2>2. Stretch(uses, cs[m], k)
    BY <1>7
  <2>3. \A j \in 1..(k + 1) : In(cs[m], uses[j]) => j \in 1..k
    BY <1>1, <2>1
  <2>4. QED
    BY <1>1, <2>2, <2>3 DEF Stretch
<1>14. \A j \in 1..(k + 1) : \E m \in 1..Len(ds) : In(ds[m], uses[j])
  <2>1. ASSUME NEW j \in 1..k PROVE \E m \in 1..Len(ds) : In(ds[m], uses[j])
    <3>1. PICK m \in 1..Len(cs) : In(cs[m], uses[j])
      BY <1>7
    <3>2. CASE m = i
      BY <1>5, <1>10, <3>1, <3>2
    <3>3. CASE m # i
      BY <1>5, <3>1, <3>3
    <3>4. QED
      BY <3>2, <3>3
  <2>2. \E m \in 1..Len(ds) : In(ds[m], uses[k + 1])
    BY <1>5, <1>11
  <2>3. QED
    BY <1>1, <2>1, <2>2
<1>15. Apart(ds)
  <2> SUFFICES ASSUME NEW m \in 1..Len(cs), NEW n \in 1..Len(cs), m < n, ds[m].side = ds[n].side
               PROVE  ds[n].start > ds[m].last + SmokeGap
    BY <1>5 DEF Apart
  <2>1. cs[m].side = cs[n].side /\ ds[n].start = cs[n].start
    BY <1>4, <1>5
  <2>2. cs[n].start > cs[m].last + SmokeGap
    BY <1>7, <2>1 DEF Apart
  <2>3. m # i
    BY <1>2, <2>1
  <2>4. QED
    BY <1>5, <2>1, <2>2, <2>3
<1>16. \A m \in 1..Len(ds) : Stretch(uses, ds[m], k + 1)
  BY <1>5, <1>12, <1>13
<1>17. QED
  BY <1>5, <1>14, <1>15, <1>16 DEF ClusterGood

\* A use that opens a cluster: none of its side is open
LEMMA Opens ==
  ASSUME NEW uses \in Seq(Use), InOrder(uses), NEW k \in 0..(Len(uses) - 1), NEW cs, ClusterGood(uses, 0, cs, k),
         NEW c,
         LET a == uses[k + 1]
         IN  /\ \A i \in 1..Len(cs) : cs[i].side = SmokeSide(a.player) =>
                   \/ a.time - cs[i].last > SmokeGap
                   \/ \E j \in 1..Len(cs) : cs[j].side = SmokeSide(a.player) /\ i < j
             /\ c = [start |-> a.time, last |-> a.time, side |-> SmokeSide(a.player), heroes |-> {a.player}]
  PROVE  ClusterGood(uses, 0, Append(cs, c), k + 1)
<1> DEFINE a == uses[k + 1]
           n == Len(cs)
           ds == Append(cs, c)
           t == a.time
<1>1. /\ k \in Nat /\ Len(uses) \in Nat /\ k + 1 \in 1..Len(uses) /\ a \in Use /\ \A j \in 1..k : j \in 1..Len(uses) /\ uses[j] \in Use /\ j <= k + 1
      /\ \A j \in 1..(k + 1) : j \in 1..k \/ j = k + 1
      /\ \A j \in 1..k : j \in 1..(k + 1)
      /\ k + 1 \in 1..(k + 1)
  OBVIOUS
<1>2. cs \in Seq(Cluster) /\ n \in Nat /\ \A j \in 1..n : cs[j] \in Cluster
  BY DEF ClusterGood
<1>3. a.player \in Smokers /\ t \in Nat /\ SmokeGap \in Nat
  BY <1>1, SmokesAssumption DEF Use
<1>4. c \in Cluster /\ c.start = t /\ c.last = t /\ c.side = SmokeSide(a.player) /\ c.heroes = {a.player}
  BY <1>3, SideTyped DEF Cluster
<1>5. /\ ds \in Seq(Cluster) /\ Len(ds) = n + 1 /\ ds[n + 1] = c /\ \A j \in 1..n : ds[j] = cs[j]
      /\ \A j \in 1..(n + 1) : j \in 1..n \/ j = n + 1
      /\ \A j \in 1..n : j \in 1..(n + 1)
      /\ n + 1 \in 1..(n + 1)
  <2>1. cs \in Seq(Cluster) /\ c \in Cluster
    BY <1>2, <1>4
  <2> HIDE DEF Cluster
  <2>2. QED
    BY <2>1
<1>6. \A j \in 1..k : uses[j].time <= t /\ uses[j].time \in Nat
  BY <1>1 DEF InOrder, Use
<1>7. /\ \A m \in 1..n : Stretch(uses, cs[m], k)
      /\ \A j \in 1..k : \E m \in 1..n : In(cs[m], uses[j])
      /\ Apart(cs)
  BY DEF ClusterGood
\* every cluster of the side is over for good
<1>8. \A i \in 1..n : cs[i].side = SmokeSide(a.player) => t - cs[i].last > SmokeGap
  <2> DEFINE mine == {i \in 1..n : cs[i].side = SmokeSide(a.player)}
             rest == {x \in Nat : \E i \in mine : x = n - i}
  <2> SUFFICES ASSUME NEW i \in mine PROVE t - cs[i].last > SmokeGap
    OBVIOUS
  <2>1. rest \in SUBSET Nat /\ rest # {}
    <3>1. n - i \in Nat
      BY <1>2
    <3>2. QED
      BY <3>1
  <2>2. PICK x \in rest : \A y \in rest : x <= y
    <3> HIDE DEF rest
    <3>1. QED
      BY <2>1, ClusterPass!LeastNumber
  <2>3. PICK m \in mine : x = n - m
    OBVIOUS
  <2>4. \A j \in mine : j <= m
    <3> SUFFICES ASSUME NEW j \in mine PROVE j <= m
      OBVIOUS
    <3>1. n - j \in rest
      BY <1>2
    <3>2. n - m <= n - j
      BY <2>2, <2>3, <3>1
    <3>3. QED
      BY <1>2, <3>2
  <2>5. t - cs[m].last > SmokeGap
    <3>1. \A j \in 1..n : ~(cs[j].side = SmokeSide(a.player) /\ m < j)
      BY <1>2, <2>4
    <3>2. QED
      BY <3>1
  <2>6. cs[i].last \in Nat /\ cs[m].last \in Nat /\ cs[m].start \in Nat
    BY <1>2 DEF Cluster
  <2>7. CASE i = m
    BY <2>5, <2>7
  <2>8. CASE i # m
    <3>1. i < m /\ cs[i].side = cs[m].side
      BY <1>2, <2>4, <2>8
    <3>2. cs[m].start > cs[i].last + SmokeGap /\ cs[m].start <= cs[m].last
      BY <1>7, <3>1 DEF Apart, Stretch
    <3>3. ASSUME NEW l \in Nat, NEW u \in Nat, NEW w \in Nat, t - u > SmokeGap, w > l + SmokeGap, w <= u
          PROVE  t - l > SmokeGap
      BY <1>3, <3>3, SMTT(30)
    <3>4. QED
      BY <2>5, <2>6, <3>2, <3>3
  <2>9. QED
    BY <2>7, <2>8
<1>9. \A i \in 1..n : cs[i].side = c.side => t > cs[i].last + SmokeGap /\ ~In(cs[i], a)
  <2> SUFFICES ASSUME NEW i \in 1..n, cs[i].side = c.side PROVE t > cs[i].last + SmokeGap /\ ~In(cs[i], a)
    OBVIOUS
  <2>1. cs[i].last \in Nat
    BY <1>2 DEF Cluster
  <2>2. t - cs[i].last > SmokeGap
    BY <1>4, <1>8
  <2>3. t > cs[i].last + SmokeGap /\ ~(t <= cs[i].last)
    BY <1>3, <2>1, <2>2, SMTT(30)
  <2>4. QED
    BY <2>3 DEF In
<1>10. In(c, a)
  BY <1>3, <1>4 DEF In
<1>11. \A j \in 1..k : ~In(c, uses[j])
  <2> SUFFICES ASSUME NEW j \in 1..k, In(c, uses[j]) PROVE FALSE
    OBVIOUS
  <2>1. PICK m \in 1..n : In(cs[m], uses[j])
    BY <1>7
  <2>2. cs[m].side = c.side /\ uses[j].time <= cs[m].last /\ c.start <= uses[j].time
    BY <2>1 DEF In
  <2>3. t > cs[m].last + SmokeGap /\ cs[m].last \in Nat
    BY <1>2, <1>9, <2>2 DEF Cluster
  <2>4. QED
    BY <1>3, <1>4, <1>6, <2>2, <2>3
<1>12. Stretch(uses, c, k + 1)
  <2>1. c.start <= c.last
    BY <1>3, <1>4
  <2>2. /\ \E j \in 1..(k + 1) : In(c, uses[j]) /\ uses[j].time = c.start
        /\ \E j \in 1..(k + 1) : In(c, uses[j]) /\ uses[j].time = c.last
    BY <1>1, <1>4, <1>10
  <2>3. \A p : p \in c.heroes <=> \E j \in 1..(k + 1) : In(c, uses[j]) /\ uses[j].player = p
    BY <1>1, <1>4, <1>10, <1>11
  <2>4. ASSUME NEW j \in 1..(k + 1), In(c, uses[j]) PROVE ~(uses[j].time < c.last)
    <3>1. j = k + 1
      BY <1>1, <1>11, <2>4
    <3>2. QED
      BY <1>3, <1>4, <3>1
  <2>5. QED
    BY <2>1, <2>2, <2>3, <2>4 DEF Stretch
<1>13. ASSUME NEW m \in 1..n PROVE Stretch(uses, cs[m], k + 1)
  <2>1. ~In(cs[m], a)
    BY <1>4, <1>9 DEF In
  <2>2. Stretch(uses, cs[m], k)
    BY <1>7
  <2>3. \A j \in 1..(k + 1) : In(cs[m], uses[j]) => j \in 1..k
    BY <1>1, <2>1
  <2>4. QED
    BY <1>1, <2>2, <2>3 DEF Stretch
<1>14. \A j \in 1..(k + 1) : \E m \in 1..Len(ds) : In(ds[m], uses[j])
  <2>1. ASSUME NEW j \in 1..k PROVE \E m \in 1..Len(ds) : In(ds[m], uses[j])
    BY <1>5, <1>7
  <2>2. \E m \in 1..Len(ds) : In(ds[m], uses[k + 1])
    BY <1>5, <1>10
  <2>3. QED
    BY <1>1, <2>1, <2>2
<1>15. Apart(ds)
  <2> SUFFICES ASSUME NEW m \in 1..(n + 1), NEW l \in 1..(n + 1), m < l, ds[m].side = ds[l].side
               PROVE  ds[l].start > ds[m].last + SmokeGap
    BY <1>5 DEF Apart
  <2>1. m \in 1..n
    BY <1>2
  <2>2. CASE l \in 1..n
    BY <1>5, <1>7, <2>1, <2>2 DEF Apart
  <2>3. CASE l = n + 1
    BY <1>4, <1>5, <1>9, <2>1, <2>3
  <2>4. QED
    BY <1>5, <2>2, <2>3
<1>16. \A m \in 1..Len(ds) : Stretch(uses, ds[m], k + 1)
  BY <1>5, <1>12, <1>13
<1>17. QED
  BY <1>5, <1>14, <1>15, <1>16 DEF ClusterGood

\* A log in order is clustered into its stretches.
LEMMA ClustersGiven ==
  ASSUME NEW uses \in Seq(Use), InOrder(uses)
  PROVE  ClusterGood(uses, 0, SmokeClusters(uses), Len(uses))
<1>1. ClusterGood(uses, 0, <<>>, 0)
  <2>1. <<>> \in Seq(Cluster) /\ 1..Len(<<>>) = {} /\ 1..0 = {}
    OBVIOUS
  <2>2. QED
    BY <2>1 DEF ClusterGood, Apart
<1>2. ASSUME NEW k \in 0..(Len(uses) - 1), NEW cs, ClusterGood(uses, 0, cs, k)
      PROVE  ClusterGood(uses, 0, ClusterOp(uses, 0, cs, uses[k + 1]), k + 1)
  <2> DEFINE a == uses[k + 1]
             mine == {i \in DOMAIN cs : cs[i].side = SmokeSide(a.player)}
             open == {i \in mine : (\A j \in mine : j <= i) /\ a.time - cs[i].last <= SmokeGap}
  <2>1. cs \in Seq(Cluster) /\ DOMAIN cs = 1..Len(cs)
    BY <1>2 DEF ClusterGood
  <2>2. CASE open # {}
    <3>1. PICK i \in open : TRUE
      BY <2>2
    <3> DEFINE c == [cs[i] EXCEPT !.heroes = @ \cup {a.player}, !.last = a.time]
    <3>2. \A j \in open : j = i
      BY <2>1, <3>1
    <3>3. ClusterOp(uses, 0, cs, a) = [j \in DOMAIN cs |-> IF j \in open THEN [cs[j] EXCEPT !.heroes = @ \cup {a.player}, !.last = a.time] ELSE cs[j]]
      BY <2>2 DEF ClusterOp
    <3>4. ClusterOp(uses, 0, cs, a) = [cs EXCEPT ![i] = c]
      <4> HIDE DEF a, open
      <4>1. \A j : j \in open <=> j = i
        BY <3>1, <3>2
      <4>2. QED
        BY <2>1, <3>3, <4>1
    <3>5. i \in 1..Len(cs) /\ cs[i].side = SmokeSide(a.player) /\ a.time - cs[i].last <= SmokeGap
          /\ \A j \in 1..Len(cs) : cs[j].side = SmokeSide(a.player) => j <= i
      BY <2>1, <3>1
    <3>c. /\ c \in Cluster /\ c.start = cs[i].start /\ c.last = a.time /\ c.side = cs[i].side
          /\ c.heroes = cs[i].heroes \cup {a.player}
      <4>1. cs[i] \in Cluster /\ a \in Use
        BY <2>1, <3>5
      <4> HIDE DEF a
      <4>2. QED
        BY <4>1 DEF Cluster, Use
    <3>6. ClusterGood(uses, 0, [cs EXCEPT ![i] = c], k + 1)
      <4> HIDE DEF c
      <4>1. QED
        BY <1>2, <3>5, <3>c, Joins
    <3>7. QED
      BY <3>4, <3>6
  <2>3. CASE open = {}
    <3> DEFINE c == [start |-> a.time, last |-> a.time, side |-> SmokeSide(a.player), heroes |-> {a.player}]
    <3>1. ClusterOp(uses, 0, cs, a) = Append(cs, c)
      BY <2>3 DEF ClusterOp
    <3>2. ASSUME NEW i \in 1..Len(cs), cs[i].side = SmokeSide(a.player), ~(a.time - cs[i].last > SmokeGap)
          PROVE  \E j \in 1..Len(cs) : cs[j].side = SmokeSide(a.player) /\ i < j
      <4>1. i \in mine /\ i \notin open
        BY <2>1, <2>3, <3>2
      <4>2. a.time \in Nat /\ cs[i].last \in Nat /\ SmokeGap \in Nat
        <5>1. a \in Use /\ cs[i] \in Cluster
          BY <2>1
        <5>2. QED
          BY <5>1, SmokesAssumption DEF Use, Cluster
      <4>3. a.time - cs[i].last <= SmokeGap
        BY <3>2, <4>2
      <4>4. PICK j \in mine : ~(j <= i)
        BY <4>1, <4>3
      <4>5. QED
        BY <2>1, <4>4
    <3>3. \A i \in 1..Len(cs) : cs[i].side = SmokeSide(a.player) =>
                   \/ a.time - cs[i].last > SmokeGap
                   \/ \E j \in 1..Len(cs) : cs[j].side = SmokeSide(a.player) /\ i < j
      BY <3>2
    <3>4. ClusterGood(uses, 0, Append(cs, c), k + 1)
      BY <1>2, <3>3, Opens
    <3>5. QED
      BY <3>1, <3>4
  <2>4. QED
    BY <2>2, <2>3
<1>3. QED
  BY <1>1, <1>2, ClustersIsFold, ClusterPass!FoldHolds

\* What the property compares of an event
Face(c) == [side |-> c.side, heroes |-> c.heroes, start |-> c.start]

\* The uses of a side, and those linked to use a
UsesOf(uses, side) == {a \in ToSet(uses) : SmokeSide(a.player) = side}
LinkedUses(S, a) == LET linked(t, u) == Linked({b.time : b \in S}, t, u, SmokeGap)
              IN  {b \in S : IF a.time <= b.time THEN linked(a.time, b.time) ELSE linked(b.time, a.time)}

\* The uses linked to one of a cluster's are the cluster's.
LEMMA NearIsCluster ==
  ASSUME NEW uses \in Seq(Use), NEW cs, ClusterGood(uses, 0, cs, Len(uses)),
         NEW i \in 1..Len(cs), NEW a \in ToSet(uses), In(cs[i], a)
  PROVE  LinkedUses(UsesOf(uses, cs[i].side), a) = {b \in ToSet(uses) : In(cs[i], b)}
<1> DEFINE side == cs[i].side
           S == UsesOf(uses, side)
           T == {b.time : b \in S}
           I == {j \in 1..Len(cs) : cs[j].side = side}
           st == [j \in I |-> cs[j].start]
           la == [j \in I |-> cs[j].last]
           k == Len(uses)
<1>1. /\ cs \in Seq(Cluster)
      /\ \A j \in 1..Len(cs) : Stretch(uses, cs[j], k)
      /\ \A j \in 1..k : \E m \in 1..Len(cs) : In(cs[m], uses[j])
      /\ Apart(cs)
  BY DEF ClusterGood
<1>2. /\ \A j \in 1..k : uses[j] \in Use /\ uses[j] \in ToSet(uses)
      /\ \A b \in ToSet(uses) : b \in Use /\ \E j \in 1..k : b = uses[j]
  BY DEF ToSet
<1>3. T \in SUBSET Nat
  BY <1>2 DEF UsesOf, Use
<1>4. SmokeGap \in Nat
  BY SmokesAssumption
<1>5. st \in [I -> Nat] /\ la \in [I -> Nat]
  <2>1. \A j \in I : cs[j] \in Cluster
    BY <1>1
  <2>2. \A j \in I : cs[j].start \in Nat /\ cs[j].last \in Nat
    BY <2>1 DEF Cluster
  <2>3. QED
    BY <2>2
<1>6. \A j \in I : \A b \in ToSet(uses) : In(cs[j], b) <=> b \in S /\ st[j] <= b.time /\ b.time <= la[j]
  BY DEF In, UsesOf
<1>7. \A j \in I : la[j] \in T
  <2> SUFFICES ASSUME NEW j \in I PROVE la[j] \in T
    OBVIOUS
  <2>1. PICK m \in 1..k : In(cs[j], uses[m]) /\ uses[m].time = cs[j].last
    BY <1>1 DEF Stretch
  <2>2. uses[m] \in S
    BY <1>2, <1>6, <2>1
  <2>3. QED
    BY <2>1, <2>2
<1>8. \A t \in T : \E j \in I : st[j] <= t /\ t <= la[j]
  <2> SUFFICES ASSUME NEW b \in S PROVE \E j \in I : st[j] <= b.time /\ b.time <= la[j]
    OBVIOUS
  <2>1. PICK m \in 1..k : b = uses[m]
    BY <1>2 DEF UsesOf
  <2>2. PICK j \in 1..Len(cs) : In(cs[j], b)
    BY <1>1, <2>1
  <2>3. j \in I
    BY <2>2 DEF In, UsesOf
  <2>4. QED
    BY <2>2, <2>3 DEF In
<1>9. \A j \in I : \A t \in T : st[j] <= t /\ t < la[j] => \E z \in T : t < z /\ z - t <= SmokeGap
  <2> SUFFICES ASSUME NEW j \in I, NEW b \in S, st[j] <= b.time, b.time < la[j]
               PROVE  \E z \in T : b.time < z /\ z - b.time <= SmokeGap
    OBVIOUS
  <2>1. PICK m \in 1..k : b = uses[m]
    BY <1>2 DEF UsesOf
  <2>2. In(cs[j], uses[m]) /\ uses[m].time < cs[j].last
    <3>1. b.time \in Nat /\ la[j] \in Nat /\ b.time <= la[j]
      <4>1. b.time \in Nat /\ la[j] \in Nat
        BY <1>3, <1>5
      <4>2. QED
        BY <4>1
    <3>2. b \in ToSet(uses)
      BY DEF UsesOf
    <3>3. QED
      BY <1>6, <2>1, <3>1, <3>2
  <2>3. PICK n \in 1..k : In(cs[j], uses[n]) /\ uses[m].time < uses[n].time /\ uses[n].time - uses[m].time <= SmokeGap
    BY <1>1, <2>2 DEF Stretch
  <2>4. uses[n] \in S
    BY <1>2, <1>6, <2>3
  <2>5. QED
    BY <2>1, <2>3, <2>4
<1>10. \A j, m \in I : j # m => st[j] > la[m] + SmokeGap \/ st[m] > la[j] + SmokeGap
  <2> SUFFICES ASSUME NEW j \in I, NEW m \in I, j # m
               PROVE  st[j] > la[m] + SmokeGap \/ st[m] > la[j] + SmokeGap
    OBVIOUS
  <2>1. j < m \/ m < j
    BY <1>1
  <2>2. cs[j].side = cs[m].side
    OBVIOUS
  <2>3. QED
    BY <1>1, <2>1, <2>2 DEF Apart
<1>11. a \in S /\ st[i] <= a.time /\ a.time <= la[i] /\ i \in I
  BY <1>6
<1>12. \A b \in S : b \in LinkedUses(S, a) <=> In(cs[i], b)
  <2> SUFFICES ASSUME NEW b \in S PROVE b \in LinkedUses(S, a) <=> In(cs[i], b)
    OBVIOUS
  <2>1. a.time \in T /\ b.time \in T
    BY <1>11
  <2>2. (IF a.time <= b.time THEN Linked(T, a.time, b.time, SmokeGap) ELSE Linked(T, b.time, a.time, SmokeGap))
          <=> st[i] <= b.time /\ b.time <= la[i]
    <3> DEFINE t == a.time
               u == b.time
    <3>1. t \in T /\ u \in T /\ st[i] <= t /\ t <= la[i] /\ i \in I
      BY <1>11, <2>1
    <3>2. SmokeGap \in Nat /\ T \in SUBSET Nat /\ st \in [I -> Nat] /\ la \in [I -> Nat]
      BY <1>3, <1>4, <1>5
    <3> HIDE DEF T, I, st, la, side, S, t, u
    <3>3. (IF t <= u THEN Linked(T, t, u, SmokeGap) ELSE Linked(T, u, t, SmokeGap)) <=> st[i] <= u /\ u <= la[i]
      <4>1. Stretches(T, SmokeGap, I, st, la)
        BY ONLY <1>7, <1>8, <1>9, <1>10, <3>2 DEF Stretches
      <4>2. QED
        BY ONLY <3>1, <4>1, LinkedIsTogether
    <3>4. QED
      BY <3>3 DEF t, u
  <2>3. b \in LinkedUses(S, a) <=> IF a.time <= b.time THEN Linked(T, a.time, b.time, SmokeGap) ELSE Linked(T, b.time, a.time, SmokeGap)
    BY DEF LinkedUses
  <2>4. b \in ToSet(uses)
    BY DEF UsesOf
  <2> HIDE DEF T, st, la, S, I
  <2>5. QED
    BY <1>6, <1>11, <2>2, <2>3, <2>4
<1>13. LinkedUses(S, a) \in SUBSET S /\ S \in SUBSET ToSet(uses)
  BY DEF LinkedUses, UsesOf
<1>14. \A b \in ToSet(uses) : In(cs[i], b) => b \in S
  BY DEF UsesOf, In
<1> HIDE DEF S
<1>15. LinkedUses(S, a) = {b \in ToSet(uses) : In(cs[i], b)}
  BY <1>12, <1>13, <1>14
<1>16. QED
  BY <1>15 DEF S, side

\* What the property says of a stretch is what the cluster has.
StretchFace(uses, side, a) ==
  [side |-> side, heroes |-> {b.player : b \in LinkedUses(UsesOf(uses, side), a)},
   start |-> Min({b.time : b \in LinkedUses(UsesOf(uses, side), a)})]

\* Its players and its first time are then the cluster's.
LEMMA StretchIsCluster ==
  ASSUME NEW uses \in Seq(Use), NEW cs, ClusterGood(uses, 0, cs, Len(uses)),
         NEW i \in 1..Len(cs), NEW a \in ToSet(uses), In(cs[i], a)
  PROVE  StretchFace(uses, cs[i].side, a) = Face(cs[i])
<1> DEFINE k == Len(uses)
           near == {b \in ToSet(uses) : In(cs[i], b)}
<1>1. LinkedUses(UsesOf(uses, cs[i].side), a) = near
  BY NearIsCluster
<1>2. Stretch(uses, cs[i], k) /\ cs[i] \in Cluster
  BY DEF ClusterGood
<1>3. /\ \A j \in 1..k : uses[j] \in Use /\ uses[j] \in ToSet(uses)
      /\ \A b \in ToSet(uses) : b \in Use /\ \E j \in 1..k : b = uses[j]
  BY DEF ToSet
<1>4. {b.player : b \in near} = cs[i].heroes
  <2>1. \A p : p \in cs[i].heroes <=> \E j \in 1..k : In(cs[i], uses[j]) /\ uses[j].player = p
    BY <1>2 DEF Stretch
  <2>2. QED
    BY <1>3, <2>1, SMTT(30)
<1>5. Min({b.time : b \in near}) = cs[i].start
  <2> DEFINE T == {b.time : b \in near}
  <2>1. cs[i].start \in T
    <3>1. PICK j \in 1..k : In(cs[i], uses[j]) /\ uses[j].time = cs[i].start
      BY <1>2 DEF Stretch
    <3>2. QED
      BY <1>3, <3>1
  <2>2. \A t \in T : t \in Nat /\ cs[i].start <= t
    BY <1>3 DEF In, Use
  <2>3. cs[i].start \in Nat
    BY <2>1, <2>2
  <2> HIDE DEF T
  <2>4. \A x \in T : (\A y \in T : x <= y) => x = cs[i].start
    BY <2>1, <2>2, <2>3
  <2>5. Min(T) = cs[i].start
    BY <2>1, <2>2, <2>4 DEF Min
  <2>6. QED
    BY <2>5 DEF T
<1>6. QED
  BY <1>1, <1>4, <1>5 DEF StretchFace, Face

\* The stretches of both sides' uses are the clusters.
LEMMA StretchesAreClusters ==
  ASSUME NEW uses \in Seq(Use), NEW cs, ClusterGood(uses, 0, cs, Len(uses))
  PROVE  UNION {{StretchFace(uses, side, a) : a \in UsesOf(uses, side)} : side \in BOOLEAN}
           = {Face(cs[i]) : i \in 1..Len(cs)}
<1> DEFINE all == UNION {{StretchFace(uses, side, a) : a \in UsesOf(uses, side)} : side \in BOOLEAN}
           k == Len(uses)
<1>1. /\ \A j \in 1..k : uses[j] \in Use /\ uses[j] \in ToSet(uses)
      /\ \A b \in ToSet(uses) : b \in Use /\ \E j \in 1..k : b = uses[j]
  BY DEF ToSet
<1>2. ASSUME NEW side \in BOOLEAN, NEW a \in UsesOf(uses, side)
      PROVE  StretchFace(uses, side, a) \in {Face(cs[i]) : i \in 1..Len(cs)}
  <2>1. a \in ToSet(uses) /\ SmokeSide(a.player) = side
    BY DEF UsesOf
  <2>2. PICK j \in 1..k : a = uses[j]
    BY <1>1, <2>1
  <2>3. PICK i \in 1..Len(cs) : In(cs[i], a)
    BY <2>2 DEF ClusterGood
  <2>4. cs[i].side = side
    BY <2>1, <2>3 DEF In
  <2>5. StretchFace(uses, cs[i].side, a) = Face(cs[i])
    BY <2>1, <2>3, StretchIsCluster
  <2>6. QED
    BY <2>4, <2>5
<1>3. ASSUME NEW i \in 1..Len(cs) PROVE Face(cs[i]) \in all
  <2>1. Stretch(uses, cs[i], k) /\ cs[i] \in Cluster
    BY DEF ClusterGood
  <2>2. PICK j \in 1..k : In(cs[i], uses[j])
    BY <2>1 DEF Stretch
  <2>3. uses[j] \in UsesOf(uses, cs[i].side) /\ uses[j] \in ToSet(uses)
    BY <1>1, <2>2 DEF In, UsesOf
  <2>4. StretchFace(uses, cs[i].side, uses[j]) = Face(cs[i])
    BY <2>2, <2>3, StretchIsCluster
  <2>5. cs[i].side \in BOOLEAN
    BY <2>1 DEF Cluster
  <2>6. QED
    BY <2>3, <2>4, <2>5
<1>4. QED
  BY <1>2, <1>3

\* The event made of a cluster, and the clusters that are shown
Ends(s, c) == [p \in c.heroes |-> RouteEnd(s.removes, c.start, p)]
Event(s, c) == [start |-> c.start, side |-> c.side, heroes |-> c.heroes, ends |-> Ends(s, c),
                end |-> Max({Ends(s, c)[p] : p \in c.heroes})]
Shown(uses) == Kept(SmokeClusters(uses), {c \in ToSet(SmokeClusters(uses)) : Cardinality(c.heroes) >= MinSmokers})

\* The events are those of the shown clusters.
LEMMA EventsAre ==
  \A s : DetectSmokeEvents(s) = [i \in DOMAIN Shown(s.adds) |-> Event(s, Shown(s.adds)[i])]
BY DEF DetectSmokeEvents, Shown, Event, Ends

\* The stretches of both sides' uses by enough heroes
TeamStretches(uses) ==
  {f \in UNION {{StretchFace(uses, side, a) : a \in UsesOf(uses, side)} : side \in BOOLEAN} : Cardinality(f.heroes) >= MinSmokers}

\* The events of a log in order are its stretches by a team, one each.
LEMMA EventsAreStretches ==
  ASSUME NEW s, s.adds \in Seq(Use), InOrder(s.adds)
  PROVE  /\ {Face(e) : e \in ToSet(DetectSmokeEvents(s))} = TeamStretches(s.adds)
         /\ Len(DetectSmokeEvents(s)) = Cardinality(TeamStretches(s.adds))
<1> DEFINE uses == s.adds
           cs == SmokeClusters(uses)
           big(c) == Cardinality(c.heroes) >= MinSmokers
           T == {c \in ToSet(cs) : big(c)}
           q == Shown(uses)
           n == Len(q)
           events == DetectSmokeEvents(s)
           all == UNION {{StretchFace(uses, side, a) : a \in UsesOf(uses, side)} : side \in BOOLEAN}
           sized == {f \in all : big(f)}
<1>1. ClusterGood(uses, 0, cs, Len(uses))
  BY ClustersGiven
<1>2. cs \in Seq(Cluster) /\ Apart(cs) /\ \A i \in 1..Len(cs) : Stretch(uses, cs[i], Len(uses))
  BY <1>1 DEF ClusterGood
<1>3. all = {Face(cs[i]) : i \in 1..Len(cs)}
  BY <1>1, StretchesAreClusters
<1>4. KeepGood(T, cs, q, Len(cs))
  <2>1. q = Kept(cs, T)
    BY DEF Shown
  <2> HIDE DEF cs, T, Cluster
  <2>2. QED
    BY <1>2, <2>1, KeptGives
<1>5. /\ q \in Seq(ToSet(cs)) /\ n \in Nat /\ DOMAIN q = 1..n
      /\ \A j \in 1..Len(cs) : big(cs[j]) => \E i \in 1..n : q[i] = cs[j]
      /\ \A i \in 1..n : big(q[i]) /\ \E j \in 1..Len(cs) : q[i] = cs[j]
      /\ \A i, j \in 1..n : i < j => \E m, l \in 1..Len(cs) : m < l /\ q[i] = cs[m] /\ q[j] = cs[l]
  <2>1. \A j \in 1..Len(cs) : cs[j] \in ToSet(cs)
    BY <1>2 DEF ToSet
  <2>2. q \in Seq(ToSet(cs))
    BY <1>4 DEF KeepGood
  <2>3. n \in Nat /\ DOMAIN q = 1..n
    BY <2>2
  <2>4. \A c : c \in T <=> c \in ToSet(cs) /\ big(c)
    OBVIOUS
  <2> HIDE DEF cs, q, n, big, T
  <2>5. /\ \A j \in 1..Len(cs) : cs[j] \in T => \E i \in 1..n : q[i] = cs[j]
        /\ \A i \in 1..n : q[i] \in T /\ \E j \in 1..Len(cs) : q[i] = cs[j]
        /\ \A i, j \in 1..n : i < j => \E m, l \in 1..Len(cs) : m < l /\ q[i] = cs[m] /\ q[j] = cs[l]
    BY <1>4 DEF KeepGood, n
  <2>6. \A j \in 1..Len(cs) : big(cs[j]) => \E i \in 1..n : q[i] = cs[j]
    BY <2>1, <2>4, <2>5
  <2>7. \A i \in 1..n : big(q[i]) /\ \E j \in 1..Len(cs) : q[i] = cs[j]
    BY <2>4, <2>5
  <2>8. QED
    BY <2>2, <2>3, <2>5, <2>6, <2>7
<1>6. /\ Len(events) = n /\ DOMAIN events = 1..n
      /\ \A i \in 1..n : Face(events[i]) = Face(q[i])
  <2>1. events = [i \in 1..n |-> Event(s, q[i])]
    BY <1>5, EventsAre
  <2>2. \A c : Face(Event(s, c)) = Face(c)
    BY DEF Face, Event
  <2> HIDE DEF events, q, n
  <2>3. QED
    BY <1>5, <2>1, <2>2
<1>7. \A c : big(Face(c)) <=> big(c)
  BY DEF Face
<1>8. sized = {Face(q[i]) : i \in 1..n}
  <2> HIDE DEF all, big, q, n, cs
  <2>1. ASSUME NEW i \in 1..n PROVE Face(q[i]) \in sized
    BY <1>3, <1>5, <1>7
  <2>2. ASSUME NEW f \in sized PROVE f \in {Face(q[i]) : i \in 1..n}
    <3>1. PICK j \in 1..Len(cs) : f = Face(cs[j])
      BY <1>3
    <3>2. big(cs[j])
      BY <1>7, <3>1
    <3>3. QED
      BY <1>5, <3>1, <3>2
  <2>3. QED
    BY <2>1, <2>2
<1>9. ASSUME NEW i \in 1..n, NEW j \in 1..n, i < j PROVE Face(q[i]) # Face(q[j])
  <2>1. PICK m \in 1..Len(cs), l \in 1..Len(cs) : m < l /\ q[i] = cs[m] /\ q[j] = cs[l]
    BY <1>5, <1>9
  <2>2. cs[m] \in Cluster /\ cs[l] \in Cluster /\ cs[m].start <= cs[m].last
    BY <1>2 DEF Stretch
  <2>3. cs[m].start \in Nat /\ cs[m].last \in Nat /\ cs[l].start \in Nat /\ SmokeGap \in Nat
    BY <2>2, SmokesAssumption DEF Cluster
  <2>4. CASE cs[m].side = cs[l].side
    <3>1. cs[l].start > cs[m].last + SmokeGap
      BY <1>2, <2>1, <2>4 DEF Apart
    <3>2. cs[l].start # cs[m].start
      BY <2>2, <2>3, <3>1
    <3>3. QED
      BY <2>1, <3>2 DEF Face
  <2>5. CASE cs[m].side # cs[l].side
    BY <2>1, <2>5 DEF Face
  <2>6. QED
    BY <2>4, <2>5
<1>10. Cardinality(sized) = n
  <2> DEFINE F == [i \in 1..n |-> Face(q[i])]
  <2> HIDE DEF sized, q, n
  <2>1. F \in [1..n -> sized] /\ \A f \in sized : \E i \in 1..n : F[i] = f
    BY <1>8
  <2>2. ASSUME NEW i \in 1..n, NEW j \in 1..n, i # j PROVE F[i] # F[j]
    <3>1. i < j \/ j < i
      BY <1>5, <2>2
    <3>2. QED
      BY <1>9, <3>1
  <2> HIDE DEF F
  <2>3. F \in Bijection(1..n, sized)
    BY <2>1, <2>2 DEF Bijection, Injection, Surjection, IsInjective
  <2>4. QED
    BY <1>5, <2>3, FS_CountingElements DEF ExistsBijection
<1>11. {Face(e) : e \in ToSet(events)} = {Face(q[i]) : i \in 1..n}
  <2>1. ToSet(events) = {events[i] : i \in 1..n}
    BY <1>6 DEF ToSet
  <2> HIDE DEF events, q, n
  <2>2. QED
    BY <1>6, <2>1
<1>12. sized = TeamStretches(s.adds)
  BY DEF TeamStretches
<1> HIDE DEF sized
<1>13. QED
  BY <1>6, <1>8, <1>10, <1>11, <1>12

\* A smoke of a hero, from when it covered him to when it left him
Span == [player : Smokers, from : Int, to : Nat]

\* The logs are typed and in time; an entry of the second one is the end of a
\* smoke, every ended smoke has one, and events come from the logs at the end.
SmokeInv ==
  /\ smoke = [tick |-> smoke.tick, since |-> smoke.since, spans |-> smoke.spans, adds |-> smoke.adds,
              removes |-> smoke.removes, events |-> smoke.events, over |-> smoke.over]
  /\ smoke.tick \in Nat
  /\ smoke.since \in [Smokers -> Int]
  /\ smoke.spans \in SUBSET Span
  /\ smoke.adds \in Seq(Use)
  /\ smoke.removes \in Seq(Use)
  /\ InOrder(smoke.adds)
  /\ \A i \in 1..Len(smoke.adds) : smoke.adds[i].time <= smoke.tick
  /\ \A i \in 1..Len(smoke.removes) :
       /\ smoke.removes[i].time <= smoke.tick
       /\ \E s \in smoke.spans : s.player = smoke.removes[i].player /\ s.to = smoke.removes[i].time
  /\ \A s \in smoke.spans : \E i \in 1..Len(smoke.removes) :
       smoke.removes[i].player = s.player /\ smoke.removes[i].time = s.to
  /\ smoke.over => smoke.events = DetectSmokeEvents(smoke)

\* The one smoke that left him since the start gives the route's end.
LEMMA RouteEndIsTheSpan ==
  ASSUME SmokeInv, NEW start \in Nat, NEW p, NEW s,
         {x \in smoke.spans : x.player = p /\ x.to > start} = {s}, s.to <= start + RemoveCap
  PROVE  RouteEnd(smoke.removes, start, p) = s.to
<1> DEFINE removes == smoke.removes
           fit == {i \in DOMAIN removes : removes[i].player = p /\ removes[i].time \in (start + 1)..(start + RemoveCap)}
           least == CHOOSE i \in fit : \A j \in fit : i <= j
<1>1. s \in smoke.spans /\ s.player = p /\ s.to > start /\ s.to \in Nat /\ RemoveCap \in Nat
  <2>1. s \in {x \in smoke.spans : x.player = p /\ x.to > start}
    OBVIOUS
  <2>2. QED
    BY <2>1, SmokesAssumption DEF SmokeInv, Span
<1>2. removes \in Seq(Use) /\ DOMAIN removes = 1..Len(removes) /\ Len(removes) \in Nat
  BY DEF SmokeInv
<1>3. \E i \in fit : TRUE
  <2>1. PICK i \in 1..Len(removes) : removes[i].player = s.player /\ removes[i].time = s.to
    BY <1>1 DEF SmokeInv
  <2>2. QED
    BY <1>1, <1>2, <2>1
<1>4. least \in fit
  <2>1. fit \in SUBSET Nat
    BY <1>2
  <2> HIDE DEF fit
  <2>2. \E i \in fit : \A j \in fit : i <= j
    BY <1>3, <2>1, ClusterPass!LeastNumber
  <2>3. QED
    BY <2>2
<1>5. removes[least].time = s.to
  <2> HIDE DEF least
  <2>1. least \in 1..Len(removes) /\ removes[least].player = p /\ removes[least].time > start
    BY <1>2, <1>4
  <2>2. PICK x \in smoke.spans : x.player = removes[least].player /\ x.to = removes[least].time
    BY <2>1 DEF SmokeInv
  <2>3. x \in {y \in smoke.spans : y.player = p /\ y.to > start}
    BY <2>1, <2>2
  <2>4. x = s
    BY <2>3
  <2>5. QED
    BY <2>2, <2>4
<1>6. RouteEnd(removes, start, p) = removes[least].time
  BY <1>3 DEF RouteEnd
<1>7. QED
  BY <1>5, <1>6

\* A route's end is -1 or a time of the replay.
LEMMA RouteEndBounded ==
  ASSUME SmokeInv, NEW start \in Nat, NEW p
  PROVE  RouteEnd(smoke.removes, start, p) \in -1..smoke.tick
<1> DEFINE removes == smoke.removes
           fit == {i \in DOMAIN removes : removes[i].player = p /\ removes[i].time \in (start + 1)..(start + RemoveCap)}
           least == CHOOSE i \in fit : \A j \in fit : i <= j
<1>1. removes \in Seq(Use) /\ DOMAIN removes = 1..Len(removes) /\ smoke.tick \in Nat
      /\ \A i \in 1..Len(removes) : removes[i].time \in Nat /\ removes[i].time <= smoke.tick
  <2>1. removes \in Seq(Use) /\ smoke.tick \in Nat /\ \A i \in 1..Len(removes) : removes[i].time <= smoke.tick
    BY DEF SmokeInv
  <2>2. \A i \in 1..Len(removes) : removes[i] \in Use
    BY <2>1
  <2>3. \A i \in 1..Len(removes) : removes[i].time \in Nat
    BY <2>2 DEF Use
  <2>4. DOMAIN removes = 1..Len(removes)
    BY <2>1
  <2>5. QED
    BY <2>1, <2>3, <2>4
<1>2. CASE fit = {}
  <2>1. RouteEnd(removes, start, p) = -1
    BY <1>2 DEF RouteEnd
  <2>2. -1 \in -1..smoke.tick
    BY <1>1
  <2>3. QED
    BY <2>1, <2>2
<1>3. CASE fit # {}
  <2>1. fit \in SUBSET Nat
    BY <1>1
  <2>2. least \in fit
    <3> HIDE DEF fit
    <3>1. \E i \in fit : \A j \in fit : i <= j
      BY <1>3, <2>1, ClusterPass!LeastNumber
    <3>2. QED
      BY <3>1
  <2>3. RouteEnd(removes, start, p) = removes[least].time
    BY <1>3 DEF RouteEnd
  <2> HIDE DEF least
  <2>4. QED
    BY <1>1, <2>2, <2>3
<1>4. QED
  BY <1>2, <1>3

\* A set of numbers that a bound caps has a greatest one, which Max gives.
LEMMA MaxCaps ==
  ASSUME NEW n \in Nat, NEW S \in SUBSET (-1..n), NEW x \in S
  PROVE  Max(S) >= x
<1> DEFINE R == {m \in Nat : n - m \in S}
<1>1. \E m \in Nat : n - m \in S
  <2>1. n - x \in Nat /\ n - (n - x) = x
    OBVIOUS
  <2>2. QED
    BY <2>1
<1>2. PICK m \in R : \A y \in R : m <= y
  <2>1. R # {} /\ R \in SUBSET Nat
    BY <1>1
  <2> HIDE DEF R
  <2>2. QED
    BY <2>1, ClusterPass!LeastNumber
<1>3. n - m \in S /\ m \in Nat
  OBVIOUS
<1>4. \A y \in S : n - m >= y
  <2> SUFFICES ASSUME NEW y \in S PROVE n - m >= y
    OBVIOUS
  <2>1. n - y \in Nat /\ n - (n - y) = y /\ y \in Int
    OBVIOUS
  <2>2. n - y \in R
    BY <2>1
  <2>3. m <= n - y
    BY <1>2, <2>2
  <2>4. QED
    BY <1>3, <2>1, <2>3
<1>5. Max(S) \in S /\ \A y \in S : Max(S) >= y
  BY <1>3, <1>4 DEF Max
<1>6. QED
  BY <1>5

\* A log read to its end gives both properties.
LEMMA SmokeInvFollows == SmokeInv => SmokesAreStretches /\ RoutesEndWithTheSmoke
<1> SUFFICES ASSUME SmokeInv, smoke.over PROVE SmokesAreStretches /\ RoutesEndWithTheSmoke
  BY DEF SmokesAreStretches, RoutesEndWithTheSmoke
<1> DEFINE uses == smoke.adds
           events == DetectSmokeEvents(smoke)
<1>1. smoke.events = events /\ uses \in Seq(Use) /\ InOrder(uses)
  BY DEF SmokeInv
<1>2. SmokesAreStretches
  <2>1. {Face(e) : e \in ToSet(events)} = TeamStretches(uses) /\ Len(events) = Cardinality(TeamStretches(uses))
    BY <1>1, EventsAreStretches
  <2>2. SmokesAreStretches <=> /\ {Face(e) : e \in ToSet(smoke.events)} = TeamStretches(uses)
                               /\ Len(smoke.events) = Cardinality(TeamStretches(uses))
    BY DEF SmokesAreStretches, TeamStretches, Face, StretchFace, UsesOf, LinkedUses
  <2>3. QED
    BY <1>1, <2>1, <2>2
<1>3. ASSUME NEW i \in DOMAIN Shown(uses), NEW p \in Shown(uses)[i].heroes
      PROVE  LET c == Shown(uses)[i]
                 e == Event(smoke, c)
                 mine == {s \in smoke.spans : s.player = p /\ s.to > c.start}
             IN  \A s \in mine : mine = {s} /\ s.to <= c.start + RemoveCap => e.ends[p] = s.to /\ e.end >= s.to
  <2> DEFINE c == Shown(uses)[i]
             e == Event(smoke, c)
             mine == {s \in smoke.spans : s.player = p /\ s.to > c.start}
             ends == {Ends(smoke, c)[r] : r \in c.heroes}
  <2> SUFFICES ASSUME NEW s \in mine, mine = {s}, s.to <= c.start + RemoveCap
               PROVE  e.ends[p] = s.to /\ e.end >= s.to
    OBVIOUS
  <2>1. c.start \in Nat
    <3>1. SmokeClusters(uses) \in Seq(Cluster)
      BY <1>1, ClustersGiven DEF ClusterGood
    <3>2. \A d \in ToSet(SmokeClusters(uses)) : d.start \in Nat
      <4>1. \A d \in ToSet(SmokeClusters(uses)) : d \in Cluster
        BY <3>1 DEF ToSet
      <4>2. QED
        BY <4>1 DEF Cluster
    <3>3. Shown(uses) \in Seq(ToSet(SmokeClusters(uses)))
      BY <3>1, KeptGives DEF Shown, KeepGood
    <3>4. QED
      BY <3>2, <3>3
  <2>2. RouteEnd(smoke.removes, c.start, p) = s.to
    <3> HIDE DEF c
    <3>1. QED
      BY <2>1, RouteEndIsTheSpan
  <2>3. Ends(smoke, c)[p] = s.to
    BY <2>2 DEF Ends
  <2>4. e.ends[p] = s.to
    BY <2>3 DEF Event
  <2>5. ends \in SUBSET (-1..smoke.tick)
    <3> SUFFICES ASSUME NEW r \in c.heroes PROVE Ends(smoke, c)[r] \in -1..smoke.tick
      OBVIOUS
    <3>1. RouteEnd(smoke.removes, c.start, r) \in -1..smoke.tick
      BY <2>1, RouteEndBounded
    <3>2. QED
      BY <3>1 DEF Ends
  <2>6. s.to \in ends /\ smoke.tick \in Nat
    BY <2>3 DEF SmokeInv
  <2>7. Max(ends) >= s.to
    <3> HIDE DEF ends
    <3>1. QED
      BY <2>5, <2>6, MaxCaps
  <2>8. e.end = Max(ends)
    BY DEF Event
  <2>9. QED
    BY <2>4, <2>7, <2>8
<1>4. RoutesEndWithTheSmoke
  <2> SUFFICES ASSUME NEW e \in ToSet(smoke.events), NEW p \in e.heroes, NEW s \in smoke.spans, s.player = p, s.to > e.start,
                      {x \in smoke.spans : x.player = p /\ x.to > e.start} = {s}, s.to <= e.start + RemoveCap
               PROVE  e.ends[p] = s.to /\ e.end >= s.to
    BY DEF RoutesEndWithTheSmoke
  <2>1. PICK i \in DOMAIN Shown(uses) : e = Event(smoke, Shown(uses)[i])
    BY <1>1, EventsAre DEF ToSet
  <2>2. e.heroes = Shown(uses)[i].heroes /\ e.start = Shown(uses)[i].start
    BY <2>1 DEF Event
  <2>3. QED
    BY <1>3, <2>1, <2>2
<1>5. QED
  BY <1>2, <1>4

\* Both logs are empty at the start.
LEMMA SmokeInvInit == SmokesInit => SmokeInv
<1> SUFFICES ASSUME SmokesInit PROVE SmokeInv
  OBVIOUS
<1>1. <<>> \in Seq(Use) /\ 1..Len(<<>>) = {} /\ DOMAIN <<>> = {}
  OBVIOUS
<1>2. smoke.adds = <<>> /\ smoke.removes = <<>> /\ smoke.spans = {} /\ smoke.tick = 0
      /\ smoke.since = [p \in Smokers |-> -1] /\ smoke.over = FALSE
  BY DEF SmokesInit
<1>3. smoke = [tick |-> smoke.tick, since |-> smoke.since, spans |-> smoke.spans, adds |-> smoke.adds,
               removes |-> smoke.removes, events |-> smoke.events, over |-> smoke.over]
  BY DEF SmokesInit
<1>4. QED
  BY <1>1, <1>2, <1>3 DEF SmokeInv, InOrder

\* A use is logged at the end of the log.
LEMMA SmokeOnStep ==
  ASSUME SmokeInv, NEW p \in Smokers, SmokeOn(p)
  PROVE  SmokeInv'
<1> DEFINE a == [player |-> p, time |-> smoke.tick]
           n == Len(smoke.adds)
<1>1. a \in Use /\ a.time = smoke.tick /\ smoke.tick \in Nat
  BY DEF SmokeInv, Use
<1>2. /\ smoke.over = FALSE \/ ~smoke.over
      /\ smoke' = [smoke EXCEPT !.adds = Append(@, a), !.since[p] = IF @ = -1 THEN smoke.tick ELSE @]
  BY DEF SmokeOn
<1>3. /\ smoke'.tick = smoke.tick /\ smoke'.spans = smoke.spans /\ smoke'.removes = smoke.removes
      /\ smoke'.over = smoke.over /\ smoke'.adds = Append(smoke.adds, a)
      /\ smoke'.since = [smoke.since EXCEPT ![p] = IF @ = -1 THEN smoke.tick ELSE @]
      /\ smoke' = [tick |-> smoke'.tick, since |-> smoke'.since, spans |-> smoke'.spans, adds |-> smoke'.adds,
                   removes |-> smoke'.removes, events |-> smoke'.events, over |-> smoke'.over]
  BY <1>2 DEF SmokeInv
<1>4. smoke'.since \in [Smokers -> Int]
  BY <1>1, <1>3 DEF SmokeInv
<1>5. /\ smoke'.adds \in Seq(Use) /\ n \in Nat /\ Len(smoke'.adds) = n + 1 /\ smoke'.adds[n + 1] = a
      /\ \A i \in 1..n : smoke'.adds[i] = smoke.adds[i]
      /\ \A i \in 1..(n + 1) : i \in 1..n \/ i = n + 1
  <2>1. smoke.adds \in Seq(Use)
    BY DEF SmokeInv
  <2> HIDE DEF a
  <2>2. QED
    BY <1>1, <1>3, <2>1, Appended
<1>6. \A i \in 1..n : smoke.adds[i].time <= smoke.tick
  BY DEF SmokeInv
<1>7. \A i \in 1..(n + 1) : smoke'.adds[i].time <= smoke.tick
  <2> SUFFICES ASSUME NEW i \in 1..(n + 1) PROVE smoke'.adds[i].time <= smoke.tick
    OBVIOUS
  <2> HIDE DEF a, n
  <2>1. CASE i \in 1..n
    <3>1. smoke.adds[i].time <= smoke.tick /\ smoke'.adds[i] = smoke.adds[i]
      BY <1>5, <1>6, <2>1
    <3>2. QED
      BY <3>1
  <2>2. CASE i = n + 1
    <3>1. smoke'.adds[i].time = smoke.tick
      BY <1>1, <1>5, <2>2
    <3>2. QED
      BY <1>1, <3>1
  <2>3. QED
    BY <1>5, <2>1, <2>2
<1>8. InOrder(smoke'.adds)
  <2> SUFFICES ASSUME NEW i \in 1..(n + 1), NEW j \in 1..(n + 1), i <= j
               PROVE  smoke'.adds[i].time <= smoke'.adds[j].time
    BY <1>5 DEF InOrder
  <2>1. CASE j \in 1..n
    <3>1. i \in 1..n
      BY <2>1
    <3>2. smoke.adds[i].time <= smoke.adds[j].time
      BY <2>1, <3>1 DEF SmokeInv, InOrder
    <3>3. QED
      BY <1>5, <2>1, <3>1, <3>2
  <2>2. CASE j = n + 1
    BY <1>1, <1>5, <1>7, <2>2
  <2>3. QED
    BY <1>5, <2>1, <2>2
<1>9. ~smoke'.over
  BY <1>2, <1>3 DEF SmokeOn
<1>10. SmokeInv'
  BY <1>3, <1>4, <1>5, <1>7, <1>8, <1>9 DEF SmokeInv
<1>11. QED
  BY <1>10

\* A smoke that leaves its hero is logged, and over.
LEMMA SmokeOffStep ==
  ASSUME SmokeInv, NEW p \in Smokers, SmokeOff(p)
  PROVE  SmokeInv'
<1> DEFINE r == [player |-> p, time |-> smoke.tick]
           s == [player |-> p, from |-> smoke.since[p], to |-> smoke.tick]
           n == Len(smoke.removes)
<1>1. r \in Use /\ r.time = smoke.tick /\ r.player = p /\ s \in Span /\ s.player = p /\ s.to = smoke.tick /\ smoke.tick \in Nat
  BY DEF SmokeInv, Use, Span
<1>2. /\ ~smoke.over
      /\ smoke' = [smoke EXCEPT !.removes = Append(@, r), !.since[p] = -1, !.spans = @ \cup {s}]
  BY DEF SmokeOff
<1>3. /\ smoke'.tick = smoke.tick /\ smoke'.spans = smoke.spans \cup {s} /\ smoke'.removes = Append(smoke.removes, r)
      /\ smoke'.over = smoke.over /\ smoke'.adds = smoke.adds
      /\ smoke'.since = [smoke.since EXCEPT ![p] = -1]
      /\ smoke' = [tick |-> smoke'.tick, since |-> smoke'.since, spans |-> smoke'.spans, adds |-> smoke'.adds,
                   removes |-> smoke'.removes, events |-> smoke'.events, over |-> smoke'.over]
  <2> HIDE DEF r, s
  <2>1. QED
    BY <1>2 DEF SmokeInv
<1>4. smoke'.since \in [Smokers -> Int] /\ smoke'.spans \in SUBSET Span
  BY <1>1, <1>3 DEF SmokeInv
<1>5. /\ smoke'.removes \in Seq(Use) /\ n \in Nat /\ Len(smoke'.removes) = n + 1 /\ smoke'.removes[n + 1] = r
      /\ \A i \in 1..n : smoke'.removes[i] = smoke.removes[i] /\ i \in 1..(n + 1)
      /\ \A i \in 1..(n + 1) : i \in 1..n \/ i = n + 1
      /\ n + 1 \in 1..(n + 1)
  <2>1. smoke.removes \in Seq(Use)
    BY DEF SmokeInv
  <2> HIDE DEF r
  <2>2. QED
    BY <1>1, <1>3, <2>1, Appended
<1>6. ASSUME NEW i \in 1..(n + 1)
      PROVE  /\ smoke'.removes[i].time <= smoke.tick
             /\ \E x \in smoke'.spans : x.player = smoke'.removes[i].player /\ x.to = smoke'.removes[i].time
  <2> HIDE DEF r, s
  <2>1. CASE i \in 1..n
    <3>1. smoke.removes[i].time <= smoke.tick
      BY <2>1 DEF SmokeInv
    <3>2. PICK x \in smoke.spans : x.player = smoke.removes[i].player /\ x.to = smoke.removes[i].time
      BY <2>1 DEF SmokeInv
    <3>3. QED
      BY <1>3, <1>5, <2>1, <3>1, <3>2
  <2>2. CASE i = n + 1
    BY <1>1, <1>3, <1>5, <2>2
  <2>3. QED
    BY <1>5, <2>1, <2>2
<1>7. ASSUME NEW x \in smoke'.spans
      PROVE  \E i \in 1..(n + 1) : smoke'.removes[i].player = x.player /\ smoke'.removes[i].time = x.to
  <2> HIDE DEF r, s
  <2>1. CASE x \in smoke.spans
    <3>1. PICK i \in 1..n : smoke.removes[i].player = x.player /\ smoke.removes[i].time = x.to
      BY <2>1 DEF SmokeInv
    <3>2. QED
      BY <1>5, <3>1
  <2>2. CASE x = s
    BY <1>1, <1>5, <2>2
  <2>3. QED
    BY <1>3, <2>1, <2>2
<1>8. /\ smoke.adds \in Seq(Use) /\ InOrder(smoke.adds)
      /\ \A i \in 1..Len(smoke.adds) : smoke.adds[i].time <= smoke.tick
  BY DEF SmokeInv
<1>9. ~smoke'.over
  BY <1>2, <1>3
<1> HIDE DEF r, s
<1>10. QED
  BY <1>1, <1>3, <1>4, <1>5, <1>6, <1>7, <1>8, <1>9 DEF SmokeInv

\* The clock, and the end of the replay
LEMMA SmokeRestStep ==
  ASSUME SmokeInv, SmokeTick \/ SmokesEnd \/ UNCHANGED smoke
  PROVE  SmokeInv'
<1>1. CASE SmokeTick
  <2>1. /\ ~smoke.over /\ smoke.tick \in Nat
        /\ smoke'.tick = smoke.tick + 1 /\ smoke'.spans = smoke.spans /\ smoke'.removes = smoke.removes
        /\ smoke'.over = smoke.over /\ smoke'.adds = smoke.adds /\ smoke'.since = smoke.since
        /\ smoke' = [tick |-> smoke'.tick, since |-> smoke'.since, spans |-> smoke'.spans, adds |-> smoke'.adds,
                     removes |-> smoke'.removes, events |-> smoke'.events, over |-> smoke'.over]
    BY <1>1 DEF SmokeTick, SmokeInv
  <2>2. \A i \in 1..Len(smoke.adds) : smoke.adds[i].time <= smoke.tick + 1
    <3>1. smoke.adds \in Seq(Use) /\ \A i \in 1..Len(smoke.adds) : smoke.adds[i].time <= smoke.tick
      BY DEF SmokeInv
    <3>2. \A i \in 1..Len(smoke.adds) : smoke.adds[i].time \in Nat
      <4>1. \A i \in 1..Len(smoke.adds) : smoke.adds[i] \in Use
        BY <3>1
      <4>2. QED
        BY <4>1 DEF Use
    <3>3. QED
      BY <2>1, <3>1, <3>2
  <2>3. \A i \in 1..Len(smoke.removes) : smoke.removes[i].time <= smoke.tick + 1
    <3>1. smoke.removes \in Seq(Use) /\ \A i \in 1..Len(smoke.removes) : smoke.removes[i].time <= smoke.tick
      BY DEF SmokeInv
    <3>2. \A i \in 1..Len(smoke.removes) : smoke.removes[i].time \in Nat
      <4>1. \A i \in 1..Len(smoke.removes) : smoke.removes[i] \in Use
        BY <3>1
      <4>2. QED
        BY <4>1 DEF Use
    <3>3. QED
      BY <2>1, <3>1, <3>2
  <2>4. /\ smoke.since \in [Smokers -> Int] /\ smoke.spans \in SUBSET Span /\ smoke.adds \in Seq(Use)
        /\ smoke.removes \in Seq(Use) /\ InOrder(smoke.adds)
        /\ \A i \in 1..Len(smoke.removes) :
             \E s \in smoke.spans : s.player = smoke.removes[i].player /\ s.to = smoke.removes[i].time
        /\ \A s \in smoke.spans : \E i \in 1..Len(smoke.removes) :
             smoke.removes[i].player = s.player /\ smoke.removes[i].time = s.to
    BY DEF SmokeInv
  <2>5. QED
    BY <2>1, <2>2, <2>3, <2>4 DEF SmokeInv
<1>2. CASE SmokesEnd
  <2>1. smoke' = [smoke EXCEPT !.over = TRUE, !.events = DetectSmokeEvents(smoke)]
    BY <1>2 DEF SmokesEnd
  <2>2. /\ smoke'.tick = smoke.tick /\ smoke'.spans = smoke.spans /\ smoke'.removes = smoke.removes
        /\ smoke'.adds = smoke.adds /\ smoke'.since = smoke.since
        /\ smoke'.events = DetectSmokeEvents(smoke)
        /\ smoke' = [tick |-> smoke'.tick, since |-> smoke'.since, spans |-> smoke'.spans, adds |-> smoke'.adds,
                     removes |-> smoke'.removes, events |-> smoke'.events, over |-> smoke'.over]
    BY <2>1 DEF SmokeInv
  <2>3. DetectSmokeEvents(smoke') = DetectSmokeEvents(smoke)
    BY <2>2, SMTT(30) DEF DetectSmokeEvents
  <2>4. QED
    BY <2>2, <2>3 DEF SmokeInv
<1>3. CASE UNCHANGED smoke
  BY <1>3 DEF SmokeInv
<1>4. QED
  BY <1>1, <1>2, <1>3

\* Every step keeps the logs and the smokes together.
LEMMA SmokeInvNext == SmokeInv /\ [SmokesNext]_smoke => SmokeInv'
BY SmokeOnStep, SmokeOffStep, SmokeRestStep DEF SmokesNext

\* The smokes shown are the stretches of each side's uses, one each, for any
\* players, any number of smokes of both sides and any window.
THEOREM SmokesShownAreStretches == Spec => []SmokesAreStretches
<1>1. Init => SmokeInv
  BY SmokeInvInit DEF Init
<1>2. SmokeInv /\ [Next]_parserVars => SmokeInv'
  BY SmokeInvNext DEF Next, parserVars
<1>3. QED
  BY <1>1, <1>2, SmokeInvFollows, PTL DEF Spec

\* A participant's route ends with the smoke that left him, by the same invariant.
THEOREM RoutesEnd == Spec => []RoutesEndWithTheSmoke
<1>1. Init => SmokeInv
  BY SmokeInvInit DEF Init
<1>2. SmokeInv /\ [Next]_parserVars => SmokeInv'
  BY SmokeInvNext DEF Next, parserVars
<1>3. QED
  BY <1>1, <1>2, SmokeInvFollows, PTL DEF Spec
=============================================================================
