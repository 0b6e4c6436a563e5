-------------------------------- MODULE Roles --------------------------------
(***************************************************************************)
(* Lanes and positions of one side (main.go: detectLane, detectErasedLane, *)
(* detectStartLane, detectLanePartner, detectLanes, assignPositions).      *)
(*                                                                         *)
(* What a player's position samples say is abstracted to the zone of their *)
(* mean and the zones of their fifths: the first one is the start, the     *)
(* second and third are the early window.  A side of fewer than five gets  *)
(* positions by last hits alone, for which its scores stand.               *)
(***************************************************************************)
EXTENDS Timeline

CONSTANTS Team,      \* the players of the side, as numbers
          Walks,     \* what samples may say: mean, and zones of the fifths; "" for too few
          Seats,     \* lane, wards and core score of a player: farm less wards, higher for a core
          Trio       \* players enough for the lane passes

Lanes == {"mid", "safe", "off", "jungle", "roam", "unknown"}

ASSUME RolesAssumption ==
  /\ Team \subseteq Nat /\ IsFiniteSet(Team) /\ Cardinality(Team) = 5  \* assignPositions ranks other sides by last hits
  /\ Trio \subseteq Team /\ \A x \in Seats : x.lane \in Lanes /\ x.score \in Nat /\ x.wards \in Nat
  /\ \A w \in Walks : w.mean \in {"bottom", "top", "mid", "jungle", "roam", ""} /\ Len(w.fifths) = 3

VARIABLE team

(***************************************************************************)
(* Lanes.  The side is the one whose safe lane is the bottom.              *)
(***************************************************************************)
LaneZoneToLane(z) == CASE z = "bottom" -> "safe" [] z = "top" -> "off" [] OTHER -> z

\* The loops go over the players in their order, and over the free slots from the lowest.
Ascending(S) == Sorted(S, LAMBDA a, b : a < b)

DetectLane(w) == IF w.mean = "" THEN "unknown" ELSE LaneZoneToLane(w.mean)

\* The lane zone that holds two thirds of the early window, "" for none
DetectErasedLane(w) ==
  IF w.mean # "" /\ w.fifths[2] = w.fifths[3] /\ w.fifths[2] \in {"mid", "bottom", "top"}
  THEN LaneZoneToLane(w.fifths[2]) ELSE ""

\* The side lane he started in
DetectStartLane(w) ==
  IF w.mean # "" /\ w.fifths[1] \in {"bottom", "top"} THEN LaneZoneToLane(w.fifths[1]) ELSE ""

\* Mutant of Reconciled: a partner moves whoever is next to him.
Reconciled_Always(s) ==
  LET move(lanes, i) ==
        LET p == s.partner[i]
        IN  IF p = -1 THEN lanes ELSE IF lanes[p] \in {"safe", "off"} THEN [lanes EXCEPT ![i] = lanes[p]] ELSE lanes
  IN  FoldLeft(move, [i \in Trio |-> DetectLane(s.walk[i])], Ascending(Trio))

\* The partner's side lane, unless his own early minutes confirm his; in the order
\* of the players, each seeing the lanes already moved
Reconciled(s) ==
  LET own(i) == DetectErasedLane(s.walk[i])
      move(lanes, i) ==
        LET p == s.partner[i]
            moves == p # -1 /\ lanes[p] \in {"safe", "off"} /\ ~(own(i) # "" /\ own(i) = lanes[i])
        IN  IF moves THEN [lanes EXCEPT ![i] = lanes[p]] ELSE lanes
  IN  FoldLeft(move, [i \in Trio |-> DetectLane(s.walk[i])], Ascending(Trio))

\* The reported lane of a player whose lane came out as l
Reported(w, l) ==
  LET up == DetectErasedLane(w)
      start == DetectStartLane(w)
  IN  CASE l \in {"jungle", "roam"} -> [lane |-> IF up = "" THEN l ELSE up, roamed |-> FALSE]
        [] l = "mid" /\ up = ""     -> [lane |-> IF start = "" THEN l ELSE start, roamed |-> start # ""]
        [] l = "mid" /\ up # ""     -> [lane |-> up, roamed |-> FALSE]
        [] OTHER                    -> [lane |-> l, roamed |-> FALSE]

DetectLanes(s) == [i \in Trio |-> Reported(s.walk[i], Reconciled(s)[i])]

(***************************************************************************)
(* Positions                                                               *)
(***************************************************************************)
\* The sort is stable and the players are in order.
FarmerFirst(s, S) == Sorted(S, LAMBDA i, j : s.score[i] > s.score[j] \/ (s.score[i] = s.score[j] /\ i < j))

\* A lone mid who did less than a quarter of the warding
SoloMid(s) ==
  LET mids == {i \in Team : s.lane[i] = "mid"}
      all  == MapThenSumSet(LAMBDA i : s.wards[i], Team)
  IN  IF Cardinality(mids) = 1 THEN {i \in mids : all < 5 \/ 4 * s.wards[i] < all} ELSE {}

Cores(s) ==
  LET ranked == FarmerFirst(s, Team \ SoloMid(s))
  IN  SoloMid(s) \cup ToSet(SubSeq(ranked, 1, 3 - Cardinality(SoloMid(s))))

\* f and g, whose domains do not meet
Both(f, g) == [x \in DOMAIN f \cup DOMAIN g |-> IF x \in DOMAIN f THEN f[x] ELSE g[x]]

\* Mutant of CoreSlots: a slot is not marked as used.
CoreSlots_FreeAgain(s) ==
  LET cores == FarmerFirst(s, Cores(s))
      named(got, x) ==
        LET fit == {k \in DOMAIN cores : cores[k] \notin DOMAIN got /\ s.lane[cores[k]] = x[1]}
        IN  IF fit = {} THEN got ELSE With(got, cores[Min(fit)], x[2])
      byLane == FoldLeft(named, <<>>, <<<<"mid", 2>>, <<"safe", 1>>, <<"off", 3>>>>)
      rest   == Kept(cores, ToSet(cores) \ DOMAIN byLane)
  IN  Both(byLane, [i \in ToSet(rest) |-> CHOOSE k \in DOMAIN rest : rest[k] = i])

\* A lane names its slot for the best farmer of it; the other cores take what is left.
CoreSlots(s) ==
  LET cores == FarmerFirst(s, Cores(s))
      named(got, x) ==
        LET fit == {k \in DOMAIN cores : cores[k] \notin DOMAIN got /\ s.lane[cores[k]] = x[1]}
        IN  IF fit = {} THEN got ELSE With(got, cores[Min(fit)], x[2])
      byLane == FoldLeft(named, <<>>, <<<<"mid", 2>>, <<"safe", 1>>, <<"off", 3>>>>)
      free   == Ascending((1..3) \ Range(byLane))
      rest   == Kept(cores, ToSet(cores) \ DOMAIN byLane)
  IN  Both(byLane, [i \in ToSet(rest) |-> free[CHOOSE k \in DOMAIN rest : rest[k] = i]])

SupportSlots(s) ==
  LET pair   == FarmerFirst(s, Team \ Cores(s))
      richer == pair[1]
      poorer == pair[2]
      in(l)  == {i \in {richer, poorer} : s.lane[i] = l}
      five   == CASE Cardinality(in("safe")) = 1 -> CHOOSE i \in in("safe") : TRUE
                  [] Cardinality(in("safe")) # 1 /\ in("off") = {poorer} -> richer
                  [] OTHER -> poorer
  IN  [i \in {richer, poorer} |-> IF i = five THEN 5 ELSE 4]

AssignPositions(s) ==
  IF Cardinality(DOMAIN s.lane) # 5
  THEN LET ranked == FarmerFirst(s, DOMAIN s.lane)
       IN  [i \in DOMAIN s.lane |-> CHOOSE k \in DOMAIN ranked : ranked[k] = i]
  ELSE Both(CoreSlots(s), SupportSlots(s))

(***************************************************************************)
(* Inputs, one player at a time: samples and partners, or lanes, farm and  *)
(* wards                                                                   *)
(***************************************************************************)
RolesInit ==
  team = [walk |-> <<>>, partner |-> <<>>, lane |-> <<>>, score |-> <<>>, wards |-> <<>>, done |-> "no", out |-> <<>>]

Rest(f, S) == S \ DOMAIN f

WalkLane(w, p) ==
  LET i == Min(Rest(team.walk, Trio))
  IN  /\ team.done = "no" /\ team.lane = <<>> /\ Rest(team.walk, Trio) # {} /\ p # i
      /\ team' = [team EXCEPT !.walk = With(@, i, w), !.partner = With(@, i, p)]

NameLanes ==
  /\ team.done = "no" /\ Rest(team.walk, Trio) = {}
  /\ team' = [team EXCEPT !.done = "lanes", !.out = DetectLanes(team)]

Seat(x) ==
  LET i == Min(Rest(team.lane, Team))
  IN  /\ team.done = "no" /\ team.walk = <<>> /\ Rest(team.lane, Team) # {}
      /\ team' = [team EXCEPT !.lane = With(@, i, x.lane), !.score = With(@, i, x.score), !.wards = With(@, i, x.wards)]

NamePositions ==
  /\ team.done = "no" /\ team.lane # <<>>
  /\ team' = [team EXCEPT !.done = "positions", !.out = AssignPositions(team)]

RolesNext ==
  \/ \E w \in Walks, p \in Trio \cup {-1} : WalkLane(w, p)
  \/ NameLanes
  \/ \E x \in Seats : Seat(x)
  \/ NamePositions

-----------------------------------------------------------------------------
\* "ALWAYS emits a clean permutation of 1..5 per team": and a lone mid who is not the
\* team's warder is 2, no core but him farmed less than a support, the safe-lane
\* support is 5 and the off-lane one 4, whatever lanes the others have.
PositionsPermute ==
  LET who(n) == CHOOSE i \in DOMAIN team.out : team.out[i] = n
      lane(n) == team.lane[who(n)]
  IN  team.done = "positions" =>
        /\ Range(team.out) = 1..Cardinality(DOMAIN team.lane) /\ DOMAIN team.out = DOMAIN team.lane
        /\ DOMAIN team.lane = Team =>
             /\ \A i \in SoloMid(team) : team.out[i] = 2
             /\ \A i, j \in Team : team.out[i] <= 3 /\ team.out[j] > 3 /\ i \notin SoloMid(team)
                                     => team.score[i] >= team.score[j]
             /\ lane(4) = "safe" => lane(5) = "safe"
             /\ lane(5) = "off" => lane(4) = "off"

\* Whoever stood one lane through his early minutes is reported in it when the mean
\* of his samples agrees or names no lane, whatever partner he had; and mid is
\* reported only for who stood it, or started and stood nowhere.
LaneStoodIsReported ==
  team.done = "lanes" => \A i \in Trio :
    LET w == team.walk[i]
        stood == DetectErasedLane(w)
    IN  /\ stood # "" /\ DetectLane(w) = stood => team.out[i].lane = stood
        /\ stood # "" /\ DetectLane(w) \in {"jungle", "roam"} /\ team.partner[i] = -1 => team.out[i].lane = stood
        /\ team.out[i].lane = "mid" => stood = "mid" \/ (stood = "" /\ DetectStartLane(w) = "")
        /\ team.out[i].roamed => stood = "" /\ DetectLane(w) = "mid"
=============================================================================
