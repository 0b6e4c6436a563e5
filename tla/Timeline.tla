------------------------------ MODULE Timeline ------------------------------
(***************************************************************************)
(* What the parser's passes over a replay share: lists in time order and   *)
(* the clock their entries are stamped with.                               *)
(***************************************************************************)
EXTENDS Integers, SequencesExt

\* sort.Slice: the elements of S in the order of before, which is total on S
Sorted(S, before(_, _)) ==
  LET place == [x \in S |-> Cardinality({y \in S : before(y, x)}) + 1]
  IN  [k \in 1..Cardinality(S) |-> CHOOSE x \in S : place[x] = k]

\* The loop that appends what is of T
Kept(s, T) == FoldLeft(LAMBDA q, x : IF x \in T THEN Append(q, x) ELSE q, <<>>, s)

CONSTANTS Epoch, Band  \* preHornEpoch and minus preHornBand

\* The game clock, whose zero is the horn; until that is known (s.start), stamps are
\* parked far below any time of a game
ActualGameSeconds(s, raw) == IF s.start > 0 THEN raw - s.start ELSE raw - Epoch

Rebased(t, delta) == IF t <= -Band THEN t + delta ELSE t

\* f with x at v
With(f, x, v) == [y \in DOMAIN f \cup {x} |-> IF y = x THEN v ELSE f[y]]

\* |t - u|
Gap(t, u) == IF t < u THEN u - t ELSE t - u

\* Between the times t and u, no two in a row of T are further apart than gap.
Linked(T, t, u, gap) == \A w \in T : t <= w /\ w < u => \E z \in T : w < z /\ z - w <= gap
=============================================================================
