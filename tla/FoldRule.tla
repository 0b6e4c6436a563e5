------------------------------ MODULE FoldRule ------------------------------
(***************************************************************************)
(* The rule the proofs about loops use.  A loop of the model is a FoldLeft *)
(* with a step of its own; a module that proves something about it states  *)
(* the step and the loop's invariant as operators of four parameters, two  *)
(* of them for what the loop only reads, and instantiates this one.        *)
(***************************************************************************)
EXTENDS Integers, Sequences, Folds, WellFoundedInduction, TLAPS

CONSTANTS Op(_, _, _, _),    \* the accumulator after one more element
          Good(_, _, _, _)   \* the invariant: of the accumulator after k elements

Highest(S) == CHOOSE x \in S : \A y \in S : x >= y

\* The loop: FoldLeft of the community modules, with the step's reading made explicit
Fold(c, d, b, s) == MapThenFoldSet(LAMBDA x, y : Op(c, d, y, x), b, LAMBDA i : s[i], LAMBDA S : Highest(S), DOMAIN s)

\* A set of numbers has a least one (a loop's first bad step).
LEMMA LeastNumber ==
  ASSUME NEW S \in SUBSET Nat, S # {}
  PROVE  \E x \in S : \A y \in S : x <= y
<1> DEFINE R == {p \in Nat \X Nat : p[1] < p[2]}
<1>1. IsWellFoundedOn(R, Nat)
  BY NatLessThanWellFounded, Zenon DEF OpToRel
<1>2. PICK x \in S : \A y \in S : ~ (<<y, x>> \in R)
  <2> HIDE DEF R
  <2>1. QED
    BY <1>1, WFMin
<1>3. \A y \in S : x <= y
  <2> SUFFICES ASSUME NEW y \in S PROVE ~(y < x)
    OBVIOUS
  <2>1. <<y, x>> \notin R
    BY <1>2
  <2>2. QED
    BY <2>1
<1>4. QED
  BY <1>3

\* Induction over the steps of a loop, as membership in a set
THEOREM UpTo ==
  ASSUME NEW n \in Nat, NEW S, 0 \in S, \A k \in 0..(n - 1) : k \in S => k + 1 \in S
  PROVE  \A k \in 0..n : k \in S
<1> SUFFICES ASSUME NEW k \in 0..n, k \notin S PROVE FALSE
  OBVIOUS
<1> DEFINE Bad == {j \in 0..n : j \notin S}
<1>1. PICK x \in Bad : \A y \in Bad : x <= y
  <2>1. Bad \in SUBSET Nat /\ Bad # {}
    OBVIOUS
  <2>2. QED
    BY <2>1, LeastNumber
<1>2. x - 1 \in 0..(n - 1) /\ x - 1 \notin Bad
  BY <1>1
<1>3. QED
  BY <1>2

\* FoldLeft takes the highest index first: of 1..k + 1, it is k + 1.
LEMMA MaxOf ==
  ASSUME NEW k \in Nat, NEW t \in SUBSET (1..(k + 1)), k + 1 \in t
  PROVE  Highest(t) = k + 1
<1>1. \A y \in t : k + 1 >= y
  OBVIOUS
<1>2. \A x \in t : (\A y \in t : x >= y) => x = k + 1
  OBVIOUS
<1>3. QED
  BY <1>1, <1>2 DEF Highest

\* h runs through the values of the accumulator, from b to the fold of s.
IsRun(c, d, b, s, h) ==
  /\ DOMAIN h = 0..Len(s)
  /\ h[0] = b
  /\ \A k \in 0..(Len(s) - 1) : h[k + 1] = Op(c, d, h[k], s[k + 1])
  /\ Fold(c, d, b, s) = h[Len(s)]

\* Every loop over a sequence has such a run: the recursion behind FoldLeft ends.
THEOREM Runs ==
  ASSUME NEW c, NEW d, NEW b, NEW E, NEW s \in Seq(E)
  PROVE  \E h : IsRun(c, d, b, s, h)
<1> DEFINE n == Len(s)
           F(f, D) == [t \in SUBSET D |-> IF t = {} THEN b ELSE Op(c, d, f[t \ {Highest(t)}], s[Highest(t)])]
           Has(k) == \E f : f = F(f, 1..k)
           f == CHOOSE g : g = F(g, 1..n)
<1>1. n \in Nat /\ DOMAIN s = 1..n
  OBVIOUS
<1>2. Fold(c, d, b, s) = f[1..n]
  BY <1>1 DEF Fold, MapThenFoldSet
<1>3. Has(0)
  <2>1. F([t \in {{}} |-> b], {}) = [t \in {{}} |-> b]
    OBVIOUS
  <2>2. 1..0 = {}
    OBVIOUS
  <2>3. QED
    BY <2>1, <2>2
<1>4. ASSUME NEW k \in Nat, Has(k) PROVE Has(k + 1)
  <2>1. PICK g : g = F(g, 1..k)
    BY <1>4
  <2> DEFINE v(t) == IF t = {} THEN b ELSE Op(c, d, g[t \ {Highest(t)}], s[Highest(t)])
             e == [t \in SUBSET (1..(k + 1)) |-> IF t \in SUBSET (1..k) THEN g[t] ELSE v(t)]
  <2>2. ASSUME NEW t \in SUBSET (1..(k + 1)) PROVE e[t] = IF t = {} THEN b ELSE Op(c, d, e[t \ {Highest(t)}], s[Highest(t)])
    <3>1. CASE t \in SUBSET (1..k)
      <4>1. e[t] = g[t] /\ g[t] = v(t)
        BY <2>1, <3>1
      <4>2. t \ {Highest(t)} \in SUBSET (1..k) /\ t \ {Highest(t)} \in SUBSET (1..(k + 1))
        BY <3>1
      <4>3. e[t \ {Highest(t)}] = g[t \ {Highest(t)}]
        BY <4>2
      <4>4. QED
        BY <4>1, <4>3
    <3>2. CASE t \notin SUBSET (1..k)
      <4>1. k + 1 \in t
        BY <3>2
      <4>2. Highest(t) = k + 1
        BY <4>1, MaxOf
      <4>3. t \ {Highest(t)} \in SUBSET (1..k) /\ t \ {Highest(t)} \in SUBSET (1..(k + 1))
        BY <4>2
      <4>4. e[t] = v(t) /\ e[t \ {Highest(t)}] = g[t \ {Highest(t)}] /\ t # {}
        BY <3>2, <4>1, <4>3
      <4>5. QED
        BY <4>4
    <3>3. QED
      BY <3>1, <3>2
  <2>3. DOMAIN e = SUBSET (1..(k + 1))
    OBVIOUS
  <2>4. e = [t \in SUBSET (1..(k + 1)) |-> e[t]]
    OBVIOUS
  <2> HIDE DEF e, v
  <2>5. e = F(e, 1..(k + 1))
    BY <2>2, <2>4
  <2>6. QED
    BY <2>5
<1>5. Has(n)
  <2> DEFINE S == {k \in Nat : Has(k)}
  <2> HIDE DEF Has
  <2>1. 0 \in S /\ \A k \in 0..(n - 1) : k \in S => k + 1 \in S
    BY <1>1, <1>3, <1>4
  <2>2. \A k \in 0..n : k \in S
    <3> HIDE DEF S, n
    <3>1. QED
      BY <1>1, <2>1, UpTo
  <2>3. QED
    BY <1>1, <2>2
<1>6. f = F(f, 1..n)
  BY <1>5, Zenon
<1> DEFINE h == [k \in 0..n |-> f[1..k]]
<1> HIDE DEF f
<1>7. DOMAIN h = 0..n /\ h[n] = f[1..n]
  BY <1>1
<1>8. h[0] = b
  <2>1. 1..0 = {} /\ {} \in SUBSET (1..n)
    OBVIOUS
  <2>2. f[{}] = b
    BY <1>6, <2>1
  <2>3. QED
    BY <1>1, <2>1, <2>2
<1>9. ASSUME NEW k \in 0..(n - 1) PROVE h[k + 1] = Op(c, d, h[k], s[k + 1])
  <2>1. /\ k \in Nat /\ k \in 0..n /\ k + 1 \in 0..n /\ 1..(k + 1) \in SUBSET (1..n) /\ k + 1 \in 1..(k + 1)
    BY <1>1
  <2>2. Highest(1..(k + 1)) = k + 1
    BY <2>1, MaxOf
  <2>3. (1..(k + 1)) \ {k + 1} = 1..k
    BY <2>1
  <2>4. f[1..(k + 1)] = Op(c, d, f[1..k], s[k + 1])
    BY <1>6, <2>1, <2>2, <2>3
  <2>5. QED
    BY <2>1, <2>4
<1>10. QED
  BY <1>2, <1>7, <1>8, <1>9 DEF IsRun

\* The rule: an invariant that holds before the loop and that each step keeps
\* holds after the loop.
THEOREM FoldHolds ==
  ASSUME NEW c, NEW d, NEW b, NEW E, NEW s \in Seq(E), Good(c, d, b, 0),
         \A k \in 0..(Len(s) - 1) : \A q : Good(c, d, q, k) => Good(c, d, Op(c, d, q, s[k + 1]), k + 1)
  PROVE  Good(c, d, Fold(c, d, b, s), Len(s))
<1>1. PICK h : IsRun(c, d, b, s, h)
  BY Runs
<1> DEFINE n == Len(s)
           S == {k \in Nat : k <= n => Good(c, d, h[k], k)}
<1>2. n \in Nat
  OBVIOUS
<1>3. 0 \in S
  BY <1>1 DEF IsRun
<1>4. ASSUME NEW k \in 0..(n - 1), k \in S PROVE k + 1 \in S
  <2>1. k \in Nat /\ k + 1 \in Nat /\ k <= n
    BY <1>2
  <2>2. Good(c, d, Op(c, d, h[k], s[k + 1]), k + 1)
    BY <1>4, <2>1
  <2>3. QED
    BY <1>1, <2>1, <2>2 DEF IsRun
<1>5. n \in S
  <2> HIDE DEF S, n
  <2>1. \A k \in 0..n : k \in S
    BY <1>2, <1>3, <1>4, UpTo
  <2>2. QED
    BY <1>2, <2>1
<1>6. QED
  BY <1>1, <1>2, <1>5 DEF IsRun
=============================================================================
