-------------------------- MODULE MarketDataProofs --------------------------
(***************************************************************************)
(* MarketData proved for answers of any length: what two stable sorts in   *)
(* place and the rounded sums of reduce make of a list of changes.         *)
(***************************************************************************)
EXTENDS MarketData, FiniteSetTheorems, TLAPS

\* Induction over data.  Strict inclusion of finite sets is well-founded, so what
\* a finite set inherits from its proper subsets holds of all its subsets: else
\* there would be a smallest one without it.
LEMMA SubsetInduction ==
  ASSUME NEW S, IsFiniteSet(S), NEW Good \in SUBSET SUBSET S,
         \A T \in SUBSET S : (\A U \in SUBSET T : U # T => U \in Good) => T \in Good
  PROVE  Good = SUBSET S
<1>1. IsWellFoundedOn(StrictSubsetOrdering(S), SUBSET S)
  BY FS_StrictSubsetOrderingWellFounded, FS_FiniteSubsetsOfFinite
<1>2. ASSUME NEW Bad, Bad = (SUBSET S) \ Good, Bad # {} PROVE FALSE
  <2>1. PICK T \in Bad : \A U \in Bad : ~(<<U, T>> \in StrictSubsetOrdering(S))
    BY <1>1, <1>2, WFMin
  <2>2. \A U \in SUBSET T : U # T => U \in Good
    BY <1>2, <2>1 DEF StrictSubsetOrdering
  <2>. QED
    BY <1>2, <2>1, <2>2
<1>3. (SUBSET S) \ Good = {}
  BY <1>2
<1>. QED
  BY <1>3

-----------------------------------------------------------------------------
(* Least and greatest numbers                                               *)

LEMMA MinIs ==
  ASSUME NEW S \in SUBSET Int, NEW x \in S, \A y \in S : x <= y
  PROVE  Min(S) = x
<1>1. \A z \in S : (\A y \in S : z <= y) => z = x
  OBVIOUS
<1>. QED
  BY <1>1 DEF Min

LEMMA MaxIs ==
  ASSUME NEW S \in SUBSET Int, NEW x \in S, \A y \in S : x >= y
  PROVE  Max(S) = x
<1>1. \A z \in S : (\A y \in S : z >= y) => z = x
  OBVIOUS
<1>. QED
  BY <1>1 DEF Max

LEMMA ExtremesExist ==
  ASSUME NEW S \in SUBSET Int, IsFiniteSet(S), S # {}
  PROVE  /\ Min(S) \in S /\ \A y \in S : Min(S) <= y
         /\ Max(S) \in S /\ \A y \in S : Max(S) >= y
<1>. DEFINE P(T) == T # {} => /\ \E x \in T : \A y \in T : x <= y
                             /\ \E x \in T : \A y \in T : x >= y
            Good == {T \in SUBSET S : P(T)}
<1>1. ASSUME NEW T \in SUBSET S, \A U \in SUBSET T : U # T => P(U), NEW x \in T PROVE P(T)
  <2>1. T \ {x} # T /\ P(T \ {x})
    BY <1>1
  <2>2. CASE T \ {x} = {}
    <3>1. T = {x}
      BY <2>2
    <3>. QED
      BY <3>1
  <2>3. CASE T \ {x} # {}
    <3>1. PICK low \in T \ {x} : \A y \in T \ {x} : low <= y
      BY <2>1, <2>3
    <3>2. PICK high \in T \ {x} : \A y \in T \ {x} : high >= y
      BY <2>1, <2>3
    <3>3. \E z \in T : \A y \in T : z <= y
      <4>1. CASE x <= low
        BY <3>1, <4>1
      <4>2. CASE ~(x <= low)
        BY <3>1, <4>2
      <4>. QED
        BY <4>1, <4>2
    <3>4. \E z \in T : \A y \in T : z >= y
      <4>1. CASE x >= high
        BY <3>2, <4>1
      <4>2. CASE ~(x >= high)
        BY <3>2, <4>2
      <4>. QED
        BY <4>1, <4>2
    <3>. QED
      BY <3>3, <3>4
  <2>. QED
    BY <2>2, <2>3
<1>2. ASSUME NEW T \in SUBSET S, \A U \in SUBSET T : U # T => U \in Good PROVE T \in Good
  <2>1. \A U \in SUBSET T : U # T => P(U)
    BY <1>2
  <2>2. \A x \in T : P(T)
    BY <1>1, <2>1
  <2>. QED
    BY <2>2
<1>3. Good \in SUBSET SUBSET S /\ (S \in Good => P(S))
  OBVIOUS
<1>. HIDE DEF Good
<1>4. Good = SUBSET S
  BY <1>2, <1>3, SubsetInduction
<1>5. P(S)
  BY <1>3, <1>4
<1>. QED
  BY <1>5 DEF Min, Max

\* Induction up to n, by that over the intervals from 1 on.
LEMMA InductionUpTo ==
  ASSUME NEW n \in Nat, NEW Good \in SUBSET (0..n), 0 \in Good,
         \A k \in 0..n : k < n /\ k \in Good => k + 1 \in Good
  PROVE  n \in Good
<1>. DEFINE Intervals == {s \in SUBSET (1..n) : \A k \in 0..n : s = 1..k => k \in Good}
<1>1. IsFiniteSet(1..n) /\ Intervals \in SUBSET SUBSET (1..n)
  BY FS_Interval
<1>2. ASSUME NEW s \in SUBSET (1..n), \A u \in SUBSET s : u # s => u \in Intervals,
             NEW k \in 0..n, s = 1..k
      PROVE  k \in Good
  <2>1. CASE k = 0
    BY <2>1
  <2>2. CASE k # 0
    <3>1. k - 1 \in 0..n /\ 1..(k - 1) \in SUBSET s /\ 1..(k - 1) # s
      BY <1>2, <2>2
    <3>2. 1..(k - 1) \in Intervals
      BY <1>2, <3>1
    <3>3. k - 1 \in Good
      BY <3>1, <3>2
    <3>4. (k - 1) + 1 \in Good
      BY <3>1, <3>3
    <3>. QED
      BY <3>1, <3>4
  <2>. QED
    BY <2>1, <2>2
<1>3. ASSUME NEW s \in SUBSET (1..n), \A u \in SUBSET s : u # s => u \in Intervals
      PROVE  s \in Intervals
  BY <1>2, <1>3
<1>4. 1..n \in Intervals => n \in Good
  OBVIOUS
<1>. HIDE DEF Intervals
<1>5. Intervals = SUBSET (1..n)
  BY <1>1, <1>3, SubsetInduction
<1>. QED
  BY <1>4, <1>5

-----------------------------------------------------------------------------
(* Doubles                                                                  *)

LEMMA DoublesAre == \A d \in Double : d \in Nat /\ d \in Int /\ d \in Amount
<1>1. \A d \in Double : d \in Nat /\ d <= MaxDouble /\ MaxDouble \in Nat
  BY DoubleAssumption
<1>. QED
  BY <1>1 DEF Amount

LEMMA NearestExists == ASSUME NEW x \in Nat PROVE Nearest(x) # {}
<1>. DEFINE distances == {Distance(x, d) : d \in Double}
<1>1. \A d \in Double : d \in Nat /\ Distance(x, d) \in Nat
  BY DoubleAssumption DEF Distance
<1>2. distances \in SUBSET Nat /\ distances # {}
  BY <1>1, DoubleAssumption
<1>3. \E m \in distances : \A k \in distances : m <= k
  <2>1. PICK k \in distances : TRUE
    BY <1>2
  <2>. DEFINE few == {m \in distances : m <= k}
  <2>2. few \in SUBSET (0..k) /\ k \in few /\ k \in Nat
    BY <1>2, <2>1
  <2>3. IsFiniteSet(few)
    <3>1. IsFiniteSet(0..k)
      BY <2>2, FS_Interval
    <3>. QED
      BY <2>2, <3>1, FS_Subset
  <2>4. few \in SUBSET Int /\ few # {}
    BY <2>2
  <2>5. Min(few) \in few /\ \A y \in few : Min(few) <= y
    BY <2>3, <2>4, ExtremesExist
  <2>6. ASSUME NEW y \in distances PROVE Min(few) <= y
    BY <1>2, <2>1, <2>5, <2>6
  <2>. QED
    BY <2>5, <2>6
<1>. QED
  BY <1>3 DEF Nearest

\* What Number() and each addition give.
LEMMA RoundIs ==
  ASSUME NEW x \in Amount PROVE Round[x] \in Nearest(x) /\ Round[x] \in Double
<1>. DEFINE even == {d \in Nearest(x) : HasEvenMantissa(d)}
            candidates == IF even = {} THEN Nearest(x) ELSE even
<1>1. x \in Nat
  BY DoubleAssumption DEF Amount
<1>2. Round[x] = CHOOSE d \in candidates : TRUE
  BY DEF Round
<1>3. candidates # {} /\ candidates \subseteq Nearest(x)
  BY <1>1, NearestExists
<1>. HIDE DEF candidates
<1>. QED
  BY <1>2, <1>3 DEF Nearest

LEMMA RoundIsMonotone ==
  ASSUME NEW x \in Amount, NEW y \in Amount, x <= y PROVE Round[x] <= Round[y]
<1>. DEFINE d == Round[x]
            e == Round[y]
<1>1. /\ x \in Nat /\ y \in Nat /\ d \in Nat /\ e \in Nat
      /\ d \in Double /\ e \in Double /\ d \in Nearest(x) /\ e \in Nearest(y)
  <2>1. x \in Nat /\ y \in Nat
    BY DoubleAssumption DEF Amount
  <2>2. d \in Double /\ e \in Double /\ d \in Nearest(x) /\ e \in Nearest(y)
    BY RoundIs
  <2>. QED
    BY <2>1, <2>2, DoublesAre
<1>2. Distance(x, d) <= Distance(x, e) /\ Distance(y, e) <= Distance(y, d)
  BY <1>1 DEF Nearest
<1>3. x = y => d = e
  OBVIOUS
<1>. HIDE DEF d, e
<1>4. d <= e
  BY <1>1, <1>2, <1>3 DEF Distance
<1>. QED
  BY <1>4 DEF d, e

LEMMA RoundOfDouble == ASSUME NEW d \in Double PROVE d \in Amount /\ Round[d] = d
<1>1. d \in Amount /\ d \in Nat
  BY DoubleAssumption DEF Amount
<1>2. Round[d] \in Nearest(d) /\ Round[d] \in Nat
  BY <1>1, RoundIs, DoubleAssumption
<1>3. Distance(d, Round[d]) <= Distance(d, d)
  BY <1>2 DEF Nearest
<1>. QED
  BY <1>1, <1>2, <1>3 DEF Distance

\* How far rounding is off, as long as it does not overflow.
LEMMA RoundIsNear ==
  ASSUME NEW x \in Amount, Round[x] < MaxDouble
  PROVE  Precision * Distance(x, Round[x]) <= Round[x]
<1>1. /\ x \in Nat /\ Round[x] \in Nat /\ MaxDouble \in Nat
      /\ Round[x] \in Nearest(x) /\ MaxDouble \in Double
  <2>1. x \in Nat
    BY DoubleAssumption DEF Amount
  <2>2. Round[x] \in Nearest(x) /\ Round[x] \in Double /\ MaxDouble \in Double
    BY RoundIs, DoubleAssumption
  <2>. QED
    BY <2>1, <2>2, DoublesAre
<1>2. Distance(x, Round[x]) <= Distance(x, MaxDouble)
  BY <1>1 DEF Nearest
<1>3. x <= MaxDouble
  BY <1>1, <1>2 DEF Distance
<1>4. x \in 0..MaxDouble
  BY <1>1, <1>3
<1>. QED
  BY <1>1, <1>4, PrecisionAssumption

-----------------------------------------------------------------------------
(* Sums                                                                     *)

\* sum gives the sum of column f, each partial one rounded by r, over every set
\* of positions of list in D, as reduce computes it.
IsSum(sum, r, list, f, D) ==
  sum = [s \in SUBSET D |-> IF s = {} THEN 0 ELSE r[sum[s \ {Max(s)}] + list[Max(s)][f]]]

\* What that says of the empty set and of every other one.
Stepwise(sum, r, list, f, D) ==
  /\ sum[{}] = 0
  /\ \A s \in SUBSET D : s # {} =>
       /\ Max(s) \in s /\ s \ {Max(s)} \in SUBSET D /\ s \ {Max(s)} # s
       /\ sum[s] = r[sum[s \ {Max(s)}] + list[Max(s)][f]]

AgreeOn(g, h, D) == \A s \in SUBSET D : g[s] = h[s]

AddsLast(sum, list, f, D) ==
  /\ \A s \in SUBSET D : sum[s] \in Nat
  /\ \A s \in SUBSET D : s # {} =>
       Max(s) \in s /\ sum[s] = sum[s \ {Max(s)}] + list[Max(s)][f]

AddsInTurn(sum, r, list, f, n) ==
  /\ sum[1..0] = 0
  /\ \A k \in 0..n : k < n => sum[1..(k + 1)] = r[sum[1..k] + list[k + 1][f]]

AnyFirst(sum, list, f, D) ==
  \A s \in SUBSET D : \A x \in s : sum[s] = list[x][f] + sum[s \ {x}]

\* The positions of a list.
Positions(D) == D \in SUBSET Int /\ IsFiniteSet(D)

LEMMA SumEquations ==
  ASSUME NEW r, NEW list, NEW f, NEW D, Positions(D), NEW sum, IsSum(sum, r, list, f, D)
  PROVE  Stepwise(sum, r, list, f, D)
<1>1. {} \in SUBSET D
  OBVIOUS
<1>2. sum[{}] = 0
  BY <1>1 DEF IsSum
<1>3. ASSUME NEW s \in SUBSET D, s # {}
      PROVE  /\ Max(s) \in s /\ s \ {Max(s)} \in SUBSET D /\ s \ {Max(s)} # s
             /\ sum[s] = r[sum[s \ {Max(s)}] + list[Max(s)][f]]
  <2>1. IsFiniteSet(s) /\ s \in SUBSET Int
    BY FS_Subset DEF Positions
  <2>2. Max(s) \in s
    BY <1>3, <2>1, ExtremesExist
  <2>3. sum[s] = r[sum[s \ {Max(s)}] + list[Max(s)][f]]
    BY <1>3 DEF IsSum
  <2>. QED
    BY <2>2, <2>3
<1>. QED
  BY <1>2, <1>3 DEF Stepwise

\* Sums over larger sets of positions agree on the smaller ones.
LEMMA SumsAgree ==
  ASSUME NEW r, NEW list, NEW f, NEW D, NEW E, Positions(D), Positions(E), D \subseteq E,
         NEW g, IsSum(g, r, list, f, D), NEW h, IsSum(h, r, list, f, E)
  PROVE  AgreeOn(g, h, D)
<1>. DEFINE P(s) == g[s] = h[s]
<1>0. Stepwise(g, r, list, f, D) /\ Stepwise(h, r, list, f, E)
  BY SumEquations
<1>1. ASSUME NEW s \in SUBSET D, \A u \in SUBSET s : u # s => P(u) PROVE P(s)
  <2>1. /\ g[{}] = 0
        /\ s # {} => /\ Max(s) \in s
                    /\ g[s] = r[g[s \ {Max(s)}] + list[Max(s)][f]]
    BY <1>0 DEF Stepwise
  <2>2. /\ h[{}] = 0
        /\ s # {} => h[s] = r[h[s \ {Max(s)}] + list[Max(s)][f]]
    BY <1>0 DEF Stepwise
  <2>3. s # {} => g[s \ {Max(s)}] = h[s \ {Max(s)}]
    BY <1>1, <2>1
  <2>. QED
    BY <2>1, <2>2, <2>3
<1>. DEFINE Good == {s \in SUBSET D : P(s)}
<1>2. Good \in SUBSET SUBSET D /\ \A s \in SUBSET D : s \in Good <=> P(s)
  OBVIOUS
<1>. HIDE DEF Good, P
<1>3. Good = SUBSET D
  <2>1. IsFiniteSet(D)
    BY DEF Positions
  <2>2. \A s \in SUBSET D : (\A u \in SUBSET s : u # s => u \in Good) => s \in Good
    BY <1>1, <1>2
  <2>. QED
    BY <1>2, <2>1, <2>2, SubsetInduction
<1>. QED
  BY <1>2, <1>3 DEF P, AgreeOn

\* The recursion of MapThenFoldSet has a solution.
LEMMA SumsExist ==
  ASSUME NEW r, NEW list, NEW f, NEW D, Positions(D)
  PROVE  \E sum : IsSum(sum, r, list, f, D)
<1>. DEFINE P(s) == \E sum : IsSum(sum, r, list, f, s)
            of(u) == CHOOSE sum : IsSum(sum, r, list, f, u)
            rest(s) == s \ {Max(s)}
<1>0. \A t \in SUBSET D : Positions(t)
  BY FS_Subset DEF Positions
<1>1. ASSUME NEW t \in SUBSET D, \A u \in SUBSET t : u # t => P(u) PROVE P(t)
  <2>. DEFINE sum == [s \in SUBSET t |->
                        IF s = {} THEN 0 ELSE r[of(rest(s))[rest(s)] + list[Max(s)][f]]]
  <2>1. ASSUME NEW u \in SUBSET t, u # t PROVE IsSum(of(u), r, list, f, u) /\ Positions(u)
    <3>1. \E g : IsSum(g, r, list, f, u)
      BY <1>1, <2>1
    <3>. QED
      BY <1>0, <3>1
  <2>. HIDE DEF of
  <2>2. ASSUME NEW s \in SUBSET t, s # t PROVE sum[s] = of(s)[s]
    <3>1. IsSum(of(s), r, list, f, s) /\ Positions(s)
      BY <2>1, <2>2
    <3>2. Stepwise(of(s), r, list, f, s)
      BY <3>1, SumEquations
    <3>3. CASE s = {}
      BY <3>2, <3>3 DEF Stepwise
    <3>4. CASE s # {}
      <4>1. /\ rest(s) \in SUBSET s /\ rest(s) \in SUBSET t /\ rest(s) # t
            /\ of(s)[s] = r[of(s)[rest(s)] + list[Max(s)][f]]
        BY <2>2, <3>2, <3>4 DEF Stepwise
      <4>2. ASSUME NEW q, q = rest(s) PROVE of(q)[q] = of(s)[q]
        <5>1. q \subseteq s /\ IsSum(of(q), r, list, f, q) /\ Positions(q)
          BY <2>1, <4>1, <4>2
        <5>2. AgreeOn(of(q), of(s), q)
          BY <3>1, <5>1, SumsAgree
        <5>. QED
          BY <5>2 DEF AgreeOn
      <4>. QED
        BY <3>4, <4>1, <4>2
    <3>. QED
      BY <3>3, <3>4
  <2>3. ASSUME NEW s \in SUBSET t, s # {} PROVE sum[rest(s)] = of(rest(s))[rest(s)]
    <3>1. Positions(s)
      BY <1>0
    <3>2. Max(s) \in s
      BY <2>3, <3>1, ExtremesExist DEF Positions
    <3>3. rest(s) \in SUBSET t /\ rest(s) # t
      BY <3>2
    <3>. QED
      BY <2>2, <3>3
  <2>4. sum = [s \in SUBSET t |->
                 IF s = {} THEN 0 ELSE r[sum[rest(s)] + list[Max(s)][f]]]
    <3>1. ASSUME NEW s \in SUBSET t
          PROVE  (IF s = {} THEN 0 ELSE r[of(rest(s))[rest(s)] + list[Max(s)][f]])
                   = (IF s = {} THEN 0 ELSE r[sum[rest(s)] + list[Max(s)][f]])
      BY <2>3
    <3>. HIDE DEF rest
    <3>. QED
      BY <3>1
  <2>5. IsSum(sum, r, list, f, t)
    BY <2>4 DEF IsSum
  <2>. QED
    BY <2>5
<1>. DEFINE Good == {s \in SUBSET D : P(s)}
<1>2. Good \in SUBSET SUBSET D /\ \A s \in SUBSET D : s \in Good <=> P(s)
  OBVIOUS
<1>. HIDE DEF Good, P
<1>3. Good = SUBSET D
  <2>1. IsFiniteSet(D)
    BY DEF Positions
  <2>2. \A s \in SUBSET D : (\A u \in SUBSET s : u # s => u \in Good) => s \in Good
    BY <1>1, <1>2
  <2>. QED
    BY <1>2, <2>1, <2>2, SubsetInduction
<1>4. P(D)
  BY <1>2, <1>3
<1>. QED
  BY <1>4 DEF P

\* Sum is the sum over all positions.
LEMMA SumIsSum ==
  ASSUME NEW r, NEW list, NEW f, Positions(DOMAIN list)
  PROVE  \E sum : IsSum(sum, r, list, f, DOMAIN list) /\ Sum(r, list, f) = sum[DOMAIN list]
<1>. DEFINE sum == CHOOSE g : IsSum(g, r, list, f, DOMAIN list)
<1>1. Sum(r, list, f) = sum[DOMAIN list]
  BY DEF Sum, MapThenFoldSet, IsSum
<1>2. IsSum(sum, r, list, f, DOMAIN list)
  BY SumsExist
<1>. QED
  BY <1>1, <1>2

\* Without rounding it does not matter which position is taken last.
LEMMA ExactSums ==
  ASSUME NEW list, NEW f, NEW D, Positions(D), \A i \in D : list[i][f] \in Nat,
         NEW sum, IsSum(sum, Exactly, list, f, D)
  PROVE  AddsLast(sum, list, f, D)
<1>. DEFINE P(s) == sum[s] \in Nat
<1>1. Stepwise(sum, Exactly, list, f, D)
  BY SumEquations
<1>2. ASSUME NEW s \in SUBSET D, \A u \in SUBSET s : u # s => P(u) PROVE P(s)
  <2>1. CASE s = {}
    BY <1>1, <2>1 DEF Stepwise
  <2>2. CASE s # {}
    <3>1. PICK c \in s : sum[s] = Exactly[sum[s \ {c}] + list[c][f]]
      BY <1>1, <2>2, Zenon DEF Stepwise
    <3>2. sum[s \ {c}] \in Nat /\ list[c][f] \in Nat
      BY <1>2
    <3>3. ASSUME NEW x \in Nat PROVE Exactly[x] \in Nat
      BY DEF Exactly
    <3>. QED
      BY <3>1, <3>2, <3>3
  <2>. QED
    BY <2>1, <2>2
<1>. DEFINE Good == {s \in SUBSET D : P(s)}
<1>3. Good \in SUBSET SUBSET D /\ \A s \in SUBSET D : s \in Good <=> P(s)
  OBVIOUS
<1>. HIDE DEF Good, P
<1>4. Good = SUBSET D
  <2>1. IsFiniteSet(D)
    BY DEF Positions
  <2>2. \A s \in SUBSET D : (\A u \in SUBSET s : u # s => u \in Good) => s \in Good
    BY <1>2, <1>3
  <2>. QED
    BY <1>3, <2>1, <2>2, SubsetInduction
<1>5. \A s \in SUBSET D : sum[s] \in Nat
  BY <1>3, <1>4 DEF P
<1>6. ASSUME NEW s \in SUBSET D, s # {}
      PROVE  Max(s) \in s /\ sum[s] = sum[s \ {Max(s)}] + list[Max(s)][f]
  <2>1. /\ Max(s) \in s /\ s \ {Max(s)} \in SUBSET D
        /\ sum[s] = Exactly[sum[s \ {Max(s)}] + list[Max(s)][f]]
    BY <1>1, <1>6 DEF Stepwise
  <2>2. sum[s \ {Max(s)}] \in Nat /\ list[Max(s)][f] \in Nat
    BY <1>5, <2>1
  <2>3. ASSUME NEW x \in Nat PROVE Exactly[x] = x
    BY DEF Exactly
  <2>. QED
    BY <2>1, <2>2, <2>3
<1>. QED
  BY <1>5, <1>6 DEF AddsLast

LEMMA AnyPositionFirst ==
  ASSUME NEW list, NEW f, NEW D, Positions(D), \A i \in D : list[i][f] \in Nat,
         NEW sum, IsSum(sum, Exactly, list, f, D)
  PROVE  AnyFirst(sum, list, f, D)
<1>. DEFINE P(s) == \A x \in s : sum[s] = list[x][f] + sum[s \ {x}]
<1>1. AddsLast(sum, list, f, D)
  BY ExactSums
<1>2. ASSUME NEW s \in SUBSET D, \A u \in SUBSET s : u # s => P(u), NEW x \in s
      PROVE  sum[s] = list[x][f] + sum[s \ {x}]
  <2>1. PICK c \in s : sum[s] = list[c][f] + sum[s \ {c}]
    <3>1. Max(s) \in s /\ sum[s] = sum[s \ {Max(s)}] + list[Max(s)][f]
      BY <1>1, <1>2 DEF AddsLast
    <3>2. sum[s \ {Max(s)}] \in Nat /\ list[Max(s)][f] \in Nat
      BY <1>1, <3>1 DEF AddsLast
    <3>3. sum[s] = list[Max(s)][f] + sum[s \ {Max(s)}]
      BY <3>1, <3>2
    <3>. QED
      BY <3>1, <3>3, Zenon
  <2>2. CASE c = x
    BY <2>1, <2>2
  <2>3. CASE c # x
    <3>. DEFINE both == (s \ {x}) \ {c}
    <3>1. sum[s \ {x}] = list[c][f] + sum[both]
      BY <1>2, <2>3
    <3>2. sum[s \ {c}] = list[x][f] + sum[both]
      <4>1. (s \ {c}) \ {x} = both
        OBVIOUS
      <4>2. sum[s \ {c}] = list[x][f] + sum[(s \ {c}) \ {x}]
        BY <1>2, <2>3
      <4>. QED
        BY <4>1, <4>2
    <3>3. sum[both] \in Nat
      BY <1>1 DEF AddsLast
    <3>. HIDE DEF both
    <3>4. list[x][f] \in Nat /\ list[c][f] \in Nat
      OBVIOUS
    <3>. QED
      BY <2>1, <3>1, <3>2, <3>3, <3>4
  <2>. QED
    BY <2>2, <2>3
<1>. DEFINE Good == {s \in SUBSET D : P(s)}
<1>3. Good \in SUBSET SUBSET D /\ \A s \in SUBSET D : s \in Good <=> P(s)
  OBVIOUS
<1>4. ASSUME NEW s \in SUBSET D, \A u \in SUBSET s : u # s => P(u) PROVE P(s)
  BY <1>2, <1>4
<1>. HIDE DEF Good, P
<1>5. Good = SUBSET D
  <2>1. IsFiniteSet(D)
    BY DEF Positions
  <2>2. \A s \in SUBSET D : (\A u \in SUBSET s : u # s => u \in Good) => s \in Good
    BY <1>3, <1>4
  <2>. QED
    BY <1>3, <2>1, <2>2, SubsetInduction
<1>. QED
  BY <1>3, <1>5 DEF P, AnyFirst

\* Sums grow from position to position.
LEMMA PrefixSums ==
  ASSUME NEW r, NEW list, NEW f, NEW n \in Nat, NEW sum, IsSum(sum, r, list, f, 1..n)
  PROVE  AddsInTurn(sum, r, list, f, n)
<1>1. Positions(1..n)
  BY FS_Interval DEF Positions
<1>2. Stepwise(sum, r, list, f, 1..n)
  BY <1>1, SumEquations
<1>3. sum[1..0] = 0
  <2>1. 1..0 = {}
    OBVIOUS
  <2>. QED
    BY <1>2, <2>1 DEF Stepwise
<1>4. ASSUME NEW k \in 0..n, k < n PROVE sum[1..(k + 1)] = r[sum[1..k] + list[k + 1][f]]
  <2>. DEFINE s == 1..(k + 1)
  <2>1. s \in SUBSET (1..n) /\ s \in SUBSET Int /\ s # {} /\ k + 1 \in s
        /\ \A y \in s : k + 1 >= y
    BY <1>4
  <2>2. s \ {k + 1} = 1..k
    BY <1>4
  <2>. HIDE DEF s
  <2>3. Max(s) = k + 1
    BY <2>1, MaxIs
  <2>4. sum[s] = r[sum[s \ {Max(s)}] + list[Max(s)][f]]
    BY <1>2, <2>1 DEF Stepwise
  <2>. QED
    BY <2>2, <2>3, <2>4 DEF s
<1>. QED
  BY <1>3, <1>4 DEF AddsInTurn

\* The distances of the parts add up to that of a sum.
LEMMA DistancesAddUp ==
  ASSUME NEW x \in Nat, NEW y \in Nat, NEW z \in Nat, NEW v \in Nat, NEW t \in Nat
  PROVE  /\ Distance(z, y + v) <= Distance(x, y) + Distance(v, t) + Distance(x + t, z)
         /\ Distance(z, y + v) \in Nat /\ Distance(x, y) \in Nat
         /\ Distance(v, t) \in Nat /\ Distance(x + t, z) \in Nat
BY DEF Distance

LEMMA Scaled ==
  ASSUME NEW m \in Nat, NEW x \in Nat, NEW y \in Nat, x <= y PROVE m * x <= m * y
OBVIOUS

\* One more addition to a sum x that is 2 * k roundings off at most: Number() rounds
\* v to t, and the addition rounds x + t to z.
LEMMA OneMoreAddition ==
  ASSUME NEW k \in Nat, NEW x \in Nat, NEW y \in Nat, NEW z \in Nat, NEW v \in Nat,
         NEW t \in Nat, x <= z, t <= z,
         Precision * Distance(x, y) <= 2 * k * x,
         Precision * Distance(v, t) <= t, Precision * Distance(x + t, z) <= z
  PROVE  Precision * Distance(z, y + v) <= 2 * (k + 1) * z
<1>. DEFINE a == Distance(x, y)
            b == Distance(v, t)
            c == Distance(x + t, z)
            d == Distance(z, y + v)
<1>1. d <= a + b + c /\ a \in Nat /\ b \in Nat /\ c \in Nat /\ d \in Nat
  BY DistancesAddUp
<1>2. Precision * a <= 2 * k * x /\ Precision * b <= t /\ Precision * c <= z
  OBVIOUS
<1>. HIDE DEF a, b, c, d
<1>3. Precision * d <= Precision * (a + b + c)
  BY <1>1, Scaled, PrecisionAssumption
<1>4. Precision * (a + b + c) = Precision * a + Precision * b + Precision * c
  BY <1>1, PrecisionAssumption
<1>5. (2 * k) * x <= (2 * k) * z
  BY Scaled
<1>6. 2 * (k + 1) * z = (2 * k) * z + 2 * z
  OBVIOUS
<1>7. /\ Precision * a \in Nat /\ Precision * b \in Nat /\ Precision * c \in Nat
      /\ Precision * d \in Nat /\ (2 * k) * x \in Nat /\ (2 * k) * z \in Nat
  BY <1>1, PrecisionAssumption
<1>8. Precision * d <= 2 * (k + 1) * z
  BY <1>2, <1>3, <1>4, <1>5, <1>6, <1>7
<1>. QED
  BY <1>8 DEF d

\* The sum of column f of list, the doubles of column g of decimals, in the order
\* of the list.
LEMMA SumOfDoublesIsNear ==
  ASSUME NEW n \in Nat, NEW list, DOMAIN list = 1..n, NEW f,
         NEW decimals, DOMAIN decimals = 1..n, NEW g,
         \A i \in 1..n : decimals[i][g] \in Amount /\ list[i][f] = Round[decimals[i][g]]
  PROVE  IsNear(Sum(Round, list, f), Sum(Exactly, decimals, g), n)
<1>. DEFINE value(i) == decimals[i][g]
            term(i) == list[i][f]
<1>0. \A i \in 1..n : value(i) \in Amount /\ term(i) = Round[value(i)] /\ value(i) \in Nat
  BY DoubleAssumption DEF Amount
<1>1. Positions(1..n)
  BY FS_Interval DEF Positions
<1>2. PICK sum : IsSum(sum, Round, list, f, 1..n) /\ Sum(Round, list, f) = sum[1..n]
  BY <1>1, SumIsSum
<1>3. PICK exact : /\ IsSum(exact, Exactly, decimals, g, 1..n)
                   /\ Sum(Exactly, decimals, g) = exact[1..n]
  BY <1>1, SumIsSum
<1>4. /\ sum[1..0] = 0
      /\ \A k \in 0..n : k < n => sum[1..(k + 1)] = Round[sum[1..k] + term(k + 1)]
  <2>1. AddsInTurn(sum, Round, list, f, n)
    BY <1>2, PrefixSums
  <2>. QED
    BY <2>1 DEF AddsInTurn
<1>5. /\ exact[1..0] = 0
      /\ \A k \in 0..n : k < n => exact[1..(k + 1)] = Exactly[exact[1..k] + value(k + 1)]
  <2>1. AddsInTurn(exact, Exactly, decimals, g, n)
    BY <1>3, PrefixSums
  <2>. QED
    BY <2>1 DEF AddsInTurn
<1>6. ASSUME NEW k \in 0..n PROVE exact[1..k] \in Nat
  <2>1. \A i \in 1..n : decimals[i][g] \in Nat
    BY <1>0
  <2>2. 1..k \in SUBSET (1..n)
    OBVIOUS
  <2>. QED
    BY <1>1, <1>3, <2>1, <2>2, ExactSums DEF AddsLast
<1>. HIDE DEF value, term
<1>7. ASSUME NEW k \in 0..n, k < n PROVE exact[1..(k + 1)] = exact[1..k] + value(k + 1)
  <2>1. k + 1 \in 1..n
    BY <1>7
  <2>2. exact[1..k] + value(k + 1) \in Nat
    BY <1>0, <1>6, <2>1
  <2>. QED
    BY <1>5, <1>7, <2>2 DEF Exactly
<1>. DEFINE P(k) == /\ sum[1..k] \in Double
                    /\ sum[1..k] < MaxDouble =>
                         Precision * Distance(sum[1..k], exact[1..k]) <= 2 * k * sum[1..k]
            Good == {k \in 0..n : P(k)}
<1>8. P(0)
  <2>1. sum[1..0] = 0 /\ exact[1..0] = 0
    BY <1>4, <1>5
  <2>. QED
    BY <2>1, DoubleAssumption, PrecisionAssumption DEF Distance
<1>9. ASSUME NEW k \in 0..n, k < n, P(k) PROVE P(k + 1)
  <2>. DEFINE x == sum[1..k]
              y == exact[1..k]
              v == value(k + 1)
              t == Round[v]
              z == Round[x + t]
  <2>1. k + 1 \in 1..n /\ k \in Nat
    BY <1>9
  <2>2. v \in Amount /\ v \in Nat /\ term(k + 1) = t
    BY <1>0, <2>1
  <2>3. sum[1..(k + 1)] = z /\ exact[1..(k + 1)] = y + v /\ y \in Nat
    BY <1>4, <1>6, <1>7, <1>9, <2>2
  <2>4. x \in Double /\ (x < MaxDouble => Precision * Distance(x, y) <= 2 * k * x)
    BY <1>9
  <2>. HIDE DEF x, y, v
  <2>5. t \in Double
    BY <2>2, RoundIs
  <2>. HIDE DEF t
  <2>6. x + t \in Amount /\ x \in Nat /\ t \in Nat /\ x \in Amount /\ t \in Amount
    BY <2>4, <2>5, DoubleAssumption DEF Amount
  <2>7. z \in Double /\ z \in Nat
    BY <2>6, RoundIs, DoubleAssumption
  <2>8. x <= z /\ t <= z
    <3>1. Round[x] <= z /\ Round[t] <= z
      BY <2>6, RoundIsMonotone
    <3>. QED
      BY <2>4, <2>5, <3>1, RoundOfDouble
  <2>9. ASSUME z < MaxDouble PROVE Precision * Distance(z, y + v) <= 2 * (k + 1) * z
    <3>1. x < MaxDouble /\ t < MaxDouble
      BY <2>6, <2>7, <2>8, <2>9, DoubleAssumption
    <3>2. Precision * Distance(v, t) <= t
      BY <2>2, <3>1, RoundIsNear DEF t
    <3>3. Precision * Distance(x + t, z) <= z
      BY <2>6, <2>9, RoundIsNear
    <3>. HIDE DEF z
    <3>. QED
      BY <2>1, <2>2, <2>3, <2>4, <2>6, <2>7, <2>8, <3>1, <3>2, <3>3, OneMoreAddition
  <2>. HIDE DEF z
  <2>. QED
    BY <2>3, <2>7, <2>9
<1>10. Good \in SUBSET (0..n) /\ \A k \in 0..n : k \in Good <=> P(k)
  OBVIOUS
<1>. HIDE DEF Good, P
<1>11. n \in Good
  <2>1. 0 \in Good
    BY <1>8, <1>10
  <2>2. \A k \in 0..n : k < n /\ k \in Good => k + 1 \in Good
    BY <1>9, <1>10
  <2>. QED
    BY <1>10, <2>1, <2>2, InductionUpTo
<1>12. P(n)
  BY <1>10, <1>11
<1>. QED
  BY <1>2, <1>3, <1>12 DEF P, IsNear

\* One list is another one in a different order.
Reordered(list, pi, new) ==
  /\ pi \in Bijection(DOMAIN list, DOMAIN list)
  /\ new = [k \in DOMAIN list |-> list[pi[k]]]

LEMMA BijectionIs ==
  ASSUME NEW S, NEW T, NEW pi
  PROVE  pi \in Bijection(S, T) <=>
           /\ pi \in [S -> T]
           /\ \A i, j \in S : pi[i] = pi[j] => i = j
           /\ \A t \in T : \E i \in S : pi[i] = t
BY DEF Bijection, Injection, Surjection, IsInjective

\* A list in another order has the same records.
LEMMA ReorderedValues ==
  ASSUME NEW list, NEW pi, NEW new, Reordered(list, pi, new)
  PROVE  {new[k] : k \in DOMAIN new} = {list[i] : i \in DOMAIN list}
<1>. DEFINE D == DOMAIN list
<1>1. /\ pi \in [D -> D] /\ \A i \in D : \E k \in D : pi[k] = i
      /\ DOMAIN new = D /\ \A k \in D : new[k] = list[pi[k]]
  BY BijectionIs DEF Reordered
<1>. HIDE DEF D
<1>2. ASSUME NEW i \in D PROVE list[i] \in {new[k] : k \in D}
  <2>1. PICK k \in D : pi[k] = i
    BY <1>1
  <2>. QED
    BY <1>1, <2>1
<1>3. {new[k] : k \in D} = {list[i] : i \in D}
  BY <1>1, <1>2
<1>. QED
  BY <1>1, <1>3 DEF D

\* The order of a list does not change its exact sums.
LEMMA ExactSumOfReordered ==
  ASSUME NEW list, NEW f, NEW pi, NEW new, Reordered(list, pi, new),
         NEW D, D = DOMAIN list, Positions(D), \A i \in D : list[i][f] \in Nat
  PROVE  Sum(Exactly, new, f) = Sum(Exactly, list, f)
<1>. DEFINE image(s) == {pi[k] : k \in s}
<1>1. /\ DOMAIN new = D /\ pi \in [D -> D] /\ \A i, j \in D : pi[i] = pi[j] => i = j
      /\ \A t \in D : \E i \in D : pi[i] = t
      /\ \A k \in D : new[k] = list[pi[k]]
  BY BijectionIs DEF Reordered
<1>2. PICK g : IsSum(g, Exactly, list, f, D) /\ Sum(Exactly, list, f) = g[D]
  BY SumIsSum
<1>3. PICK h : IsSum(h, Exactly, new, f, D) /\ Sum(Exactly, new, f) = h[D]
  BY <1>1, SumIsSum
<1>4. Stepwise(g, Exactly, list, f, D) /\ AnyFirst(g, list, f, D)
  BY <1>2, AnyPositionFirst, SumEquations
<1>5. Stepwise(h, Exactly, new, f, D) /\ AnyFirst(h, new, f, D)
  <2>1. \A i \in D : new[i][f] \in Nat
    BY <1>1
  <2>. QED
    BY <1>3, <2>1, AnyPositionFirst, SumEquations
<1>. DEFINE P(s) == h[s] = g[image(s)]
<1>6. ASSUME NEW s \in SUBSET D, \A u \in SUBSET s : u # s => P(u) PROVE P(s)
  <2>1. CASE s = {}
    <3>1. image({}) = {}
      OBVIOUS
    <3>. QED
      BY <1>4, <1>5, <2>1, <3>1 DEF Stepwise
  <2>2. CASE s # {}
    <3>1. PICK x \in s : TRUE
      BY <2>2
    <3>2. x \in D /\ image(s) \in SUBSET D /\ pi[x] \in image(s)
      BY <1>1, <3>1
    <3>3. h[s] = list[pi[x]][f] + h[s \ {x}]
      BY <1>1, <1>5, <3>1, <3>2 DEF AnyFirst
    <3>4. image(s) \ {pi[x]} = image(s \ {x})
      BY <1>1, <3>1, <3>2
    <3>5. h[s \ {x}] = g[image(s \ {x})]
      BY <1>6, <3>1
    <3>. HIDE DEF image
    <3>6. g[image(s)] = list[pi[x]][f] + g[image(s) \ {pi[x]}]
      BY <1>4, <3>2 DEF AnyFirst
    <3>. QED
      BY <3>3, <3>4, <3>5, <3>6
  <2>. QED
    BY <2>1, <2>2
<1>7. image(D) = D
  <2>1. \A t \in D : t \in image(D)
    BY <1>1
  <2>2. image(D) \subseteq D
    BY <1>1
  <2>. QED
    BY <2>1, <2>2
<1>. DEFINE Good == {s \in SUBSET D : P(s)}
<1>8. Good \in SUBSET SUBSET D /\ \A s \in SUBSET D : s \in Good <=> P(s)
  OBVIOUS
<1>. HIDE DEF Good, P
<1>9. Good = SUBSET D
  <2>1. IsFiniteSet(D)
    BY DEF Positions
  <2>2. \A s \in SUBSET D : (\A u \in SUBSET s : u # s => u \in Good) => s \in Good
    BY <1>6, <1>8
  <2>. QED
    BY <1>8, <2>1, <2>2, SubsetInduction
<1>10. h[D] = g[image(D)]
  BY <1>8, <1>9 DEF P
<1>. QED
  BY <1>2, <1>3, <1>7, <1>10

-----------------------------------------------------------------------------
(* Sorting                                                                  *)

\* A list of n records with an integer in column f.
Sortable(list, f, n) ==
  n \in Nat /\ DOMAIN list = 1..n /\ \A i \in 1..n : list[i][f] \in Int

LEMMA SortableIndices ==
  ASSUME NEW list, NEW f, NEW n, Sortable(list, f, n)
  PROVE  DOMAIN list = 1..n /\ n \in Nat /\ IsFiniteSet(1..n) /\ Cardinality(1..n) = n
<1>1. n \in Nat /\ DOMAIN list = 1..n
  BY DEF Sortable
<1>2. IsFiniteSet(1..n) /\ Cardinality(1..n) = IF 1 > n THEN 0 ELSE n - 1 + 1
  BY <1>1, FS_Interval
<1>. QED
  BY <1>1, <1>2

\* The order of a stable sort is strict and total, whatever the keys.
LEMMA PrecedesIsStrictAndTotal ==
  ASSUME NEW list, NEW f, NEW n, Sortable(list, f, n),
         NEW i \in 1..n, NEW j \in 1..n
  PROVE  /\ ~Precedes(list, f, i, i)
         /\ i = j \/ Precedes(list, f, i, j) \/ Precedes(list, f, j, i)
         /\ \A k \in 1..n :
              Precedes(list, f, i, j) /\ Precedes(list, f, j, k) => Precedes(list, f, i, k)
<1>1. list[i][f] \in Int /\ list[j][f] \in Int /\ \A k \in 1..n : list[k][f] \in Int
  BY DEF Sortable
<1>2. n \in Nat
  BY DEF Sortable
<1>3. ASSUME NEW k \in 1..n, Precedes(list, f, i, j), Precedes(list, f, j, k)
      PROVE  Precedes(list, f, i, k)
  <2>1. list[k][f] \in Int
    BY <1>1
  <2>. QED
    BY <1>1, <1>2, <1>3, <2>1 DEF Precedes
<1>. QED
  BY <1>1, <1>2, <1>3 DEF Precedes

Before(list, f, i) == {j \in DOMAIN list : Precedes(list, f, j, i)}

\* Ranks count the records before one: later records have higher ranks.
LEMMA RanksAscend ==
  ASSUME NEW list, NEW f, NEW n, Sortable(list, f, n),
         NEW i \in 1..n, NEW j \in 1..n, Precedes(list, f, i, j)
  PROVE  Rank(list, f, i) < Rank(list, f, j)
<1>1. DOMAIN list = 1..n /\ n \in Nat /\ IsFiniteSet(1..n)
  BY SortableIndices
<1>2. Before(list, f, i) \subseteq Before(list, f, j)
  BY <1>1, PrecedesIsStrictAndTotal DEF Before
<1>3. i \in Before(list, f, j) /\ i \notin Before(list, f, i)
  BY <1>1, PrecedesIsStrictAndTotal DEF Before
<1>4. IsFiniteSet(Before(list, f, i)) /\ IsFiniteSet(Before(list, f, j))
  <2>1. Before(list, f, i) \in SUBSET (1..n) /\ Before(list, f, j) \in SUBSET (1..n)
    BY <1>1 DEF Before
  <2>. QED
    BY <1>1, <2>1, FS_Subset
<1>5. /\ Cardinality(Before(list, f, i)) \in Nat /\ Cardinality(Before(list, f, j)) \in Nat
      /\ Cardinality(Before(list, f, i)) <= Cardinality(Before(list, f, j))
      /\ Cardinality(Before(list, f, i)) # Cardinality(Before(list, f, j))
  BY <1>2, <1>3, <1>4, FS_CardinalityType, FS_Subset
<1>. QED
  BY <1>5 DEF Rank, Before

LEMMA RankRange ==
  ASSUME NEW list, NEW f, NEW n, Sortable(list, f, n), NEW i \in 1..n
  PROVE  Rank(list, f, i) \in 1..n
<1>1. DOMAIN list = 1..n /\ n \in Nat /\ IsFiniteSet(1..n) /\ Cardinality(1..n) = n
  BY SortableIndices
<1>2. IsFiniteSet((1..n) \ {i}) /\ Cardinality((1..n) \ {i}) = n - 1
  BY <1>1, FS_RemoveElement
<1>3. Before(list, f, i) \in SUBSET ((1..n) \ {i})
  BY <1>1, PrecedesIsStrictAndTotal DEF Before
<1>4. Cardinality(Before(list, f, i)) \in Nat /\ Cardinality(Before(list, f, i)) <= n - 1
  BY <1>2, <1>3, FS_CardinalityType, FS_Subset
<1>. QED
  BY <1>1, <1>4 DEF Rank, Before

\* pi takes the records of list in the order of column f, equal ones as they came.
SortsBy(pi, list, f) ==
  \A k, l \in DOMAIN list : k < l => Precedes(list, f, pi[k], pi[l])

\* Every position has exactly one record of its rank, so a sorted list is its
\* list in another order.
LEMMA SortedByReorders ==
  ASSUME NEW list, NEW f, NEW n, Sortable(list, f, n)
  PROVE  \E pi : Reordered(list, pi, SortedBy(list, f)) /\ SortsBy(pi, list, f)
<1>1. DOMAIN list = 1..n /\ n \in Nat /\ IsFiniteSet(1..n)
  BY SortableIndices
<1>. DEFINE D == 1..n
            rank == [i \in D |-> Rank(list, f, i)]
            pi == [k \in D |-> CHOOSE i \in D : Rank(list, f, i) = k]
<1>2. \A i, j \in D : Rank(list, f, i) = Rank(list, f, j) => i = j
  <2>1. ASSUME NEW i \in D, NEW j \in D, i # j
        PROVE  Rank(list, f, i) # Rank(list, f, j)
    <3>1. Precedes(list, f, i, j) \/ Precedes(list, f, j, i)
      BY <2>1, PrecedesIsStrictAndTotal
    <3>2. Rank(list, f, i) \in Int /\ Rank(list, f, j) \in Int
      BY <1>1, RankRange
    <3>. QED
      BY <3>1, <3>2, RanksAscend
  <2>. QED
    BY <2>1
<1>3. \A k \in D : \E i \in D : Rank(list, f, i) = k
  <2>1. rank \in [D -> D] /\ \A i, j \in D : rank[i] = rank[j] => i = j
    BY <1>2, RankRange
  <2>. HIDE DEF rank
  <2>2. rank \in Injection(D, D)
    BY <2>1 DEF Injection, IsInjective
  <2>3. rank \in Surjection(D, D)
    BY <1>1, <2>2, FS_Injection
  <2>4. \A k \in D : \E i \in D : rank[i] = k
    BY <2>3 DEF Surjection
  <2>. QED
    BY <2>4 DEF rank
<1>4. \A k \in D : pi[k] \in D /\ Rank(list, f, pi[k]) = k
  BY <1>3
<1>. HIDE DEF pi
<1>5. pi \in [D -> D]
  BY <1>4 DEF pi
<1>6. pi \in Bijection(D, D)
  <2>1. \A k, l \in D : pi[k] = pi[l] => k = l
    BY <1>4
  <2>2. \A i \in D : \E k \in D : pi[k] = i
    <3>1. ASSUME NEW i \in D PROVE pi[Rank(list, f, i)] = i
      BY <1>2, <1>4, RankRange
    <3>. QED
      BY <3>1, RankRange
  <2>. QED
    BY <1>5, <2>1, <2>2, BijectionIs
<1>7. SortedBy(list, f) = [k \in DOMAIN list |-> list[pi[k]]]
  BY <1>1 DEF SortedBy, pi
<1>8. ASSUME NEW k \in D, NEW l \in D, k < l PROVE Precedes(list, f, pi[k], pi[l])
  <2>1. pi[k] = pi[l] \/ Precedes(list, f, pi[k], pi[l]) \/ Precedes(list, f, pi[l], pi[k])
    BY <1>4, PrecedesIsStrictAndTotal
  <2>2. ~Precedes(list, f, pi[l], pi[k])
    <3>1. SUFFICES ASSUME Precedes(list, f, pi[l], pi[k]) PROVE FALSE
      OBVIOUS
    <3>2. Rank(list, f, pi[l]) < Rank(list, f, pi[k])
      BY <1>4, <3>1, RanksAscend
    <3>. QED
      BY <1>1, <1>4, <1>8, <3>2
  <2>3. pi[k] # pi[l]
    BY <1>1, <1>4, <1>8
  <2>. QED
    BY <2>1, <2>2, <2>3
<1>. QED
  BY <1>1, <1>6, <1>7, <1>8 DEF Reordered, SortsBy

\* A reordering of a reordering is a reordering.
LEMMA ReorderedTwice ==
  ASSUME NEW list, NEW pi, NEW mid, NEW rho, NEW new,
         Reordered(list, pi, mid), Reordered(mid, rho, new)
  PROVE  Reordered(list, [k \in DOMAIN list |-> pi[rho[k]]], new)
<1>. DEFINE D == DOMAIN list
            both == [k \in D |-> pi[rho[k]]]
<1>1. /\ pi \in [D -> D] /\ \A i, j \in D : pi[i] = pi[j] => i = j
      /\ \A t \in D : \E i \in D : pi[i] = t
      /\ mid = [k \in D |-> list[pi[k]]]
  BY BijectionIs DEF Reordered
<1>2. /\ rho \in [D -> D] /\ \A i, j \in D : rho[i] = rho[j] => i = j
      /\ \A t \in D : \E i \in D : rho[i] = t
      /\ new = [k \in D |-> mid[rho[k]]]
  <2>1. DOMAIN mid = D
    BY <1>1
  <2>. QED
    BY <2>1, BijectionIs DEF Reordered
<1>3. both \in [D -> D] /\ \A i, j \in D : both[i] = both[j] => i = j
  BY <1>1, <1>2
<1>4. ASSUME NEW t \in D PROVE \E k \in D : both[k] = t
  <2>1. PICK i \in D : pi[i] = t
    BY <1>1
  <2>2. PICK k \in D : rho[k] = i
    BY <1>2
  <2>. QED
    BY <2>1, <2>2
<1>5. new = [k \in D |-> list[both[k]]]
  BY <1>1, <1>2
<1>. HIDE DEF both
<1>6. both \in Bijection(D, D)
  BY <1>3, <1>4, BijectionIs
<1>7. Reordered(list, both, new)
  BY <1>5, <1>6 DEF Reordered
<1>. QED
  BY <1>7 DEF both

-----------------------------------------------------------------------------
(* The two sorts of marketDataCalculateHandler                              *)

\* By closePrice, equal ones by openPrice.
InOrder(list) ==
  \A k, l \in DOMAIN list : k < l =>
    \/ list[k].closePrice < list[l].closePrice
    \/ list[k].closePrice = list[l].closePrice /\ list[k].openPrice <= list[l].openPrice

Change == [openPrice : Double, closePrice : Double, volume : Double, openTime : Amount,
           closeTime : Amount, numberOfTrades : Double]

\* A list of n changes.
Changes(list, n) == n \in Nat \ {0} /\ list \in Seq(Change) /\ Len(list) = n

LEMMA ChangesAre ==
  ASSUME NEW list, NEW n, Changes(list, n)
  PROVE  Sortable(list, "openPrice", n) /\ Sortable(list, "closePrice", n)
<1>1. n \in Nat /\ DOMAIN list = 1..n /\ \A i \in 1..n : list[i] \in Change
  BY DEF Changes
<1>2. ASSUME NEW c \in Change PROVE c["openPrice"] \in Int /\ c["closePrice"] \in Int
  <2>1. c["openPrice"] \in Double /\ c["closePrice"] \in Double
    BY DEF Change
  <2>. QED
    BY <2>1, DoublesAre
<1>. QED
  BY <1>1, <1>2 DEF Sortable

LEMMA ReorderedChanges ==
  ASSUME NEW list, NEW n, Changes(list, n), NEW pi, NEW new, Reordered(list, pi, new)
  PROVE  Changes(new, n)
<1>1. DOMAIN list = 1..n /\ n \in Nat \ {0} /\ \A k \in 1..n : list[k] \in Change
  BY DEF Changes
<1>2. pi \in [1..n -> 1..n] /\ new = [k \in 1..n |-> list[pi[k]]]
  BY <1>1, BijectionIs DEF Reordered
<1>3. new \in [1..n -> Change]
  BY <1>1, <1>2
<1>. QED
  BY <1>1, <1>3 DEF Changes

\* The array as the handler leaves it: sorted by openPrice, then by closePrice.
Sorted(list) == SortedBy(SortedBy(list, "openPrice"), "closePrice")

\* The second sort is stable, so equal closePrices stay in the order of the first.
LEMMA SortedIsInOrder ==
  ASSUME NEW list, NEW n, Changes(list, n)
  PROVE  /\ \E pi : Reordered(list, pi, Sorted(list))
         /\ Changes(Sorted(list), n)
         /\ InOrder(Sorted(list))
<1>. DEFINE A == SortedBy(list, "openPrice")
            B == SortedBy(A, "closePrice")
<1>1. PICK pi : Reordered(list, pi, A) /\ SortsBy(pi, list, "openPrice")
  BY ChangesAre, SortedByReorders
<1>2. Changes(A, n)
  BY <1>1, ReorderedChanges
<1>. HIDE DEF A
<1>3. PICK rho : Reordered(A, rho, B) /\ SortsBy(rho, A, "closePrice")
  BY <1>2, ChangesAre, SortedByReorders
<1>4. Changes(B, n)
  BY <1>2, <1>3, ReorderedChanges
<1>5. \E sigma : Reordered(list, sigma, B)
  BY <1>1, <1>3, ReorderedTwice
<1>6. DOMAIN list = 1..n /\ DOMAIN A = 1..n /\ DOMAIN B = 1..n /\ n \in Nat
  BY <1>2, <1>4 DEF Changes
<1>. HIDE DEF B
<1>7. /\ pi \in [1..n -> 1..n] /\ \A k \in 1..n : A[k] = list[pi[k]]
      /\ rho \in [1..n -> 1..n] /\ \A k \in 1..n : B[k] = A[rho[k]]
  BY <1>1, <1>3, <1>6, BijectionIs DEF Reordered
<1>8. ASSUME NEW k \in 1..n, NEW l \in 1..n, k < l
      PROVE  A[k].openPrice <= A[l].openPrice
  <2>1. Precedes(list, "openPrice", pi[k], pi[l])
    BY <1>1, <1>6, <1>8 DEF SortsBy
  <2>2. list[pi[k]].openPrice <= list[pi[l]].openPrice
    <3>1. /\ n \in Nat /\ pi[k] \in 1..n /\ pi[l] \in 1..n
          /\ list[pi[k]]["openPrice"] \in Int /\ list[pi[l]]["openPrice"] \in Int
      BY <1>6, <1>7, ChangesAre DEF Sortable
    <3>. QED
      BY <2>1, <3>1 DEF Precedes
  <2>. QED
    BY <1>7, <2>2
<1>9. ASSUME NEW k \in 1..n, NEW l \in 1..n, k < l
      PROVE  \/ B[k].closePrice < B[l].closePrice
             \/ B[k].closePrice = B[l].closePrice /\ B[k].openPrice <= B[l].openPrice
  <2>1. Precedes(A, "closePrice", rho[k], rho[l])
    BY <1>3, <1>6, <1>9 DEF SortsBy
  <2>2. \/ A[rho[k]].closePrice < A[rho[l]].closePrice
        \/ A[rho[k]].closePrice = A[rho[l]].closePrice /\ rho[k] < rho[l]
    BY <2>1 DEF Precedes
  <2>3. rho[k] \in 1..n /\ rho[l] \in 1..n
    BY <1>7
  <2>. QED
    BY <1>7, <1>8, <2>2, <2>3
<1>10. InOrder(B)
  BY <1>6, <1>9 DEF InOrder
<1>. QED
  BY <1>4, <1>5, <1>10 DEF Sorted, A, B

\* The fields of the response.
LEMMA CalculateIs ==
  ASSUME NEW list
  PROVE  LET B == Sorted(list) n == Len(B) result == calculate(list) IN
         /\ result.changeList = B
         /\ result.lowestOpenPrice = B[1].openPrice
         /\ result.highestOpenPrice = B[n].openPrice
         /\ result.lowestClosePrice = B[1].closePrice
         /\ result.highestClosePrice = B[n].closePrice
         /\ result.volumeSum = Total(B, "volume")
         /\ result.numberOfAllTrades = Total(B, "numberOfTrades")
BY DEF calculate, Summary, Sorted

LEMMA KlinesChange ==
  ASSUME NEW klines \in Seq(Kline), klines # << >>
  PROVE  /\ Changes(toChangeList(klines), Len(klines))
         /\ DOMAIN toChangeList(klines) = 1..Len(klines)
         /\ \A i \in 1..Len(klines) : toChangeList(klines)[i] = toChange(klines[i])
<1>1. Len(klines) \in Nat \ {0} /\ DOMAIN klines = 1..Len(klines)
  OBVIOUS
<1>2. ASSUME NEW k \in Kline PROVE toChange(k) \in Change
  <2>1. k \in [Column -> Amount]
    BY KlineAssumption
  <2>2. /\ k.open \in Amount /\ k.high \in Amount /\ k.volume \in Amount
        /\ k.takerVolume \in Amount /\ k.openTime \in Amount /\ k.closeTime \in Amount
    BY <2>1 DEF Column
  <2>3. /\ Round[k.open] \in Double /\ Round[k.high] \in Double
        /\ Round[k.volume] \in Double /\ Round[k.takerVolume] \in Double
    BY <2>2, RoundIs
  <2>. QED
    BY <2>2, <2>3 DEF toChange, Change
<1>3. \A i \in 1..Len(klines) : toChange(klines[i]) \in Change
  BY <1>1, <1>2
<1>4. toChangeList(klines) \in [1..Len(klines) -> Change]
  BY <1>1, <1>3 DEF toChangeList
<1>. QED
  BY <1>1, <1>4 DEF Changes, toChangeList

-----------------------------------------------------------------------------
(* The invariant                                                            *)

\* A successful response was computed from the klines that came.
MarketInv ==
  Succeeded => body \in Seq(Kline) /\ body # << >> /\ data = calculate(toChangeList(body))

LEMMA MarketInvInit == MarketInit => MarketInv
BY DEF MarketInit, MarketInv, Succeeded

LEMMA MarketInvNext == MarketInv /\ [MarketNext]_marketVars => MarketInv'
<1>. SUFFICES ASSUME MarketInv, [MarketNext]_marketVars PROVE MarketInv'
  OBVIOUS
<1>. USE DEF MarketInv, Succeeded
<1>1. ASSUME NEW valid \in BOOLEAN, PostCalculate(valid) PROVE MarketInv'
  BY <1>1 DEF PostCalculate
<1>2. ASSUME NEW klines \in Answers, AnswerWithKlines(klines) PROVE MarketInv'
  <2>1. klines \in Seq(Kline)
    BY MaxKlinesAssumption DEF Answers
  <2>2. CASE klines = << >>
    BY <1>2, <2>2 DEF AnswerWithKlines
  <2>3. CASE klines # << >>
    BY <1>2, <2>1, <2>3 DEF AnswerWithKlines
  <2>. QED
    BY <2>2, <2>3
<1>3. CASE AnswerWithError
  BY <1>3 DEF AnswerWithError
<1>4. CASE RequestThrows
  BY <1>4 DEF RequestThrows
<1>5. CASE NextRequest
  BY <1>5 DEF NextRequest
<1>6. CASE UNCHANGED marketVars
  BY <1>6 DEF marketVars
<1>. QED
  BY <1>1, <1>2, <1>3, <1>4, <1>5, <1>6 DEF MarketNext

\* What the rest of the module says of the klines of a successful response.
LEMMA SuccessfulResponse ==
  ASSUME MarketInv, Succeeded
  PROVE  LET list == toChangeList(body) n == Len(body) B == Reported IN
         /\ Changes(list, n) /\ Changes(B, n) /\ InOrder(B)
         /\ \E pi : Reordered(list, pi, B)
         /\ DOMAIN list = 1..n /\ DOMAIN body = 1..n /\ DOMAIN B = 1..n /\ n \in Nat \ {0}
         /\ \A i \in 1..n : list[i] = toChange(body[i]) /\ body[i] \in [Column -> Amount]
         /\ {toChange(body[i]) : i \in DOMAIN body} = {B[k] : k \in 1..n}
         /\ \A k \in 1..n : /\ B[k] \in Change /\ B[k].closePrice \in Int
                            /\ B[k].openPrice \in Int
         /\ data.lowestOpenPrice = B[1].openPrice
         /\ data.highestOpenPrice = B[n].openPrice
         /\ data.lowestClosePrice = B[1].closePrice
         /\ data.highestClosePrice = B[n].closePrice
         /\ data.volumeSum = Total(B, "volume")
         /\ data.numberOfAllTrades = Total(B, "numberOfTrades")
<1>. DEFINE list == toChangeList(body)
            n == Len(body)
            B == Reported
<1>1. body \in Seq(Kline) /\ body # << >> /\ data = calculate(list)
  BY DEF MarketInv
<1>2. /\ Changes(list, n) /\ DOMAIN list = 1..n
      /\ \A i \in 1..n : list[i] = toChange(body[i])
  BY <1>1, KlinesChange
<1>3. B = Sorted(list)
  BY <1>1, CalculateIs DEF Reported
<1>4. Changes(B, n) /\ InOrder(B) /\ \E pi : Reordered(list, pi, B)
  BY <1>2, <1>3, SortedIsInOrder
<1>5. /\ DOMAIN body = 1..n /\ DOMAIN B = 1..n /\ n \in Nat \ {0} /\ Len(B) = n
      /\ \A i \in 1..n : body[i] \in [Column -> Amount]
  BY <1>1, <1>4, KlineAssumption DEF Changes
<1>. HIDE DEF list, n, B
<1>6. \A k \in 1..n : B[k] \in Change /\ B[k].closePrice \in Int /\ B[k].openPrice \in Int
  <2>1. \A k \in 1..n : B[k] \in Change
    BY <1>4, <1>5 DEF Changes
  <2>2. ASSUME NEW c \in Change PROVE c.closePrice \in Int /\ c.openPrice \in Int
    <3>1. c.closePrice \in Double /\ c.openPrice \in Double
      BY DEF Change
    <3>. QED
      BY <3>1, DoublesAre
  <2>. QED
    BY <2>1, <2>2
<1>7. {toChange(body[i]) : i \in DOMAIN body} = {B[k] : k \in 1..n}
  <2>1. PICK pi : Reordered(list, pi, B)
    BY <1>4
  <2>2. {B[k] : k \in 1..n} = {list[i] : i \in 1..n}
    <3>1. {B[k] : k \in DOMAIN B} = {list[i] : i \in DOMAIN list}
      BY <2>1, ReorderedValues
    <3>. QED
      BY <1>2, <1>5, <3>1
  <2>3. {toChange(body[i]) : i \in 1..n} = {list[i] : i \in 1..n}
    BY <1>2
  <2>. QED
    BY <1>5, <2>2, <2>3
<1>8. /\ data.lowestOpenPrice = B[1].openPrice
      /\ data.highestOpenPrice = B[n].openPrice
      /\ data.lowestClosePrice = B[1].closePrice
      /\ data.highestClosePrice = B[n].closePrice
      /\ data.volumeSum = Total(B, "volume")
      /\ data.numberOfAllTrades = Total(B, "numberOfTrades")
  BY <1>1, <1>3, <1>5, CalculateIs
<1>. QED
  BY <1>2, <1>4, <1>5, <1>6, <1>7, <1>8 DEF list, n, B

\* The changes reported are those of the klines in the order of some pi.
LEMMA InvReportsEveryChange == MarketInv => ReportsEveryChange
<1>. SUFFICES ASSUME MarketInv, Succeeded
              PROVE  /\ \E pi \in Bijection(DOMAIN Reported, DOMAIN body) :
                          \A i \in DOMAIN Reported : Reports(Reported[i], body[pi[i]])
                     /\ \A i, j \in DOMAIN Reported :
                          i < j => Reported[i].closePrice <= Reported[j].closePrice
  BY DEF ReportsEveryChange
<1>. DEFINE list == toChangeList(body)
            n == Len(body)
<1>1. /\ InOrder(Reported) /\ \E pi : Reordered(list, pi, Reported)
      /\ DOMAIN list = 1..n /\ DOMAIN body = 1..n /\ DOMAIN Reported = 1..n
      /\ \A i \in 1..n : list[i] = toChange(body[i])
      /\ \A k \in 1..n : Reported[k].closePrice \in Int
  BY SuccessfulResponse
<1>. HIDE DEF list, n
<1>2. PICK pi : Reordered(list, pi, Reported)
  BY <1>1
<1>3. pi \in Bijection(1..n, 1..n) /\ Reported = [k \in 1..n |-> list[pi[k]]]
  BY <1>1, <1>2 DEF Reordered
<1>4. ASSUME NEW i \in 1..n PROVE Reports(Reported[i], body[pi[i]])
  <2>1. pi \in [1..n -> 1..n]
    BY <1>3, BijectionIs
  <2>2. Reported[i] = toChange(body[pi[i]])
    BY <1>1, <1>3, <2>1
  <2>. QED
    BY <2>2 DEF Reports, toChange
<1>5. \E rho \in Bijection(DOMAIN Reported, DOMAIN body) :
        \A i \in DOMAIN Reported : Reports(Reported[i], body[rho[i]])
  BY <1>1, <1>3, <1>4
<1>6. \A i, j \in DOMAIN Reported :
        i < j => Reported[i].closePrice <= Reported[j].closePrice
  BY <1>1 DEF InOrder
<1>. QED
  BY <1>5, <1>6

\* The first and the last change of the order have the doubles of the extreme High
\* prices: rounding is monotone.
LEMMA ClosePriceExtremes ==
  ASSUME MarketInv, Succeeded
  PROVE  /\ data.lowestClosePrice = Round[Min(Values(body, "high"))]
         /\ data.highestClosePrice = Round[Max(Values(body, "high"))]
<1>. DEFINE list == toChangeList(body)
            n == Len(body)
            V == {body[i]["high"] : i \in 1..n}
<1>1. /\ InOrder(Reported) /\ \E pi : Reordered(list, pi, Reported)
      /\ DOMAIN list = 1..n /\ DOMAIN body = 1..n /\ DOMAIN Reported = 1..n
      /\ n \in Nat \ {0}
      /\ \A i \in 1..n : list[i] = toChange(body[i]) /\ body[i] \in [Column -> Amount]
      /\ \A k \in 1..n : Reported[k].closePrice \in Int
      /\ data.lowestClosePrice = Reported[1].closePrice
      /\ data.highestClosePrice = Reported[n].closePrice
  BY SuccessfulResponse
<1>2. Values(body, "high") = V
  BY <1>1 DEF Values
<1>3. \A i \in 1..n : body[i]["high"] \in Amount /\ list[i].closePrice = Round[body[i]["high"]]
  BY <1>1 DEF Column, toChange
<1>. HIDE DEF list, n
<1>4. PICK pi : Reordered(list, pi, Reported)
  BY <1>1
<1>5. /\ \A k \in 1..n : pi[k] \in 1..n /\ Reported[k] = list[pi[k]]
      /\ \A i \in 1..n : \E k \in 1..n : pi[k] = i
  <2>1. pi \in Bijection(1..n, 1..n) /\ Reported = [k \in 1..n |-> list[pi[k]]]
    BY <1>1, <1>4 DEF Reordered
  <2>2. pi \in [1..n -> 1..n]
    BY <2>1, BijectionIs
  <2>3. \A i \in 1..n : \E k \in 1..n : pi[k] = i
    BY <2>1 DEF Bijection, Surjection
  <2>. QED
    BY <2>1, <2>2, <2>3
<1>6. /\ Min(V) \in V /\ (\A y \in V : Min(V) <= y)
      /\ Max(V) \in V /\ (\A y \in V : Max(V) >= y)
  <2>1. IsFiniteSet(1..n)
    BY <1>1, FS_Interval
  <2>2. IsFiniteSet(V)
    <3>. DEFINE high == [i \in 1..n |-> body[i]["high"]]
    <3>1. high \in Surjection(1..n, V)
      BY DEF Surjection
    <3>. QED
      BY <2>1, <3>1, FS_Surjection
  <2>3. V \in SUBSET Int
    BY <1>3, DoubleAssumption DEF Amount
  <2>4. V # {}
    <3>1. 1 \in 1..n
      BY <1>1
    <3>. QED
      BY <3>1
  <2>. QED
    BY <2>2, <2>3, <2>4, ExtremesExist
<1>7. ASSUME NEW i \in 1..n
      PROVE  /\ Reported[1].closePrice <= list[i].closePrice
             /\ Reported[n].closePrice >= list[i].closePrice
  <2>1. PICK k \in 1..n : list[i] = Reported[k]
    BY <1>5
  <2>2. Reported[1].closePrice <= Reported[k].closePrice
    <3>1. k = 1 \/ 1 < k
      BY <1>1
    <3>. QED
      BY <1>1, <3>1 DEF InOrder
  <2>3. Reported[k].closePrice <= Reported[n].closePrice
    <3>1. k = n \/ k < n
      BY <1>1
    <3>. QED
      BY <1>1, <3>1 DEF InOrder
  <2>. QED
    BY <1>1, <2>1, <2>2, <2>3
<1>8. ASSUME NEW i \in 1..n
      PROVE  /\ Round[Min(V)] <= list[i].closePrice /\ Round[Max(V)] >= list[i].closePrice
             /\ list[i].closePrice \in Int
  <2>. DEFINE x == body[i]["high"]
  <2>1. x \in V /\ x \in Amount /\ list[i].closePrice = Round[x]
    BY <1>3
  <2>. HIDE DEF x
  <2>2. Min(V) <= x /\ x <= Max(V)
    <3>1. Max(V) >= x /\ Min(V) <= x
      BY <1>6, <2>1
    <3>2. x \in Int /\ Max(V) \in Int
      BY <1>3, <1>6, <2>1, DoubleAssumption DEF Amount
    <3>. QED
      BY <3>1, <3>2
  <2>3. Min(V) \in Amount /\ Max(V) \in Amount
    BY <1>3, <1>6
  <2>. HIDE DEF V
  <2>4. Round[Min(V)] <= Round[x] /\ Round[x] <= Round[Max(V)]
    BY <2>1, <2>2, <2>3, RoundIsMonotone
  <2>5. Round[x] \in Int /\ Round[Max(V)] \in Int
    <3>1. Round[x] \in Double /\ Round[Max(V)] \in Double
      BY <2>1, <2>3, RoundIs
    <3>. QED
      BY <3>1, DoublesAre
  <2>. QED
    BY <2>1, <2>4, <2>5
<1>9. PICK low \in 1..n : Round[Min(V)] = list[low].closePrice
  <2>1. PICK i \in 1..n : Min(V) = body[i]["high"]
    BY <1>6
  <2>. QED
    BY <1>3, <2>1
<1>10. PICK high \in 1..n : Round[Max(V)] = list[high].closePrice
  <2>1. PICK i \in 1..n : Max(V) = body[i]["high"]
    BY <1>6
  <2>. QED
    BY <1>3, <2>1
<1>. HIDE DEF V
<1>11. Reported[1].closePrice = Round[Min(V)]
  <2>. 1 \in 1..n
    BY <1>1
  <2>1. PICK i \in 1..n : Reported[1] = list[i]
    BY <1>5
  <2>2. Round[Min(V)] <= Reported[1].closePrice /\ Reported[1].closePrice \in Int
    BY <1>8, <2>1
  <2>3. Reported[1].closePrice <= Round[Min(V)] /\ Round[Min(V)] \in Int
    BY <1>7, <1>8, <1>9
  <2>. QED
    BY <2>2, <2>3
<1>12. Reported[n].closePrice = Round[Max(V)]
  <2>. n \in 1..n
    BY <1>1
  <2>1. PICK i \in 1..n : Reported[n] = list[i]
    BY <1>5
  <2>2. Round[Max(V)] >= Reported[n].closePrice /\ Reported[n].closePrice \in Int
    BY <1>8, <2>1
  <2>3. Reported[n].closePrice >= Round[Max(V)] /\ Round[Max(V)] \in Int
    BY <1>7, <1>8, <1>10
  <2>. QED
    BY <2>2, <2>3
<1>. QED
  BY <1>1, <1>2, <1>11, <1>12

\* The sum of a column of the changes is near that of the klines.
LEMMA SumsAreNear ==
  ASSUME NEW klines, NEW n \in Nat, DOMAIN klines = 1..n, NEW list, DOMAIN list = 1..n,
         NEW f, NEW g,
         \A i \in 1..n : klines[i][g] \in Amount /\ list[i][f] = Round[klines[i][g]],
         NEW pi, NEW new, Reordered(list, pi, new)
  PROVE  IsNear(Total(new, f), Sum(Exactly, klines, g), n)
<1>. DEFINE decimals == [k \in 1..n |-> klines[pi[k]]]
<1>1. /\ pi \in Bijection(1..n, 1..n) /\ pi \in [1..n -> 1..n]
      /\ DOMAIN new = 1..n /\ \A k \in 1..n : new[k] = list[pi[k]]
  BY BijectionIs DEF Reordered
<1>2. Reordered(klines, pi, decimals)
  BY <1>1 DEF Reordered
<1>3. /\ DOMAIN decimals = 1..n
      /\ \A k \in 1..n : decimals[k][g] \in Amount /\ new[k][f] = Round[decimals[k][g]]
  BY <1>1
<1>. HIDE DEF decimals
<1>4. Sum(Exactly, decimals, g) = Sum(Exactly, klines, g)
  <2>1. Positions(1..n)
    BY FS_Interval DEF Positions
  <2>2. \A i \in 1..n : klines[i][g] \in Nat
    BY DoubleAssumption DEF Amount
  <2>. QED
    BY <1>2, <2>1, <2>2, ExactSumOfReordered
<1>5. IsNear(Sum(Round, new, f), Sum(Exactly, decimals, g), n)
  BY <1>1, <1>3, SumOfDoublesIsNear
<1>. QED
  BY <1>4, <1>5 DEF Total

LEMMA InvExtremesAndSums == MarketInv => ExtremesAndSums
<1>. SUFFICES ASSUME MarketInv, Succeeded PROVE ExtremesAndSums
  BY DEF ExtremesAndSums
<1>. DEFINE list == toChangeList(body)
            n == Len(body)
<1>1. /\ \E pi : Reordered(list, pi, Reported)
      /\ DOMAIN list = 1..n /\ DOMAIN body = 1..n /\ n \in Nat
      /\ \A i \in 1..n : list[i] = toChange(body[i]) /\ body[i] \in [Column -> Amount]
      /\ data.volumeSum = Total(Reported, "volume")
      /\ data.numberOfAllTrades = Total(Reported, "numberOfTrades")
  BY SuccessfulResponse
<1>. HIDE DEF list, n
<1>2. PICK pi : Reordered(list, pi, Reported)
  BY <1>1
<1>3. ASSUME NEW i \in 1..n
      PROVE  /\ body[i]["volume"] \in Amount /\ body[i]["takerVolume"] \in Amount
             /\ list[i]["volume"] = Round[body[i]["volume"]]
             /\ list[i]["numberOfTrades"] = Round[body[i]["takerVolume"]]
  BY <1>1 DEF Column, toChange
<1>4. IsNear(Total(Reported, "volume"), Sum(Exactly, body, "volume"), n)
  BY <1>1, <1>2, <1>3, SumsAreNear
<1>5. IsNear(Total(Reported, "numberOfTrades"), Sum(Exactly, body, "takerVolume"), n)
  BY <1>1, <1>2, <1>3, SumsAreNear
<1>. QED
  BY <1>1, <1>4, <1>5, ClosePriceExtremes DEF ExtremesAndSums, n

\* In that order, the first and the last change have the extreme openPrices
\* among those of their closePrice.
LEMMA OpenPricesInOrder ==
  ASSUME NEW B, NEW n \in Nat \ {0}, DOMAIN B = 1..n, InOrder(B),
         \A k \in 1..n : B[k].closePrice \in Int /\ B[k].openPrice \in Int,
         NEW C, C = {B[k] : k \in 1..n}
  PROVE  /\ Min({c.openPrice : c \in {d \in C : d.closePrice = B[1].closePrice}}) = B[1].openPrice
         /\ Max({c.openPrice : c \in {d \in C : d.closePrice = B[n].closePrice}}) = B[n].openPrice
<1>. DEFINE Low == {c.openPrice : c \in {d \in C : d.closePrice = B[1].closePrice}}
            High == {c.openPrice : c \in {d \in C : d.closePrice = B[n].closePrice}}
<1>1. /\ Low \in SUBSET Int /\ B[1].openPrice \in Low
      /\ \A y \in Low : B[1].openPrice <= y
  <2>1. ASSUME NEW k \in 1..n, B[k].closePrice = B[1].closePrice
        PROVE  B[k].openPrice \in Int /\ B[1].openPrice <= B[k].openPrice
    <3>1. B[k].openPrice \in Int /\ B[1].openPrice \in Int
      OBVIOUS
    <3>2. CASE k = 1
      BY <3>1, <3>2
    <3>3. CASE k > 1
      BY <2>1, <3>1, <3>3 DEF InOrder
    <3>. QED
      BY <3>1, <3>2, <3>3
  <2>2. ASSUME NEW y \in Low
        PROVE  \E k \in 1..n : y = B[k].openPrice /\ B[k].closePrice = B[1].closePrice
    OBVIOUS
  <2>3. B[1].openPrice \in Low
    OBVIOUS
  <2>. HIDE DEF Low
  <2>. QED
    BY <2>1, <2>2, <2>3
<1>2. /\ High \in SUBSET Int /\ B[n].openPrice \in High
      /\ \A y \in High : B[n].openPrice >= y
  <2>1. ASSUME NEW k \in 1..n, B[k].closePrice = B[n].closePrice
        PROVE  B[k].openPrice \in Int /\ B[n].openPrice >= B[k].openPrice
    <3>1. B[k].openPrice \in Int /\ B[n].openPrice \in Int
      OBVIOUS
    <3>2. CASE k = n
      BY <3>1, <3>2
    <3>3. CASE k < n
      BY <2>1, <3>1, <3>3 DEF InOrder
    <3>. QED
      BY <3>1, <3>2, <3>3
  <2>2. ASSUME NEW y \in High
        PROVE  \E k \in 1..n : y = B[k].openPrice /\ B[k].closePrice = B[n].closePrice
    OBVIOUS
  <2>3. B[n].openPrice \in High
    OBVIOUS
  <2>. HIDE DEF High
  <2>. QED
    BY <2>1, <2>2, <2>3
<1>. HIDE DEF Low, High
<1>3. Min(Low) = B[1].openPrice /\ Max(High) = B[n].openPrice
  BY <1>1, <1>2, MinIs, MaxIs
<1>. QED
  BY <1>3 DEF Low, High

LEMMA InvOpenPriceOfCloseExtremes == MarketInv => OpenPriceOfCloseExtremes
<1>. SUFFICES ASSUME MarketInv, Succeeded PROVE OpenPriceOfCloseExtremes
  BY DEF OpenPriceOfCloseExtremes
<1>. DEFINE n == Len(body)
            B == Reported
            C == {toChange(body[i]) : i \in DOMAIN body}
<1>1. /\ InOrder(B) /\ DOMAIN B = 1..n /\ n \in Nat \ {0}
      /\ C = {B[k] : k \in 1..n}
      /\ \A k \in 1..n : B[k].closePrice \in Int /\ B[k].openPrice \in Int
      /\ data.lowestOpenPrice = B[1].openPrice /\ data.highestOpenPrice = B[n].openPrice
      /\ data.lowestClosePrice = B[1].closePrice /\ data.highestClosePrice = B[n].closePrice
  BY SuccessfulResponse
<1>. HIDE DEF n, B, C
<1>2. /\ Min({c.openPrice : c \in {d \in C : d.closePrice = B[1].closePrice}}) = B[1].openPrice
      /\ Max({c.openPrice : c \in {d \in C : d.closePrice = B[n].closePrice}}) = B[n].openPrice
  BY <1>1, OpenPricesInOrder
<1>. QED
  BY <1>1, <1>2 DEF OpenPriceOfCloseExtremes, C

LEMMA MarketInvHolds == MarketSpec => []MarketInv
BY MarketInvInit, MarketInvNext, PTL DEF MarketSpec

\* A successful response has a change for each kline of the Binance answer, the
\* doubles of its columns open, high, volume and takerVolume and its times, in
\* ascending order of closePrice, however many klines came.
THEOREM EveryChangeReported == MarketSpec => []ReportsEveryChange
BY MarketInvHolds, InvReportsEveryChange, PTL

\* Its closePrice extremes are the doubles of the extreme High prices of the answer.
\* Its sums, in whatever order the sorts left the doubles, are off the sums of the
\* decimals by two roundings a kline at most, unless they overflow.
THEOREM ExtremesAndSumsRight == MarketSpec => []ExtremesAndSums
BY MarketInvHolds, InvExtremesAndSums, PTL

\* Its openPrice extremes are those of the changes of extreme closePrice.
THEOREM OpenPricesAreOfCloseExtremes == MarketSpec => []OpenPriceOfCloseExtremes
BY MarketInvHolds, InvOpenPriceOfCloseExtremes, PTL
=============================================================================
