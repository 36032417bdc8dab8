-------------------------- MODULE CompensationProofs --------------------------
(***************************************************************************)
(* Proofs about CompensationSchedules and PayCalculation, for any rates,   *)
(* rules, calendars, currencies, periods, connections and bounds.          *)
(***************************************************************************)
EXTENDS CompensationSchedules, FiniteSetTheorems, WellFoundedInduction, TLAPS

-----------------------------------------------------------------------------
(* Least and greatest members                                              *)

\* A set of naturals that is not empty has a least member.
LEMMA MinIsLeast ==
    ASSUME NEW S \in SUBSET Nat, S # {}
    PROVE  Min(S) \in S /\ \A x \in S : Min(S) <= x
<1> DEFINE less == OpToRel(<, Nat)
<1>1. IsWellFoundedOn(less, Nat)
  BY NatLessThanWellFounded
<1>2. \A x, y \in Nat : <<y, x>> \in less <=> y < x
  BY DEF OpToRel
<1> HIDE DEF less
<1>3. PICK x \in S : \A y \in S : <<y, x>> \notin less
  BY <1>1, WFMin
<1>4. \A y \in S : x <= y
  <2> SUFFICES ASSUME NEW y \in S PROVE x <= y
    OBVIOUS
  <2>1. x \in Nat /\ y \in Nat
    BY <1>3
  <2>2. ~(y < x)
    BY <1>2, <1>3, <2>1
  <2> QED
    BY <2>1, <2>2
<1> QED
  BY <1>4 DEF Min

\* And a greatest one, if it is bounded.
LEMMA MaxIsGreatest ==
    ASSUME NEW S \in SUBSET Nat, S # {}, NEW n \in Nat, \A x \in S : x <= n
    PROVE  Max(S) \in S /\ \A x \in S : x <= Max(S)
<1> DEFINE B == {k \in Nat : \A x \in S : x <= k}
<1>1. B \in SUBSET Nat /\ B # {}
  OBVIOUS
<1>2. Min(B) \in B /\ \A k \in B : Min(B) <= k
  BY <1>1, MinIsLeast
<1>3. PICK m \in Nat : m = Min(B)
  BY <1>2
<1>4. m \in S
  <2> SUFFICES ASSUME m \notin S PROVE FALSE
    OBVIOUS
  <2>1. \A x \in S : x <= m /\ x # m
    BY <1>2, <1>3
  <2>2. m > 0
    <3>1. PICK x \in S : TRUE
      OBVIOUS
    <3>2. x \in Nat /\ x <= m /\ x # m
      BY <2>1, <3>1
    <3> QED
      BY <1>3, <3>2
  <2>3. m - 1 \in B
    BY <2>1, <2>2
  <2> QED
    BY <1>2, <1>3, <2>2, <2>3
<1>5. \A x \in S : x <= m
  BY <1>2, <1>3
<1> QED
  BY <1>4, <1>5 DEF Max

\* The greater and the smaller of two integers.
LEMMA MaxOfTwo ==
    ASSUME NEW a \in Int, NEW b \in Int
    PROVE  /\ Max({a, b}) \in {a, b} /\ a <= Max({a, b}) /\ b <= Max({a, b})
           /\ Min({a, b}) \in {a, b} /\ Min({a, b}) <= a /\ Min({a, b}) <= b
<1>1. \E x \in {a, b} : \A y \in {a, b} : x >= y
  OBVIOUS
<1>2. \E x \in {a, b} : \A y \in {a, b} : x <= y
  OBVIOUS
<1> QED
  BY <1>1, <1>2 DEF Max, Min

-----------------------------------------------------------------------------
(* Sums                                                                    *)

\* g has the sum of f over every subset of S, added up in the order of pick.
SumsOver(g, S, f, pick) ==
    g = [s \in SUBSET S |-> IF s = {} THEN 0 ELSE f[pick[s]] + g[s \ {pick[s]}]]

\* The sums over the subsets of a finite set exist.
LEMMA SumsExist ==
    ASSUME NEW S, IsFiniteSet(S), NEW f \in [S -> Int],
           NEW pick, \A s \in SUBSET S : s # {} => pick[s] \in s
    PROVE  \E g : SumsOver(g, S, f, pick)
<1> DEFINE Level(n) == {s \in SUBSET S : Cardinality(s) <= n}
           Sums(n) == {g \in [Level(n) -> Int] :
                          \A s \in Level(n) : g[s] = IF s = {} THEN 0
                                                     ELSE f[pick[s]] + g[s \ {pick[s]}]}
           Bad == {n \in Nat : Sums(n) = {}}
<1>1. \A s \in SUBSET S : IsFiniteSet(s) /\ Cardinality(s) \in Nat
  BY FS_Subset, FS_CardinalityType
<1>2. \A s \in SUBSET S : s # {} =>
         /\ pick[s] \in S /\ s \ {pick[s]} \in SUBSET S
         /\ Cardinality(s \ {pick[s]}) = Cardinality(s) - 1
  <2> SUFFICES ASSUME NEW s \in SUBSET S, s # {}
               PROVE  /\ pick[s] \in S /\ s \ {pick[s]} \in SUBSET S
                      /\ Cardinality(s \ {pick[s]}) = Cardinality(s) - 1
    OBVIOUS
  <2>1. pick[s] \in s /\ IsFiniteSet(s)
    BY <1>1
  <2> QED
    BY <2>1, FS_RemoveElement
<1>3. \A s \in SUBSET S : Cardinality(s) = 0 => s = {}
  BY <1>1, FS_EmptySet
<1>4. Sums(0) # {}
  <2> DEFINE g == [s \in Level(0) |-> 0]
  <2>1. \A s \in Level(0) : s = {}
    BY <1>1, <1>3
  <2>2. g \in Sums(0)
    BY <2>1
  <2> QED
    BY <2>2
<1>5. ASSUME NEW n \in Nat, Sums(n) # {}
      PROVE  Sums(n + 1) # {}
  <2>1. PICK g \in [Level(n) -> Int] :
            \A s \in Level(n) : g[s] = IF s = {} THEN 0 ELSE f[pick[s]] + g[s \ {pick[s]}]
    BY <1>5
  <2> DEFINE h == [s \in Level(n + 1) |-> IF s \in Level(n) THEN g[s]
                                          ELSE f[pick[s]] + g[s \ {pick[s]}]]
  <2>2. \A s \in Level(n + 1) : s # {} => s \ {pick[s]} \in Level(n) /\ pick[s] \in S
    BY <1>1, <1>2
  <2>3. Level(n) \subseteq Level(n + 1)
    BY <1>1
  <2>4. {} \in Level(n)
    BY FS_EmptySet
  <2> HIDE DEF Level
  <2>5. h \in [Level(n + 1) -> Int]
    <3>1. ASSUME NEW s \in Level(n + 1)
          PROVE  h[s] \in Int
      <4>1. CASE s \in Level(n)
        BY <2>1, <4>1
      <4>2. CASE s \notin Level(n)
        <5>1. f[pick[s]] \in Int /\ g[s \ {pick[s]}] \in Int
          BY <2>1, <2>2, <2>4, <4>2
        <5>2. h[s] = f[pick[s]] + g[s \ {pick[s]}]
          BY <4>2
        <5> QED
          BY <5>1, <5>2
      <4> QED
        BY <4>1, <4>2
    <3> QED
      BY <3>1
  <2>6. \A s \in Level(n + 1) : h[s] = IF s = {} THEN 0 ELSE f[pick[s]] + h[s \ {pick[s]}]
    <3> SUFFICES ASSUME NEW s \in Level(n + 1)
                 PROVE  h[s] = IF s = {} THEN 0 ELSE f[pick[s]] + h[s \ {pick[s]}]
      OBVIOUS
    <3>1. CASE s = {}
      BY <2>1, <2>4, <3>1
    <3>2. CASE s # {}
      <4>1. h[s \ {pick[s]}] = g[s \ {pick[s]}]
        BY <2>2, <2>3, <3>2
      <4>2. s \in Level(n) => g[s] = f[pick[s]] + g[s \ {pick[s]}]
        BY <2>1, <3>2
      <4> QED
        BY <3>2, <4>1, <4>2
    <3> QED
      BY <3>1, <3>2
  <2>7. h \in Sums(n + 1)
    BY <2>5, <2>6
  <2> QED
    BY <2>7
<1>6. Bad = {}
  <2> SUFFICES ASSUME Bad # {} PROVE FALSE
    OBVIOUS
  <2> HIDE DEF Sums
  <2>1. Bad \in SUBSET Nat
    OBVIOUS
  <2>2. PICK m \in Nat : m = Min(Bad) /\ m \in Bad /\ \A k \in Bad : m <= k
    <3> HIDE DEF Bad
    <3> QED
      BY <2>1, MinIsLeast
  <2>3. m # 0
    BY <1>4, <2>2
  <2>4. m - 1 \in Nat /\ m - 1 \notin Bad
    <3>1. m - 1 \in Nat /\ ~(m <= m - 1)
      BY <2>3
    <3> HIDE DEF Bad
    <3> QED
      BY <2>2, <3>1
  <2>5. Sums(m - 1) # {} /\ (m - 1) + 1 = m
    BY <2>4
  <2>6. Sums(m) # {}
    BY <1>5, <2>4, <2>5
  <2> QED
    BY <2>2, <2>6
<1>7. Sums(Cardinality(S)) # {}
  BY <1>1, <1>6
<1>8. Level(Cardinality(S)) = SUBSET S
  BY FS_Subset, FS_CardinalityType
<1>9. PICK g \in [SUBSET S -> Int] :
         \A s \in SUBSET S : g[s] = IF s = {} THEN 0 ELSE f[pick[s]] + g[s \ {pick[s]}]
  BY <1>7, <1>8
<1>10. g = [s \in SUBSET S |-> IF s = {} THEN 0 ELSE f[pick[s]] + g[s \ {pick[s]}]]
  BY <1>9
<1> QED
  BY <1>9, <1>10 DEF SumsOver

\* And they are integers.
LEMMA SumsAreInt ==
    ASSUME NEW S, IsFiniteSet(S), NEW f \in [S -> Int],
           NEW pick, \A s \in SUBSET S : s # {} => pick[s] \in s,
           NEW g, SumsOver(g, S, f, pick)
    PROVE  g[S] \in Int
<1> USE DEF SumsOver
<1> DEFINE Sizes == {n \in Nat : \E s \in SUBSET S : Cardinality(s) = n /\ g[s] \notin Int}
<1>1. Sizes = {}
  <2> SUFFICES ASSUME Sizes # {} PROVE FALSE
    OBVIOUS
  <2>1. Sizes \in SUBSET Nat
    OBVIOUS
  <2>2. PICK m \in Nat : m \in Sizes /\ \A k \in Sizes : m <= k
    <3> HIDE DEF Sizes
    <3> QED
      BY <2>1, MinIsLeast
  <2>3. PICK s \in SUBSET S : Cardinality(s) = m /\ g[s] \notin Int
    BY <2>2
  <2>4. s # {}
    BY <2>3
  <2>5. IsFiniteSet(s) /\ pick[s] \in s
    BY <2>4, FS_Subset
  <2>6. /\ s \ {pick[s]} \in SUBSET S /\ IsFiniteSet(s \ {pick[s]})
        /\ Cardinality(s \ {pick[s]}) = m - 1
    BY <2>3, <2>5, FS_RemoveElement
  <2>7. m - 1 \in Nat
    BY <2>6, FS_CardinalityType
  <2>8. ~(m <= m - 1)
    OBVIOUS
  <2>9. g[s \ {pick[s]}] \in Int
    BY <2>2, <2>6, <2>7, <2>8
  <2>10. g[s] = f[pick[s]] + g[s \ {pick[s]}] /\ f[pick[s]] \in Int
    BY <2>4, <2>5
  <2> QED
    BY <2>3, <2>9, <2>10
<1>2. Cardinality(S) \in Nat /\ S \in SUBSET S
  BY FS_CardinalityType
<1> QED
  BY <1>1, <1>2

-----------------------------------------------------------------------------
(* Rounding                                                                *)

\* Nearest(n, d) is the quotient, or the next integer when the remainder is
\* more than half of d, or half of it and the quotient odd.
LEMMA Division ==
    ASSUME NEW n \in Int, NEW d \in Nat \ {0}
    PROVE  \E q \in Int, r \in Nat :
              /\ n = d * q + r /\ r < d
              /\ Nearest(n, d) = IF 2 * r > d \/ (2 * r = d /\ q % 2 = 1) THEN q + 1 ELSE q
<1>1. /\ n \div d \in Int /\ (n % d) \in Nat
      /\ n = d * (n \div d) + (n % d) /\ (n % d) < d
  OBVIOUS
<1> QED
  BY <1>1 DEF Nearest

\* Rounding moves n / d by a half at most.
LEMMA NearestIs ==
    ASSUME NEW n \in Int, NEW d \in Nat \ {0}
    PROVE  /\ Nearest(n, d) \in Int
           /\ 2 * n - d <= 2 * (d * Nearest(n, d)) /\ 2 * (d * Nearest(n, d)) <= 2 * n + d
<1>1. PICK q \in Int, r \in Nat :
         /\ n = d * q + r /\ r < d
         /\ Nearest(n, d) = IF 2 * r > d \/ (2 * r = d /\ q % 2 = 1) THEN q + 1 ELSE q
  BY Division
<1>2. PICK m \in Int : m = d * q
  OBVIOUS
<1>3. CASE Nearest(n, d) = q
  BY <1>1, <1>2, <1>3
<1>4. CASE Nearest(n, d) = q + 1
  <2>1. d * (q + 1) = m + d
    BY <1>2
  <2> QED
    BY <1>1, <1>2, <1>4, <2>1
<1> QED
  BY <1>1, <1>3, <1>4

\* A multiple of d is not rounded.
LEMMA NearestOfMultiple ==
    ASSUME NEW k \in Int, NEW d \in Nat \ {0}
    PROVE  Nearest(d * k, d) = k
<1>1. PICK q \in Int, r \in Nat :
         /\ d * k = d * q + r /\ r < d
         /\ Nearest(d * k, d) = IF 2 * r > d \/ (2 * r = d /\ q % 2 = 1) THEN q + 1 ELSE q
  BY Division
<1>2. d * (k - q) = r
  BY <1>1
<1>3. k = q
  <2>1. CASE k > q
    <3>1. PICK i \in Nat : k - q = i + 1
      BY <2>1
    <3>2. d * (i + 1) = d * i + d /\ d * i \in Nat
      OBVIOUS
    <3> QED
      BY <1>1, <1>2, <3>1, <3>2
  <2>2. CASE k < q
    <3>1. PICK i \in Nat : k - q = -(i + 1)
      BY <2>2
    <3>2. d * (-(i + 1)) = -(d * i) - d /\ d * i \in Nat
      OBVIOUS
    <3> QED
      BY <1>1, <1>2, <3>1, <3>2
  <2> QED
    BY <2>1, <2>2
<1>4. r = 0
  BY <1>1, <1>3
<1> QED
  BY <1>1, <1>3, <1>4

\* Rounding keeps the order.
LEMMA NearestKeepsOrder ==
    ASSUME NEW a \in Int, NEW b \in Int, a <= b, NEW d \in Nat \ {0}
    PROVE  Nearest(a, d) <= Nearest(b, d)
<1>1. PICK q \in Int, r \in Nat :
         /\ a = d * q + r /\ r < d
         /\ Nearest(a, d) = IF 2 * r > d \/ (2 * r = d /\ q % 2 = 1) THEN q + 1 ELSE q
  BY Division
<1>2. PICK p \in Int, s \in Nat :
         /\ b = d * p + s /\ s < d
         /\ Nearest(b, d) = IF 2 * s > d \/ (2 * s = d /\ p % 2 = 1) THEN p + 1 ELSE p
  BY Division
<1>3. CASE p < q
  <2>1. PICK i \in Nat : q = p + i + 1
    BY <1>3
  <2>2. d * q = d * p + d * i + d /\ d * i \in Nat
    BY <2>1
  <2> QED
    BY <1>1, <1>2, <2>2
<1>4. CASE p = q
  BY <1>1, <1>2, <1>4
<1>5. CASE p > q
  BY <1>1, <1>2, <1>5
<1> QED
  BY <1>3, <1>4, <1>5

\* An official amount is a multiple of the minor unit, and no further from
\* what is rounded than half of it.
LEMMA RoundPayableIs ==
    ASSUME NEW a \in Int, NEW m \in Nat \ {0}
    PROVE  /\ RoundPayable(a, m) \in Int
           /\ 2 * a - m <= 2 * RoundPayable(a, m) /\ 2 * RoundPayable(a, m) <= 2 * a + m
           /\ IsPayablePrecision(RoundPayable(a, m), m)
<1>1. PICK k \in Int : /\ k = Nearest(a, m)
                       /\ 2 * a - m <= 2 * (m * k) /\ 2 * (m * k) <= 2 * a + m
  BY NearestIs
<1>2. RoundPayable(a, m) = m * k /\ m * k \in Int
  BY <1>1 DEF RoundPayable
<1>3. RoundPayable(m * k, m) = m * k
  BY NearestOfMultiple DEF RoundPayable
<1> QED
  BY <1>1, <1>2, <1>3 DEF IsPayablePrecision

\* Payable amounts are closed under subtraction, and nothing is payable.
LEMMA PayableDifference ==
    ASSUME NEW a \in Int, NEW b \in Int, NEW m \in Nat \ {0},
           IsPayablePrecision(a, m), IsPayablePrecision(b, m)
    PROVE  IsPayablePrecision(a - b, m) /\ IsPayablePrecision(0, m)
<1>0. PICK i \in Int, j \in Int : i = Nearest(a, m) /\ j = Nearest(b, m)
  BY NearestIs
<1>1. a = m * i /\ b = m * j
  BY <1>0 DEF IsPayablePrecision, RoundPayable
<1>2. PICK k \in Int : k = i - j
  OBVIOUS
<1>3. a - b = m * k /\ 0 = m * 0
  BY <1>1, <1>2
<1>4. Nearest(m * k, m) = k
  BY NearestOfMultiple
<1>5. Nearest(m * 0, m) = 0
  BY NearestOfMultiple
<1>6. RoundPayable(m * k, m) = m * k /\ RoundPayable(m * 0, m) = m * 0
  BY <1>4, <1>5 DEF RoundPayable
<1> QED
  BY <1>3, <1>6 DEF IsPayablePrecision

-----------------------------------------------------------------------------
(* Lines                                                                   *)

\* The values of a schedule, by component.
ValueTables == UNION {[C -> Rates] : C \in SUBSET Nat}

\* The amount of a line with tiers.
LEMMA OrdinalTierIsInt ==
    ASSUME TopologyAssumption, NEW units \in Int, NEW values,
           \A c \in DOMAIN TierBounds : values[c] \in Int
    PROVE  OrdinalTier(units, values) \in Int
<1> DEFINE S == DOMAIN TierBounds
           term(i) == UnitsIn(units, TierBounds[i]) * values[i]
           first(s) == CHOOSE i \in s : TRUE
           f == [i \in S |-> term(i)]
           pick == [s \in SUBSET S |-> first(s)]
           IsSum(h) == h = [s \in SUBSET S |-> IF s = {} THEN 0 ELSE term(first(s)) + h[s \ {first(s)}]]
           it == CHOOSE h : IsSum(h)
<1>1. IsFiniteSet(S)
  <2>1. PICK n \in Nat : S = 1 .. n
    BY DEF TopologyAssumption
  <2>2. IsFiniteSet(1 .. n)
    BY FS_Interval
  <2> QED
    BY <2>1, <2>2
<1>2. f \in [S -> Int]
  <2>1. ASSUME NEW i \in S PROVE term(i) \in Int
    <3>0. TierBounds[i] \in Int \X Int
      BY DEF TopologyAssumption
    <3>1. PICK from \in Int, to \in Int : from = TierBounds[i][1] /\ to = TierBounds[i][2]
      BY <3>0
    <3>2. PICK last \in Int : last = IF to = Nothing \/ units < to THEN units ELSE to
      BY <3>1
    <3>3. PICK n \in Int : n = last - from + 1
      OBVIOUS
    <3>4. UnitsIn(units, TierBounds[i]) = Max({0, n})
      BY <3>1, <3>2, <3>3 DEF UnitsIn
    <3>5. UnitsIn(units, TierBounds[i]) \in Int
      <4>1. 0 \in Int
        OBVIOUS
      <4>2. Max({0, n}) \in {0, n}
        BY <4>1, MaxOfTwo
      <4> QED
        BY <3>4, <4>2
    <3>6. values[i] \in Int
      OBVIOUS
    <3> QED
      BY <3>5, <3>6
  <2> HIDE DEF S, term
  <2> QED
    BY <2>1
<1>3. \A s \in SUBSET S : s # {} => pick[s] \in s
  OBVIOUS
<1>4. ASSUME NEW h
      PROVE  SumsOver(h, S, f, pick) <=> IsSum(h)
  <2>1. \A s \in SUBSET S : s # {} => f[pick[s]] = term(first(s)) /\ pick[s] = first(s)
    <3>1. \A s \in SUBSET S : s # {} => first(s) \in s /\ first(s) \in S
      OBVIOUS
    <3> HIDE DEF S, first, term
    <3> QED
      BY <3>1
  <2>2. \A s \in SUBSET S : (IF s = {} THEN 0 ELSE f[pick[s]] + h[s \ {pick[s]}])
                             = (IF s = {} THEN 0 ELSE term(first(s)) + h[s \ {first(s)}])
    <3> HIDE DEF S, f, pick, first, term
    <3> QED
      BY <2>1
  <2> HIDE DEF S, f, pick, first, term
  <2> QED
    BY <2>2 DEF SumsOver
<1>5. IsSum(it)
  <2>1. \E h : SumsOver(h, S, f, pick)
    <3> HIDE DEF S, f, pick
    <3> QED
      BY <1>1, <1>2, <1>3, SumsExist
  <2> HIDE DEF IsSum, S, f, pick
  <2>2. \E h : IsSum(h)
    BY <1>4, <2>1
  <2> QED
    BY <2>2 DEF it
<1>6. it[S] \in Int
  <2>1. PICK g : g = it
    OBVIOUS
  <2>2. SumsOver(g, S, f, pick)
    <3>1. IsSum(g)
      <4> HIDE DEF IsSum, it
      <4> QED
        BY <1>5, <2>1
    <3> HIDE DEF IsSum, it, S, f, pick
    <3> QED
      BY <1>4, <3>1
  <2> HIDE DEF S, f, pick, it
  <2>3. g[S] \in Int
    BY <1>1, <1>2, <1>3, <2>2, SumsAreInt
  <2> QED
    BY <2>1, <2>3
<1>7. OrdinalTier(units, values) = it[S]
  BY DEF OrdinalTier, MapThenSumSet, MapThenFoldSet
<1> HIDE DEF it, S
<1> QED
  BY <1>6, <1>7

\* The amount of a line that calculates.
LEMMA LineAmountIsInt ==
    ASSUME ScaleAssumption, TopologyAssumption, CompensationAssumption,
           NEW shape \in Shapes, NEW values \in ValueTables, NEW quantity \in Nat,
           DOMAIN values = ComponentsOf(shape)
    PROVE  LineAmount(shape, values, quantity) \in Int
<1>1. PICK C \in SUBSET Nat : values \in [C -> Rates]
  BY DEF ValueTables
<1>2. \A c \in ComponentsOf(shape) : values[c] \in Nat
  BY <1>1 DEF CompensationAssumption
<1>3. CASE shape = "Scalar"
  <2>1. PICK rate \in Nat : rate = values[0]
    BY <1>2, <1>3 DEF ComponentsOf
  <2>2. quantity * rate \in Int
    OBVIOUS
  <2>3. Nearest(quantity * rate, Scale) \in Int
    BY <2>2, NearestIs DEF ScaleAssumption
  <2> QED
    BY <1>3, <2>1, <2>3 DEF LineAmount, PerUnit
<1>4. CASE shape # "Scalar"
  <2>1. \A c \in DOMAIN TierBounds : values[c] \in Int
    BY <1>2, <1>4 DEF ComponentsOf
  <2>2. quantity \div Scale \in Int
    BY DEF ScaleAssumption
  <2>3. OrdinalTier(quantity \div Scale, values) \in Int
    BY <2>1, <2>2, OrdinalTierIsInt
  <2> QED
    BY <1>4, <2>3 DEF LineAmount
<1> QED
  BY <1>3, <1>4

\* The pay of lines that calculate, before it is rounded.
LEMMA RawPayIsInt ==
    ASSUME ScaleAssumption, TopologyAssumption, CompensationAssumption,
           structure.shape \in Shapes, \A s \in DOMAIN sched : sched[s].values \in ValueTables,
           NEW W \in SUBSET Days, NEW lines \in [W -> Quantities], Calculated(lines)
    PROVE  RawPay(lines) \in Int
<1> DEFINE S == DOMAIN lines
           term(i) == LineAmount(structure.shape, CHOOSE v \in ValuesOn(i) : TRUE, lines[i])
           first(s) == CHOOSE i \in s : TRUE
           f == [i \in S |-> term(i)]
           pick == [s \in SUBSET S |-> first(s)]
           IsSum(h) == h = [s \in SUBSET S |-> IF s = {} THEN 0 ELSE term(first(s)) + h[s \ {first(s)}]]
           it == CHOOSE h : IsSum(h)
<1>1. IsFiniteSet(S)
  <2>1. IsFiniteSet(Days)
    BY FS_Interval DEF Days, CompensationAssumption
  <2> QED
    BY <2>1, FS_Subset
<1>2. f \in [S -> Int]
  <2>1. ASSUME NEW i \in S PROVE term(i) \in Int
    <3>1. PICK v : v = CHOOSE x \in ValuesOn(i) : TRUE
      OBVIOUS
    <3>2. CalculationStatus(structure.shape, ValuesOn(i), lines[i]) = "CALCULATED"
      BY DEF Calculated
    <3>3. ValuesOn(i) # {} /\ \A x \in ValuesOn(i) : DOMAIN x = ComponentsOf(structure.shape)
      BY <3>2 DEF CalculationStatus
    <3>4. v \in ValuesOn(i)
      BY <3>1, <3>3
    <3>5. v \in ValueTables
      BY <3>4 DEF ValuesOn, ResolvedOn, Authoritative
    <3>6. lines[i] \in Nat
      BY DEF CompensationAssumption
    <3>7. LineAmount(structure.shape, v, lines[i]) \in Int
      BY <3>3, <3>4, <3>5, <3>6, LineAmountIsInt
    <3> QED
      BY <3>1, <3>7
  <2> HIDE DEF S, term
  <2> QED
    BY <2>1
<1>3. \A s \in SUBSET S : s # {} => pick[s] \in s
  OBVIOUS
<1>4. ASSUME NEW h
      PROVE  SumsOver(h, S, f, pick) <=> IsSum(h)
  <2>1. \A s \in SUBSET S : s # {} => f[pick[s]] = term(first(s)) /\ pick[s] = first(s)
    <3>1. \A s \in SUBSET S : s # {} => first(s) \in s /\ first(s) \in S
      OBVIOUS
    <3> HIDE DEF S, first, term
    <3> QED
      BY <3>1
  <2>2. \A s \in SUBSET S : (IF s = {} THEN 0 ELSE f[pick[s]] + h[s \ {pick[s]}])
                             = (IF s = {} THEN 0 ELSE term(first(s)) + h[s \ {first(s)}])
    <3> HIDE DEF S, f, pick, first, term
    <3> QED
      BY <2>1
  <2> HIDE DEF S, f, pick, first, term
  <2> QED
    BY <2>2 DEF SumsOver
<1>5. IsSum(it)
  <2>1. \E h : SumsOver(h, S, f, pick)
    <3> HIDE DEF S, f, pick
    <3> QED
      BY <1>1, <1>2, <1>3, SumsExist
  <2> HIDE DEF IsSum, S, f, pick
  <2>2. \E h : IsSum(h)
    BY <1>4, <2>1
  <2> QED
    BY <2>2 DEF it
<1>6. it[S] \in Int
  <2>1. PICK g : g = it
    OBVIOUS
  <2>2. SumsOver(g, S, f, pick)
    <3>1. IsSum(g)
      <4> HIDE DEF IsSum, it
      <4> QED
        BY <1>5, <2>1
    <3> HIDE DEF IsSum, it, S, f, pick
    <3> QED
      BY <1>4, <3>1
  <2> HIDE DEF S, f, pick, it
  <2>3. g[S] \in Int
    BY <1>1, <1>2, <1>3, <2>2, SumsAreInt
  <2> QED
    BY <2>1, <2>3
<1>7. RawPay(lines) = it[S]
  BY DEF RawPay, MapThenSumSet, MapThenFoldSet
<1> HIDE DEF it, S
<1> QED
  BY <1>6, <1>7

-----------------------------------------------------------------------------
(* The inductive invariant                                                 *)

Transaction(x) == [op |-> x.op, branches |-> x.branches, held |-> x.held, minor |-> x.minor,
                   decided |-> x.decided, packet |-> x.packet]

\* The driver works in one branch, or in one after the other.
TenuresFit ==
    \/ \E b \in Branches : tenures = <<[branch |-> b, from |-> 0, to |-> Never]>>
    \/ \E b, c \in Branches, end \in Instants \ {0} :
         b # c /\ tenures = <<[branch |-> b, from |-> 0, to |-> end],
                              [branch |-> c, from |-> end, to |-> Never]>>

\* A transaction holds locks it needs, and those below all that it still wants;
\* a pay change knows no branch before it holds the assignments.
LocksFit(t) ==
    /\ tx[t] = Transaction(tx[t])
    /\ tx[t].branches \subseteq Branches
    /\ tx[t].held \subseteq Shared(tx[t].op) \cup Exclusive(tx[t].op, tx[t].branches)
    /\ \A h \in tx[t].held : \A w \in Wanted(t) : h < w
    /\ tx[t].op.kind \notin PayKinds => tx[t].branches = OwnBranches(tx[t].op)
    /\ tx[t].op.kind \in PayKinds /\ TenureRows \notin tx[t].held => tx[t].branches = {}
    /\ tx[t].decided \in BOOLEAN
    /\ tx[t].decided => tx[t].op.kind \in PayKinds /\ Wanted(t) = {}

\* A lock that two transactions hold is shared by both.
Exclusion ==
    \A t, u \in Txns : t # u =>
        \A l \in tx[t].held \cap tx[u].held : l \in Shared(tx[t].op) /\ l \in Shared(tx[u].op)

LockInv == /\ TenuresFit
           /\ tx = [t \in Txns |-> tx[t]]
           /\ \A t \in Txns : LocksFit(t)
           /\ Exclusion

ScheduleRows == [from : Days, to : 0 .. Forever, values : ValueTables,
                 status : {"Pending", "Approved", "Superseded", "Discarded", "Voided"}]
RuleRows     == [type : RuleTypes, amount : Nat, from : Days, to : 0 .. Forever,
                 status : {"Active", "Ended", "Voided"},
                 calendar : {CalendarOf[b] : b \in Branches}]

SchedFit == sched \in Seq(ScheduleRows)
RulesFit == /\ rules \in Seq(RuleRows) /\ Len(rules) <= MaxRules
            /\ \A r \in DOMAIN rules : IsPayablePrecision(rules[r].amount, minor)

\* A request names a schedule, a rule or a period that is there.
RequestFits(o) ==
    /\ o.kind \in ScheduleKinds \ {"create"} => o.s \in DOMAIN sched
    /\ o.kind \in {"create", "update"} => o.w \in Windows
    /\ o.kind = "createRule" => /\ <<o.from, o.to>> \in Windows
                                /\ o.type \in RuleTypes /\ o.amount \in RuleAmounts
    /\ o.kind = "endRule" => /\ o.r \in DOMAIN rules /\ o.to \in Days
                             /\ rules[o.r].status = "Active" => o.from = FirstChanged(o.r, o.to)
    /\ o.kind = "voidRule" => o.r \in DOMAIN rules /\ o.from = rules[o.r].from
    /\ o.kind = "structure" => o.shape \in Shapes
    /\ o.kind = "currency" => o.minor \in Minors
    /\ o.kind \in PeriodKinds => o.p \in Periods
    /\ o.kind = "submit" => o.seen \in {"Open", "Returned"} /\ pstat[o.p] # "none"
    /\ o.kind = "transfer" => o.at \in TransferAt

\* The amounts of a snapshot taken in currency m.
Pays(pay, m) ==
    LET n     == Cardinality(pay.counted)
        d     == Cardinality(pay.scheduled)
        paid  == pay.base + pay.topUp + pay.cap
        slack == IF n = d THEN 0 ELSE d * (m + 1)
    IN /\ \A a \in {pay.base, pay.topUp, pay.cap} : IsPayablePrecision(a, m)
       /\ pay.topUp = 0 \/ pay.cap = 0
       /\ IF pay.status = "APPLIED"
          THEN /\ pay.minimum # Nothing => 2 * d * paid >= 2 * n * pay.minimum - slack
               /\ pay.maximum # Nothing => 2 * d * paid <= 2 * n * pay.maximum + slack
          ELSE paid = pay.base

\* Day d is not taken from assignment i: no opened period of a later one has
\* it on its roster, and where none is opened yet, none will.
Captures(j, p, d) == pstat[p] # "none" /\ tenures[j].branch = BranchOf[p] /\ d \in DaysOf[p]
Owns(i, d) ==
    \A j \in DOMAIN tenures : j > i =>
        /\ \A p \in Periods : Captures(j, p, d) => d \notin roster[p]
        /\ (\A p \in Periods : ~Captures(j, p, d)) => ~Covers(tenures[j], d)

\* The days a snapshot of p counts are on p's roster; once the driver is
\* transferred, a snapshot of the source that knows it has none of the days
\* that the new assignment takes.
Counts(p, new) ==
    /\ pstat[p] # "none"
    /\ new.tenure \in DOMAIN tenures /\ tenures[new.tenure].branch = BranchOf[p]
    /\ new.pay.counted \subseteq roster[p]
    /\ Len(tenures) = 1 => new.until = Never
    /\ new.until = tenures[new.tenure].to => \A d \in new.pay.counted : Owns(new.tenure, d)

PeriodsFit ==
    /\ pstat \in [Periods -> {"none", "Open", "Review", "Returned", "Locked"}]
    /\ roster \in [Periods -> SUBSET Days]
    /\ packet = [p \in Periods |-> packet[p]]
    /\ \A p \in Periods :
         /\ roster[p] \subseteq DaysOf[p]
         /\ packet[p] # Unpaid => Pays(packet[p].pay, minor) /\ Counts(p, packet[p])
         /\ pstat[p] \in {"Review", "Returned", "Locked"} => packet[p] # Unpaid

\* Holding the company row, a transaction knows the currency; a submission
\* calculates in the one it began with.
CurrencyFits(t) ==
    /\ tx[t].minor \in Minors
    /\ tx[t].op.kind \in MonetaryKinds /\ Company \in tx[t].held => tx[t].minor = minor
    /\ tx[t].op.kind = "submit" => /\ Pays(tx[t].packet.pay, tx[t].minor) /\ tx[t].packet # Unpaid
                                   /\ Counts(tx[t].op.p, tx[t].packet)

PayInv ==
    /\ now \in Clock /\ minor \in Minors
    /\ structure \in [shape : Shapes, locked : BOOLEAN, active : BOOLEAN]
    /\ SchedFit /\ RulesFit /\ PeriodsFit
    /\ \A t \in Txns : RequestFits(tx[t].op) /\ CurrencyFits(t)

\* A pay change that holds the driver's assignments has learned every branch
\* that has or can get a roster with a day it may change.
BranchesFit(t) ==
    /\ tx[t].op.kind \in PayKinds => tx[t].op.from \in Nat
    /\ tx[t].op.kind \in PayKinds /\ TenureRows \in tx[t].held =>
        /\ \A i \in DOMAIN tenures : tenures[i].to > 2 * tx[t].op.from - 2
                                     => tenures[i].branch \in tx[t].branches
        /\ \A p \in Periods : \A d \in roster[p] : d >= tx[t].op.from => BranchOf[p] \in tx[t].branches

NothingPaid(from, to)   == \A p \in Finalized : \A d \in roster[p] : d \notin from .. to

\* What was decided stays allowed until it is written.
Stands(o) ==
    /\ o.kind = "approve"    => /\ o.s \in DOMAIN sched /\ sched[o.s].from = o.from
                                /\ IsPending(o.s) /\ NothingPaid(o.from, FootprintEnd(o.s))
    /\ o.kind = "void"       => /\ o.s \in DOMAIN sched /\ sched[o.s].from = o.from
                                /\ IsVoidable(o.s) /\ NothingPaid(o.from, sched[o.s].to)
    /\ o.kind = "createRule" => NoFinalizedStart(o.from, o.to)
    /\ o.kind = "endRule"    => /\ o.r \in DOMAIN rules /\ rules[o.r].status = "Active"
                                /\ o.from = FirstChanged(o.r, o.to)
                                /\ NoFinalizedStart(o.from, LastChanged(o.r, o.to))
    /\ o.kind = "voidRule"   => /\ o.r \in DOMAIN rules /\ rules[o.r].from = o.from
                                /\ rules[o.r].status # "Voided"
                                /\ NoFinalizedStart(o.from, rules[o.r].to)

DecisionHolds(t) == tx[t].decided => Stands(tx[t].op)

SettledInv == \A t \in Txns : BranchesFit(t) /\ DecisionHolds(t)

IInv == LockInv /\ PayInv /\ SettledInv

\* The driver's first assignment, and the second one.
LEMMA TenureFacts ==
    ASSUME CompensationAssumption, TenuresFit
    PROVE  /\ Len(tenures) \in {1, 2} /\ DOMAIN tenures = 1 .. Len(tenures)
           /\ \A i \in DOMAIN tenures : /\ i \in {1, 2} /\ tenures[i].branch \in Branches
                                       /\ tenures[i].from \in Nat /\ tenures[i].to \in Nat
           /\ Len(tenures) = 1 => tenures[1].to = Never
           /\ Len(tenures) = 2 => /\ tenures[1].branch # tenures[2].branch
                                  /\ tenures[1].from = 0 /\ tenures[1].to \in Instants \ {0}
                                  /\ tenures[1].to < Never
                                  /\ tenures[2].from = tenures[1].to /\ tenures[2].to = Never
           /\ tenures[1].from = 0
           /\ Never \in Nat
<1>0. Never \in Nat /\ Instants \subseteq Nat /\ \A end \in Instants : end < Never
  BY DEF Never, Instants, CompensationAssumption
<1>1. CASE \E b \in Branches : tenures = <<[branch |-> b, from |-> 0, to |-> Never]>>
  BY <1>0, <1>1
<1>2. CASE \E b, c \in Branches, end \in Instants \ {0} :
             b # c /\ tenures = <<[branch |-> b, from |-> 0, to |-> end],
                                  [branch |-> c, from |-> end, to |-> Never]>>
  <2>1. PICK b \in Branches, c \in Branches, end \in Nat :
             /\ end \in Instants \ {0} /\ end < Never /\ b # c
             /\ tenures = <<[branch |-> b, from |-> 0, to |-> end],
                            [branch |-> c, from |-> end, to |-> Never]>>
    BY <1>0, <1>2
  <2>2. /\ Len(tenures) = 2 /\ DOMAIN tenures = 1 .. 2
        /\ tenures[1] = [branch |-> b, from |-> 0, to |-> end]
        /\ tenures[2] = [branch |-> c, from |-> end, to |-> Never]
    BY <2>1
  <2> QED
    BY <1>0, <2>1, <2>2
<1> QED
  BY <1>1, <1>2 DEF TenuresFit

-----------------------------------------------------------------------------
(* Locks                                                                   *)

\* Locks are numbers: the company row, then the assignments, then the rest.
LEMMA LocksAreNumbers ==
    ASSUME CompensationAssumption, NEW o, NEW B \in SUBSET Branches
    PROVE  /\ Shared(o) \subseteq {Company, TenureRows}
           /\ Exclusive(o, B) \subseteq Nat
           /\ \A l \in Exclusive(o, B) : l > TenureRows \/ l \in {Company, TenureRows}
           /\ Company \in Nat /\ TenureRows \in Nat /\ Company < TenureRows
           /\ \A b \in B : Workflow(b) \in Exclusive(o, B) /\ Workflow(b) > TenureRows
<1>1. \A b \in B : 10 + b \in Nat /\ 10 + b > 10
  BY DEF CompensationAssumption
<1>2. \A r \in RuleIds : 1000 + r \in Nat /\ 1000 + r > 10
  BY DEF RuleIds, CompensationAssumption
<1>3. Shared(o) \subseteq {Company, TenureRows}
  BY DEF Shared
<1>4. ASSUME NEW l \in Exclusive(o, B)
      PROVE  l \in Nat /\ (l > TenureRows \/ l \in {Company, TenureRows})
  <2>1. CASE l \in {Workflow(b) : b \in B}
    BY <1>1, <2>1 DEF Workflow, TenureRows
  <2>2. CASE l \in {Company, TenureRows, Structure}
    BY <2>2 DEF Company, TenureRows, Structure
  <2>3. CASE l \in {RuleRow(r) : r \in RuleIds}
    BY <1>2, <2>3 DEF RuleRow, TenureRows
  <2> QED
    BY <2>1, <2>2, <2>3 DEF Exclusive
<1>5. \A b \in B : Workflow(b) \in Exclusive(o, B) /\ Workflow(b) > TenureRows
  BY <1>1 DEF Exclusive, Workflow, TenureRows
<1> QED
  BY <1>3, <1>4, <1>5 DEF Company, TenureRows

\* What a transaction wants is a set of numbers, with a least one.
LEMMA NextLockIsLeast ==
    ASSUME CompensationAssumption, NEW t \in Txns, LocksFit(t)
    PROVE  /\ Wanted(t) \subseteq Nat
           /\ Wanted(t) # {} => NextLock(t) \in Wanted(t) /\ \A k \in Wanted(t) : NextLock(t) <= k
<1>1. Wanted(t) \subseteq Nat
  BY LocksAreNumbers DEF LocksFit, Wanted
<1>2. ASSUME Wanted(t) # {}
      PROVE  NextLock(t) \in Wanted(t) /\ \A k \in Wanted(t) : NextLock(t) <= k
  <2>1. PICK W \in SUBSET Nat : W = Wanted(t)
    BY <1>1
  <2>2. Min(W) \in W /\ \A k \in W : Min(W) <= k
    BY <1>2, <2>1, MinIsLeast
  <2>3. \E l \in W : \A k \in W : l <= k
    BY <2>2
  <2>4. NextLock(t) = CHOOSE l \in W : \A k \in W : l <= k
    BY <2>1 DEF NextLock, LockOrder
  <2> QED
    BY <2>1, <2>3, <2>4
<1> QED
  BY <1>1, <1>2

\* A finite set of numbers has a bound.
LEMMA FiniteSetIsBounded ==
    ASSUME NEW S \in SUBSET Nat, IsFiniteSet(S)
    PROVE  \E n \in Nat : \A x \in S : x <= n
<1> DEFINE Bounded(s) == \E n \in Nat : \A x \in s : x <= n
           Sizes == {n \in Nat : \E s \in SUBSET S : Cardinality(s) = n /\ ~Bounded(s)}
<1>1. Sizes = {}
  <2> SUFFICES ASSUME Sizes # {} PROVE FALSE
    OBVIOUS
  <2>1. Sizes \in SUBSET Nat
    OBVIOUS
  <2>2. PICK m \in Nat : m \in Sizes /\ \A k \in Sizes : m <= k
    <3> HIDE DEF Sizes
    <3> QED
      BY <2>1, MinIsLeast
  <2>3. PICK s \in SUBSET S : Cardinality(s) = m /\ ~Bounded(s)
    BY <2>2
  <2>4. PICK x : x \in s
    BY <2>3
  <2>5. /\ s \ {x} \in SUBSET S /\ Cardinality(s \ {x}) = m - 1 /\ m - 1 \in Nat
    <3>1. IsFiniteSet(s)
      BY FS_Subset
    <3>2. IsFiniteSet(s \ {x}) /\ Cardinality(s \ {x}) = m - 1
      BY <2>3, <2>4, <3>1, FS_RemoveElement
    <3> QED
      BY <3>2, FS_CardinalityType
  <2>6. Bounded(s \ {x})
    <3>1. ~(m <= m - 1)
      OBVIOUS
    <3> HIDE DEF Bounded
    <3> QED
      BY <2>2, <2>5, <3>1
  <2>7. PICK n \in Nat : \A y \in s \ {x} : y <= n
    BY <2>6
  <2>8. x \in Nat /\ s \in SUBSET Nat
    BY <2>4
  <2>9. \A y \in s : y <= x + n
    <3>1. ASSUME NEW y \in s PROVE y <= x + n
      BY <2>7, <2>8
    <3> QED
      BY <3>1
  <2>10. x + n \in Nat
    BY <2>8
  <2> QED
    BY <2>3, <2>9, <2>10
<1>2. Cardinality(S) \in Nat /\ S \in SUBSET S
  BY FS_CardinalityType
<1> QED
  BY <1>1, <1>2

\* So have the locks.
LEMMA LocksAreBounded ==
    ASSUME CompensationAssumption
    PROVE  \E n \in Nat : \A o : \A B \in SUBSET Branches : \A l \in Shared(o) \cup Exclusive(o, B) : l <= n
<1>1. PICK top \in Nat : \A b \in Branches : b <= top
  BY FiniteSetIsBounded DEF CompensationAssumption
<1>2. MaxRules \in Nat /\ Branches \subseteq Nat
  BY DEF CompensationAssumption
<1>3. PICK n \in Nat : n = 1000 + top + MaxRules
  BY <1>2
<1>4. ASSUME NEW o, NEW B \in SUBSET Branches, NEW l \in Shared(o) \cup Exclusive(o, B)
      PROVE  l <= n
  <2>1. CASE l \in {Workflow(b) : b \in B}
    <3>1. PICK b \in Nat : l = 10 + b /\ b <= top
      BY <1>1, <1>2, <2>1 DEF Workflow
    <3> QED
      BY <1>2, <1>3, <3>1
  <2>2. CASE l \in {Company, TenureRows, Structure}
    BY <1>2, <1>3, <2>2 DEF Company, TenureRows, Structure
  <2>3. CASE l \in {RuleRow(r) : r \in RuleIds}
    <3>1. PICK r \in Nat : l = 1000 + r /\ r <= MaxRules
      BY <1>2, <2>3 DEF RuleRow, RuleIds
    <3> QED
      BY <1>2, <1>3, <3>1
  <2> QED
    BY <2>1, <2>2, <2>3 DEF Exclusive, Shared
<1> QED
  BY <1>4

\* Whoever waits for the greatest lock waits for one that does not wait.
LEMMA LocksAreOrdered ==
    ASSUME CompensationAssumption, LockInv
    PROVE  SomebodyProceeds
<1> SUFFICES ASSUME Busy # {}, \A t \in Busy : Wanted(t) # {} /\ Blockers(t) # {}
             PROVE  FALSE
  BY DEF SomebodyProceeds
<1> DEFINE Next1 == {NextLock(t) : t \in Busy}
<1>0. Busy \subseteq Txns
  BY DEF Busy
<1>1. \A t \in Busy : NextLock(t) \in Wanted(t) /\ NextLock(t) \in Nat
  <2>1. ASSUME NEW t \in Busy PROVE NextLock(t) \in Wanted(t) /\ NextLock(t) \in Nat
    <3>1. t \in Txns /\ LocksFit(t)
      BY <1>0 DEF LockInv
    <3> QED
      BY <3>1, NextLockIsLeast
  <2> QED
    BY <2>1
<1>2. PICK n \in Nat : \A o : \A B \in SUBSET Branches : \A l \in Shared(o) \cup Exclusive(o, B) : l <= n
  BY LocksAreBounded
<1>3. \A t \in Busy : NextLock(t) <= n
  <2>1. ASSUME NEW t \in Busy PROVE NextLock(t) <= n
    <3>1. tx[t].branches \in SUBSET Branches
      BY <1>0 DEF LockInv, LocksFit
    <3>2. NextLock(t) \in Shared(tx[t].op) \cup Exclusive(tx[t].op, tx[t].branches)
      BY <1>1 DEF Wanted
    <3> QED
      BY <1>2, <3>1, <3>2
  <2> QED
    BY <2>1
<1>4. Max(Next1) \in Next1 /\ \A x \in Next1 : x <= Max(Next1)
  <2>1. Next1 \in SUBSET Nat /\ Next1 # {} /\ \A x \in Next1 : x <= n
    BY <1>1, <1>3
  <2> HIDE DEF Next1
  <2> QED
    BY <2>1, MaxIsGreatest
<1>5. PICK t \in Busy : \A u \in Busy : NextLock(u) <= NextLock(t)
  <2>1. PICK t \in Busy : NextLock(t) = Max(Next1)
    BY <1>4
  <2> QED
    BY <1>4, <2>1
<1>6. PICK u \in Busy : NextLock(t) \in tx[u].held
  BY DEF Blockers
<1>7. NextLock(t) < NextLock(u)
  BY <1>0, <1>1, <1>6 DEF LockInv, LocksFit
<1> QED
  BY <1>1, <1>5, <1>7

\* A request names windows, schedules, rules and periods that there are.
LEMMA RequestsFit ==
    ASSUME CompensationAssumption, NEW o \in Requests, Early(o)
    PROVE  RequestFits(o)
<1> USE DEF ScheduleKinds, PeriodKinds
<1>1. CASE o \in {[kind |-> "create", w |-> w] : w \in Windows}
  BY <1>1 DEF RequestFits
<1>2. CASE o \in {[kind |-> "update", s |-> s, w |-> w] : s \in DOMAIN sched, w \in Windows}
  BY <1>2 DEF RequestFits
<1>3. CASE o \in {[kind |-> k, s |-> s, from |-> sched[s].from] :
                    k \in {"replace", "approve", "discard", "void"}, s \in DOMAIN sched}
  BY <1>3 DEF RequestFits
<1>4. CASE o \in {[kind |-> "createRule", type |-> y, amount |-> a, from |-> w[1], to |-> w[2]] :
                    y \in RuleTypes, a \in RuleAmounts, w \in Windows}
  <2>1. PICK y \in RuleTypes, a \in RuleAmounts, w \in Windows :
            o = [kind |-> "createRule", type |-> y, amount |-> a, from |-> w[1], to |-> w[2]]
    BY <1>4
  <2>2. w = <<w[1], w[2]>>
    BY DEF CompensationAssumption
  <2> QED
    BY <2>1, <2>2 DEF RequestFits
<1>5. CASE o \in {[kind |-> "endRule", r |-> r, to |-> d, from |-> FirstChanged(r, d)] :
                    r \in DOMAIN rules, d \in {w[2] : w \in Windows} \cap Days}
  BY <1>5 DEF RequestFits
<1>6. CASE o \in {[kind |-> "voidRule", r |-> r, from |-> rules[r].from] : r \in DOMAIN rules}
  BY <1>6 DEF RequestFits
<1>7. CASE o \in {[kind |-> "structure", shape |-> h] : h \in Shapes} \cup {[kind |-> "retire"]}
                 \cup {[kind |-> "currency", minor |-> m] : m \in Minors}
  BY <1>7 DEF RequestFits
<1>8. CASE o \in {[kind |-> k, p |-> p] : k \in PeriodKinds \ {"submit"}, p \in Periods}
  BY <1>8 DEF RequestFits
<1>9. CASE o \in {[kind |-> "submit", p |-> p, seen |-> pstat[p]] : p \in Periods}
  <2>1. PICK p \in Periods : o = [kind |-> "submit", p |-> p, seen |-> pstat[p]]
    BY <1>9
  <2>2. o.seen \in {"Open", "Returned"}
    BY <2>1 DEF Early
  <2> QED
    BY <2>1, <2>2 DEF RequestFits
<1>10. CASE o \in {[kind |-> "transfer", at |-> at] : at \in TransferAt}
  BY <1>10 DEF RequestFits
<1> QED
  BY <1>1, <1>2, <1>3, <1>4, <1>5, <1>6, <1>7, <1>8, <1>9, <1>10 DEF Requests

\* The branches a request names are branches of the company.
LEMMA NamedBranches ==
    ASSUME CompensationAssumption, NEW o, RequestFits(o)
    PROVE  OwnBranches(o) \subseteq Branches /\ (o.kind \in PayKinds => OwnBranches(o) = {})
<1>1. CASE o.kind \in PeriodKinds
  <2>1. o.p \in Periods /\ o.kind \notin PayKinds
    BY <1>1 DEF RequestFits, PeriodKinds, PayKinds, RuleKinds
  <2> QED
    BY <1>1, <2>1 DEF OwnBranches, CompensationAssumption
<1>2. CASE o.kind = "transfer"
  BY <1>2 DEF OwnBranches, PeriodKinds, PayKinds, RuleKinds
<1>3. CASE o.kind \notin PeriodKinds \cup {"transfer"}
  BY <1>3 DEF OwnBranches
<1> QED
  BY <1>1, <1>2, <1>3

\* A transaction that begins or ends holds nothing.
LEMMA FreshTransaction ==
    ASSUME CompensationAssumption, LockInv, TenuresFit', NEW t \in Txns, NEW o, NEW pay,
           OwnBranches(o) \subseteq Branches, o.kind \in PayKinds => OwnBranches(o) = {},
           tx' = [tx EXCEPT ![t] = NewTx(o, pay)]
    PROVE  LockInv'
<1>1. /\ tx'[t] = NewTx(o, pay) /\ \A u \in Txns \ {t} : tx'[u] = tx[u]
      /\ tx' = [u \in Txns |-> tx'[u]]
  BY DEF LockInv
<1>2. LocksFit(t)'
  BY <1>1 DEF LocksFit, NewTx, Transaction
<1>3. ASSUME NEW u \in Txns \ {t}
      PROVE  LocksFit(u)'
  <2>1. LocksFit(u)
    BY DEF LockInv
  <2> QED
    BY <1>1, <2>1 DEF LocksFit, Wanted, Transaction
<1>4. Exclusion'
  <2>1. tx'[t].held = {}
    BY <1>1 DEF NewTx
  <2> QED
    BY <1>1, <2>1 DEF LockInv, Exclusion
<1> QED
  BY <1>1, <1>2, <1>3, <1>4 DEF LockInv

\* Taking the next lock.
LEMMA AcquireKeepsLocks ==
    ASSUME CompensationAssumption, LockInv, NEW t \in Txns, Acquire(t)
    PROVE  LockInv'
<1>0. LocksFit(t) /\ tx = [u \in Txns |-> tx[u]] /\ TenuresFit'
  BY DEF LockInv, Acquire, payroll, TenuresFit
<1> DEFINE x == tx[t]
           l == NextLock(t)
           learns == l = TenureRows /\ x.op.kind \in PayKinds
           y == tx'[t]
<1>1. /\ y.op = x.op /\ y.held = x.held \cup {l} /\ y.decided = x.decided /\ y.packet = x.packet
      /\ y.branches = IF learns THEN BranchesFrom(x.op.from) ELSE x.branches
      /\ y.minor = IF l = Company THEN minor ELSE x.minor
      /\ y = Transaction(y)
  BY <1>0 DEF Acquire, LocksFit, Transaction
<1>2. \A u \in Txns \ {t} : tx'[u] = tx[u]
  BY DEF Acquire, LockInv
<1>3. tx' = [u \in Txns |-> tx'[u]]
  BY <1>0 DEF Acquire
<1>4. l \in Wanted(t) /\ \A k \in Wanted(t) : l <= k
  BY <1>0, NextLockIsLeast DEF Acquire
<1>5. Wanted(t) \subseteq Nat /\ x.held \subseteq Nat
  BY <1>0, LocksAreNumbers DEF Wanted, LocksFit
<1>6. y.branches \subseteq Branches
  <2>1. BranchesFrom(x.op.from) \subseteq Branches
    BY DEF BranchesFrom, LockInv, TenuresFit, CompensationAssumption
  <2> QED
    BY <1>0, <1>1, <2>1 DEF LocksFit
<1>7. x.branches \subseteq y.branches
  <2>1. learns => x.branches = {}
    BY <1>0, <1>4 DEF LocksFit, Wanted
  <2> QED
    BY <1>1, <2>1
<1>8. \A b \in y.branches \ x.branches : learns /\ Workflow(b) > TenureRows
  BY <1>1, <1>6, LocksAreNumbers
<1>9. y.held \subseteq Shared(y.op) \cup Exclusive(y.op, y.branches)
  <2>1. Exclusive(x.op, x.branches) \subseteq Exclusive(x.op, y.branches)
    BY <1>7 DEF Exclusive
  <2>2. x.held \subseteq Shared(x.op) \cup Exclusive(x.op, x.branches)
    BY <1>0 DEF LocksFit
  <2>3. l \in Shared(x.op) \cup Exclusive(x.op, x.branches)
    BY <1>4 DEF Wanted
  <2> QED
    BY <1>1, <2>1, <2>2, <2>3
<1>10. \A w \in Wanted(t)' : w \in Wanted(t) \ {l} \/ (learns /\ w > TenureRows)
  BY <1>1, <1>8 DEF Wanted, Exclusive
<1>11. \A h \in y.held : \A w \in Wanted(t)' : h < w
  <2> SUFFICES ASSUME NEW h \in y.held, NEW w \in Wanted(t)'
               PROVE  h < w
    OBVIOUS
  <2>1. h \in Nat /\ w \in Nat
    <3>1. Wanted(t)' \subseteq Exclusive(y.op, y.branches) \cup Shared(y.op)
      BY DEF Wanted
    <3> QED
      BY <1>1, <1>4, <1>5, <1>6, <3>1, LocksAreNumbers
  <2>2. \A k \in x.held : k < l
    BY <1>0, <1>4 DEF LocksFit
  <2>3. h = l \/ h < l
    BY <1>1, <2>2
  <2>4. CASE w \in Wanted(t) \ {l}
    BY <1>4, <1>5, <2>1, <2>3, <2>4
  <2>5. CASE learns /\ w > TenureRows
    BY <2>1, <2>3, <2>5 DEF TenureRows
  <2> QED
    BY <1>10, <2>4, <2>5
<1>12. LocksFit(t)'
  <2>1. y.op.kind \notin PayKinds => y.branches = OwnBranches(y.op)
    BY <1>0, <1>1 DEF LocksFit
  <2>2. y.op.kind \in PayKinds /\ TenureRows \notin y.held => y.branches = {}
    BY <1>0, <1>1 DEF LocksFit
  <2>3. y.decided = FALSE
    BY <1>0, <1>1, <1>4 DEF LocksFit
  <2> QED
    BY <1>1, <1>6, <1>9, <1>11, <2>1, <2>2, <2>3 DEF LocksFit
<1>13. ASSUME NEW u \in Txns \ {t}
       PROVE  LocksFit(u)'
  <2>1. LocksFit(u)
    BY DEF LockInv
  <2> QED
    BY <1>2, <2>1 DEF LocksFit, Wanted, Transaction
<1>14. Exclusion'
  <2>1. ASSUME NEW u \in Txns \ {t}, l \in tx[u].held
        PROVE  l \in Shared(x.op) /\ l \in Shared(tx[u].op)
    <3>1. u \in Busy
      <4>1. LocksFit(u)
        BY DEF LockInv
      <4>2. CASE tx[u].op = Idle
        <5>1. Shared(Idle) = {} /\ Exclusive(Idle, {}) = {} /\ OwnBranches(Idle) = {} /\ Idle.kind \notin PayKinds
          BY DEF Shared, Exclusive, OwnBranches, Idle, PayKinds, RuleKinds, MonetaryKinds,
                 ScheduleKinds, PeriodKinds
        <5> QED
          BY <2>1, <4>1, <4>2, <5>1 DEF LocksFit
      <4> QED
        BY <4>2 DEF Busy
    <3> QED
      BY <2>1, <3>1 DEF Acquire, Blockers
  <2> QED
    BY <1>1, <1>2, <2>1 DEF LockInv, Exclusion
<1> QED
  BY <1>0, <1>3, <1>12, <1>13, <1>14 DEF LockInv

\* A decision takes no lock.
LEMMA DecideKeepsLocks ==
    ASSUME LockInv, NEW t \in Txns, Decide(t)
    PROVE  LockInv'
<1>1. /\ TenuresFit' /\ tx' = [u \in Txns |-> tx'[u]]
      /\ tx'[t] = [tx[t] EXCEPT !.decided = TRUE] /\ \A u \in Txns \ {t} : tx'[u] = tx[u]
  BY DEF LockInv, Decide, payroll, TenuresFit
<1>2. tx'[t] = [Transaction(tx[t]) EXCEPT !.decided = TRUE]
  BY <1>1 DEF LockInv, LocksFit
<1>3. LocksFit(t)' /\ tx'[t].held = tx[t].held /\ tx'[t].op = tx[t].op
  <2>1. LocksFit(t) /\ tx[t].op.kind \in PayKinds /\ Wanted(t) = {}
    BY DEF LockInv, Decide
  <2> QED
    BY <1>2, <2>1 DEF LocksFit, Transaction, Wanted
<1>4. ASSUME NEW u \in Txns \ {t}
      PROVE  LocksFit(u)'
  <2>1. LocksFit(u)
    BY DEF LockInv
  <2> QED
    BY <1>1, <2>1 DEF LocksFit, Wanted, Transaction
<1>5. \A u \in Txns : tx'[u].held = tx[u].held /\ tx'[u].op = tx[u].op
  BY <1>1, <1>3
<1>6. Exclusion'
  BY <1>5 DEF LockInv, Exclusion
<1> QED
  BY <1>1, <1>3, <1>4, <1>6 DEF LockInv

\* A transfer ends the only assignment and starts the next one there.
LEMMA TransferKeepsTenures ==
    ASSUME CompensationAssumption, TenuresFit, now \in Clock, NEW t \in Txns, Transfer(t),
           RequestFits(tx[t].op)
    PROVE  \E b, c \in Branches, end \in Instants \ {0} :
              /\ b # c /\ tenures = <<[branch |-> b, from |-> 0, to |-> Never]>>
              /\ tenures' = <<[branch |-> b, from |-> 0, to |-> end],
                              [branch |-> c, from |-> end, to |-> Never]>>
              /\ roster' = [p \in Periods |-> roster'[p]]
              /\ \A p \in Periods :
                    /\ roster'[p] # roster[p] => BranchOf[p] = c /\ pstat[p] \in {"Open", "Returned"}
                    /\ roster'[p] # roster[p] => roster'[p] \subseteq DaysOf[p]
<1>1. Len(tenures) = 1
  BY DEF Transfer
<1>2. PICK b \in Branches : tenures = <<[branch |-> b, from |-> 0, to |-> Never]>>
  BY <1>1 DEF TenuresFit
<1> DEFINE at     == tx[t].op.at
           end    == IF at = Nothing THEN now ELSE at
           new(c) == [branch |-> c, from |-> end, to |-> Never]
           rows(c) == [p \in Periods |->
                          IF BranchOf[p] = c /\ pstat[p] \in {"Open", "Returned"}
                          THEN {d \in DaysOf[p] : Covers(new(c), d)} ELSE roster[p]]
           source == [tenures[1] EXCEPT !.to = end]
<1>3. PICK c \in Branches \ {source.branch} :
         tenures' = <<source, new(c)>> /\ roster' = rows(c)
  BY Zenon DEF Transfer
<1>4. at \in TransferAt
  BY DEF RequestFits, Transfer, Ready
<1>5. end > 0
  BY <1>2 DEF Transfer
<1>6. end \in Instants \ {0}
  BY <1>4, <1>5 DEF CompensationAssumption
<1>7. source = [branch |-> b, from |-> 0, to |-> end]
  BY <1>2
<1>8. b # c /\ tenures' = <<[branch |-> b, from |-> 0, to |-> end], [branch |-> c, from |-> end, to |-> Never]>>
  <2>1. source.branch = b
    BY <1>7
  <2> HIDE DEF source, end
  <2> QED
    BY <1>3, <1>7, <2>1
<1>9. roster' = [p \in Periods |-> roster'[p]]
  BY <1>3
<1>10. ASSUME NEW p \in Periods, roster'[p] # roster[p]
       PROVE  /\ BranchOf[p] = c /\ pstat[p] \in {"Open", "Returned"}
              /\ roster'[p] \subseteq DaysOf[p]
  <2>1. roster'[p] = IF BranchOf[p] = c /\ pstat[p] \in {"Open", "Returned"}
                     THEN {d \in DaysOf[p] : Covers(new(c), d)} ELSE roster[p]
    BY <1>3
  <2> HIDE DEF new
  <2> QED
    BY <1>10, <2>1
<1> HIDE DEF end
<1> QED
  BY <1>2, <1>6, <1>8, <1>9, <1>10

\* Every step keeps the locks in order; what it needs of the data is that the
\* requests name what there is.
LEMMA LocksKept ==
    ASSUME CompensationAssumption, LockInv, now \in Clock, \A t \in Txns : RequestFits(tx[t].op),
           [Next]_vars
    PROVE  LockInv'
<1>1. ASSUME tenures' = tenures PROVE TenuresFit'
  BY <1>1 DEF LockInv, TenuresFit
<1>2. CASE UNCHANGED <<tenures, tx>>
  <2>1. \A t \in Txns : LocksFit(t)'
    BY <1>2 DEF LockInv, LocksFit, Wanted, Transaction
  <2> QED
    BY <1>1, <1>2, <2>1 DEF LockInv, Exclusion
<1>3. ASSUME NEW t \in Txns, Done(t), TenuresFit' PROVE LockInv'
  <2>1. OwnBranches(Idle) = {}
    BY DEF OwnBranches, Idle, PeriodKinds
  <2> QED
    BY <1>3, <2>1, FreshTransaction DEF Done
<1>4. CASE Tick
  BY <1>2, <1>4 DEF Tick, payroll
<1>5. ASSUME NEW t \in Txns, NEW o \in Requests, Begin(t, o) PROVE LockInv'
  <2>1. PICK pay : tx' = [tx EXCEPT ![t] = NewTx(o, pay)]
    BY <1>5 DEF Begin
  <2>2. RequestFits(o)
    BY <1>5, RequestsFit DEF Begin
  <2>3. tenures' = tenures
    BY <1>5 DEF Begin, payroll
  <2> QED
    BY <1>1, <2>1, <2>2, <2>3, NamedBranches, FreshTransaction
<1>6. ASSUME NEW t \in Txns, Transfer(t) PROVE LockInv'
  <2>1. TenuresFit'
    <3>1. PICK b, c \in Branches, end \in Instants \ {0} :
             b # c /\ tenures' = <<[branch |-> b, from |-> 0, to |-> end],
                                   [branch |-> c, from |-> end, to |-> Never]>>
      BY <1>6, TransferKeepsTenures DEF LockInv
    <3> QED
      BY <3>1 DEF TenuresFit
  <2>2. Done(t)
    BY <1>6 DEF Transfer
  <2> QED
    BY <1>3, <2>1, <2>2
<1>7. ASSUME NEW t \in Txns,
             \/ RollBack(t) \/ CreatePending(t) \/ UpdatePending(t) \/ ReplaceValues(t) \/ Approve(t)
             \/ Discard(t) \/ VoidSchedule(t) \/ ChangeStructure(t) \/ RetireDefinition(t)
      PROVE  LockInv'
  <2>1. Done(t) /\ tenures' = tenures
    BY <1>7 DEF RollBack, CreatePending, UpdatePending, ReplaceValues, Approve, Discard, VoidSchedule,
                ChangeStructure, RetireDefinition, ScheduleOnly, payroll
  <2> QED
    BY <1>1, <1>3, <2>1
<1>8. ASSUME NEW t \in Txns,
             \/ CreateRule(t) \/ EndRule(t) \/ VoidRule(t) \/ ChangeCurrency(t)
             \/ OpenPeriod(t) \/ Submit(t) \/ Return(t) \/ Finalize(t)
      PROVE  LockInv'
  <2>1. Done(t) /\ tenures' = tenures
    BY <1>8 DEF CreateRule, EndRule, VoidRule, ChangeCurrency, OpenPeriod, Submit, Return, Finalize,
                RulesOnly, PeriodOnly, payroll
  <2> QED
    BY <1>1, <1>3, <2>1
<1>9. CASE UNCHANGED vars
  BY <1>2, <1>9 DEF vars, payroll
<1> QED
  BY <1>4, <1>5, <1>6, <1>7, <1>8, <1>9, AcquireKeepsLocks, DecideKeepsLocks DEF Next

-----------------------------------------------------------------------------
(* What a snapshot pays                                                    *)

\* Prorating an amount gives an amount, close to its share; a smaller amount
\* has a smaller share; all days give all of it.
LEMMA ProrateIs ==
    ASSUME NEW a \in Nat, NEW n \in Nat, NEW d \in Nat \ {0}
    PROVE  /\ Prorate(a, n, d) \in Nat
           /\ n = d => Prorate(a, n, d) = a
           /\ 2 * (a * n) - d <= 2 * (d * Prorate(a, n, d))
           /\ 2 * (d * Prorate(a, n, d)) <= 2 * (a * n) + d
<1>1. CASE n = d
  BY <1>1 DEF Prorate
<1>2. CASE n # d
  <2>1. PICK x \in Int : x = a * n
    OBVIOUS
  <2>2. Prorate(a, n, d) = Nearest(x, d)
    BY <1>2, <2>1 DEF Prorate
  <2>3. /\ Nearest(x, d) \in Int
        /\ 2 * x - d <= 2 * (d * Nearest(x, d)) /\ 2 * (d * Nearest(x, d)) <= 2 * x + d
    BY NearestIs
  <2>4. PICK y \in Int : y = Nearest(x, d)
    BY <2>3
  <2>5. y >= 0
    <3>1. CASE y < 0
      <4>1. PICK i \in Nat : y = -(i + 1)
        <5>1. -y - 1 \in Nat /\ y = -((-y - 1) + 1)
          BY <3>1
        <5> QED
          BY <5>1
      <4>2. d * (-(i + 1)) = -(d * i) - d /\ d * i \in Nat
        OBVIOUS
      <4>3. x >= 0
        BY <2>1
      <4> QED
        BY <2>3, <2>4, <4>1, <4>2, <4>3
    <3> QED
      BY <3>1
  <2> QED
    BY <1>2, <2>1, <2>2, <2>3, <2>4, <2>5
<1> QED
  BY <1>1, <1>2

\* A share of more is not less.
LEMMA ProrateKeepsOrder ==
    ASSUME NEW a \in Nat, NEW b \in Nat, a <= b, NEW n \in Nat, NEW d \in Nat \ {0}
    PROVE  Prorate(a, n, d) <= Prorate(b, n, d)
<1>1. CASE n = d
  BY <1>1 DEF Prorate
<1>2. CASE n # d
  <2>1. PICK i \in Nat : b = a + i
    <3>1. b - a \in Nat /\ b = a + (b - a)
      OBVIOUS
    <3> QED
      BY <3>1
  <2>2. PICK x \in Int, y \in Int : x = a * n /\ y = b * n
    OBVIOUS
  <2>3. i * n \in Nat /\ y = x + i * n
    BY <2>1, <2>2
  <2>4. x <= y
    BY <2>3
  <2>5. Nearest(x, d) <= Nearest(y, d)
    BY <2>4, NearestKeepsOrder
  <2> QED
    BY <1>2, <2>2, <2>5 DEF Prorate
<1> QED
  BY <1>1, <1>2

\* What is paid is on the right side of a's share, but for the slack.
Slack(n, d, m)              == IF n = d THEN 0 ELSE d * (m + 1)
Reaches(paid, a, n, d, m)   == 2 * d * paid >= 2 * n * a - Slack(n, d, m)
NotAbove(paid, a, n, d, m)  == 2 * d * paid <= 2 * n * a + Slack(n, d, m)

\* The guarantee of the lower and of the upper rule: what is paid, base or
\* base and a rounded difference to the prorated amount r of a, is on the right
\* side of a's share, but for the slack.
LEMMA ShareReached ==
    ASSUME NEW a \in Nat, NEW n \in Nat, NEW d \in Nat \ {0}, NEW m \in Nat \ {0},
           NEW r \in Int, r = Prorate(a, n, d), NEW paid \in Int,
           n = d => paid >= r, 2 * paid >= 2 * r - m
    PROVE  Reaches(paid, a, n, d, m)
<1>0. PICK slack \in Int : slack = Slack(n, d, m) /\ slack = IF n = d THEN 0 ELSE d * (m + 1)
  BY DEF Slack
<1>1. PICK x \in Int, y \in Int, z \in Int, w \in Int : x = d * r /\ y = a * n /\ z = d * paid /\ w = d * m
  OBVIOUS
<1>2. 2 * y - d <= 2 * x /\ (n = d => r = a)
  BY <1>1, ProrateIs
<1>3. 2 * d * paid = 2 * z /\ 2 * n * a = 2 * y
  BY <1>1
<1>4. ASSUME n = d PROVE 2 * d * paid >= 2 * n * a - slack
  <2>1. PICK i \in Nat : paid = a + i
    <3>1. paid - a \in Nat /\ paid = a + (paid - a)
      BY <1>2, <1>4
    <3> QED
      BY <3>1
  <2>2. d * (a + i) = d * a + d * i /\ d * i \in Nat
    OBVIOUS
  <2>3. z = y + d * i
    BY <1>1, <1>4, <2>1, <2>2
  <2> QED
    BY <1>0, <1>3, <1>4, <2>2, <2>3
<1>5. ASSUME n # d PROVE 2 * d * paid >= 2 * n * a - slack
  <2>1. PICK i \in Nat : 2 * paid = (2 * r - m) + i
    <3>1. 2 * paid - (2 * r - m) \in Nat /\ 2 * paid = (2 * r - m) + (2 * paid - (2 * r - m))
      OBVIOUS
    <3> QED
      BY <3>1
  <2>2. d * ((2 * r - m) + i) = 2 * x - w + d * i /\ d * i \in Nat
    BY <1>1
  <2>3. d * (2 * paid) = 2 * z
    BY <1>1
  <2>4. 2 * z >= 2 * x - w
    <3>1. 2 * z = 2 * x - w + d * i
      BY <2>1, <2>2, <2>3
    <3> QED
      BY <2>2, <3>1
  <2>5. slack = w + d
    BY <1>0, <1>1, <1>5
  <2> QED
    BY <1>2, <1>3, <2>4, <2>5
<1> QED
  BY <1>0, <1>4, <1>5 DEF Reaches

\* What is capped to its share of the maximum is not above it, but for roundings.
LEMMA ShareNotExceeded ==
    ASSUME NEW a \in Nat, NEW n \in Nat, NEW d \in Nat \ {0}, NEW m \in Nat \ {0},
           NEW r \in Int, r = Prorate(a, n, d), NEW paid \in Int,
           n = d => paid <= r, 2 * paid <= 2 * r + m
    PROVE  NotAbove(paid, a, n, d, m)
<1>0. PICK slack \in Int : slack = Slack(n, d, m) /\ slack = IF n = d THEN 0 ELSE d * (m + 1)
  BY DEF Slack
<1>1. PICK x \in Int, y \in Int, z \in Int, w \in Int : x = d * r /\ y = a * n /\ z = d * paid /\ w = d * m
  OBVIOUS
<1>2. 2 * x <= 2 * y + d /\ (n = d => r = a)
  BY <1>1, ProrateIs
<1>3. 2 * d * paid = 2 * z /\ 2 * n * a = 2 * y
  BY <1>1
<1>4. ASSUME n = d PROVE 2 * d * paid <= 2 * n * a + slack
  <2>1. PICK i \in Nat : a = paid + i
    <3>1. a - paid \in Nat /\ a = paid + (a - paid)
      BY <1>2, <1>4
    <3> QED
      BY <3>1
  <2>2. d * (paid + i) = d * paid + d * i /\ d * i \in Nat
    OBVIOUS
  <2>3. y = z + d * i
    BY <1>1, <1>4, <2>1, <2>2
  <2> QED
    BY <1>0, <1>3, <1>4, <2>2, <2>3
<1>5. ASSUME n # d PROVE 2 * d * paid <= 2 * n * a + slack
  <2>1. PICK i \in Nat : 2 * r + m = 2 * paid + i
    <3>1. (2 * r + m) - 2 * paid \in Nat /\ 2 * r + m = 2 * paid + ((2 * r + m) - 2 * paid)
      OBVIOUS
    <3> QED
      BY <3>1
  <2>2. d * (2 * paid + i) = 2 * z + d * i /\ d * i \in Nat
    BY <1>1
  <2>3. d * (2 * r + m) = 2 * x + w
    BY <1>1
  <2>4. 2 * z <= 2 * x + w
    <3>1. 2 * x + w = 2 * z + d * i
      BY <2>1, <2>2, <2>3
    <3> QED
      BY <2>2, <3>1
  <2>5. slack = w + d
    BY <1>0, <1>1, <1>5
  <2> QED
    BY <1>2, <1>3, <2>4, <2>5
<1> QED
  BY <1>0, <1>4, <1>5 DEF NotAbove

\* What a rule adds or takes is payable; rounding it moves the pay by half a
\* minor unit at most, and not at all when every day counts.
LEMMA AdjustmentIs ==
    ASSUME NEW base \in Int, NEW r \in Int, NEW m \in Nat \ {0}, IsPayablePrecision(base, m)
    PROVE  LET paid == base + RoundPayable(r - base, m)
           IN /\ IsPayablePrecision(RoundPayable(r - base, m), m)
              /\ 2 * r - m <= 2 * paid /\ 2 * paid <= 2 * r + m
              /\ IsPayablePrecision(r, m) => paid = r
<1>1. PICK x \in Int : x = r - base
  OBVIOUS
<1>2. PICK y \in Int : /\ y = RoundPayable(x, m) /\ IsPayablePrecision(y, m)
                       /\ 2 * x - m <= 2 * y /\ 2 * y <= 2 * x + m
  BY RoundPayableIs
<1>3. IsPayablePrecision(r, m) => y = x
  BY <1>1, <1>2, PayableDifference DEF IsPayablePrecision
<1> QED
  BY <1>1, <1>2, <1>3

\* Whatever the lines come to and whatever rules, currency and days they meet: the
\* rules lift to the prorated minimum or cap to the prorated maximum, never both,
\* but for roundings, and every official amount can be paid
\* (_build_live_calculation_packet).
THEOREM PacketPays ==
    ASSUME NEW raw \in Int, NEW minimum \in Nat \cup {Nothing}, NEW maximum \in Nat \cup {Nothing},
           NEW fits, NEW m \in Nat \ {0},
           NEW scheduled, IsFiniteSet(scheduled), NEW counted \in SUBSET scheduled
    PROVE  Pays(Packet(raw, minimum, maximum, fits, m, counted, scheduled), m)
<1> DEFINE pay == Packet(raw, minimum, maximum, fits, m, counted, scheduled)
           status == MinMaxStatus(minimum, maximum, fits, m, counted, scheduled)
<1> SUFFICES Pays(pay, m)
  OBVIOUS
<1>0. Nothing = -1
  BY DEF Nothing
<1>1. PICK base \in Int : base = RoundPayable(raw, m) /\ IsPayablePrecision(base, m)
  BY RoundPayableIs
<1>2. PICK n \in Nat, d \in Nat : n = Cardinality(counted) /\ d = Cardinality(scheduled)
  BY FS_Subset, FS_CardinalityType
<1>3. RoundPayable(0, m) = 0 /\ IsPayablePrecision(0, m)
  BY <1>1, PayableDifference DEF IsPayablePrecision
<1>4. CASE status # "APPLIED"
  <2>1. /\ pay.base = base /\ pay.topUp = 0 /\ pay.cap = 0 /\ pay.status = status
    BY <1>1, <1>3, <1>4 DEF Packet
  <2>2. pay.base + pay.topUp + pay.cap = pay.base
    BY <1>1, <2>1
  <2>3. \A a \in {pay.base, pay.topUp, pay.cap} : IsPayablePrecision(a, m)
    BY <1>1, <1>3, <2>1
  <2> HIDE DEF pay, status
  <2> QED
    BY <1>4, <2>1, <2>2, <2>3 DEF Pays
<1>5. CASE status = "APPLIED"
  <2>1. /\ minimum # Nothing => IsPayablePrecision(minimum, m)
        /\ maximum # Nothing => IsPayablePrecision(maximum, m)
        /\ ~(maximum # Nothing /\ minimum > maximum)
        /\ scheduled # {}
    BY <1>5 DEF MinMaxStatus
  <2>2. d > 0
    BY <1>2, <2>1, FS_EmptySet
  <2>3. PICK low \in Int, high \in Int :
           /\ low >= 0 /\ high >= 0
           /\ minimum # Nothing => low = Prorate(minimum, n, d)
           /\ maximum # Nothing => high = Prorate(maximum, n, d)
    <3>1. \A a \in Nat : Prorate(a, n, d) \in Nat
      BY <2>2, ProrateIs
    <3> QED
      BY <3>1
  <2>4. minimum # Nothing /\ maximum # Nothing => low <= high
    <3>1. SUFFICES ASSUME minimum # Nothing, maximum # Nothing PROVE low <= high
      OBVIOUS
    <3>2. minimum \in Nat /\ maximum \in Nat /\ minimum <= maximum
      BY <2>1, <3>1
    <3> QED
      BY <2>2, <2>3, <3>1, <3>2, ProrateKeepsOrder
  <2>5. PICK lift \in Int, cut \in Int :
           /\ lift = (IF minimum # Nothing /\ base < low THEN low - base ELSE 0)
           /\ cut = (IF maximum # Nothing /\ base > high THEN high - base ELSE 0)
    <3>1. low - base \in Int /\ high - base \in Int /\ 0 \in Int
      OBVIOUS
    <3>2. (IF minimum # Nothing /\ base < low THEN low - base ELSE 0) \in Int
      BY <3>1
    <3>3. (IF maximum # Nothing /\ base > high THEN high - base ELSE 0) \in Int
      BY <3>1
    <3> QED
      BY <3>2, <3>3
  <2>6. lift = 0 \/ cut = 0
    BY <2>4, <2>5
  <2>7. PICK topUp \in Int, cap \in Int :
           /\ topUp = RoundPayable(lift, m) /\ cap = RoundPayable(cut, m)
           /\ IsPayablePrecision(topUp, m) /\ IsPayablePrecision(cap, m)
    BY RoundPayableIs
  <2>8. /\ pay.base = base /\ pay.topUp = topUp /\ pay.cap = cap /\ pay.status = "APPLIED"
        /\ pay.minimum = minimum /\ pay.maximum = maximum
        /\ pay.counted = counted /\ pay.scheduled = scheduled
    <3>1. Prorated(minimum, n, d) = (IF minimum = Nothing THEN Nothing ELSE low)
      BY <2>3 DEF Prorated
    <3>2. Prorated(maximum, n, d) = (IF maximum = Nothing THEN Nothing ELSE high)
      BY <2>3 DEF Prorated
    <3>3. TopUp(base, Prorated(minimum, n, d)) = lift
      <4>1. CASE minimum = Nothing
        BY <1>0, <2>5, <3>1, <4>1 DEF TopUp
      <4>2. CASE minimum # Nothing
        BY <1>0, <2>3, <2>5, <3>1, <4>2 DEF TopUp
      <4> QED
        BY <4>1, <4>2
    <3>4. Cap(base, Prorated(maximum, n, d)) = cut
      BY <1>0, <2>3, <2>5, <3>2 DEF Cap
    <3>5. pay = [status |-> status, raw |-> raw, base |-> base, minimum |-> minimum, maximum |-> maximum,
                 topUp |-> topUp, cap |-> cap, counted |-> counted, scheduled |-> scheduled]
      BY <1>1, <1>2, <1>5, <2>7, <3>3, <3>4 DEF Packet
    <3> HIDE DEF pay, status
    <3> QED
      BY <1>5, <3>5
  <2>9. PICK paid \in Int : paid = base + topUp + cap
    OBVIOUS
  <2>10. topUp = 0 \/ cap = 0
    BY <1>3, <2>6, <2>7
  <2>12. /\ n = d /\ minimum # Nothing => low = minimum
         /\ n = d /\ maximum # Nothing => high = maximum
    <3>1. \A a \in Nat : n = d => Prorate(a, n, d) = a
      BY <2>2, ProrateIs
    <3> QED
      BY <2>3, <3>1
  <2>13. /\ minimum # Nothing => 2 * paid >= 2 * low - m /\ (n = d => paid >= low)
         /\ maximum # Nothing => 2 * paid <= 2 * high + m /\ (n = d => paid <= high)
    <3>1. CASE lift # 0
      <4>1. cap = 0 /\ lift = low - base /\ minimum # Nothing
        BY <1>3, <2>5, <2>6, <2>7, <3>1
      <4>2. paid = base + RoundPayable(low - base, m)
        BY <2>7, <2>9, <4>1
      <4>3. /\ 2 * low - m <= 2 * paid /\ 2 * paid <= 2 * low + m
            /\ IsPayablePrecision(low, m) => paid = low
        BY <1>1, <4>2, AdjustmentIs
      <4> QED
        BY <2>1, <2>4, <2>12, <4>1, <4>3
    <3>2. CASE cut # 0
      <4>1. topUp = 0 /\ cut = high - base /\ maximum # Nothing
        BY <1>3, <2>5, <2>6, <2>7, <3>2
      <4>2. paid = base + RoundPayable(high - base, m)
        BY <2>7, <2>9, <4>1
      <4>3. /\ 2 * high - m <= 2 * paid /\ 2 * paid <= 2 * high + m
            /\ IsPayablePrecision(high, m) => paid = high
        BY <1>1, <4>2, AdjustmentIs
      <4> QED
        BY <2>1, <2>4, <2>12, <4>1, <4>3
    <3>3. CASE lift = 0 /\ cut = 0
      <4>1. paid = base
        BY <1>3, <2>7, <2>9, <3>3
      <4> QED
        BY <2>5, <3>3, <4>1
    <3> QED
      BY <3>1, <3>2, <3>3
  <2>14. minimum # Nothing => Reaches(paid, minimum, n, d, m)
    <3>1. SUFFICES ASSUME minimum # Nothing PROVE Reaches(paid, minimum, n, d, m)
      OBVIOUS
    <3>2. PICK a \in Nat : a = minimum /\ low = Prorate(a, n, d) /\ d \in Nat \ {0}
      BY <2>2, <2>3, <3>1
    <3>3. (n = d => paid >= low) /\ 2 * paid >= 2 * low - m
      BY <2>13, <3>1
    <3>4. Reaches(paid, a, n, d, m)
      BY <3>2, <3>3, ShareReached
    <3> QED
      BY <3>2, <3>4
  <2>15. maximum # Nothing => NotAbove(paid, maximum, n, d, m)
    <3>1. SUFFICES ASSUME maximum # Nothing PROVE NotAbove(paid, maximum, n, d, m)
      OBVIOUS
    <3>2. PICK a \in Nat : a = maximum /\ high = Prorate(a, n, d) /\ d \in Nat \ {0}
      BY <2>2, <2>3, <3>1
    <3>3. (n = d => paid <= high) /\ 2 * paid <= 2 * high + m
      BY <2>13, <3>1
    <3>4. NotAbove(paid, a, n, d, m)
      BY <3>2, <3>3, ShareNotExceeded
    <3> QED
      BY <3>2, <3>4
  <2> HIDE DEF pay, status
  <2> QED
    BY <1>1, <1>2, <2>7, <2>8, <2>9, <2>10, <2>14, <2>15 DEF Pays, Reaches, NotAbove, Slack
<1> QED
  BY <1>4, <1>5

\* The amount of a rule, if there is one.
LEMMA AmountOnIs ==
    ASSUME RulesFit, NEW type, NEW d
    PROVE  AmountOn(type, d) \in Nat \cup {Nothing}
<1>1. CASE RulesOn(type, d) = {}
  BY <1>1 DEF AmountOn
<1>2. CASE RulesOn(type, d) # {}
  <2>1. PICK r \in RulesOn(type, d) : AmountOn(type, d) = rules[r].amount
    BY <1>2 DEF AmountOn
  <2>2. r \in DOMAIN rules
    BY DEF RulesOn, InForce
  <2>3. rules[r] \in RuleRows
    BY <2>2 DEF RulesFit
  <2> QED
    BY <2>1, <2>3 DEF RuleRows
<1> QED
  BY <1>1, <1>2

\* The days an assignment owns are those it owns one by one.
LEMMA OwnedIs ==
    ASSUME NEW i, NEW A
    PROVE  \A d : d \in OwnedDays(i, A) <=> d \in A /\ Owns(i, d)
<1> SUFFICES ASSUME NEW d PROVE d \in OwnedDays(i, A) <=> d \in A /\ Owns(i, d)
  OBVIOUS
<1> DEFINE captured(j) == {p \in Periods : pstat[p] # "none" /\ j \in TenureOf(p) /\ d \in DaysOf[p]}
           free(j) == (\A p \in captured(j) : d \notin roster[p])
                      /\ (captured(j) = {} => ~Covers(tenures[j], d))
<1>1. d \in OwnedDays(i, A) <=> d \in A /\ \A j \in DOMAIN tenures : j > i => free(j)
  BY DEF OwnedDays
<1>2. ASSUME NEW j \in DOMAIN tenures
      PROVE  free(j) <=> /\ \A p \in Periods : Captures(j, p, d) => d \notin roster[p]
                         /\ (\A p \in Periods : ~Captures(j, p, d)) => ~Covers(tenures[j], d)
  <2>1. \A p \in Periods : p \in captured(j) <=> Captures(j, p, d)
    BY DEF TenureOf, Captures
  <2>2. captured(j) \subseteq Periods
    OBVIOUS
  <2> HIDE DEF captured
  <2> QED
    BY <2>1, <2>2
<1> HIDE DEF free
<1> QED
  BY <1>1, <1>2 DEF Owns

\* How a packet of p is calculated: from lines on eligible days of an assignment
\* in its branch, and days off.
LEMMA PacketsAre ==
    ASSUME NEW p, NEW new, new \in Packets(p)
    PROVE  \E i \in TenureOf(p) : \E W \in SUBSET (roster[p] \cap CoveredDays(i, p)) :
              \E f \in [W -> Quantities] : \E off :
                 Calculated(f) /\ new = PacketOf(p, i, f, off)
<1>1. PICK i \in TenureOf(p) : new \in PacketsFrom(i, p)
  BY DEF Packets
<1>d. PICK days : days = roster[p] \cap CoveredDays(i, p)
  OBVIOUS
<1>2. PICK f \in Lines(days), off \in SUBSET days : new = PacketOf(p, i, f, off \ DOMAIN f)
  <2>1. new \in {PacketOf(p, i, f, off \ DOMAIN f) : f \in Lines(days), off \in SUBSET days}
    BY <1>1, <1>d DEF PacketsFrom
  <2> QED
    BY <2>1
<1>3. Calculated(f) /\ \E W \in SUBSET days : f \in [W -> Quantities]
  BY DEF Lines
<1> QED
  BY <1>d, <1>2, <1>3

\* The packets a submission may calculate: they pay what they should, and
\* count days of the roster that no later assignment takes.
LEMMA PacketsFit ==
    ASSUME CompensationAssumption, ScaleAssumption, TopologyAssumption, TenuresFit, PayInv,
           NEW p \in Periods, NEW new \in Packets(p), pstat[p] # "none"
    PROVE  Pays(new.pay, minor) /\ Counts(p, new) /\ new # Unpaid
<1> DEFINE start    == Min(DaysOf[p])
           min      == AmountOn("MinimumPay", start)
           max      == AmountOn("MaximumPay", start)
           fits     == \A type \in RuleTypes : \A r \in RulesOn(type, start) :
                          rules[r].calendar = CalendarOf[BranchOf[p]]
<1>0. PICK i \in TenureOf(p) : \E W \in SUBSET (roster[p] \cap CoveredDays(i, p)) :
         \E f \in [W -> Quantities] : \E off : Calculated(f) /\ new = PacketOf(p, i, f, off)
  BY PacketsAre
<1>1. PICK W \in SUBSET (roster[p] \cap CoveredDays(i, p)) :
         \E f \in [W -> Quantities] : \E off : Calculated(f) /\ new = PacketOf(p, i, f, off)
  BY <1>0
<1>2. PICK f \in [W -> Quantities] : \E off : Calculated(f) /\ new = PacketOf(p, i, f, off)
  BY <1>1
<1>3. PICK out : new = PacketOf(p, i, f, out)
  BY <1>2
<1>4. Calculated(f)
  BY <1>2
<1>5. W \in SUBSET Days
  <2>1. DaysOf[p] \subseteq Days
    BY DEF CompensationAssumption
  <2>2. CoveredDays(i, p) \subseteq DaysOf[p]
    BY DEF CoveredDays
  <2> QED
    BY <1>3, <2>1, <2>2
<1>6. structure.shape \in Shapes /\ \A s \in DOMAIN sched : sched[s].values \in ValueTables
  <2>1. \A s \in DOMAIN sched : sched[s] \in ScheduleRows
    BY DEF PayInv, SchedFit
  <2> QED
    BY <2>1 DEF PayInv, ScheduleRows
<1>7. RawPay(f) \in Int
  BY <1>3, <1>4, <1>5, <1>6, RawPayIsInt
<1>8. min \in Nat \cup {Nothing} /\ max \in Nat \cup {Nothing}
  BY AmountOnIs DEF PayInv
<1> DEFINE counted == CountedDays(Scheduled[p], OwnedDays(i, roster[p]), out)
           P       == Packet(RawPay(f), min, max, fits, minor, counted, Scheduled[p])
<1>9. new = [tenure |-> i, until |-> tenures[i].to, facts |-> DOMAIN f \cup out, pay |-> P]
  BY <1>3 DEF PacketOf
<1>10. counted \subseteq Scheduled[p] /\ counted \subseteq OwnedDays(i, roster[p])
  BY DEF CountedDays
<1>11. IsFiniteSet(Scheduled[p])
  <2>1. Scheduled[p] \subseteq Days
    BY DEF CompensationAssumption
  <2>2. IsFiniteSet(Days)
    BY FS_Interval DEF Days, CompensationAssumption
  <2> QED
    BY <2>1, <2>2, FS_Subset
<1>12. minor \in Nat \ {0}
  BY DEF PayInv, CompensationAssumption
<1>13. Pays(P, minor)
  <2> HIDE DEF fits, counted, min, max
  <2>1. PICK raw \in Int, low \in Nat \cup {Nothing}, high \in Nat \cup {Nothing} :
           raw = RawPay(f) /\ low = min /\ high = max
    BY <1>7, <1>8
  <2>2. PICK ok, all, some : ok = fits /\ all = Scheduled[p] /\ some = counted /\ some \in SUBSET all
    BY <1>10
  <2>3. P = Packet(raw, low, high, ok, minor, some, all)
    BY <2>1, <2>2
  <2>4. IsFiniteSet(all) /\ some \in SUBSET all
    BY <1>11, <2>2
  <2>5. PICK m \in Nat \ {0} : m = minor
    BY <1>12
  <2>6. Pays(Packet(raw, low, high, ok, m, some, all), m)
    BY <2>4, PacketPays
  <2> QED
    BY <2>3, <2>5, <2>6
<1>14. P.counted = counted
  BY DEF Packet
<1>15. Pays(new.pay, minor)
  BY <1>9, <1>13
<1>16. new.pay.counted = counted /\ new.tenure = i /\ new.until = tenures[i].to
  <2> HIDE DEF P
  <2> QED
    BY <1>9, <1>14
<1>17. i \in TenureOf(p) /\ i \in DOMAIN tenures /\ i # 0
  <2>1. i \in DOMAIN tenures
    BY DEF TenureOf
  <2> QED
    BY <2>1, TenureFacts
<1>18. Counts(p, new)
  <2>1. counted \subseteq roster[p] /\ \A d \in counted : Owns(i, d)
    <3> HIDE DEF counted
    <3> QED
      BY <1>10, OwnedIs
  <2>2. Len(tenures) = 1 => tenures[i].to = Never
    BY <1>17, TenureFacts
  <2>3. tenures[i].branch = BranchOf[p]
    BY DEF TenureOf
  <2> QED
    BY <1>16, <1>17, <2>1, <2>2, <2>3 DEF Counts
<1> QED
  BY <1>15, <1>16, <1>17, <1>18 DEF Unpaid

-----------------------------------------------------------------------------
(* Who writes what                                                         *)

\* Every variable is written by few actions.
LEMMA Frames ==
    ASSUME [Next]_vars
    PROVE  /\ now' # now => Tick
           /\ tenures' # tenures => \E t \in Txns : Transfer(t)
           /\ structure' # structure =>
                \E t \in Txns : Approve(t) \/ ChangeStructure(t) \/ RetireDefinition(t) \/ OpenPeriod(t)
           /\ sched' # sched =>
                \E t \in Txns : \/ CreatePending(t) \/ UpdatePending(t) \/ ReplaceValues(t)
                                \/ Approve(t) \/ Discard(t) \/ VoidSchedule(t)
           /\ rules' # rules => \E t \in Txns : CreateRule(t) \/ EndRule(t) \/ VoidRule(t)
           /\ pstat' # pstat => \E t \in Txns : OpenPeriod(t) \/ Submit(t) \/ Return(t) \/ Finalize(t)
           /\ roster' # roster => \E t \in Txns : OpenPeriod(t) \/ Transfer(t)
           /\ packet' # packet => \E t \in Txns : Submit(t)
           /\ minor' # minor => \E t \in Txns : ChangeCurrency(t)
           /\ tx' # tx => \E t \in Txns : \/ \E o \in Requests : Begin(t, o)
                                          \/ Acquire(t) \/ Decide(t) \/ Done(t)
<1> USE DEF payroll, monetary
<1>1. CASE Tick
  BY <1>1 DEF Tick
<1>2. ASSUME NEW t \in Txns, (\E o \in Requests : Begin(t, o)) \/ Acquire(t) \/ Decide(t)
      PROVE  /\ UNCHANGED <<now, monetary, payroll, minor>>
             /\ (\E o \in Requests : Begin(t, o)) \/ Acquire(t) \/ Decide(t)
  BY <1>2 DEF Begin, Acquire, Decide
<1>3. ASSUME NEW t \in Txns, RollBack(t)
      PROVE  UNCHANGED <<now, monetary, payroll, minor>> /\ Done(t)
  BY <1>3 DEF RollBack
<1>4. ASSUME NEW t \in Txns, CreatePending(t) \/ UpdatePending(t) \/ ReplaceValues(t) \/ Discard(t) \/ VoidSchedule(t)
      PROVE  /\ UNCHANGED <<now, structure, rules, payroll, minor>> /\ Done(t)
             /\ CreatePending(t) \/ UpdatePending(t) \/ ReplaceValues(t) \/ Discard(t) \/ VoidSchedule(t)
  BY <1>4 DEF CreatePending, UpdatePending, ReplaceValues, Discard, VoidSchedule, ScheduleOnly
<1>5. ASSUME NEW t \in Txns, Approve(t)
      PROVE  UNCHANGED <<now, rules, payroll, minor>> /\ Done(t) /\ Approve(t)
  BY <1>5 DEF Approve
<1>6. ASSUME NEW t \in Txns, ChangeStructure(t) \/ RetireDefinition(t)
      PROVE  /\ UNCHANGED <<now, sched, rules, payroll, minor>> /\ Done(t)
             /\ ChangeStructure(t) \/ RetireDefinition(t)
  BY <1>6 DEF ChangeStructure, RetireDefinition
<1>7. ASSUME NEW t \in Txns, CreateRule(t) \/ EndRule(t) \/ VoidRule(t)
      PROVE  /\ UNCHANGED <<now, structure, sched, payroll, minor>> /\ Done(t)
             /\ CreateRule(t) \/ EndRule(t) \/ VoidRule(t)
  BY <1>7 DEF CreateRule, EndRule, VoidRule, RulesOnly
<1>8. ASSUME NEW t \in Txns, ChangeCurrency(t)
      PROVE  UNCHANGED <<now, monetary, payroll>> /\ Done(t) /\ ChangeCurrency(t)
  BY <1>8 DEF ChangeCurrency
<1>9. ASSUME NEW t \in Txns, OpenPeriod(t)
      PROVE  UNCHANGED <<now, tenures, sched, rules, packet, minor>> /\ Done(t) /\ OpenPeriod(t)
  BY <1>9 DEF OpenPeriod, PeriodOnly
<1>10. ASSUME NEW t \in Txns, Submit(t)
       PROVE  UNCHANGED <<now, tenures, structure, sched, rules, roster, minor>> /\ Done(t) /\ Submit(t)
  BY <1>10 DEF Submit, PeriodOnly
<1>11. ASSUME NEW t \in Txns, Return(t) \/ Finalize(t)
       PROVE  /\ UNCHANGED <<now, tenures, structure, sched, rules, roster, packet, minor>> /\ Done(t)
              /\ Return(t) \/ Finalize(t)
  BY <1>11 DEF Return, Finalize, PeriodOnly
<1>12. ASSUME NEW t \in Txns, Transfer(t)
       PROVE  UNCHANGED <<now, monetary, pstat, packet, minor>> /\ Done(t) /\ Transfer(t)
  BY <1>12 DEF Transfer
<1>13. CASE UNCHANGED vars
  BY <1>13 DEF vars
<1> QED
  BY <1>1, <1>2, <1>3, <1>4, <1>5, <1>6, <1>7, <1>8, <1>9, <1>10, <1>11, <1>12, <1>13, Zenon DEF Next

-----------------------------------------------------------------------------
(* Tables keep their shape                                                 *)

\* The first and the last day of a period.
LEMMA DaysBounds ==
    ASSUME CompensationAssumption, NEW p \in Periods
    PROVE  /\ Min(DaysOf[p]) \in DaysOf[p] /\ Max(DaysOf[p]) \in DaysOf[p]
           /\ \A d \in DaysOf[p] : d \in Nat /\ Min(DaysOf[p]) <= d /\ d <= Max(DaysOf[p])
<1>1. PICK S \in SUBSET Nat, n \in Nat : S = DaysOf[p] /\ S # {} /\ \A x \in S : x <= n
  <2>1. DaysOf[p] \in SUBSET Nat /\ DaysOf[p] # {} /\ \A x \in DaysOf[p] : x <= LastDay
    BY DEF CompensationAssumption, Days
  <2> QED
    BY <2>1 DEF CompensationAssumption
<1>2. Min(S) \in S /\ \A x \in S : Min(S) <= x
  BY <1>1, MinIsLeast
<1>3. Max(S) \in S /\ \A x \in S : x <= Max(S)
  BY <1>1, MaxIsGreatest
<1> QED
  BY <1>1, <1>2, <1>3

\* A function on the first numbers is a sequence.
LEMMA FunctionsAreSequences ==
    ASSUME NEW S, NEW n \in Nat, NEW f \in [1 .. n -> S]
    PROVE  f \in Seq(S)
OBVIOUS

\* Schedules are never deleted.
LEMMA ScheduleRowsKept ==
    ASSUME CompensationAssumption, TopologyAssumption, PayInv, [Next]_vars
    PROVE  SchedFit' /\ DOMAIN sched \subseteq DOMAIN sched'
<1>1. /\ sched \in Seq(ScheduleRows) /\ \A s \in DOMAIN sched : sched[s] \in ScheduleRows
      /\ \A t \in Txns : RequestFits(tx[t].op)
  BY DEF PayInv, SchedFit
<1>2. Days \subseteq Nat /\ Forever \in Nat /\ Days \subseteq 0 .. Forever
      /\ \A w \in Windows : w[1] \in Days /\ w[2] \in 0 .. Forever
  BY DEF CompensationAssumption, Days, Forever
<1>3. CASE sched' = sched
  BY <1>1, <1>3 DEF SchedFit
<1>4. ASSUME NEW s \in DOMAIN sched, NEW row \in ScheduleRows, sched' = [sched EXCEPT ![s] = row]
      PROVE  SchedFit' /\ DOMAIN sched \subseteq DOMAIN sched'
  BY <1>1, <1>4 DEF SchedFit
<1>5. ASSUME NEW t \in Txns, CreatePending(t)
      PROVE  SchedFit' /\ DOMAIN sched \subseteq DOMAIN sched'
  <2>1. PICK w \in Windows : w = tx[t].op.w
    BY <1>1, <1>5 DEF CreatePending, Ready, RequestFits
  <2>2. <<>> \in ValueTables
    <3>1. <<>> \in [{} -> Rates] /\ {} \in SUBSET Nat
      OBVIOUS
    <3> QED
      BY <3>1 DEF ValueTables
  <2>3. PICK row \in ScheduleRows : sched' = Append(sched, row)
    <3>1. sched' = Append(sched, [from |-> w[1], to |-> w[2], status |-> "Pending", values |-> <<>>])
      BY <1>5, <2>1 DEF CreatePending
    <3>2. [from |-> w[1], to |-> w[2], status |-> "Pending", values |-> <<>>] \in ScheduleRows
      BY <1>2, <2>2 DEF ScheduleRows
    <3> QED
      BY <3>1, <3>2
  <2> QED
    BY <1>1, <2>3 DEF SchedFit
<1>6. ASSUME NEW t \in Txns, UpdatePending(t)
      PROVE  SchedFit' /\ DOMAIN sched \subseteq DOMAIN sched'
  <2>1. PICK w \in Windows, s \in DOMAIN sched : w = tx[t].op.w /\ s = tx[t].op.s
    BY <1>1, <1>6 DEF UpdatePending, Ready, RequestFits, ScheduleKinds
  <2>2. sched' = [sched EXCEPT ![s] = [sched[s] EXCEPT !.from = w[1], !.to = w[2]]]
    BY <1>1, <1>6, <2>1 DEF UpdatePending, ScheduleRows
  <2>3. [sched[s] EXCEPT !.from = w[1], !.to = w[2]] \in ScheduleRows
    BY <1>1, <1>2 DEF ScheduleRows
  <2> QED
    BY <1>4, <2>2, <2>3
<1>7. ASSUME NEW t \in Txns, ReplaceValues(t)
      PROVE  SchedFit' /\ DOMAIN sched \subseteq DOMAIN sched'
  <2>1. PICK s \in DOMAIN sched : s = tx[t].op.s
    BY <1>1, <1>7 DEF ReplaceValues, Ready, RequestFits, ScheduleKinds
  <2>2. PICK C \in SUBSET ComponentsOf(structure.shape), values \in ValueTables :
           sched' = [sched EXCEPT ![s].values = values]
    <3>1. PICK C \in SUBSET ComponentsOf(structure.shape) : \E values \in [C -> Rates] :
             sched' = [sched EXCEPT ![s].values = values]
      BY <1>7, <2>1 DEF ReplaceValues
    <3>2. PICK values \in [C -> Rates] : sched' = [sched EXCEPT ![s].values = values]
      BY <3>1
    <3>3. C \in SUBSET Nat
      <4>1. DOMAIN TierBounds \subseteq Nat
        BY DEF TopologyAssumption
      <4> QED
        BY <4>1 DEF ComponentsOf
    <3>4. values \in ValueTables
      BY <3>3 DEF ValueTables
    <3> QED
      BY <3>2, <3>4
  <2>3. sched' = [sched EXCEPT ![s] = [sched[s] EXCEPT !.values = values]]
    BY <2>2
  <2>4. [sched[s] EXCEPT !.values = values] \in ScheduleRows
    BY <1>1 DEF ScheduleRows
  <2> QED
    BY <1>4, <2>3, <2>4
<1>8. ASSUME NEW t \in Txns, Discard(t) \/ VoidSchedule(t)
      PROVE  SchedFit' /\ DOMAIN sched \subseteq DOMAIN sched'
  <2>1. PICK s \in DOMAIN sched : s = tx[t].op.s
    BY <1>1, <1>8 DEF Discard, VoidSchedule, Ready, Decided, RequestFits, ScheduleKinds
  <2>2. PICK status \in {"Discarded", "Voided"} : sched' = [sched EXCEPT ![s].status = status]
    BY <1>8, <2>1 DEF Discard, VoidSchedule
  <2>3. sched' = [sched EXCEPT ![s] = [sched[s] EXCEPT !.status = status]]
    BY <2>2
  <2>4. [sched[s] EXCEPT !.status = status] \in ScheduleRows
    BY <1>1 DEF ScheduleRows
  <2> QED
    BY <1>4, <2>3, <2>4
<1>9. ASSUME NEW t \in Txns, Approve(t)
      PROVE  SchedFit' /\ DOMAIN sched \subseteq DOMAIN sched'
  <2>1. PICK s \in DOMAIN sched : s = tx[t].op.s
    BY <1>1, <1>9 DEF Approve, Decided, RequestFits, ScheduleKinds
  <2>2. PICK new : new = Superseded(s)
    OBVIOUS
  <2>3. DOMAIN new = DOMAIN sched /\ \A q \in DOMAIN sched : new[q] \in ScheduleRows
    <3>1. ASSUME NEW q \in DOMAIN sched PROVE new[q] \in ScheduleRows
      <4>1. PICK to \in Nat : to = sched[q].to /\ to \in 0 .. Forever
        BY <1>1, <1>2 DEF ScheduleRows
      <4>2. PICK last \in Nat : last = sched[s].from - 1
        BY <1>1, <1>2 DEF ScheduleRows, Days
      <4>3. Min({to, last}) \in 0 .. Forever
        <5>0. to \in Int /\ last \in Int
          OBVIOUS
        <5>1. Min({to, last}) \in {to, last} /\ Min({to, last}) <= to
          BY <5>0, MaxOfTwo
        <5>2. to \in Nat /\ to <= Forever /\ Min({to, last}) \in Nat
          BY <1>2, <4>1, <5>1
        <5> QED
          BY <1>2, <5>1, <5>2
      <4>4. new[q] = IF q \in Approved
                     THEN [sched[q] EXCEPT !.status = "Superseded", !.to = Min({to, last})]
                     ELSE sched[q]
        BY <2>2, <4>1, <4>2 DEF Superseded
      <4>5. [sched[q] EXCEPT !.status = "Superseded", !.to = Min({to, last})] \in ScheduleRows
        BY <1>1, <4>3 DEF ScheduleRows
      <4> QED
        BY <1>1, <4>4, <4>5
    <3> QED
      BY <2>2, <3>1 DEF Superseded
  <2>4. sched' = [new EXCEPT ![s].status = "Approved"]
    BY <1>9, <2>1, <2>2 DEF Approve
  <2>5. DOMAIN sched' = DOMAIN sched /\ \A q \in DOMAIN sched : sched'[q] \in ScheduleRows
    BY <2>3, <2>4 DEF ScheduleRows
  <2>6. PICK n \in Nat : DOMAIN sched = 1 .. n
    BY <1>1
  <2>7. sched' = [q \in DOMAIN sched |-> sched'[q]]
    BY <2>3, <2>4
  <2>8. sched' \in [1 .. n -> ScheduleRows]
    BY <2>5, <2>6, <2>7
  <2>9. sched' \in Seq(ScheduleRows)
    BY <2>8, FunctionsAreSequences
  <2> QED
    BY <2>5, <2>9 DEF SchedFit
<1> QED
  BY <1>3, <1>5, <1>6, <1>7, <1>8, <1>9, Frames

\* The currency changes while nothing is decided in it, and nobody knows it.
LEMMA CurrencyChanges ==
    ASSUME LockInv, PayInv, NEW t \in Txns, ChangeCurrency(t)
    PROVE  /\ rules = <<>> /\ \A p \in Periods : packet[p] = Unpaid
           /\ minor' \in Minors
           /\ \A u \in Txns : u # t => Company \notin tx[u].held
<1>1. rules = <<>> /\ \A p \in Periods : packet[p] = Unpaid
  BY DEF ChangeCurrency, Durable
<1>2. tx[t].op.kind = "currency" /\ minor' = tx[t].op.minor /\ Wanted(t) = {}
  BY DEF ChangeCurrency, Ready
<1>3. minor' \in Minors
  BY <1>2 DEF PayInv, RequestFits
<1>4. Company \in Exclusive(tx[t].op, tx[t].branches) /\ Company \notin Shared(tx[t].op)
  BY <1>2 DEF Exclusive, Shared, MonetaryKinds, PayKinds, RuleKinds, Company, TenureRows
<1>5. Company \in tx[t].held
  BY <1>2, <1>4 DEF Wanted
<1>6. ASSUME NEW u \in Txns, u # t PROVE Company \notin tx[u].held
  BY <1>4, <1>5, <1>6 DEF LockInv, Exclusion
<1> QED
  BY <1>1, <1>3, <1>6

\* A change that is decided, or ready, holds its locks.
LEMMA DecidedHolds ==
    ASSUME LockInv, NEW t \in Txns, tx[t].decided \/ Wanted(t) = {}
    PROVE  Shared(tx[t].op) \cup Exclusive(tx[t].op, tx[t].branches) \subseteq tx[t].held
<1>1. Wanted(t) = {}
  BY DEF LockInv, LocksFit
<1> QED
  BY <1>1 DEF Wanted

\* Rules are never deleted and keep their start; one that is active was.
RulesGrow ==
    /\ DOMAIN rules \subseteq DOMAIN rules'
    /\ \A r \in DOMAIN rules :
         /\ rules'[r].from = rules[r].from
         /\ rules'[r].status = "Active" => rules[r].status = "Active" /\ rules'[r].to = rules[r].to

\* Rules keep their shape, and amounts that can be paid.
LEMMA RulesKept ==
    ASSUME CompensationAssumption, LockInv, PayInv, [Next]_vars
    PROVE  RulesFit' /\ RulesGrow
<1>1. /\ rules \in Seq(RuleRows) /\ Len(rules) <= MaxRules /\ MaxRules \in Nat
      /\ \A r \in DOMAIN rules : rules[r] \in RuleRows
      /\ \A r \in DOMAIN rules : IsPayablePrecision(rules[r].amount, minor)
      /\ minor \in Minors /\ Minors \subseteq Nat \ {0}
      /\ \A t \in Txns : RequestFits(tx[t].op) /\ CurrencyFits(t)
  BY DEF PayInv, RulesFit, CompensationAssumption
<1>2. /\ RuleAmounts \subseteq Int /\ Days \subseteq 0 .. Forever
      /\ \A w \in Windows : w[1] \in Days /\ w[2] \in 0 .. Forever
  BY DEF CompensationAssumption, Days, Forever
<1>3. CASE UNCHANGED <<rules, minor>>
  BY <1>1, <1>3 DEF RulesFit, RulesGrow
<1>4. ASSUME NEW t \in Txns, ChangeCurrency(t), rules' = rules
      PROVE  RulesFit' /\ RulesGrow
  <2>1. rules = <<>> /\ Len(rules) <= MaxRules
    BY <1>1, <1>4, CurrencyChanges
  <2> QED
    BY <1>1, <1>4, <2>1 DEF RulesFit, RulesGrow
<1>5. ASSUME NEW t \in Txns, CreateRule(t), minor' = minor
      PROVE  RulesFit' /\ RulesGrow
  <2>1. tx[t].op.kind = "createRule" /\ tx[t].decided
    BY <1>5 DEF CreateRule, Decided
  <2>2. tx[t].minor = minor
    <3>1. Company \in Shared(tx[t].op)
      BY <2>1 DEF Shared, MonetaryKinds, PayKinds, RuleKinds
    <3>2. Company \in tx[t].held
      BY <2>1, <3>1, DecidedHolds
    <3> QED
      BY <1>1, <2>1, <3>2 DEF CurrencyFits, MonetaryKinds, PayKinds, RuleKinds
  <2>3. PICK o : o = tx[t].op
    OBVIOUS
  <2>4. <<o.from, o.to>> \in Windows /\ o.type \in RuleTypes /\ o.amount \in RuleAmounts
    BY <1>1, <2>1, <2>3 DEF RequestFits
  <2>5. o.from \in Days /\ o.to \in 0 .. Forever
    BY <1>2, <2>4
  <2>6. PICK amount : amount = RoundPayable(o.amount, minor)
    OBVIOUS
  <2>7. amount \in Int /\ IsPayablePrecision(amount, minor)
    BY <1>1, <1>2, <2>4, <2>6, RoundPayableIs
  <2>8. PICK i \in Context(o.from) : /\ amount > 0
                                     /\ rules' = Append(rules, [type |-> o.type, amount |-> amount,
                                                  from |-> o.from, to |-> o.to, status |-> "Active",
                                                  calendar |-> CalendarOf[tenures[i].branch]])
    BY <1>5, <2>2, <2>3, <2>6 DEF CreateRule
  <2>9. tenures[i].branch \in Branches
    <3>1. i \in DOMAIN tenures
      BY DEF Context
    <3> QED
      BY <3>1, TenureFacts DEF LockInv
  <2>10. PICK row \in RuleRows : row.amount = amount /\ rules' = Append(rules, row)
    <3>1. [type |-> o.type, amount |-> amount, from |-> o.from, to |-> o.to, status |-> "Active",
           calendar |-> CalendarOf[tenures[i].branch]] \in RuleRows
      BY <2>4, <2>5, <2>7, <2>8, <2>9 DEF RuleRows
    <3> QED
      BY <2>8, <3>1
  <2>11. /\ rules' \in Seq(RuleRows) /\ DOMAIN rules \subseteq DOMAIN rules'
         /\ \A r \in DOMAIN rules' : r \in DOMAIN rules \/ rules'[r] = row
         /\ \A r \in DOMAIN rules : rules'[r] = rules[r]
    BY <1>1, <2>10
  <2>12. Len(rules') <= MaxRules
    BY <1>1, <1>5, <2>10 DEF CreateRule
  <2>13. \A r \in DOMAIN rules' : IsPayablePrecision(rules'[r].amount, minor')
    BY <1>1, <1>5, <2>7, <2>10, <2>11
  <2> QED
    BY <2>11, <2>12, <2>13 DEF RulesFit, RulesGrow
<1>6. ASSUME NEW r \in DOMAIN rules, NEW row \in RuleRows, minor' = minor,
             rules' = [rules EXCEPT ![r] = row],
             row.amount = rules[r].amount, row.from = rules[r].from, row.status # "Active"
      PROVE  RulesFit' /\ RulesGrow
  <2>1. /\ rules' \in Seq(RuleRows) /\ DOMAIN rules = DOMAIN rules' /\ Len(rules') <= MaxRules /\ rules'[r] = row
        /\ \A q \in DOMAIN rules \ {r} : rules'[q] = rules[q]
    BY <1>1, <1>6
  <2>2. \A q \in DOMAIN rules : rules'[q].amount = rules[q].amount /\ rules'[q].from = rules[q].from
    BY <1>6, <2>1
  <2>3. \A q \in DOMAIN rules' : IsPayablePrecision(rules'[q].amount, minor')
    BY <1>1, <1>6, <2>1, <2>2
  <2> QED
    BY <1>6, <2>1, <2>2, <2>3 DEF RulesFit, RulesGrow
<1>7. ASSUME NEW t \in Txns, EndRule(t), minor' = minor
      PROVE  RulesFit' /\ RulesGrow
  <2>1. PICK r \in DOMAIN rules, d \in Days : r = tx[t].op.r /\ d = tx[t].op.to
    BY <1>1, <1>7 DEF EndRule, Decided, RequestFits
  <2>2. rules' = [rules EXCEPT ![r] = [rules[r] EXCEPT !.status = "Ended", !.to = d]]
    BY <1>1, <1>7, <2>1 DEF EndRule, RuleRows
  <2>3. rules[r] \in RuleRows
    BY <1>1
  <2>4. /\ [rules[r] EXCEPT !.status = "Ended", !.to = d] \in RuleRows
        /\ [rules[r] EXCEPT !.status = "Ended", !.to = d].amount = rules[r].amount
        /\ [rules[r] EXCEPT !.status = "Ended", !.to = d].from = rules[r].from
        /\ [rules[r] EXCEPT !.status = "Ended", !.to = d].status = "Ended"
    BY <1>2, <2>3 DEF RuleRows
  <2> QED
    BY <1>6, <1>7, <2>2, <2>4
<1>8. ASSUME NEW t \in Txns, VoidRule(t), minor' = minor
      PROVE  RulesFit' /\ RulesGrow
  <2>1. PICK r \in DOMAIN rules : r = tx[t].op.r
    BY <1>1, <1>8 DEF VoidRule, Decided, RequestFits
  <2>2. rules' = [rules EXCEPT ![r] = [rules[r] EXCEPT !.status = "Voided"]]
    BY <1>1, <1>8, <2>1 DEF VoidRule
  <2>3. rules[r] \in RuleRows
    BY <1>1
  <2>4. /\ [rules[r] EXCEPT !.status = "Voided"] \in RuleRows
        /\ [rules[r] EXCEPT !.status = "Voided"].amount = rules[r].amount
        /\ [rules[r] EXCEPT !.status = "Voided"].from = rules[r].from
        /\ [rules[r] EXCEPT !.status = "Voided"].status = "Voided"
    BY <2>3 DEF RuleRows
  <2> QED
    BY <1>6, <1>8, <2>2, <2>4
<1>9. /\ \A t \in Txns : ChangeCurrency(t) => rules' = rules
      /\ \A t \in Txns : CreateRule(t) \/ EndRule(t) \/ VoidRule(t) => minor' = minor
  BY DEF ChangeCurrency, CreateRule, EndRule, VoidRule, RulesOnly, monetary
<1> QED
  BY <1>3, <1>4, <1>5, <1>7, <1>8, <1>9, Frames

\* A period that is created stays.
LEMMA StatusKept ==
    ASSUME PayInv, [Next]_vars
    PROVE  /\ pstat' \in [Periods -> {"none", "Open", "Review", "Returned", "Locked"}]
           /\ \A p \in Periods : pstat[p] # "none" => pstat'[p] # "none"
           /\ \A p \in Periods : pstat[p] = "none" /\ pstat'[p] # "none"
                                 => pstat'[p] = "Open" /\ \E t \in Txns : OpenPeriod(t) /\ tx[t].op.p = p
<1>1. /\ pstat \in [Periods -> {"none", "Open", "Review", "Returned", "Locked"}]
      /\ \A t \in Txns : RequestFits(tx[t].op)
  BY DEF PayInv, PeriodsFit
<1>2. ASSUME NEW t \in Txns, OpenPeriod(t) \/ Submit(t) \/ Return(t) \/ Finalize(t)
      PROVE  \E p \in Periods, s \in {"Open", "Review", "Returned", "Locked"} :
                /\ pstat' = [pstat EXCEPT ![p] = s]
                /\ pstat[p] # "none" \/ (OpenPeriod(t) /\ tx[t].op.p = p /\ s = "Open")
  <2>1. PICK p : p = tx[t].op.p
    OBVIOUS
  <2>2. p \in Periods
    BY <1>1, <1>2, <2>1 DEF OpenPeriod, Submit, Return, Finalize, Ready, RequestFits, PeriodKinds
  <2>3. CASE OpenPeriod(t)
    BY <2>1, <2>2, <2>3 DEF OpenPeriod
  <2>4. CASE Submit(t)
    <3>1. pstat[p] # "none"
      BY <1>1, <2>1, <2>4 DEF Submit, Ready, RequestFits
    <3> QED
      BY <2>1, <2>2, <2>4, <3>1 DEF Submit
  <2>5. CASE Return(t) \/ Finalize(t)
    BY <2>1, <2>2, <2>5 DEF Return, Finalize
  <2> QED
    BY <1>2, <2>3, <2>4, <2>5
<1>3. CASE pstat' = pstat
  BY <1>1, <1>3
<1>4. CASE \E t \in Txns : OpenPeriod(t) \/ Submit(t) \/ Return(t) \/ Finalize(t)
  <2>1. PICK t \in Txns, p \in Periods, s \in {"Open", "Review", "Returned", "Locked"} :
                /\ pstat' = [pstat EXCEPT ![p] = s]
                /\ pstat[p] # "none" \/ (OpenPeriod(t) /\ tx[t].op.p = p /\ s = "Open")
    BY <1>2, <1>4
  <2> QED
    BY <1>1, <2>1
<1> QED
  BY <1>3, <1>4, Frames

\* What a request names stays there.
LEMMA RequestsKept ==
    ASSUME CompensationAssumption, TopologyAssumption, LockInv, PayInv, [Next]_vars
    PROVE  \A t \in Txns : RequestFits(tx[t].op)'
<1>1. DOMAIN sched \subseteq DOMAIN sched' /\ RulesGrow
  BY ScheduleRowsKept, RulesKept
<1>2. \A p \in Periods : pstat[p] # "none" => pstat'[p] # "none"
  BY StatusKept
<1>3. ASSUME NEW o, RequestFits(o) PROVE RequestFits(o)'
  <2>1. o.kind = "endRule" /\ rules'[o.r].status = "Active" => o.from = FirstChanged(o.r, o.to)'
    BY <1>1, <1>3 DEF RequestFits, RulesGrow, FirstChanged
  <2>2. o.kind = "endRule" \/ o.kind = "voidRule" =>
           o.r \in DOMAIN rules /\ o.r \in DOMAIN rules' /\ rules'[o.r].from = rules[o.r].from
    BY <1>1, <1>3 DEF RequestFits, RulesGrow
  <2> QED
    BY <1>1, <1>2, <1>3, <2>1, <2>2 DEF RequestFits, PeriodKinds
<1>4. RequestFits(Idle)'
  BY DEF RequestFits, Idle, ScheduleKinds, PeriodKinds
<1>5. ASSUME NEW t \in Txns,
             \E o : (o = Idle \/ o = tx[t].op \/ (o \in Requests /\ RequestFits(o))) /\ tx'[t].op = o
      PROVE  RequestFits(tx[t].op)'
  <2>1. PICK o : (o = Idle \/ o = tx[t].op \/ (o \in Requests /\ RequestFits(o))) /\ tx'[t].op = o
    BY <1>5
  <2>2. RequestFits(o)'
    <3>1. CASE o = Idle
      BY <1>4, <3>1 DEF RequestFits
    <3>2. CASE RequestFits(o)
      BY <1>3, <3>2
    <3> QED
      BY <2>1, <3>1, <3>2 DEF PayInv
  <2> QED
    BY <2>1, <2>2 DEF RequestFits
<1>6. ASSUME NEW t \in Txns,
             NEW u \in Txns, (\E o \in Requests : Begin(u, o)) \/ Acquire(u) \/ Decide(u) \/ Done(u)
      PROVE  \E o : (o = Idle \/ o = tx[t].op \/ (o \in Requests /\ RequestFits(o))) /\ tx'[t].op = o
  <2>0. tx = [v \in Txns |-> tx[v]] /\ \A v \in Txns : tx[v] = Transaction(tx[v])
    BY DEF LockInv, LocksFit
  <2>1. CASE t # u
    BY <1>6, <2>0, <2>1 DEF Begin, Acquire, Decide, Done
  <2>2. CASE t = u /\ \E o \in Requests : Begin(u, o)
    <3>1. PICK o \in Requests : Begin(u, o)
      BY <2>2
    <3>2. tx'[t].op = o
      BY <2>0, <2>2, <3>1 DEF Begin, NewTx
    <3>3. RequestFits(o)
      BY <3>1, RequestsFit DEF Begin
    <3> QED
      BY <3>2, <3>3
  <2>3. CASE t = u /\ (Acquire(u) \/ Decide(u))
    BY <2>0, <2>3 DEF Acquire, Decide, Transaction
  <2>4. CASE t = u /\ Done(u)
    BY <2>0, <2>4 DEF Done, NewTx
  <2> QED
    BY <1>6, <2>1, <2>2, <2>3, <2>4
<1>7. CASE tx' = tx
  BY <1>5, <1>7
<1> QED
  BY <1>5, <1>6, <1>7, Frames

-----------------------------------------------------------------------------
(* Days count once                                                         *)

\* What a period that is opened takes of the days of the first assignment it
\* could not lose before.
LEMMA OpenKeepsOwner ==
    ASSUME CompensationAssumption, TenuresFit, PayInv, NEW t \in Txns, OpenPeriod(t),
           NEW i \in DOMAIN tenures, NEW d \in Nat, Owns(i, d)
    PROVE  Owns(i, d)'
<1>0. PICK q \in Periods : q = tx[t].op.p
  BY DEF PayInv, OpenPeriod, Ready, RequestFits, PeriodKinds
<1>1. /\ pstat[q] = "none" /\ pstat' = [pstat EXCEPT ![q] = "Open"]
      /\ roster' = [roster EXCEPT ![q] = UNION {CoveredDays(k, q) : k \in TenureOf(q)}]
      /\ tenures' = tenures
      /\ \A p \in Periods : BranchOf[p] = BranchOf[q] /\ pstat[p] # "none"
                            => Max(DaysOf[p]) < Min(DaysOf[q])
  BY <1>0 DEF OpenPeriod, PeriodOnly
<1>2. pstat \in [Periods -> {"none", "Open", "Review", "Returned", "Locked"}] /\ roster \in [Periods -> SUBSET Days]
  BY DEF PayInv, PeriodsFit
<1>3. ASSUME NEW j \in DOMAIN tenures, j > i
      PROVE  /\ \A p \in Periods : Captures(j, p, d)' => d \notin roster'[p]
             /\ (\A p \in Periods : ~Captures(j, p, d)') => ~Covers(tenures[j], d)
  <2>1. /\ \A p \in Periods : Captures(j, p, d) => d \notin roster[p]
        /\ (\A p \in Periods : ~Captures(j, p, d)) => ~Covers(tenures[j], d)
    BY <1>3 DEF Owns
  <2>2. \A p \in Periods : p # q => (Captures(j, p, d)' <=> Captures(j, p, d)) /\ roster'[p] = roster[p]
    BY <1>1, <1>2 DEF Captures
  <2>3. ~Captures(j, q, d)
    BY <1>1 DEF Captures
  <2>4. ASSUME Captures(j, q, d)' PROVE d \notin roster'[q]
    <3> SUFFICES ASSUME d \in roster'[q] PROVE FALSE
      OBVIOUS
    <3>1. tenures[j].branch = BranchOf[q] /\ d \in DaysOf[q]
      BY <1>1, <2>4 DEF Captures
    <3>2. roster'[q] = UNION {CoveredDays(k, q) : k \in TenureOf(q)}
      BY <1>1, <1>2
    <3>3. PICK k \in TenureOf(q) : d \in CoveredDays(k, q)
      BY <3>2
    <3>4. k \in DOMAIN tenures /\ tenures[k].branch = BranchOf[q] /\ Covers(tenures[k], d)
      BY <3>3 DEF TenureOf, CoveredDays
    <3>5. k = j
      <4>1. k \in DOMAIN tenures /\ j \in DOMAIN tenures /\ tenures[k].branch = tenures[j].branch
        BY <1>3, <3>1, <3>4
      <4>2. PICK n \in {1, 2} :
               DOMAIN tenures = 1 .. n /\ (n = 2 => tenures[1].branch # tenures[2].branch)
        BY TenureFacts
      <4>3. k \in 1 .. n /\ j \in 1 .. n
        BY <4>1, <4>2
      <4>4. k \in {1, 2} /\ j \in {1, 2} /\ (n = 1 => k = 1 /\ j = 1)
        BY <4>3
      <4> QED
        BY <4>1, <4>2, <4>4
    <3>6. PICK p \in Periods : Captures(j, p, d)
      BY <2>1, <3>4, <3>5
    <3>7. BranchOf[p] = BranchOf[q] /\ pstat[p] # "none" /\ d \in DaysOf[p]
      BY <3>1, <3>6 DEF Captures
    <3>8. Max(DaysOf[p]) < Min(DaysOf[q])
      BY <1>1, <3>7
    <3>9. d <= Max(DaysOf[p]) /\ Max(DaysOf[p]) \in Nat /\ Min(DaysOf[q]) <= d /\ Min(DaysOf[q]) \in Nat
      BY <3>1, <3>7, DaysBounds
    <3> QED
      BY <3>8, <3>9
  <2> QED
    BY <2>1, <2>2, <2>3, <2>4
<1> QED
  BY <1>1, <1>3 DEF Owns

\* What a snapshot counts stays its own.
LEMMA CountsKept ==
    ASSUME CompensationAssumption, LockInv, PayInv, [Next]_vars
    PROVE  \A p \in Periods : \A new : Counts(p, new) => Counts(p, new)'
<1> SUFFICES ASSUME NEW p \in Periods, NEW new, Counts(p, new) PROVE Counts(p, new)'
  OBVIOUS
<1>0. /\ TenuresFit /\ now \in Clock /\ \A t \in Txns : RequestFits(tx[t].op)
      /\ roster \in [Periods -> SUBSET Days] /\ Days \subseteq Nat
      /\ pstat' \in [Periods -> {"none", "Open", "Review", "Returned", "Locked"}]
      /\ pstat'[p] # "none"
  BY StatusKept DEF LockInv, PayInv, PeriodsFit, Days, Counts
<1>1. CASE UNCHANGED <<tenures, roster>> /\ ~\E t \in Txns : OpenPeriod(t)
  <2>1. \A q \in Periods : pstat'[q] = "none" <=> pstat[q] = "none"
    BY <1>1, StatusKept
  <2>2. \A j, d : \A q \in Periods : Captures(j, q, d)' <=> Captures(j, q, d)
    BY <1>1, <2>1 DEF Captures
  <2>3. \A i, d : Owns(i, d) => Owns(i, d)'
    BY <1>1, <2>2 DEF Owns
  <2> QED
    BY <1>0, <1>1, <2>3 DEF Counts
<1>2. ASSUME NEW t \in Txns, OpenPeriod(t) PROVE Counts(p, new)'
  <2>1. PICK q \in Periods : q = tx[t].op.p
    BY <1>0, <1>2 DEF OpenPeriod, Ready, RequestFits, PeriodKinds
  <2>2. tenures' = tenures /\ pstat[q] = "none" /\ \E R : roster' = [roster EXCEPT ![q] = R]
    BY <1>2, <2>1 DEF OpenPeriod, PeriodOnly
  <2>3. roster'[p] = roster[p]
    BY <1>0, <2>2 DEF Counts
  <2>4. \A d \in new.pay.counted : d \in Nat
    BY <1>0 DEF Counts
  <2>5. new.until = tenures[new.tenure].to => \A d \in new.pay.counted : Owns(new.tenure, d)'
    BY <1>0, <1>2, <2>4, OpenKeepsOwner DEF Counts
  <2> QED
    BY <1>0, <2>2, <2>3, <2>5 DEF Counts
<1>3. ASSUME NEW t \in Txns, Transfer(t) PROVE Counts(p, new)'
  <2>1. PICK b \in Branches, c \in Branches, end \in Instants \ {0} :
              /\ b # c /\ tenures = <<[branch |-> b, from |-> 0, to |-> Never]>>
              /\ tenures' = <<[branch |-> b, from |-> 0, to |-> end],
                              [branch |-> c, from |-> end, to |-> Never]>>
              /\ \A q \in Periods : roster'[q] # roster[q] => BranchOf[q] = c
    BY <1>0, <1>3, TransferKeepsTenures
  <2>2. new.tenure = 1 /\ BranchOf[p] = b /\ new.until = Never /\ new.pay.counted \subseteq roster[p]
    BY <2>1 DEF Counts
  <2>3. end # Never
    BY <2>1 DEF Instants, Never, CompensationAssumption
  <2>4. roster'[p] = roster[p]
    BY <2>1, <2>2
  <2>5. DOMAIN tenures' = {1, 2} /\ tenures'[1].branch = b /\ tenures'[1].to = end /\ Len(tenures') = 2
    BY <2>1
  <2> QED
    BY <1>0, <2>2, <2>3, <2>4, <2>5 DEF Counts
<1>4. \A t \in Txns : OpenPeriod(t) => tenures' = tenures
  BY DEF OpenPeriod, PeriodOnly
<1> QED
  BY <1>1, <1>2, <1>3, Frames

\* Snapshots stay within the rules and in the currency.
LEMMA PeriodsKept ==
    ASSUME CompensationAssumption, LockInv, PayInv, [Next]_vars
    PROVE  PeriodsFit'
<1>0. /\ TenuresFit /\ now \in Clock /\ \A t \in Txns : RequestFits(tx[t].op) /\ CurrencyFits(t)
      /\ PeriodsFit
  BY DEF LockInv, PayInv
<1>1. pstat' \in [Periods -> {"none", "Open", "Review", "Returned", "Locked"}]
  BY StatusKept
<1>2. roster' \in [Periods -> SUBSET Days] /\ \A p \in Periods : roster'[p] \subseteq DaysOf[p]
  <2>0. /\ roster \in [Periods -> SUBSET Days] /\ \A p \in Periods : roster[p] \subseteq DaysOf[p]
        /\ \A p \in Periods : DaysOf[p] \subseteq Days
    BY <1>0 DEF PeriodsFit, CompensationAssumption
  <2>1. CASE roster' = roster
    BY <2>0, <2>1
  <2>2. ASSUME NEW t \in Txns, OpenPeriod(t)
        PROVE  \E q \in Periods : \E R \in SUBSET DaysOf[q] : roster' = [roster EXCEPT ![q] = R]
    <3>1. PICK q \in Periods : q = tx[t].op.p
      BY <1>0, <2>2 DEF OpenPeriod, Ready, RequestFits, PeriodKinds
    <3>2. roster' = [roster EXCEPT ![q] = UNION {CoveredDays(k, q) : k \in TenureOf(q)}]
      BY <2>2, <3>1 DEF OpenPeriod
    <3>3. UNION {CoveredDays(k, q) : k \in TenureOf(q)} \in SUBSET DaysOf[q]
      BY DEF CoveredDays
    <3> QED
      BY <3>2, <3>3
  <2>3. CASE \E t \in Txns : OpenPeriod(t)
    <3>1. PICK q \in Periods : \E R \in SUBSET DaysOf[q] : roster' = [roster EXCEPT ![q] = R]
      BY <2>2, <2>3
    <3>2. PICK R \in SUBSET DaysOf[q] : roster' = [roster EXCEPT ![q] = R]
      BY <3>1
    <3> QED
      BY <2>0, <3>2
  <2>4. ASSUME NEW t \in Txns, Transfer(t)
        PROVE  /\ roster' = [q \in Periods |-> roster'[q]]
               /\ \A q \in Periods : roster'[q] = roster[q] \/ roster'[q] \subseteq DaysOf[q]
    BY <1>0, <2>4, TransferKeepsTenures
  <2>5. CASE \E t \in Txns : Transfer(t)
    <3>1. /\ roster' = [q \in Periods |-> roster'[q]]
          /\ \A q \in Periods : roster'[q] = roster[q] \/ roster'[q] \subseteq DaysOf[q]
      BY <2>4, <2>5
    <3>2. \A q \in Periods : roster'[q] \subseteq DaysOf[q] /\ roster'[q] \subseteq Days
      BY <2>0, <3>1
    <3> QED
      BY <3>1, <3>2
  <2> QED
    BY <2>1, <2>3, <2>5, Frames
<1>3. CASE packet' = packet
  <2>1. packet' = [p \in Periods |-> packet'[p]]
    BY <1>0, <1>3 DEF PeriodsFit
  <2>2. ASSUME NEW p \in Periods, packet[p] # Unpaid
        PROVE  Pays(packet[p].pay, minor)' /\ Counts(p, packet[p])'
    <3>1. minor' = minor
      BY <2>2, CurrencyChanges, Frames
    <3>2. PICK new : new = packet[p]
      OBVIOUS
    <3>3. Pays(new.pay, minor) /\ Counts(p, new)
      BY <1>0, <2>2, <3>2 DEF PeriodsFit
    <3>4. Counts(p, new)'
      BY <3>3, CountsKept
    <3>5. Pays(new.pay, minor)'
      BY <3>1, <3>3 DEF Pays
    <3>6. packet'[p] = new
      BY <1>3, <3>2
    <3> QED
      BY <3>4, <3>5, <3>6 DEF Counts, Pays
  <2>3. ASSUME NEW p \in Periods, pstat'[p] \in {"Review", "Returned", "Locked"}
        PROVE  packet[p] # Unpaid
    <3>1. CASE pstat[p] \in {"Review", "Returned", "Locked"}
      BY <1>0, <3>1 DEF PeriodsFit
    <3>2. CASE pstat'[p] # pstat[p] /\ pstat[p] \notin {"Review", "Returned", "Locked"}
      <4>1. ASSUME NEW t \in Txns, OpenPeriod(t) PROVE FALSE
        BY <1>0, <2>3, <3>2, <4>1 DEF OpenPeriod, PeriodsFit
      <4>2. ASSUME NEW t \in Txns, Return(t) \/ Finalize(t) PROVE FALSE
        BY <1>0, <2>3, <3>2, <4>2 DEF Return, Finalize, PeriodsFit
      <4>3. ASSUME NEW t \in Txns, Submit(t) PROVE packet[p] # Unpaid
        <5>1. PICK q \in Periods : q = tx[t].op.p
          BY <1>0, <4>3 DEF Submit, Ready, RequestFits, PeriodKinds
        <5>2. pstat' = [pstat EXCEPT ![q] = "Review"] /\ packet' = [packet EXCEPT ![q] = tx[t].packet]
          BY <4>3, <5>1 DEF Submit
        <5>3. p = q /\ tx[t].packet # Unpaid
          BY <1>0, <3>2, <4>3, <5>2 DEF PeriodsFit, Submit, Ready, CurrencyFits
        <5> QED
          BY <1>0, <1>3, <5>2, <5>3 DEF PeriodsFit
      <4> QED
        BY <3>2, <4>1, <4>2, <4>3, Frames
    <3>3. CASE pstat'[p] = pstat[p]
      BY <2>3, <3>1, <3>3
    <3> QED
      BY <3>1, <3>2, <3>3
  <2> QED
    BY <1>1, <1>2, <1>3, <2>1, <2>2, <2>3 DEF PeriodsFit
<1>4. ASSUME NEW t \in Txns, Submit(t) PROVE PeriodsFit'
  <2>1. PICK q \in Periods : q = tx[t].op.p
    BY <1>0, <1>4 DEF Submit, Ready, RequestFits, PeriodKinds
  <2>2. PICK new : new = tx[t].packet
    OBVIOUS
  <2>3. /\ pstat' = [pstat EXCEPT ![q] = "Review"] /\ packet' = [packet EXCEPT ![q] = new]
        /\ minor' = minor
    BY <1>4, <2>1, <2>2 DEF Submit, PeriodOnly
  <2>4. tx[t].op.kind = "submit" /\ Wanted(t) = {}
    BY <1>4 DEF Submit, Ready
  <2>5. tx[t].minor = minor
    <3>1. Company \in tx[t].held
      BY <2>4, DecidedHolds DEF Shared, MonetaryKinds
    <3> QED
      BY <1>0, <2>4, <3>1 DEF CurrencyFits, MonetaryKinds
  <2>6. Pays(new.pay, minor) /\ Counts(q, new) /\ new # Unpaid
    BY <1>0, <2>1, <2>2, <2>4, <2>5 DEF CurrencyFits
  <2>7. ASSUME NEW p \in Periods, packet'[p] # Unpaid
        PROVE  Pays(packet'[p].pay, minor) /\ Counts(p, packet[p])'
    <3>1. PICK x : x = packet'[p]
      OBVIOUS
    <3>2. Pays(x.pay, minor) /\ Counts(p, x)
      BY <1>0, <2>3, <2>6, <2>7, <3>1 DEF PeriodsFit
    <3>3. Counts(p, x)'
      BY <3>2, CountsKept
    <3> QED
      BY <3>1, <3>2, <3>3 DEF Counts
  <2>8. \A p \in Periods : pstat'[p] \in {"Review", "Returned", "Locked"} => packet'[p] # Unpaid
    BY <1>0, <2>3, <2>6 DEF PeriodsFit
  <2>9. packet' = [p \in Periods |-> packet'[p]]
    BY <1>0, <2>3 DEF PeriodsFit
  <2>10. \A p \in Periods : packet'[p] # Unpaid => Pays(packet[p].pay, minor)'
    BY <2>3, <2>7 DEF Pays
  <2> QED
    BY <1>1, <1>2, <2>7, <2>8, <2>9, <2>10 DEF PeriodsFit
<1> QED
  BY <1>3, <1>4, Frames

\* A transaction that holds the company row knows the currency.
LEMMA CurrencyKept ==
    ASSUME CompensationAssumption, ScaleAssumption, TopologyAssumption, LockInv, PayInv, [Next]_vars
    PROVE  \A t \in Txns : CurrencyFits(t)'
<1> SUFFICES ASSUME NEW t \in Txns PROVE CurrencyFits(t)'
  OBVIOUS
<1>0. /\ CurrencyFits(t) /\ RequestFits(tx[t].op) /\ minor \in Minors
      /\ tx = [v \in Txns |-> tx[v]] /\ \A v \in Txns : tx[v] = Transaction(tx[v])
  BY DEF LockInv, LocksFit, PayInv
<1>1. ASSUME tx'[t].op.kind = "submit" =>
                Counts(tx'[t].op.p, tx'[t].packet) /\ tx'[t].op.p \in Periods,
             tx'[t].minor \in Minors,
             tx'[t].op.kind \in MonetaryKinds /\ Company \in tx'[t].held => tx'[t].minor = minor',
             tx'[t].op.kind = "submit" =>
                /\ Pays(tx'[t].packet.pay, tx'[t].minor) /\ tx'[t].packet # Unpaid
      PROVE  CurrencyFits(t)'
  <2>1. PICK p, new : p = tx'[t].op.p /\ new = tx'[t].packet
    OBVIOUS
  <2>2. tx'[t].op.kind = "submit" => Counts(p, new)'
    BY <1>1, <2>1, CountsKept
  <2>3. tx'[t].op.kind = "submit" => Counts(tx[t].op.p, tx[t].packet)'
    BY <2>1, <2>2 DEF Counts
  <2>4. tx'[t].op.kind = "submit" => Pays(tx[t].packet.pay, tx[t].minor)'
    BY <1>1 DEF Pays
  <2> QED
    BY <1>1, <2>3, <2>4 DEF CurrencyFits
<1>2. ASSUME tx'[t] = tx[t] PROVE CurrencyFits(t)'
  <2>1. tx[t].op.kind \in MonetaryKinds /\ Company \in tx[t].held => tx[t].minor = minor'
    <3> SUFFICES ASSUME tx[t].op.kind \in MonetaryKinds, Company \in tx[t].held
                 PROVE  tx[t].minor = minor'
      OBVIOUS
    <3>1. tx[t].minor = minor
      BY <1>0 DEF CurrencyFits
    <3>2. ASSUME NEW u \in Txns, ChangeCurrency(u) PROVE FALSE
      <4>1. u = t
        BY <3>2, CurrencyChanges
      <4>2. tx[t].op.kind = "currency"
        BY <3>2, <4>1 DEF ChangeCurrency, Ready
      <4> QED
        BY <4>2 DEF MonetaryKinds, PayKinds, RuleKinds
    <3> QED
      BY <3>1, <3>2, Frames
  <2> QED
    BY <1>0, <1>1, <1>2, <2>1 DEF CurrencyFits, RequestFits, PeriodKinds
<1>3. ASSUME NEW u \in Txns, u # t,
             (\E o \in Requests : Begin(u, o)) \/ Acquire(u) \/ Decide(u) \/ Done(u)
      PROVE  tx'[t] = tx[t]
  BY <1>0, <1>3 DEF Begin, Acquire, Decide, Done
<1>4. ASSUME Done(t) PROVE CurrencyFits(t)'
  <2>1. tx'[t].op.kind = "idle" /\ tx'[t].minor = minor
    BY <1>0, <1>4 DEF Done, NewTx, Idle
  <2>2. "idle" \notin MonetaryKinds
    BY DEF MonetaryKinds, PayKinds, RuleKinds
  <2> QED
    BY <1>0, <1>1, <2>1, <2>2
<1>5. ASSUME NEW o \in Requests, Begin(t, o) PROVE CurrencyFits(t)'
  <2>1. Early(o) /\ RequestFits(o)
    BY <1>5, RequestsFit DEF Begin
  <2>2. PICK new : /\ o.kind = "submit" => new \in Packets(o.p)
                   /\ tx' = [tx EXCEPT ![t] = NewTx(o, new)]
    BY <1>5 DEF Begin
  <2>3. /\ tx'[t].op = o /\ tx'[t].packet = new /\ tx'[t].minor = minor /\ tx'[t].held = {}
    BY <1>0, <2>2 DEF NewTx
  <2>4. ASSUME o.kind = "submit"
        PROVE  o.p \in Periods /\ Pays(new.pay, minor) /\ Counts(o.p, new) /\ new # Unpaid
    <3>1. PICK p \in Periods : p = o.p /\ new \in Packets(p)
      BY <2>1, <2>2, <2>4 DEF RequestFits, PeriodKinds
    <3>2. pstat[p] # "none"
      BY <2>1, <2>4, <3>1 DEF RequestFits
    <3>3. Pays(new.pay, minor) /\ Counts(p, new) /\ new # Unpaid
      BY <3>1, <3>2, PacketsFit DEF LockInv
    <3> QED
      BY <3>1, <3>3
  <2> QED
    BY <1>0, <1>1, <2>3, <2>4
<1>6. ASSUME Acquire(t) PROVE CurrencyFits(t)'
  <2>1. PICK l : l = NextLock(t)
    OBVIOUS
  <2>2. /\ tx'[t].op = tx[t].op /\ tx'[t].packet = tx[t].packet /\ tx'[t].held = tx[t].held \cup {l}
        /\ tx'[t].minor = IF l = Company THEN minor ELSE tx[t].minor
        /\ l = Company /\ tx[t].op.kind = "submit" => tx[t].minor = minor
        /\ minor' = minor
    BY <1>0, <1>6, <2>1 DEF Acquire, Transaction
  <2>3. tx[t].op.kind = "submit" => tx'[t].minor = tx[t].minor /\ tx[t].op.p \in Periods
    BY <1>0, <2>2 DEF RequestFits, PeriodKinds
  <2> QED
    BY <1>0, <1>1, <2>2, <2>3 DEF CurrencyFits
<1>7. ASSUME Decide(t) PROVE CurrencyFits(t)'
  <2>1. /\ tx'[t].op = tx[t].op /\ tx'[t].packet = tx[t].packet /\ tx'[t].held = tx[t].held
        /\ tx'[t].minor = tx[t].minor /\ minor' = minor
    BY <1>0, <1>7 DEF Decide, Transaction
  <2> QED
    BY <1>0, <1>1, <2>1 DEF CurrencyFits, RequestFits, PeriodKinds
<1>8. CASE tx' = tx
  BY <1>2, <1>8
<1> QED
  BY <1>2, <1>3, <1>4, <1>5, <1>6, <1>7, <1>8, Frames

\* The clock, the currency and the structure stay what they are.
LEMMA BasicsKept ==
    ASSUME LockInv, PayInv, [Next]_vars
    PROVE  /\ now' \in Clock /\ minor' \in Minors
           /\ structure' \in [shape : Shapes, locked : BOOLEAN, active : BOOLEAN]
<1>0. /\ now \in Clock /\ minor \in Minors /\ \A t \in Txns : RequestFits(tx[t].op)
      /\ structure \in [shape : Shapes, locked : BOOLEAN, active : BOOLEAN]
  BY DEF PayInv
<1>1. now' \in Clock
  BY <1>0, Frames DEF Tick
<1>2. minor' \in Minors
  BY <1>0, CurrencyChanges, Frames
<1>3. ASSUME NEW t \in Txns,
             Approve(t) \/ ChangeStructure(t) \/ RetireDefinition(t) \/ OpenPeriod(t)
      PROVE  structure' \in [shape : Shapes, locked : BOOLEAN, active : BOOLEAN]
  <2>1. CASE ChangeStructure(t)
    <3>1. tx[t].op.shape \in Shapes
      BY <1>0, <2>1 DEF ChangeStructure, Ready, RequestFits
    <3> QED
      BY <1>0, <2>1, <3>1 DEF ChangeStructure
  <2> QED
    BY <1>0, <1>3, <2>1 DEF Approve, RetireDefinition, OpenPeriod
<1> QED
  BY <1>0, <1>1, <1>2, <1>3, Frames

\* Every step keeps the locks and the pay.
LEMMA PayKept ==
    ASSUME CompensationAssumption, ScaleAssumption, TopologyAssumption, LockInv, PayInv, [Next]_vars
    PROVE  LockInv' /\ PayInv'
<1>1. LockInv'
  BY LocksKept DEF PayInv
<1>2. SchedFit' /\ RulesFit' /\ PeriodsFit'
  BY ScheduleRowsKept, RulesKept, PeriodsKept
<1>3. \A t \in Txns : RequestFits(tx[t].op)' /\ CurrencyFits(t)'
  BY RequestsKept, CurrencyKept
<1> QED
  BY <1>1, <1>2, <1>3, BasicsKept DEF PayInv

\* So they are at the start.
LEMMA PayStarts ==
    ASSUME CompensationAssumption, Init
    PROVE  LockInv /\ PayInv
<1>1. TenuresFit
  BY DEF Init, TenuresFit
<1>2. ASSUME NEW t \in Txns
      PROVE  LocksFit(t) /\ RequestFits(tx[t].op) /\ CurrencyFits(t) /\ tx[t].held = {}
  <2>1. tx[t] = NewTx(Idle, Unpaid) /\ minor \in Minors
    BY DEF Init
  <2>2. OwnBranches(Idle) = {} /\ Idle.kind = "idle"
    BY DEF OwnBranches, Idle, PeriodKinds
  <2>3. LocksFit(t) /\ tx[t].held = {}
    BY <2>1, <2>2 DEF LocksFit, NewTx, Transaction
  <2>4. tx[t].op.kind = "idle" /\ tx[t].minor = minor
    BY <2>1, <2>2 DEF NewTx
  <2>5. RequestFits(tx[t].op)
    BY <2>4 DEF RequestFits, ScheduleKinds, PeriodKinds
  <2>6. CurrencyFits(t)
    BY <2>1, <2>4 DEF CurrencyFits, MonetaryKinds, PayKinds, RuleKinds
  <2> QED
    BY <2>3, <2>5, <2>6
<1>3. tx = [t \in Txns |-> tx[t]]
  BY DEF Init
<1>4. SchedFit /\ RulesFit /\ PeriodsFit
  <2>1. SchedFit /\ RulesFit
    BY DEF Init, SchedFit, RulesFit
  <2>2. PeriodsFit
    BY DEF Init, PeriodsFit
  <2> QED
    BY <2>1, <2>2
<1>5. now \in Clock /\ minor \in Minors
      /\ structure \in [shape : Shapes, locked : BOOLEAN, active : BOOLEAN]
  BY DEF Init, CompensationAssumption
<1> QED
  BY <1>1, <1>2, <1>3, <1>4, <1>5 DEF LockInv, PayInv, Exclusion

\* The locks and the pay are kept for ever: the invariant behind the safety
\* properties of a single state.
THEOREM PayInvariance == Spec => [](LockInv /\ PayInv)
<1>1. Init => LockInv /\ PayInv
  BY CompensationAssumption, PayStarts
<1>2. LockInv /\ PayInv /\ [Next]_vars => (LockInv /\ PayInv)'
  BY CompensationAssumption, ScaleAssumption, TopologyAssumption, PayKept
<1> QED
  BY <1>1, <1>2, PTL DEF Spec

\* Requests that take their locks in the documented order never wait for each
\* other in a circle, whatever branches a pay change finds to lock.
THEOREM RequestsProceed == Spec => []SomebodyProceeds
<1>1. LockInv /\ PayInv => SomebodyProceeds
  BY CompensationAssumption, LocksAreOrdered
<1> QED
  BY <1>1, PayInvariance, PTL

\* No snapshot ever pays less than the prorated Minimum or more than the
\* prorated Maximum, but for its roundings, whoever changes rules and currency
\* while it is taken.
THEOREM PayWithinRules == Spec => []NormalPayWithinRules
<1>1. ASSUME LockInv, PayInv PROVE NormalPayWithinRules
  <2>1. \A p \in Periods : packet[p] # Unpaid => Pays(packet[p].pay, minor)
    BY <1>1 DEF PayInv, PeriodsFit
  <2> QED
    BY <2>1 DEF NormalPayWithinRules, Pays
<1> QED
  BY <1>1, PayInvariance, PTL

\* The currency never changes under an amount that is decided or paid in it.
THEOREM AmountsStayPayable == Spec => []AmountsPayable
<1>1. ASSUME LockInv, PayInv PROVE AmountsPayable
  <2>1. \A p \in Periods : packet[p] # Unpaid => Pays(packet[p].pay, minor)
    BY <1>1 DEF PayInv, PeriodsFit
  <2> QED
    BY <1>1, <2>1 DEF AmountsPayable, Pays, PayInv, RulesFit
<1> QED
  BY <1>1, PayInvariance, PTL

\* A transfer day never counts for both assignments, but for a submission that
\* began before the transfer.
THEOREM DaysCountOnce == Spec => []CountedOnce
<1>1. ASSUME LockInv, PayInv PROVE CountedOnce
  <2> SUFFICES ASSUME NEW p \in Periods, NEW q \in Periods,
                      {pstat[p], pstat[q]} \subseteq {"Review", "Locked"},
                      packet[p].tenure < packet[q].tenure,
                      packet[p].until = tenures[packet[p].tenure].to,
                      NEW d, d \in packet[p].pay.counted, d \in packet[q].pay.counted
               PROVE  FALSE
    BY DEF CountedOnce
  <2>1. Counts(p, packet[p]) /\ Counts(q, packet[q]) /\ PeriodsFit
    BY <1>1 DEF PayInv, PeriodsFit
  <2>2. Owns(packet[p].tenure, d) /\ d \in roster[q] /\ d \in DaysOf[q]
    BY <2>1 DEF Counts, PeriodsFit
  <2>3. Captures(packet[q].tenure, q, d) /\ packet[q].tenure \in DOMAIN tenures
    BY <2>1, <2>2 DEF Counts, Captures
  <2> QED
    BY <2>2, <2>3 DEF Owns
<1> QED
  BY <1>1, PayInvariance, PTL

-----------------------------------------------------------------------------
(* What is settled                                                         *)

\* The date of a pay change.
LEMMA DatesAreNumbers ==
    ASSUME CompensationAssumption, PayInv, NEW o \in Requests, o.kind \in PayKinds
    PROVE  o.from \in Nat
<1>0. /\ Days \subseteq Nat /\ Forever \in Nat /\ 0 .. Forever \subseteq Nat
      /\ \A s \in DOMAIN sched : sched[s] \in ScheduleRows
      /\ \A r \in DOMAIN rules : rules[r] \in RuleRows
  BY DEF PayInv, SchedFit, RulesFit, Days, Forever, CompensationAssumption
<1>1. CASE \E k \in {"replace", "approve", "discard", "void"}, s \in DOMAIN sched :
              o = [kind |-> k, s |-> s, from |-> sched[s].from]
  <2>1. PICK k \in {"replace", "approve", "discard", "void"}, s \in DOMAIN sched :
              o = [kind |-> k, s |-> s, from |-> sched[s].from]
    BY <1>1
  <2>2. sched[s].from \in Nat
    BY <1>0 DEF ScheduleRows
  <2> QED
    BY <2>1, <2>2
<1>2. CASE \E y \in RuleTypes, a \in RuleAmounts, w \in Windows :
              o = [kind |-> "createRule", type |-> y, amount |-> a, from |-> w[1], to |-> w[2]]
  <2>1. PICK y \in RuleTypes, a \in RuleAmounts, w \in Windows :
              o = [kind |-> "createRule", type |-> y, amount |-> a, from |-> w[1], to |-> w[2]]
    BY <1>2
  <2>2. w[1] \in Nat
    BY <1>0 DEF CompensationAssumption
  <2> QED
    BY <2>1, <2>2
<1>3. CASE \E r \in DOMAIN rules, d \in {w[2] : w \in Windows} \cap Days :
              o = [kind |-> "endRule", r |-> r, to |-> d, from |-> FirstChanged(r, d)]
  <2>1. PICK r \in DOMAIN rules, d \in Nat :
              o = [kind |-> "endRule", r |-> r, to |-> d, from |-> FirstChanged(r, d)]
    BY <1>0, <1>3
  <2>2. PICK to \in Nat : to = rules[r].to
    BY <1>0 DEF RuleRows
  <2>3. d \in Int /\ to \in Int
    OBVIOUS
  <2>4. Min({d, to}) \in {d, to}
    BY <2>3, MaxOfTwo
  <2>5. FirstChanged(r, d) = Min({d, to}) + 1
    BY <2>2 DEF FirstChanged
  <2> QED
    BY <2>1, <2>4, <2>5
<1>4. CASE \E r \in DOMAIN rules : o = [kind |-> "voidRule", r |-> r, from |-> rules[r].from]
  <2>1. PICK r \in DOMAIN rules : o = [kind |-> "voidRule", r |-> r, from |-> rules[r].from]
    BY <1>4
  <2>2. rules[r].from \in Nat
    BY <1>0 DEF RuleRows
  <2> QED
    BY <2>1, <2>2
<1>5. o.kind \notin {"create", "update", "structure", "retire", "currency", "transfer"} \cup PeriodKinds
  BY DEF PayKinds, RuleKinds, PeriodKinds
<1>6. \/ \E w \in Windows : o = [kind |-> "create", w |-> w]
      \/ \E s \in DOMAIN sched, w \in Windows : o = [kind |-> "update", s |-> s, w |-> w]
      \/ \E k \in {"replace", "approve", "discard", "void"}, s \in DOMAIN sched :
              o = [kind |-> k, s |-> s, from |-> sched[s].from]
      \/ \E y \in RuleTypes, a \in RuleAmounts, w \in Windows :
              o = [kind |-> "createRule", type |-> y, amount |-> a, from |-> w[1], to |-> w[2]]
      \/ \E r \in DOMAIN rules, d \in {w[2] : w \in Windows} \cap Days :
              o = [kind |-> "endRule", r |-> r, to |-> d, from |-> FirstChanged(r, d)]
      \/ \E r \in DOMAIN rules : o = [kind |-> "voidRule", r |-> r, from |-> rules[r].from]
      \/ \E h \in Shapes : o = [kind |-> "structure", shape |-> h]
      \/ o = [kind |-> "retire"]
      \/ \E m \in Minors : o = [kind |-> "currency", minor |-> m]
      \/ \E k \in PeriodKinds, p \in Periods : o = [kind |-> k, p |-> p]
      \/ \E p \in Periods : o = [kind |-> "submit", p |-> p, seen |-> pstat[p]]
      \/ \E at \in TransferAt : o = [kind |-> "transfer", at |-> at]
  BY DEF Requests
<1> QED
  BY <1>1, <1>2, <1>3, <1>4, <1>5, <1>6 DEF PeriodKinds

\* The request of a transaction after a step.
LEMMA WhoseStep ==
    ASSUME LockInv, [Next]_vars, NEW t \in Txns
    PROVE  \/ tx'[t] = tx[t]
           \/ \E o \in Requests : Begin(t, o) /\ tx'[t].op = o /\ tx'[t].held = {} /\ ~tx'[t].decided
           \/ Acquire(t) /\ tx'[t].decided = tx[t].decided /\ tx'[t].op = tx[t].op
              /\ tx'[t].held = tx[t].held \cup {NextLock(t)}
              /\ tx'[t].branches = IF NextLock(t) = TenureRows /\ tx[t].op.kind \in PayKinds
                                   THEN BranchesFrom(tx[t].op.from) ELSE tx[t].branches
           \/ Decide(t) /\ tx'[t].op = tx[t].op /\ tx'[t].held = tx[t].held
              /\ tx'[t].branches = tx[t].branches /\ tx'[t].decided
           \/ Done(t) /\ tx'[t].op = Idle /\ tx'[t].held = {} /\ ~tx'[t].decided
<1>0. tx = [v \in Txns |-> tx[v]] /\ \A v \in Txns : tx[v] = Transaction(tx[v])
  BY DEF LockInv, LocksFit
<1>1. CASE tx' = tx
  BY <1>1
<1>2. ASSUME NEW u \in Txns, u # t,
             (\E o \in Requests : Begin(u, o)) \/ Acquire(u) \/ Decide(u) \/ Done(u)
      PROVE  tx'[t] = tx[t]
  BY <1>0, <1>2 DEF Begin, Acquire, Decide, Done
<1>3. ASSUME NEW o \in Requests, Begin(t, o)
      PROVE  tx'[t].op = o /\ tx'[t].held = {} /\ ~tx'[t].decided
  BY <1>0, <1>3 DEF Begin, NewTx
<1>4. ASSUME Acquire(t)
      PROVE  /\ tx'[t].decided = tx[t].decided /\ tx'[t].op = tx[t].op
             /\ tx'[t].held = tx[t].held \cup {NextLock(t)}
             /\ tx'[t].branches = IF NextLock(t) = TenureRows /\ tx[t].op.kind \in PayKinds
                                  THEN BranchesFrom(tx[t].op.from) ELSE tx[t].branches
  BY <1>0, <1>4 DEF Acquire, Transaction
<1>5. ASSUME Decide(t)
      PROVE  /\ tx'[t].op = tx[t].op /\ tx'[t].held = tx[t].held
             /\ tx'[t].branches = tx[t].branches /\ tx'[t].decided
  BY <1>0, <1>5 DEF Decide, Transaction
<1>6. ASSUME Done(t)
      PROVE  tx'[t].op = Idle /\ tx'[t].held = {} /\ ~tx'[t].decided
  BY <1>0, <1>6 DEF Done, NewTx
<1> QED
  BY <1>1, <1>2, <1>3, <1>4, <1>5, <1>6, Frames

\* While a transaction holds the driver's assignments, it alone may move him.
LEMMA TransferExcluded ==
    ASSUME LockInv, NEW t \in Txns, TenureRows \in tx[t].held, NEW u \in Txns, u # t
    PROVE  ~Transfer(u)
<1> SUFFICES ASSUME Transfer(u) PROVE FALSE
  OBVIOUS
<1>1. tx[u].op.kind = "transfer" /\ Wanted(u) = {}
  BY DEF Transfer, Ready
<1>2. TenureRows \in Exclusive(tx[u].op, tx[u].branches) /\ TenureRows \notin Shared(tx[u].op)
  BY <1>1 DEF Exclusive, Shared, ScheduleKinds, RuleKinds, Company, TenureRows
<1>3. TenureRows \in tx[u].held
  BY <1>1, <1>2, DecidedHolds
<1> QED
  BY <1>2, <1>3 DEF LockInv, Exclusion

\* The branches that a pay change has learned stay all it may touch.
LEMMA BranchesKept ==
    ASSUME CompensationAssumption, LockInv, PayInv, SettledInv, [Next]_vars, NEW t \in Txns
    PROVE  BranchesFit(t)'
<1>0. /\ TenuresFit /\ BranchesFit(t) /\ roster \in [Periods -> SUBSET Days] /\ Days \subseteq Nat
      /\ \A p \in Periods : roster[p] \subseteq DaysOf[p]
      /\ \A u \in Txns : RequestFits(tx[u].op)
  BY DEF LockInv, PayInv, SettledInv, PeriodsFit, Days
<1> DEFINE Knows(from, branches) ==
              /\ \A i \in DOMAIN tenures : tenures[i].to > 2 * from - 2 => tenures[i].branch \in branches
              /\ \A p \in Periods : \A d \in roster[p] : d >= from => BranchOf[p] \in branches
<1>1. ASSUME tx'[t].op.kind \in PayKinds => tx'[t].op.from \in Nat,
             NEW from, from = tx'[t].op.from, NEW branches, branches = tx'[t].branches,
             tx'[t].op.kind \in PayKinds /\ TenureRows \in tx'[t].held =>
                Knows(from, branches) /\ from \in Nat /\ \A u \in Txns : ~Transfer(u)
      PROVE  BranchesFit(t)'
  <2> SUFFICES ASSUME tx'[t].op.kind \in PayKinds, TenureRows \in tx'[t].held
               PROVE  /\ \A i \in DOMAIN tenures' :
                            tenures'[i].to > 2 * from - 2 => tenures'[i].branch \in branches
                      /\ \A p \in Periods : \A d \in roster'[p] : d >= from => BranchOf[p] \in branches
    BY <1>1 DEF BranchesFit
  <2>1. tenures' = tenures /\ from \in Nat
    BY <1>1, Frames
  <2>2. CASE roster' = roster
    BY <1>1, <2>1, <2>2
  <2>3. ASSUME NEW u \in Txns, OpenPeriod(u), NEW p \in Periods, NEW d \in roster'[p], d >= from
        PROVE  BranchOf[p] \in branches
    <3>1. PICK q \in Periods : q = tx[u].op.p
      BY <1>0, <2>3 DEF OpenPeriod, Ready, RequestFits, PeriodKinds
    <3>2. roster' = [roster EXCEPT ![q] = UNION {CoveredDays(k, q) : k \in TenureOf(q)}]
      BY <2>3, <3>1 DEF OpenPeriod
    <3>3. CASE p # q
      BY <1>0, <1>1, <2>3, <3>2, <3>3
    <3>4. CASE p = q
      <4>1. PICK k \in TenureOf(q) : d \in CoveredDays(k, q)
        BY <1>0, <2>3, <3>2, <3>4
      <4>2. k \in DOMAIN tenures /\ tenures[k].branch = BranchOf[q] /\ 2 * d - 2 < tenures[k].to
        BY <4>1 DEF TenureOf, CoveredDays, Covers
      <4>3. d \in Nat /\ tenures[k].to \in Nat
        <5>1. d \in DaysOf[q]
          BY <4>1 DEF CoveredDays
        <5> QED
          BY <1>0, <4>2, <5>1, TenureFacts DEF CompensationAssumption
      <4>4. 2 * from - 2 < tenures[k].to
        BY <2>1, <2>3, <4>2, <4>3
      <4>5. tenures[k].to > 2 * from - 2
        BY <2>1, <4>3, <4>4
      <4> QED
        BY <1>1, <3>4, <4>2, <4>5
    <3> QED
      BY <3>3, <3>4
  <2> HIDE DEF Knows
  <2>4. CASE \E u \in Txns : OpenPeriod(u)
    BY <1>1, <2>1, <2>3, <2>4 DEF Knows
  <2> QED
    BY <1>1, <2>2, <2>4, Frames
<1>2. PICK from, branches : from = tx'[t].op.from /\ branches = tx'[t].branches
  OBVIOUS
<1>3. CASE tx'[t] = tx[t]
  <2>1. ASSUME tx[t].op.kind \in PayKinds, TenureRows \in tx[t].held
        PROVE  \A u \in Txns : ~Transfer(u)
    <3>1. ~Transfer(t)
      BY <2>1 DEF Transfer, Ready, PayKinds, RuleKinds
    <3> QED
      BY <2>1, <3>1, TransferExcluded
  <2> QED
    BY <1>0, <1>1, <1>2, <1>3, <2>1 DEF BranchesFit
<1>4. ASSUME NEW o \in Requests, Begin(t, o), tx'[t].op = o, tx'[t].held = {}
      PROVE  BranchesFit(t)'
  <2>1. o.kind \in PayKinds => o.from \in Nat
    BY DatesAreNumbers
  <2> QED
    BY <1>4, <2>1 DEF BranchesFit
<1>5. ASSUME tx'[t].op = Idle PROVE BranchesFit(t)'
  BY <1>5 DEF BranchesFit, Idle, PayKinds, RuleKinds
<1>6. ASSUME Acquire(t), tx'[t].op = tx[t].op, tx'[t].held = tx[t].held \cup {NextLock(t)},
             tx'[t].branches = IF NextLock(t) = TenureRows /\ tx[t].op.kind \in PayKinds
                               THEN BranchesFrom(tx[t].op.from) ELSE tx[t].branches
      PROVE  BranchesFit(t)'
  <2>1. tenures' = tenures /\ roster' = roster
    BY <1>6 DEF Acquire, payroll
  <2>2. CASE NextLock(t) = TenureRows /\ tx[t].op.kind \in PayKinds
    <3>1. from = tx[t].op.from /\ branches = BranchesFrom(from) /\ from \in Nat
      BY <1>0, <1>2, <1>6, <2>2 DEF BranchesFit
    <3>2. \A i \in DOMAIN tenures : tenures[i].to > 2 * from - 2 => tenures[i].branch \in branches
      BY <3>1 DEF BranchesFrom
    <3>3. ASSUME NEW p \in Periods, NEW d \in roster[p], d >= from
          PROVE  BranchOf[p] \in branches
      <4>1. PICK max \in Nat : max = Max(DaysOf[p]) /\ d <= max /\ d \in Nat
        <5>1. d \in DaysOf[p]
          BY <1>0
        <5> QED
          BY <5>1, DaysBounds
      <4>2. Max(DaysOf[p]) >= from
        BY <3>1, <3>3, <4>1
      <4>3. p \in {q \in Periods : roster[q] # {} /\ Max(DaysOf[q]) >= from}
        BY <4>2
      <4> QED
        BY <3>1, <4>3 DEF BranchesFrom
    <3> QED
      BY <1>2, <1>6, <2>1, <3>1, <3>2, <3>3 DEF BranchesFit
  <2>3. CASE ~(NextLock(t) = TenureRows /\ tx[t].op.kind \in PayKinds)
    BY <1>0, <1>6, <2>1, <2>3 DEF BranchesFit
  <2> QED
    BY <2>2, <2>3
<1>7. ASSUME Decide(t), tx'[t].op = tx[t].op, tx'[t].held = tx[t].held, tx'[t].branches = tx[t].branches
      PROVE  BranchesFit(t)'
  BY <1>0, <1>7 DEF Decide, payroll, BranchesFit
<1> QED
  BY <1>3, <1>4, <1>5, <1>6, <1>7, WhoseStep

\* A lock that cannot be shared has one holder.
LEMMA HeldAlone ==
    ASSUME LockInv, NEW t \in Txns, NEW u \in Txns, u # t, NEW l,
           l \in tx[t].held, l \in tx[u].held
    PROVE  l \in {Company, TenureRows}
<1>1. l \in Shared(tx[t].op)
  BY DEF LockInv, Exclusion
<1> QED
  BY <1>1 DEF Shared

\* Whoever writes schedules holds the lock of the definition's structure.
LEMMA SchedulesFrozen ==
    ASSUME LockInv, [Next]_vars, NEW t \in Txns, tx[t].op.kind \in {"approve", "void"},
           tx[t].decided, tx'[t].op = tx[t].op
    PROVE  sched' = sched
<1>0. tx = [v \in Txns |-> tx[v]] /\ Structure \notin {Company, TenureRows}
  BY DEF LockInv, Structure, Company, TenureRows
<1>1. ASSUME NEW u \in Txns, tx[u].op.kind \in ScheduleKinds, tx[u].decided \/ Wanted(u) = {}
      PROVE  Structure \in tx[u].held
  <2>1. Structure \in Exclusive(tx[u].op, tx[u].branches)
    BY <1>1 DEF Exclusive
  <2> QED
    BY <1>1, <2>1, DecidedHolds
<1>2. Structure \in tx[t].held
  BY <1>1 DEF ScheduleKinds
<1>3. ASSUME NEW u \in Txns,
             \/ CreatePending(u) \/ UpdatePending(u) \/ ReplaceValues(u)
             \/ Approve(u) \/ Discard(u) \/ VoidSchedule(u)
      PROVE  FALSE
  <2>1. tx[u].op.kind \in ScheduleKinds /\ (tx[u].decided \/ Wanted(u) = {}) /\ Done(u)
    BY <1>3 DEF CreatePending, UpdatePending, ReplaceValues, Approve, Discard, VoidSchedule,
                Ready, Decided, ScheduleKinds
  <2>2. u # t
    BY <1>0, <2>1 DEF Done, NewTx, Idle
  <2> QED
    BY <1>0, <1>1, <1>2, <2>1, <2>2, HeldAlone
<1> QED
  BY <1>3, Frames

\* Whoever closes or voids a rule holds the lock of its row.
LEMMA RuleFrozen ==
    ASSUME CompensationAssumption, LockInv, PayInv, [Next]_vars, NEW t \in Txns,
           tx[t].op.kind \in {"endRule", "voidRule"}, tx[t].decided, tx'[t].op = tx[t].op
    PROVE  rules'[tx[t].op.r] = rules[tx[t].op.r]
<1>0. /\ tx = [v \in Txns |-> tx[v]] /\ \A u \in Txns : RequestFits(tx[u].op)
      /\ rules \in Seq(RuleRows) /\ Len(rules) <= MaxRules /\ MaxRules \in Nat
      /\ DOMAIN rules \subseteq RuleIds
  BY DEF LockInv, PayInv, RulesFit, RuleIds, CompensationAssumption
<1>1. ASSUME NEW u \in Txns, tx[u].op.kind \in {"endRule", "voidRule"}, tx[u].decided
      PROVE  RuleRow(tx[u].op.r) \in tx[u].held
  <2>1. tx[u].op.r \in RuleIds
    BY <1>0, <1>1 DEF RequestFits
  <2>2. RuleRow(tx[u].op.r) \in Exclusive(tx[u].op, tx[u].branches)
    BY <1>1, <2>1 DEF Exclusive
  <2> QED
    BY <1>1, <2>2, DecidedHolds
<1>2. PICK r \in DOMAIN rules : r = tx[t].op.r
  BY <1>0 DEF RequestFits
<1>3. RuleRow(r) \in tx[t].held /\ RuleRow(r) \notin {Company, TenureRows}
  <2>1. r \in Nat
    BY <1>0
  <2> QED
    BY <1>1, <1>2, <2>1 DEF RuleRow, Company, TenureRows
<1>4. ASSUME NEW u \in Txns, CreateRule(u) PROVE rules'[r] = rules[r]
  <2>1. PICK row : rules' = Append(rules, row)
    BY <1>4 DEF CreateRule
  <2> QED
    BY <1>0, <2>1
<1>5. ASSUME NEW u \in Txns, EndRule(u) \/ VoidRule(u) PROVE rules'[r] = rules[r]
  <2>1. tx[u].op.kind \in {"endRule", "voidRule"} /\ tx[u].decided /\ Done(u)
    BY <1>5 DEF EndRule, VoidRule, Decided
  <2>2. PICK q \in DOMAIN rules : q = tx[u].op.r
    BY <1>0, <2>1 DEF RequestFits
  <2>3. u # t
    BY <1>0, <2>1 DEF Done, NewTx, Idle
  <2>4. RuleRow(q) \in tx[u].held
    BY <1>1, <2>1, <2>2
  <2>5. q # r
    BY <1>3, <2>3, <2>4, HeldAlone
  <2>6. \E row : rules' = [rules EXCEPT ![q] = row]
    <3>1. CASE EndRule(u)
      BY <2>2, <3>1 DEF EndRule
    <3>2. CASE VoidRule(u)
      BY <2>2, <3>2 DEF VoidRule
    <3> QED
      BY <1>5, <3>1, <3>2
  <2> QED
    BY <2>5, <2>6
<1> QED
  BY <1>2, <1>4, <1>5, Frames

\* No work from the date of a decided change on is finalized under it.
LEMMA FinalizedFrozen ==
    ASSUME CompensationAssumption, LockInv, PayInv, SettledInv, [Next]_vars,
           NEW t \in Txns, tx[t].decided
    PROVE  \A p \in Finalized' : \/ p \in Finalized /\ roster'[p] = roster[p]
                                 \/ \A d \in roster'[p] : d < tx[t].op.from
<1>0. /\ BranchesFit(t) /\ PeriodsFit /\ \A u \in Txns : RequestFits(tx[u].op)
      /\ tx[t].op.kind \in PayKinds /\ Wanted(t) = {}
      /\ pstat \in [Periods -> {"none", "Open", "Review", "Returned", "Locked"}]
      /\ roster \in [Periods -> SUBSET Days] /\ Days \subseteq Nat
      /\ \A p \in Periods : BranchOf[p] \in Nat /\ BranchOf[p] # 0
  BY DEF LockInv, LocksFit, PayInv, SettledInv, PeriodsFit, Days, CompensationAssumption
<1>1. Shared(tx[t].op) \cup Exclusive(tx[t].op, tx[t].branches) \subseteq tx[t].held
  BY DecidedHolds
<1>2. TenureRows \in tx[t].held
  BY <1>0, <1>1 DEF Shared, PayKinds, ScheduleKinds
<1>3. \A u \in Txns : ~Transfer(u)
  <2>1. ~Transfer(t)
    BY <1>0 DEF Transfer, Ready, PayKinds, RuleKinds
  <2> QED
    BY <1>2, <2>1, TransferExcluded
<1>4. ASSUME NEW p \in Periods, pstat'[p] = "Locked", roster'[p] # roster[p]
      PROVE  FALSE
  <2>1. PICK u \in Txns : OpenPeriod(u)
    BY <1>3, <1>4, Frames
  <2>2. PICK q \in Periods : q = tx[u].op.p
    BY <1>0, <2>1 DEF OpenPeriod, Ready, RequestFits, PeriodKinds
  <2>3. pstat' = [pstat EXCEPT ![q] = "Open"] /\ \E R : roster' = [roster EXCEPT ![q] = R]
    BY <2>1, <2>2 DEF OpenPeriod
  <2> QED
    BY <1>0, <1>4, <2>3
<1>5. ASSUME NEW p \in Periods, pstat'[p] = "Locked", pstat[p] # "Locked"
      PROVE  \A d \in roster[p] : d < tx[t].op.from
  <2>1. PICK u \in Txns : OpenPeriod(u) \/ Submit(u) \/ Return(u) \/ Finalize(u)
    BY <1>5, Frames
  <2>2. PICK q \in Periods : q = tx[u].op.p
    BY <1>0, <2>1 DEF OpenPeriod, Submit, Return, Finalize, Ready, RequestFits, PeriodKinds
  <2>3. \E s \in {"Open", "Review", "Returned", "Locked"} :
           pstat' = [pstat EXCEPT ![q] = s] /\ (Finalize(u) \/ s # "Locked")
    BY <2>1, <2>2 DEF OpenPeriod, Submit, Return, Finalize
  <2>4. Finalize(u) /\ p = q
    BY <1>0, <1>5, <2>3
  <2>5. tx[u].op.kind = "finalize" /\ Wanted(u) = {} /\ tx[u].branches = {BranchOf[p]}
    <3>1. tx[u].op.kind = "finalize" /\ Wanted(u) = {}
      BY <2>4 DEF Finalize, Ready
    <3>2. OwnBranches(tx[u].op) = {BranchOf[p]}
      BY <2>2, <2>4, <3>1 DEF OwnBranches, PeriodKinds
    <3> QED
      BY <3>1, <3>2 DEF LockInv, LocksFit, PayKinds, RuleKinds
  <2>6. Workflow(BranchOf[p]) \in tx[u].held
    BY <2>5, DecidedHolds DEF Exclusive
  <2>7. u # t
    BY <1>0, <2>5 DEF PayKinds, RuleKinds
  <2>8. Workflow(BranchOf[p]) \notin {Company, TenureRows}
    BY <1>0 DEF Workflow, Company, TenureRows
  <2>9. BranchOf[p] \notin tx[t].branches
    <3> SUFFICES ASSUME BranchOf[p] \in tx[t].branches PROVE FALSE
      OBVIOUS
    <3>1. Workflow(BranchOf[p]) \in Exclusive(tx[t].op, tx[t].branches)
      BY DEF Exclusive
    <3> QED
      BY <1>1, <2>6, <2>7, <2>8, <3>1, HeldAlone
  <2>10. \A d \in roster[p] : ~(d >= tx[t].op.from) /\ d \in Nat /\ tx[t].op.from \in Nat
    BY <1>0, <1>2, <2>9 DEF BranchesFit
  <2> QED
    BY <2>10
<1> QED
  <2> SUFFICES ASSUME NEW p \in Finalized'
               PROVE  \/ p \in Finalized /\ roster'[p] = roster[p]
                      \/ \A d \in roster'[p] : d < tx[t].op.from
    OBVIOUS
  <2>1. p \in Periods /\ pstat'[p] = "Locked" /\ roster'[p] # {}
    BY DEF Finalized
  <2>2. roster'[p] = roster[p]
    BY <1>4, <2>1
  <2>3. CASE pstat[p] = "Locked"
    BY <2>1, <2>2, <2>3 DEF Finalized
  <2>4. CASE pstat[p] # "Locked"
    BY <1>5, <2>1, <2>2, <2>4
  <2> QED
    BY <2>3, <2>4

\* Nothing that a decided change touches is paid before it is written.
LEMMA PaidFrozen ==
    ASSUME CompensationAssumption, LockInv, PayInv, SettledInv, [Next]_vars,
           NEW t \in Txns, tx[t].decided, NEW from, from = tx[t].op.from, NEW to
    PROVE  /\ NothingPaid(from, to) => NothingPaid(from, to)'
           /\ NoFinalizedStart(from, to) => NoFinalizedStart(from, to)'
<1>0. /\ from \in Nat /\ \A p \in Periods : roster'[p] \subseteq DaysOf[p]
      /\ \A p \in Periods : \A d \in DaysOf[p] : d \in Nat
  <2>1. from \in Nat
    BY DEF SettledInv, BranchesFit, LockInv, LocksFit
  <2> QED
    BY <2>1, PeriodsKept DEF PeriodsFit, CompensationAssumption, Days
<1>1. \A p \in Finalized' : \/ p \in Finalized /\ roster'[p] = roster[p]
                            \/ \A d \in roster'[p] : d < from
  BY FinalizedFrozen
<1>2. \A p \in Finalized' : p \in Periods /\ roster'[p] # {}
  BY DEF Finalized
<1>3. ASSUME NothingPaid(from, to) PROVE NothingPaid(from, to)'
  <2>1. \A p \in Finalized' : \A d \in roster'[p] : d \notin from .. to
    BY <1>0, <1>1, <1>2, <1>3 DEF NothingPaid
  <2> QED
    BY <2>1 DEF NothingPaid
<1>4. ASSUME NoFinalizedStart(from, to) PROVE NoFinalizedStart(from, to)'
  <2>1. ASSUME NEW p \in Finalized' PROVE Min(DaysOf[p]) \notin from .. to
    <3>1. CASE p \in Finalized
      BY <1>4, <3>1 DEF NoFinalizedStart
    <3>2. CASE \A d \in roster'[p] : d < from
      <4>1. PICK d \in roster'[p] : TRUE
        BY <1>2
      <4>2. d \in DaysOf[p] /\ d < from /\ d \in Nat
        BY <1>0, <1>2, <3>2, <4>1
      <4>3. PICK min \in Nat : min = Min(DaysOf[p]) /\ min <= d
        BY <1>2, <4>2, DaysBounds
      <4> QED
        BY <1>0, <4>2, <4>3
    <3> QED
      BY <1>1, <3>1, <3>2
  <2> QED
    BY <2>1 DEF NoFinalizedStart
<1> QED
  BY <1>3, <1>4

\* A decision stands until it is written.
LEMMA DecisionsKept ==
    ASSUME CompensationAssumption, LockInv, PayInv, SettledInv, [Next]_vars, NEW t \in Txns
    PROVE  DecisionHolds(t)'
<1>0. /\ DecisionHolds(t) /\ RequestFits(tx[t].op)
      /\ tx[t].decided => tx[t].op.kind \in PayKinds /\ Wanted(t) = {}
      /\ \A p \in Periods : roster[p] \subseteq DaysOf[p]
  BY DEF LockInv, LocksFit, PayInv, PeriodsFit, SettledInv
<1>1. PICK o : o = tx[t].op
  OBVIOUS
<1>2. ASSUME tx'[t].op = o, tx'[t].decided => Stands(o)' PROVE DecisionHolds(t)'
  BY <1>2 DEF DecisionHolds
<1>3. ASSUME tx'[t] = tx[t] PROVE DecisionHolds(t)'
  <2> SUFFICES ASSUME tx[t].decided PROVE Stands(o)'
    BY <1>1, <1>2, <1>3
  <2>1. Stands(o)
    BY <1>0, <1>1 DEF DecisionHolds
  <2>2. \A to : /\ NothingPaid(o.from, to) => NothingPaid(o.from, to)'
                /\ NoFinalizedStart(o.from, to) => NoFinalizedStart(o.from, to)'
    BY <1>1, PaidFrozen
  <2>3. CASE o.kind = "approve"
    <3>1. sched' = sched
      BY <1>1, <1>3, <2>3, SchedulesFrozen
    <3>2. PICK to : to = FootprintEnd(o.s) /\ to = FootprintEnd(o.s)'
      BY <3>1 DEF FootprintEnd, Approved
    <3>3. NothingPaid(o.from, FootprintEnd(o.s))'
      BY <2>1, <2>2, <2>3, <3>2 DEF Stands, NothingPaid
    <3> QED
      BY <2>1, <2>3, <3>1, <3>3 DEF Stands, IsPending
  <2>4. CASE o.kind = "void"
    <3>1. sched' = sched
      BY <1>1, <1>3, <2>4, SchedulesFrozen
    <3>2. PICK to : to = sched[o.s].to /\ to = sched'[o.s].to
      BY <3>1
    <3>3. NothingPaid(o.from, sched[o.s].to)'
      BY <2>1, <2>2, <2>4, <3>2 DEF Stands, NothingPaid
    <3> QED
      BY <2>1, <2>4, <3>1, <3>3 DEF Stands, IsVoidable
  <2>5. CASE o.kind = "createRule"
    <3>1. NoFinalizedStart(o.from, o.to)'
      BY <2>1, <2>2, <2>5 DEF Stands
    <3> QED
      BY <2>5, <3>1 DEF Stands
  <2>6. CASE o.kind = "endRule"
    <3>1. rules'[o.r] = rules[o.r] /\ o.r \in DOMAIN rules'
      BY <1>0, <1>1, <1>3, <2>1, <2>6, RuleFrozen, RulesKept DEF Stands, RulesGrow
    <3>2. PICK to : to = LastChanged(o.r, o.to) /\ to = LastChanged(o.r, o.to)'
      BY <3>1 DEF LastChanged
    <3>3. NoFinalizedStart(o.from, LastChanged(o.r, o.to))'
      BY <2>1, <2>2, <2>6, <3>2 DEF Stands, NoFinalizedStart
    <3>4. FirstChanged(o.r, o.to)' = FirstChanged(o.r, o.to)
      BY <3>1 DEF FirstChanged
    <3> QED
      BY <2>1, <2>6, <3>1, <3>3, <3>4 DEF Stands
  <2>7. CASE o.kind = "voidRule"
    <3>1. rules'[o.r] = rules[o.r] /\ o.r \in DOMAIN rules'
      BY <1>0, <1>1, <1>3, <2>1, <2>7, RuleFrozen, RulesKept DEF Stands, RulesGrow
    <3>2. PICK to : to = rules[o.r].to /\ to = rules'[o.r].to
      BY <3>1
    <3>3. NoFinalizedStart(o.from, rules[o.r].to)'
      BY <2>1, <2>2, <2>7, <3>2 DEF Stands, NoFinalizedStart
    <3> QED
      BY <2>1, <2>7, <3>1, <3>3 DEF Stands
  <2> QED
    BY <1>0, <1>1, <2>3, <2>4, <2>5, <2>6, <2>7 DEF PayKinds, RuleKinds
<1>4. ASSUME Acquire(t), tx'[t].decided = tx[t].decided PROVE DecisionHolds(t)'
  BY <1>0, <1>4 DEF Acquire, DecisionHolds
<1>5. ASSUME ~tx'[t].decided PROVE DecisionHolds(t)'
  BY <1>5 DEF DecisionHolds
<1>6. ASSUME Decide(t), tx'[t].op = o PROVE DecisionHolds(t)'
  <2>1. Allowed(o) /\ o.kind \in PayKinds /\ UNCHANGED <<sched, rules, pstat, roster>>
    BY <1>1, <1>6 DEF Decide, monetary, payroll
  <2>2. ASSUME NEW from, NEW to, NoFinalizedWork(from, to) PROVE NothingPaid(from, to)
    <3>1. \A p \in Finalized : p \in Periods /\ DaysOf[p] \cap (from .. to) = {}
      BY <2>2 DEF NoFinalizedWork, Finalized
    <3> QED
      BY <1>0, <3>1 DEF NothingPaid
  <2>3. Stands(o)
    <3>1. CASE o.kind = "approve"
      BY <1>0, <1>1, <2>1, <2>2, <3>1 DEF Allowed, ApproveAllowed, SameSchedule, Stands, RequestFits, ScheduleKinds
    <3>2. CASE o.kind = "void"
      BY <1>0, <1>1, <2>1, <2>2, <3>2 DEF Allowed, VoidAllowed, SameSchedule, Stands, RequestFits, ScheduleKinds
    <3>3. CASE o.kind = "createRule"
      BY <2>1, <3>3 DEF Allowed, CreateRuleAllowed, Stands
    <3>4. CASE o.kind = "endRule"
      BY <1>0, <1>1, <2>1, <3>4 DEF Allowed, EndRuleAllowed, Stands, RequestFits
    <3>5. CASE o.kind = "voidRule"
      BY <1>0, <1>1, <2>1, <3>5 DEF Allowed, VoidRuleAllowed, Stands, RequestFits
    <3> QED
      BY <2>1, <3>1, <3>2, <3>3, <3>4, <3>5 DEF PayKinds, RuleKinds
  <2>4. \A p : p \in Finalized' <=> p \in Finalized
    BY <2>1 DEF Finalized
  <2>5. \A from, to : /\ NothingPaid(from, to) => NothingPaid(from, to)'
                      /\ NoFinalizedStart(from, to) => NoFinalizedStart(from, to)'
    BY <2>1, <2>4 DEF NothingPaid, NoFinalizedStart
  <2>6. /\ \A s : FootprintEnd(s)' = FootprintEnd(s)
        /\ \A r, to : /\ FirstChanged(r, to)' = FirstChanged(r, to)
                      /\ LastChanged(r, to)' = LastChanged(r, to)
    BY <2>1 DEF FootprintEnd, Approved, FirstChanged, LastChanged
  <2>7. Stands(o)'
    <3>1. CASE o.kind = "approve"
      BY <2>1, <2>3, <2>5, <2>6, <3>1 DEF Stands, IsPending
    <3>2. CASE o.kind = "void"
      BY <2>1, <2>3, <2>5, <3>2 DEF Stands, IsVoidable
    <3>3. CASE o.kind \in RuleKinds
      BY <2>1, <2>3, <2>5, <2>6, <3>3 DEF Stands, RuleKinds
    <3> QED
      BY <2>1, <3>1, <3>2, <3>3 DEF PayKinds
  <2> QED
    BY <1>2, <1>6, <2>7
<1> QED
  BY <1>1, <1>3, <1>4, <1>5, <1>6, WhoseStep

\* Every step keeps the decisions.
LEMMA SettledKept ==
    ASSUME CompensationAssumption, LockInv, PayInv, SettledInv, [Next]_vars
    PROVE  SettledInv'
BY BranchesKept, DecisionsKept DEF SettledInv

\* At the start nothing is decided.
LEMMA SettledStarts ==
    ASSUME Init
    PROVE  SettledInv
<1>1. ASSUME NEW t \in Txns
      PROVE  tx[t].op.kind = "idle" /\ tx[t].held = {} /\ ~tx[t].decided
  BY DEF Init, NewTx, Idle
<1> QED
  BY <1>1 DEF SettledInv, BranchesFit, DecisionHolds, PayKinds, RuleKinds

\* And nothing ever makes a decision wrong that was taken under its locks.
THEOREM SettledInvariance == Spec => [](LockInv /\ PayInv /\ SettledInv)
<1>1. Init => LockInv /\ PayInv /\ SettledInv
  BY CompensationAssumption, PayStarts, SettledStarts
<1>2. LockInv /\ PayInv /\ SettledInv /\ [Next]_vars => (LockInv /\ PayInv /\ SettledInv)'
  BY CompensationAssumption, ScaleAssumption, TopologyAssumption, PayKept, SettledKept
<1> QED
  BY <1>1, <1>2, PTL DEF Spec

\* Two sets with the same members.
LEMMA SameMembers ==
    ASSUME NEW A, NEW B, \A x : x \in A <=> x \in B
    PROVE  A = B
OBVIOUS

\* What can be written on a date can be written on every later one.
LEMMA WritableLater ==
    ASSUME CompensationAssumption, TenuresFit, now \in Clock, NEW f \in Nat, NEW d \in Days, f <= d,
           ContextWritable(f), NEW i \in Context(d)
    PROVE  ~(tenures[i].to <= now)
<1>0. d \in Nat /\ LastDay \in Nat /\ d <= LastDay /\ now \in Nat /\ now < Never /\ Never = 2 * LastDay + 1
  BY DEF CompensationAssumption, Days, Instants, Never
<1>1. PICK j \in DOMAIN tenures : Covers(tenures[j], f) /\ tenures[j].to > now
  BY DEF ContextWritable, Context
<1>2. i \in DOMAIN tenures /\ \A k \in DOMAIN tenures : Covers(tenures[k], d) => k <= i
  BY DEF Context
<1>3. CASE Len(tenures) = 1
  BY <1>0, <1>2, <1>3, TenureFacts
<1>4. CASE Len(tenures) = 2
  <2>1. PICK end \in Nat : /\ end = tenures[1].to /\ tenures[2].from = end /\ tenures[2].to = Never
                           /\ end < Never /\ i \in {1, 2} /\ j \in {1, 2} /\ 2 \in DOMAIN tenures
    BY <1>1, <1>2, <1>4, TenureFacts
  <2>2. CASE j = 2
    <3>1. end < 2 * f
      BY <1>1, <2>1, <2>2 DEF Covers
    <3>2. end < 2 * d /\ 2 * d - 2 < Never
      BY <1>0, <2>1, <3>1
    <3>3. Covers(tenures[2], d)
      BY <2>1, <3>2 DEF Covers
    <3>4. i = 2
      BY <1>2, <2>1, <3>3
    <3> QED
      BY <1>0, <2>1, <3>4
  <2>3. CASE j = 1
    <3>1. end > now
      BY <1>1, <2>1, <2>3
    <3> QED
      BY <1>0, <2>1, <3>1
  <2> QED
    BY <2>1, <2>2, <2>3
<1> QED
  BY <1>3, <1>4, TenureFacts

\* What a change that is allowed touches is not settled.
LEMMA Untouched ==
    ASSUME CompensationAssumption, TenuresFit, PayInv, NEW d \in Days, NEW f \in Nat, NEW to \in Nat,
           ContextWritable(f)
    PROVE  /\ Settled(d) /\ NothingPaid(f, to) => d < f \/ to < d
           /\ SettledStart(d) /\ NoFinalizedStart(f, to) => d < f \/ to < d
<1>0. d \in Nat /\ now \in Clock
  BY DEF Days, PayInv
<1> SUFFICES ASSUME f <= d, d <= to
             PROVE  ~(Settled(d) /\ NothingPaid(f, to)) /\ ~(SettledStart(d) /\ NoFinalizedStart(f, to))
  BY <1>0
<1>1. \A i \in Context(d) : ~(tenures[i].to <= now)
  BY <1>0, WritableLater
<1>2. d \in f .. to
  BY <1>0
<1> QED
  BY <1>1, <1>2 DEF Settled, SettledStart, NothingPaid, NoFinalizedStart

\* The rates of a settled day stay.
LEMMA RatesFrozen ==
    ASSUME CompensationAssumption, LockInv, PayInv, SettledInv, [Next]_vars, NEW d \in Days, Settled(d)
    PROVE  RatesOn(d)' = RatesOn(d)
<1>0. /\ sched \in Seq(ScheduleRows) /\ TenuresFit
      /\ \A t \in Txns : RequestFits(tx[t].op) /\ DecisionHolds(t)
      /\ Forever \in Nat /\ Days \subseteq Nat
  BY DEF PayInv, SchedFit, LockInv, SettledInv, Days, Forever, CompensationAssumption
<1>1. d \in Nat
  BY DEF Days, CompensationAssumption
<1>2. \A s \in DOMAIN sched :
         sched[s].from \in Nat /\ sched[s].to \in Nat /\ sched[s].to <= Forever
  <2>1. \A s \in DOMAIN sched : sched[s] \in ScheduleRows
    BY <1>0
  <2>2. \A x \in 0 .. Forever : x \in Nat /\ x <= Forever
    BY <1>0
  <2>3. ASSUME NEW s \in DOMAIN sched
        PROVE  sched[s].from \in Nat /\ sched[s].to \in Nat /\ sched[s].to <= Forever
    <3>1. sched[s].from \in Days /\ sched[s].to \in 0 .. Forever
      BY <2>1 DEF ScheduleRows
    <3>2. sched[s].from \in Nat
      BY <1>0, <3>1
    <3> QED
      BY <2>2, <3>1, <3>2
  <2> QED
    BY <2>3
<1>3. ASSUME \A s : s \in ResolvedOn(d)' <=> s \in ResolvedOn(d),
             \A s \in ResolvedOn(d) : sched'[s].values = sched[s].values
      PROVE  RatesOn(d)' = RatesOn(d)
  <2>1. \A x : x \in RatesOn(d)' <=> x \in RatesOn(d)
    BY <1>3 DEF RatesOn
  <2> QED
    BY <2>1, SameMembers
<1>4. ASSUME NEW s, s \in DOMAIN sched => sched[s].status \notin {"Approved", "Superseded"} \/ ~InWindow(d, sched[s]),
             sched'[s].status \notin {"Approved", "Superseded"} \/ ~InWindow(d, sched'[s]),
             \A q : q # s => (q \in DOMAIN sched' <=> q \in DOMAIN sched),
             \A q \in DOMAIN sched : q # s => sched'[q] = sched[q]
      PROVE  RatesOn(d)' = RatesOn(d)
  <2>1. s \notin ResolvedOn(d) /\ s \notin ResolvedOn(d)'
    BY <1>4 DEF ResolvedOn, Authoritative
  <2>2. \A q : q # s => (q \in ResolvedOn(d)' <=> q \in ResolvedOn(d))
    BY <1>4 DEF ResolvedOn, Authoritative
  <2>3. \A q \in ResolvedOn(d) : sched'[q].values = sched[q].values
    BY <1>4, <2>1 DEF ResolvedOn, Authoritative
  <2>4. \A q : q \in ResolvedOn(d)' <=> q \in ResolvedOn(d)
    BY <2>1, <2>2
  <2> QED
    BY <1>3, <2>3, <2>4
<1>5. ASSUME NEW t \in Txns, CreatePending(t) PROVE RatesOn(d)' = RatesOn(d)
  <2>1. PICK row : row.status = "Pending" /\ sched' = Append(sched, row)
    BY <1>5 DEF CreatePending
  <2>2. PICK n \in Nat : n = Len(sched) + 1
    BY <1>0
  <2>3. /\ n \notin DOMAIN sched /\ DOMAIN sched' = DOMAIN sched \cup {n} /\ sched'[n] = row
        /\ \A q \in DOMAIN sched : sched'[q] = sched[q]
    BY <1>0, <2>1, <2>2
  <2> QED
    BY <1>4, <2>1, <2>3
<1>6. ASSUME NEW t \in Txns, UpdatePending(t) \/ ReplaceValues(t) \/ Discard(t)
      PROVE  RatesOn(d)' = RatesOn(d)
  <2>1. PICK s \in DOMAIN sched : s = tx[t].op.s
    BY <1>0, <1>6 DEF UpdatePending, ReplaceValues, Discard, Ready, RequestFits, ScheduleKinds
  <2>2. sched[s].status = "Pending"
    BY <1>6, <2>1 DEF UpdatePending, ReplaceValues, Discard, IsPending
  <2>3. sched[s] \in ScheduleRows
    BY <1>0
  <2>4. /\ DOMAIN sched' = DOMAIN sched /\ \A q \in DOMAIN sched : q # s => sched'[q] = sched[q]
        /\ sched'[s].status \in {"Pending", "Discarded"}
    <3>1. CASE UpdatePending(t)
      <4>1. PICK w : sched' = [sched EXCEPT ![s] = [sched[s] EXCEPT !.from = w[1], !.to = w[2]]]
        BY <2>1, <2>3, <3>1 DEF UpdatePending, ScheduleRows
      <4> QED
        BY <2>2, <2>3, <4>1 DEF ScheduleRows
    <3>2. CASE ReplaceValues(t)
      <4>1. PICK v : sched' = [sched EXCEPT ![s] = [sched[s] EXCEPT !.values = v]]
        BY <2>1, <3>2 DEF ReplaceValues
      <4> QED
        BY <2>2, <2>3, <4>1 DEF ScheduleRows
    <3>3. CASE Discard(t)
      <4>1. sched' = [sched EXCEPT ![s] = [sched[s] EXCEPT !.status = "Discarded"]]
        BY <2>1, <3>3 DEF Discard
      <4> QED
        BY <2>3, <4>1 DEF ScheduleRows
    <3> QED
      BY <1>6, <3>1, <3>2, <3>3
  <2> QED
    BY <1>4, <2>2, <2>4
<1>7. ASSUME NEW t \in Txns, VoidSchedule(t) PROVE RatesOn(d)' = RatesOn(d)
  <2>1. PICK o : o = tx[t].op
    OBVIOUS
  <2>2. /\ o.s \in DOMAIN sched /\ sched[o.s].from = o.from /\ NothingPaid(o.from, sched[o.s].to)
        /\ ContextWritable(sched[o.s].from)
    BY <1>0, <1>7, <2>1 DEF VoidSchedule, Decided, DecisionHolds, Stands
  <2>3. PICK s \in DOMAIN sched : s = o.s
    BY <2>2
  <2>4. ~InWindow(d, sched[s])
    <3>1. PICK from \in Nat, to \in Nat : from = sched[s].from /\ to = sched[s].to
      BY <1>2
    <3>2. NothingPaid(from, to) /\ ContextWritable(from)
      BY <2>2, <2>3, <3>1
    <3>3. d < from \/ to < d
      BY <1>0, <3>2, Untouched
    <3> QED
      BY <1>1, <3>1, <3>3 DEF InWindow
  <2>5. sched' = [sched EXCEPT ![s] = [sched[s] EXCEPT !.status = "Voided"]]
    BY <1>7, <2>1, <2>3 DEF VoidSchedule
  <2>6. sched[s] \in ScheduleRows
    BY <1>0
  <2>7. [sched[s] EXCEPT !.status = "Voided"].status = "Voided"
    BY <2>6 DEF ScheduleRows
  <2> QED
    BY <1>4, <2>4, <2>5, <2>7
<1>8. ASSUME NEW t \in Txns, Approve(t) PROVE RatesOn(d)' = RatesOn(d)
  <2>1. PICK o : o = tx[t].op
    OBVIOUS
  <2>2. /\ o.s \in DOMAIN sched /\ sched[o.s].from = o.from /\ IsPending(o.s)
        /\ NothingPaid(o.from, FootprintEnd(o.s)) /\ ContextWritable(sched[o.s].from)
    BY <1>0, <1>8, <2>1 DEF Approve, Decided, DecisionHolds, Stands
  <2>3. PICK s \in DOMAIN sched, from \in Nat, last \in Nat :
           /\ s = o.s /\ from = sched[s].from /\ last = FootprintEnd(s)
           /\ sched[s].to <= last /\ \A q \in Approved : sched[q].to <= last
    <3>0. Approved \subseteq DOMAIN sched
      BY DEF Approved
    <3>1. PICK E : E = {sched[o.s].to} \cup {sched[q].to : q \in Approved}
      OBVIOUS
    <3>2. E \in SUBSET Nat /\ E # {} /\ \A x \in E : x <= Forever
      BY <1>2, <2>2, <3>0, <3>1
    <3>3. Max(E) \in E /\ \A x \in E : x <= Max(E)
      BY <1>0, <3>2, MaxIsGreatest
    <3>4. FootprintEnd(o.s) = Max(E)
      BY <3>1 DEF FootprintEnd
    <3>5. /\ sched[o.s].to <= Max(E) /\ Max(E) \in Nat
          /\ \A q \in Approved : sched[q].to <= Max(E)
      BY <3>1, <3>2, <3>3
    <3> QED
      BY <1>2, <2>2, <3>4, <3>5
  <2>4. d < from \/ last < d
    BY <1>0, <2>2, <2>3, Untouched
  <2>5. PICK new : new = Superseded(s)
    OBVIOUS
  <2>6. sched' = [new EXCEPT ![s].status = "Approved"]
    BY <1>8, <2>1, <2>3, <2>5 DEF Approve
  <2>7. sched[s].status = "Pending" /\ s \notin Approved
    BY <2>2, <2>3 DEF IsPending, Approved
  <2>8. DOMAIN new = DOMAIN sched /\ new[s] = sched[s]
    BY <2>5, <2>7 DEF Superseded
  <2>9. /\ DOMAIN sched' = DOMAIN sched
        /\ sched'[s].from = from /\ sched'[s].to = sched[s].to
        /\ \A q \in DOMAIN sched \ {s} : sched'[q] = new[q]
    <3>1. sched[s] \in ScheduleRows
      BY <1>0
    <3> QED
      BY <2>3, <2>6, <2>8, <3>1 DEF ScheduleRows
  <2>10. ASSUME NEW q \in DOMAIN sched \ {s}
         PROVE  /\ q \in ResolvedOn(d)' <=> q \in ResolvedOn(d)
                /\ sched'[q].values = sched[q].values
    <3>0. sched[q] \in ScheduleRows /\ q \in DOMAIN sched'
      BY <1>0, <2>9
    <3>1. CASE q \notin Approved
      <4>1. sched'[q] = sched[q]
        BY <2>5, <2>9, <3>1 DEF Superseded
      <4> QED
        BY <2>9, <4>1 DEF ResolvedOn, Authoritative
    <3>2. CASE q \in Approved
      <4>1. PICK to \in Nat : to = sched[q].to /\ to <= last
        BY <1>2, <2>3, <3>2
      <4>2. PICK before \in Int : before = from - 1
        OBVIOUS
      <4>3. new[q] = [sched[q] EXCEPT !.status = "Superseded", !.to = Min({to, before})]
        BY <2>3, <2>5, <3>2, <4>1, <4>2 DEF Superseded
      <4>4. PICK min \in Int : min = Min({to, before}) /\ min \in {to, before} /\ min <= to /\ min <= before
        <5>1. to \in Int
          OBVIOUS
        <5>2. /\ Min({to, before}) \in {to, before}
              /\ Min({to, before}) <= to /\ Min({to, before}) <= before
          BY <5>1, MaxOfTwo
        <5> QED
          BY <5>1, <5>2
      <4>5. sched'[q] = [sched[q] EXCEPT !.status = "Superseded", !.to = min]
        BY <2>9, <4>3, <4>4
      <4>6. /\ sched'[q].status = "Superseded" /\ sched'[q].to = min
            /\ sched'[q].from = sched[q].from /\ sched'[q].values = sched[q].values
        BY <3>0, <4>5 DEF ScheduleRows
      <4>7. d <= min <=> d <= to
        BY <1>1, <2>4, <4>1, <4>2, <4>4
      <4>8. sched[q].status = "Approved"
        BY <3>2 DEF Approved
      <4> QED
        BY <3>0, <4>1, <4>6, <4>7, <4>8 DEF ResolvedOn, Authoritative, InWindow
    <3> QED
      BY <3>1, <3>2
  <2>11. s \notin ResolvedOn(d)
    BY <2>7 DEF ResolvedOn, Authoritative
  <2>12. s \notin ResolvedOn(d)'
    <3>1. PICK to \in Nat : to = sched[s].to /\ to <= last
      BY <1>2, <2>3
    <3>2. ~(from <= d /\ d <= to)
      BY <1>1, <2>4, <3>1
    <3> QED
      BY <2>9, <3>1, <3>2 DEF ResolvedOn, InWindow
  <2>13. \A q : q \in ResolvedOn(d) \/ q \in ResolvedOn(d)' => q \in DOMAIN sched
    BY <2>9 DEF ResolvedOn, Authoritative
  <2>14. \A q : q \in ResolvedOn(d)' <=> q \in ResolvedOn(d)
    BY <2>10, <2>11, <2>12, <2>13
  <2> QED
    BY <1>3, <2>10, <2>11, <2>13, <2>14
<1>9. CASE sched' = sched
  <2>1. \A s : s \in ResolvedOn(d)' <=> s \in ResolvedOn(d)
    BY <1>9 DEF ResolvedOn, Authoritative
  <2> QED
    BY <1>3, <1>9, <2>1
<1> QED
  BY <1>5, <1>6, <1>7, <1>8, <1>9, Frames

\* The rules of a settled period start stay.
LEMMA RuleTermsFrozen ==
    ASSUME CompensationAssumption, LockInv, PayInv, SettledInv, [Next]_vars,
           NEW d \in Days, SettledStart(d), NEW type
    PROVE  RuleTerms(type, d)' = RuleTerms(type, d)
<1>0. /\ rules \in Seq(RuleRows) /\ TenuresFit
      /\ \A t \in Txns : RequestFits(tx[t].op) /\ DecisionHolds(t)
      /\ Forever \in Nat /\ Days \subseteq Nat
  BY DEF PayInv, RulesFit, LockInv, SettledInv, Days, Forever, CompensationAssumption
<1>1. d \in Nat
  BY DEF Days, CompensationAssumption
<1>2. \A r \in DOMAIN rules : rules[r] \in RuleRows /\ rules[r].from \in Nat /\ rules[r].to \in Nat
  <2>1. \A x \in 0 .. Forever : x \in Nat
    BY <1>0
  <2>2. ASSUME NEW r \in DOMAIN rules
        PROVE  rules[r] \in RuleRows /\ rules[r].from \in Nat /\ rules[r].to \in Nat
    <3>1. rules[r] \in RuleRows
      BY <1>0
    <3>2. rules[r].from \in Days /\ rules[r].to \in 0 .. Forever
      BY <3>1 DEF RuleRows
    <3>3. rules[r].from \in Nat
      BY <1>0, <3>2
    <3> QED
      BY <2>1, <3>1, <3>2, <3>3
  <2> QED
    BY <2>2
<1>3. ASSUME \A r : r \in RulesOn(type, d)' <=> r \in RulesOn(type, d),
             \A r \in RulesOn(type, d) : rules'[r].amount = rules[r].amount
      PROVE  RuleTerms(type, d)' = RuleTerms(type, d)
  <2>1. \A x : x \in RuleTerms(type, d)' <=> x \in RuleTerms(type, d)
    BY <1>3 DEF RuleTerms
  <2> QED
    BY <2>1, SameMembers
<1>4. ASSUME NEW r \in DOMAIN rules, DOMAIN rules' = DOMAIN rules,
             \A q \in DOMAIN rules : q # r => rules'[q] = rules[q],
             rules'[r].amount = rules[r].amount,
             r \in RulesOn(type, d)' <=> r \in RulesOn(type, d)
      PROVE  RuleTerms(type, d)' = RuleTerms(type, d)
  <2>1. \A q : q # r => (q \in RulesOn(type, d)' <=> q \in RulesOn(type, d))
    BY <1>4 DEF RulesOn, InForce
  <2>2. \A q \in RulesOn(type, d) : rules'[q].amount = rules[q].amount
    BY <1>4 DEF RulesOn, InForce
  <2>3. \A q : q \in RulesOn(type, d)' <=> q \in RulesOn(type, d)
    BY <1>4, <2>1
  <2> QED
    BY <1>3, <2>2, <2>3
<1>5. ASSUME NEW t \in Txns, CreateRule(t) PROVE RuleTerms(type, d)' = RuleTerms(type, d)
  <2>1. PICK o : o = tx[t].op
    OBVIOUS
  <2>2. NoFinalizedStart(o.from, o.to) /\ ContextWritable(o.from) /\ <<o.from, o.to>> \in Windows
    BY <1>0, <1>5, <2>1 DEF CreateRule, Decided, DecisionHolds, Stands, RequestFits
  <2>3. PICK row : /\ row.from = o.from /\ row.to = o.to
                   /\ rules' = Append(rules, row)
    BY <1>5, <2>1 DEF CreateRule
  <2>4. PICK n \in Nat : n = Len(rules) + 1
    BY <1>0
  <2>5. /\ n \notin DOMAIN rules /\ DOMAIN rules' = DOMAIN rules \cup {n} /\ rules'[n] = row
        /\ \A q \in DOMAIN rules : rules'[q] = rules[q]
    BY <1>0, <2>3, <2>4
  <2>6. o.from \in Nat /\ o.to \in Nat
    <3>1. o.from \in Days /\ o.to \in Days \cup {Forever}
      BY <2>2 DEF CompensationAssumption
    <3> QED
      BY <1>0, <3>1
  <2>7. d < o.from \/ o.to < d
    BY <1>0, <2>2, <2>6, Untouched
  <2>8. ~(o.from <= d /\ d <= o.to)
    BY <1>1, <2>6, <2>7
  <2>9. n \notin RulesOn(type, d)'
    BY <2>3, <2>5, <2>8 DEF RulesOn, InWindow
  <2>10. n \notin RulesOn(type, d)
    BY <2>5 DEF RulesOn, InForce
  <2>11. \A q : q # n => (q \in RulesOn(type, d)' <=> q \in RulesOn(type, d))
    BY <2>5 DEF RulesOn, InForce
  <2>12. \A q \in RulesOn(type, d) : rules'[q].amount = rules[q].amount
    BY <2>5 DEF RulesOn, InForce
  <2>13. \A q : q \in RulesOn(type, d)' <=> q \in RulesOn(type, d)
    BY <2>9, <2>10, <2>11
  <2> QED
    BY <1>3, <2>12, <2>13
<1>6. ASSUME NEW t \in Txns, EndRule(t) PROVE RuleTerms(type, d)' = RuleTerms(type, d)
  <2>1. PICK o : o = tx[t].op
    OBVIOUS
  <2>2. /\ o.r \in DOMAIN rules /\ rules[o.r].status = "Active" /\ o.to \in Days
        /\ o.from = FirstChanged(o.r, o.to) /\ NoFinalizedStart(o.from, LastChanged(o.r, o.to))
        /\ o.to # rules[o.r].to => ContextWritable(FirstChanged(o.r, o.to))
    BY <1>0, <1>6, <2>1 DEF EndRule, Decided, DecisionHolds, Stands, RequestFits
  <2>3. PICK r \in DOMAIN rules, to \in Nat : r = o.r /\ to = o.to
    BY <1>0, <2>2
  <2>4. PICK from \in Nat, old \in Nat : from = rules[r].from /\ old = rules[r].to
    BY <1>2
  <2>5. rules' = [rules EXCEPT ![r] = [rules[r] EXCEPT !.status = "Ended", !.to = to]]
    BY <1>2, <1>6, <2>1, <2>3 DEF EndRule, RuleRows
  <2>6. rules[r] \in RuleRows
    BY <1>2
  <2>7. /\ DOMAIN rules' = DOMAIN rules /\ \A q \in DOMAIN rules : q # r => rules'[q] = rules[q]
        /\ rules'[r].amount = rules[r].amount /\ rules'[r].type = rules[r].type
        /\ rules'[r].status = "Ended" /\ rules'[r].from = from /\ rules'[r].to = to
    BY <2>4, <2>5, <2>6 DEF RuleRows
  <2>8. from <= d => (d <= to <=> d <= old)
    <3>1. CASE to = old
      BY <3>1
    <3>2. CASE to # old
      <4>1. to \in Int /\ old \in Int
        OBVIOUS
      <4>2. /\ Min({to, old}) \in {to, old} /\ Min({to, old}) <= to /\ Min({to, old}) <= old
            /\ Max({to, old}) \in {to, old} /\ to <= Max({to, old}) /\ old <= Max({to, old})
        BY <4>1, MaxOfTwo
      <4>3. PICK first \in Nat, last \in Nat :
               /\ first = Min({to, old}) + 1 /\ last = Max({to, old})
               /\ (first = to + 1 \/ first = old + 1) /\ first <= to + 1 /\ first <= old + 1
               /\ to <= last /\ old <= last
        <5>1. PICK m \in Nat : m = Min({to, old}) /\ m \in {to, old} /\ m <= to /\ m <= old
          BY <4>2
        <5>2. PICK last \in Nat : last = Max({to, old}) /\ to <= last /\ old <= last
          BY <4>2
        <5>3. PICK first \in Nat : first = m + 1
          OBVIOUS
        <5> QED
          BY <5>1, <5>2, <5>3
      <4>4. NoFinalizedStart(first, last) /\ ContextWritable(first)
        BY <2>2, <2>3, <2>4, <3>2, <4>3 DEF FirstChanged, LastChanged
      <4>5. d < first \/ last < d
        BY <1>0, <4>4, Untouched
      <4>6. CASE d < first
        BY <1>1, <4>3, <4>6
      <4>7. CASE last < d
        BY <1>1, <4>3, <4>7
      <4> QED
        BY <4>5, <4>6, <4>7
    <3> QED
      BY <3>1, <3>2
  <2>9. r \in RulesOn(type, d)' <=> r \in RulesOn(type, d)
    BY <2>2, <2>3, <2>4, <2>7, <2>8 DEF RulesOn, InForce, InWindow
  <2> QED
    BY <1>4, <2>7, <2>9
<1>7. ASSUME NEW t \in Txns, VoidRule(t) PROVE RuleTerms(type, d)' = RuleTerms(type, d)
  <2>1. PICK o : o = tx[t].op
    OBVIOUS
  <2>2. /\ o.r \in DOMAIN rules /\ rules[o.r].from = o.from /\ NoFinalizedStart(o.from, rules[o.r].to)
        /\ ContextWritable(rules[o.r].from)
    BY <1>0, <1>7, <2>1 DEF VoidRule, Decided, DecisionHolds, Stands
  <2>3. PICK r \in DOMAIN rules : r = o.r
    BY <2>2
  <2>4. PICK from \in Nat, to \in Nat : from = rules[r].from /\ to = rules[r].to
    BY <1>2
  <2>5. d < from \/ to < d
    BY <1>0, <2>2, <2>3, <2>4, Untouched
  <2>6. rules' = [rules EXCEPT ![r] = [rules[r] EXCEPT !.status = "Voided"]]
    BY <1>7, <2>1, <2>3 DEF VoidRule
  <2>7. rules[r] \in RuleRows
    BY <1>2
  <2>8. /\ DOMAIN rules' = DOMAIN rules /\ \A q \in DOMAIN rules : q # r => rules'[q] = rules[q]
        /\ rules'[r].amount = rules[r].amount /\ rules'[r].status = "Voided"
    BY <2>6, <2>7 DEF RuleRows
  <2>9. r \notin RulesOn(type, d)
    BY <1>1, <2>4, <2>5 DEF RulesOn, InWindow
  <2>10. r \notin RulesOn(type, d)'
    BY <2>8 DEF RulesOn, InForce
  <2> QED
    BY <1>4, <2>8, <2>9, <2>10
<1>8. CASE rules' = rules
  <2>1. \A r : r \in RulesOn(type, d)' <=> r \in RulesOn(type, d)
    BY <1>8 DEF RulesOn, InForce
  <2> QED
    BY <1>3, <1>8, <2>1
<1> QED
  BY <1>5, <1>6, <1>7, <1>8, Frames

\* The rates a finalized day was paid by, and the rules of its period, never
\* change again, whatever is approved, closed or voided at the same time.
THEOREM SettledTermsStay == Spec => SettledTermsKept
<1> DEFINE Kept == \A d \in Days :
              /\ Settled(d) => RatesOn(d)' = RatesOn(d)
              /\ SettledStart(d) => \A type \in RuleTypes : RuleTerms(type, d)' = RuleTerms(type, d)
<1>1. LockInv /\ PayInv /\ SettledInv /\ [Next]_vars => Kept
  BY CompensationAssumption, RatesFrozen, RuleTermsFrozen
<1>2. LockInv /\ PayInv /\ SettledInv /\ [Next]_vars => [Kept]_vars
  BY <1>1
<1> HIDE DEF Kept
<1>3. Spec => [][Kept]_vars
  BY <1>2, SettledInvariance, PTL DEF Spec
<1> QED
  BY <1>3 DEF SettledTermsKept, Kept

\* No more requests are begun than the bound, and every variable keeps its type.
THEOREM TypesHold == Spec => []TypeOK
<1> DEFINE Served == served \in 0 .. MaxRequests
<1>1. Init => Served
  BY CompensationAssumption DEF Init, CompensationAssumption
<1>2. Served /\ [Next]_vars => Served'
  <2> SUFFICES ASSUME Served, [Next]_vars PROVE Served'
    OBVIOUS
  <2>1. MaxRequests \in Nat
    BY CompensationAssumption DEF CompensationAssumption
  <2>2. CASE \E t \in Txns : \E o \in Requests : Begin(t, o)
    <3>1. served < MaxRequests /\ served' = served + 1
      BY <2>2 DEF Begin
    <3> QED
      BY <2>1, <3>1
  <2>3. ASSUME NEW t \in Txns,
               \/ Acquire(t) \/ Decide(t) \/ RollBack(t) \/ CreatePending(t) \/ UpdatePending(t)
               \/ ReplaceValues(t) \/ Approve(t) \/ Discard(t) \/ VoidSchedule(t)
               \/ ChangeStructure(t) \/ RetireDefinition(t)
        PROVE  served' = served
    BY <2>3 DEF Acquire, Decide, RollBack, CreatePending, UpdatePending, ReplaceValues, Approve,
                Discard, VoidSchedule, ChangeStructure, RetireDefinition, ScheduleOnly
  <2>4. ASSUME NEW t \in Txns,
               \/ CreateRule(t) \/ EndRule(t) \/ VoidRule(t) \/ ChangeCurrency(t)
               \/ OpenPeriod(t) \/ Submit(t) \/ Return(t) \/ Finalize(t) \/ Transfer(t)
        PROVE  served' = served
    BY <2>4 DEF CreateRule, EndRule, VoidRule, ChangeCurrency, OpenPeriod, Submit, Return, Finalize,
                Transfer, RulesOnly, PeriodOnly
  <2>5. Tick \/ UNCHANGED vars => served' = served
    BY DEF Tick, vars
  <2> QED
    BY <2>2, <2>3, <2>4, <2>5 DEF Next
<1>3. LockInv /\ PayInv /\ Served => TypeOK
  BY DEF PayInv, PeriodsFit, TypeOK
<1> QED
  BY <1>1, <1>2, <1>3, PayInvariance, PTL DEF Spec

=============================================================================
