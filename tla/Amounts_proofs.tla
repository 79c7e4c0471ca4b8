---------------------------- MODULE Amounts_proofs ----------------------------
(***************************************************************************)
(* What rounding keeps, for all amounts and all rates; and sums over       *)
(* finite sets, whatever the order of the summands.                        *)
(***************************************************************************)
EXTENDS Amounts, FiniteSets, FiniteSetTheorems, WellFoundedInduction, TLAPS

(* Rounding *)

\* A quotient is the largest number whose product fits.
LEMMA Quotient ==
  ASSUME NEW a \in Nat, NEW b \in Nat \ {0}
  PROVE  /\ a \div b \in Nat
         /\ (a \div b) * b <= a
         /\ a < (a \div b) * b + b
BY SMT

\* Products of numbers compare as the numbers do.
LEMMA Cancel ==
  ASSUME NEW x \in Nat, NEW y \in Nat, NEW b \in Nat \ {0}, x * b <= y * b
  PROVE  x <= y
<1>1. SUFFICES ASSUME y + 1 <= x PROVE FALSE
  BY SMT
<1>2. (y + 1) * b <= x * b
  BY <1>1, SMT
<1>3. (y + 1) * b = y * b + b
  BY SMT
<1> QED BY <1>2, <1>3, SMT

\* Amounts stay amounts when they are rounded.
LEMMA RoundDownType ==
  ASSUME NEW x \in Nat, NEW r \in Rates
  PROVE  RoundDown(x, r) \in Nat
<1>1. r[1] \in Nat /\ r[2] \in Nat \ {0} /\ x * r[1] \in Nat
  BY SMT DEF Rates
<1> QED BY <1>1, Quotient DEF RoundDown

\* A rate turned round is a rate.
LEMMA FlipType == ASSUME NEW r \in Rates PROVE Flip(r) \in Rates
BY SMT DEF Rates, Flip

\* Taking the fee off funds and putting it on again, rounded down both times,
\* does not exceed the funds.
LEMMA FeeRoundTrip ==
  ASSUME NEW f \in Nat, NEW r \in Rates
  PROVE  RoundDown(RoundDown(f, Flip(r)), r) <= f
<1> DEFINE q == RoundDown(f, Flip(r))
           g == RoundDown(q, r)
<1>1. r[1] \in Nat \ {0} /\ r[2] \in Nat \ {0}
  BY SMT DEF Rates
<1>2. q \in Nat /\ g \in Nat
  BY RoundDownType, FlipType
<1>3. q * r[1] <= f * r[2]
  <2>1. f * r[2] \in Nat
    BY <1>1, SMT
  <2>2. q = (f * r[2]) \div r[1]
    BY DEF RoundDown, Flip
  <2> QED BY <1>1, <2>1, <2>2, Quotient
<1>4. g * r[2] <= q * r[1]
  <2>1. q * r[1] \in Nat
    BY <1>1, <1>2, SMT
  <2>2. g = (q * r[1]) \div r[2]
    BY DEF RoundDown
  <2> QED BY <1>1, <2>1, <2>2, Quotient
<1>5. g * r[2] <= f * r[2]
  <2>1. g * r[2] \in Nat /\ q * r[1] \in Nat /\ f * r[2] \in Nat
    BY <1>1, <1>2, SMT
  <2> QED BY <1>3, <1>4, <2>1, SMT
<1> QED BY <1>1, <1>2, <1>5, Cancel

\* Less to give costs no more.
LEMMA RoundDownMonotone ==
  ASSUME NEW x \in Nat, NEW y \in Nat, x <= y, NEW r \in Rates
  PROVE  RoundDown(x, r) <= RoundDown(y, r)
<1> DEFINE u == RoundDown(x, r)
           v == RoundDown(y, r)
<1>1. r[1] \in Nat \ {0} /\ r[2] \in Nat \ {0}
  BY SMT DEF Rates
<1>2. u \in Nat /\ v \in Nat
  BY RoundDownType
<1>3. x * r[1] \in Nat /\ y * r[1] \in Nat /\ x * r[1] <= y * r[1]
  BY <1>1, SMT
<1>4. u * r[2] <= x * r[1]
  BY <1>1, <1>3, Quotient DEF RoundDown
<1>5. y * r[1] < v * r[2] + r[2]
  BY <1>1, <1>3, Quotient DEF RoundDown
<1>6. SUFFICES ASSUME v + 1 <= u PROVE FALSE
  BY <1>2, SMT
<1>7. (v + 1) * r[2] <= u * r[2]
  BY <1>1, <1>2, <1>6, SMT
<1>8. (v + 1) * r[2] = v * r[2] + r[2]
  BY <1>1, <1>2, SMT
<1> QED
  <2>1. u * r[2] \in Nat /\ v * r[2] \in Nat /\ r[2] \in Nat
    BY <1>1, <1>2, SMT
  <2> QED BY <1>3, <1>4, <1>5, <1>7, <1>8, <2>1, SMT

\* A rate is a quotient of positive numbers.
LEMMA RateParts == ASSUME NEW r \in Rates PROVE r[1] \in Nat \ {0} /\ r[2] \in Nat \ {0}
BY SMT DEF Rates

\* A product of amounts is an amount.
LEMMA ProductType ==
  ASSUME NEW x \in Nat, NEW y \in Nat PROVE x * y \in Nat
BY SMT

\* What is rounded up is the least amount that covers the quotient.
LEMMA RoundUpIsLeast ==
  ASSUME NEW x \in Nat, NEW n \in Nat, NEW d \in Nat \ {0}
  PROVE  /\ RoundUp(x, <<n, d>>) \in Nat
         /\ x * n <= RoundUp(x, <<n, d>>) * d
         /\ \A q \in Nat : x * n <= q * d => RoundUp(x, <<n, d>>) <= q
<1> DEFINE u == RoundUp(x, <<n, d>>)
           a == x * n + d - 1
<1>1. x * n \in Nat
  BY ProductType
<1>2. a \in Nat /\ u = a \div d
  BY <1>1, SMT DEF RoundUp
<1>3. u \in Nat /\ u * d <= a /\ a < u * d + d
  <2> HIDE DEF a, u
  <2> QED BY <1>2, Quotient
<1>4. u * d \in Nat
  <2> HIDE DEF a, u
  <2> QED BY <1>3, ProductType
<1>5. x * n <= u * d
  <2> HIDE DEF u
  <2> QED BY <1>1, <1>3, <1>4, SMT
<1>6. ASSUME NEW q \in Nat, x * n <= q * d PROVE u <= q
  <2> HIDE DEF u
  <2>1. SUFFICES ASSUME q + 1 <= u PROVE FALSE
    BY <1>3, SMT
  <2>2. (q + 1) * d <= u * d
    BY <1>3, <2>1, SMT
  <2>3. (q + 1) * d = q * d + d /\ q * d \in Nat
    BY SMT
  <2> QED BY <1>1, <1>3, <1>4, <1>6, <2>2, <2>3, SMT
<1> QED BY <1>3, <1>5, <1>6

\* The same of a rate.
LEMMA RoundUpRate ==
  ASSUME NEW x \in Nat, NEW r \in Rates
  PROVE  /\ RoundUp(x, r) \in Nat
         /\ x * r[1] <= RoundUp(x, r) * r[2]
         /\ \A q \in Nat : x * r[1] <= q * r[2] => RoundUp(x, r) <= q
<1>1. r[1] \in Nat /\ r[2] \in Nat \ {0} /\ RoundUp(x, r) = RoundUp(x, <<r[1], r[2]>>)
  BY RateParts DEF RoundUp
<1> QED BY <1>1, RoundUpIsLeast

\* What is rounded down is the largest amount the quotient covers.
LEMMA RoundDownRate ==
  ASSUME NEW x \in Nat, NEW r \in Rates
  PROVE  RoundDown(x, r) \in Nat /\ RoundDown(x, r) * r[2] <= x * r[1]
<1>1. x * r[1] \in Nat /\ r[2] \in Nat \ {0}
  BY RateParts, ProductType
<1> QED BY <1>1, Quotient DEF RoundDown

\* Taking a fee off, rounded down, and putting it on again, rounded up, does not
\* exceed what there was.
LEMMA UpOfDown ==
  ASSUME NEW x \in Nat, NEW r \in Rates
  PROVE  RoundUp(RoundDown(x, Flip(r)), r) <= x
<1> DEFINE q == RoundDown(x, Flip(r))
<1>1. q \in Nat /\ q * r[1] <= x * r[2]
  BY FlipType, RoundDownRate DEF Flip
<1> QED BY <1>1, RoundUpRate

\* More costs no less.
LEMMA RoundUpMonotone ==
  ASSUME NEW x \in Nat, NEW y \in Nat, x <= y, NEW r \in Rates
  PROVE  RoundUp(x, r) <= RoundUp(y, r)
<1> DEFINE v == RoundUp(y, r)
<1>1. v \in Nat /\ y * r[1] <= v * r[2]
  BY RoundUpRate
<1>2. x * r[1] <= y * r[1]
  BY RateParts, SMT
<1>3. x * r[1] \in Nat /\ y * r[1] \in Nat /\ v * r[2] \in Nat
  <2> HIDE DEF v
  <2> QED BY <1>1, RateParts, ProductType
<1>4. x * r[1] <= v * r[2]
  <2> HIDE DEF v
  <2> QED BY <1>1, <1>2, <1>3, SMT
<1> QED BY <1>1, <1>4, RoundUpRate

\* Two parts cost no more, each rounded down, than both together.
LEMMA RoundDownParts ==
  ASSUME NEW x \in Nat, NEW y \in Nat, NEW r \in Rates
  PROVE  RoundDown(x, r) + RoundDown(y, r) <= RoundDown(x + y, r)
<1> DEFINE u == RoundDown(x, r)
           v == RoundDown(y, r)
           w == RoundDown(x + y, r)
<1>1. u \in Nat /\ u * r[2] <= x * r[1] /\ v \in Nat /\ v * r[2] <= y * r[1]
  BY RoundDownRate
<1>2. w \in Nat /\ (x + y) * r[1] < w * r[2] + r[2]
  <2>1. x + y \in Nat /\ (x + y) * r[1] \in Nat
    BY RateParts, ProductType
  <2> QED BY <2>1, RateParts, Quotient DEF RoundDown
<1> SUFFICES u + v <= w
  OBVIOUS
<1> HIDE DEF u, v, w
<1>3. SUFFICES ASSUME w + 1 <= u + v PROVE FALSE
  BY <1>1, <1>2, SMT
<1>4. (w + 1) * r[2] <= (u + v) * r[2]
  BY <1>1, <1>2, <1>3, RateParts, SMT
<1>5. (w + 1) * r[2] = w * r[2] + r[2] /\ (u + v) * r[2] = u * r[2] + v * r[2]
      /\ (x + y) * r[1] = x * r[1] + y * r[1]
  BY <1>1, <1>2, RateParts, SMT
<1>6. /\ w * r[2] \in Nat /\ u * r[2] \in Nat /\ v * r[2] \in Nat /\ r[2] \in Nat
      /\ x * r[1] \in Nat /\ y * r[1] \in Nat
  BY <1>1, <1>2, RateParts, ProductType
<1> QED BY <1>1, <1>2, <1>4, <1>5, <1>6, SMT

-----------------------------------------------------------------------------
\* No dearer is an order.
LEMMA NoDearerTransitive ==
  ASSUME NEW r \in Rates, NEW s \in Rates, NEW t \in Rates, ~Cheaper(s, r), ~Cheaper(t, s)
  PROVE  ~Cheaper(t, r)
<1> DEFINE r1 == r[1] r2 == r[2] s1 == s[1] s2 == s[2] t1 == t[1] t2 == t[2]
<1>1. /\ r1 \in Nat \ {0} /\ r2 \in Nat \ {0} /\ s1 \in Nat \ {0} /\ s2 \in Nat \ {0}
      /\ t1 \in Nat \ {0} /\ t2 \in Nat \ {0}
  BY RateParts
<1>2. ~(s1 * r2 < r1 * s2) /\ ~(t1 * s2 < s1 * t2)
  BY DEF Cheaper
<1> SUFFICES ~(t1 * r2 < r1 * t2)
  BY DEF Cheaper
<1> HIDE DEF r1, r2, s1, s2, t1, t2
<1>3. /\ r1 * s2 \in Nat /\ s1 * r2 \in Nat /\ s1 * t2 \in Nat /\ t1 * s2 \in Nat
      /\ r1 * t2 \in Nat /\ t1 * r2 \in Nat
  BY <1>1, ProductType
<1>4. (r1 * s2) * t2 <= (s1 * r2) * t2 /\ (s1 * t2) * r2 <= (t1 * s2) * r2
  <2>1. \A a, b, c \in Nat : a <= b => a * c <= b * c
    BY SMT
  <2>2. r1 * s2 <= s1 * r2 /\ s1 * t2 <= t1 * s2
    BY <1>2, <1>3
  <2> QED BY <1>1, <1>3, <2>1, <2>2
<1>5. (s1 * r2) * t2 = (s1 * t2) * r2 /\ (r1 * s2) * t2 = (r1 * t2) * s2 /\ (t1 * s2) * r2 = (t1 * r2) * s2
  BY <1>1, SMT
<1>6. (r1 * t2) * s2 <= (t1 * r2) * s2
  <2>1. (r1 * s2) * t2 \in Nat /\ (s1 * r2) * t2 \in Nat /\ (t1 * s2) * r2 \in Nat
    BY <1>1, <1>3, ProductType
  <2> QED BY <1>4, <1>5, <2>1
<1>7. r1 * t2 <= t1 * r2
  BY <1>1, <1>3, <1>6, Cancel
<1> QED BY <1>3, <1>7

\* Of two rates one is no dearer than the other.
LEMMA NoDearerTotal ==
  ASSUME NEW r \in Rates, NEW s \in Rates, Cheaper(r, s) PROVE ~Cheaper(s, r)
<1>1. r[1] * s[2] \in Nat /\ s[1] * r[2] \in Nat
  BY RateParts, ProductType
<1> QED BY <1>1 DEF Cheaper

\* A bound keeps amounts amounts.
LEMMA AtMostType ==
  ASSUME NEW x \in Nat, NEW bound \in Nat \cup {Unknown}
  PROVE  AtMost(x, bound) \in Nat /\ AtMost(x, bound) <= x
                                  /\ (bound # Unknown => AtMost(x, bound) <= bound)
<1>1. CASE bound = Unknown
  BY <1>1 DEF AtMost
<1>2. CASE bound # Unknown
  BY <1>2, SMT DEF AtMost
<1> QED BY <1>1, <1>2

-----------------------------------------------------------------------------
(* Induction *)

\* A set of numbers that is not empty has a least element.
LEMMA LeastNumber ==
  ASSUME NEW S, S \subseteq Nat, S # {}
  PROVE  \E m \in S : \A n \in S : m <= n
<1>1. IsWellFoundedOn(OpToRel(<, Nat), Nat)
  BY NatLessThanWellFounded
<1>2. PICK m \in S : \A n \in S : ~(<<n, m>> \in OpToRel(<, Nat))
  BY <1>1, WFMin
<1>3. \A n \in S : ~(n < m)
  BY <1>2 DEF OpToRel
<1> QED BY <1>3

\* A family that has every set from which it has all that lack one element has
\* all subsets of a finite set.
LEMMA AllSubsets ==
  ASSUME NEW S, IsFiniteSet(S), NEW P,
         \A s \in SUBSET S : (\A x \in s : s \ {x} \in P) => s \in P
  PROVE  \A s \in SUBSET S : s \in P
<1> DEFINE Bad == {n \in Nat : \E s \in SUBSET S : s \notin P /\ Cardinality(s) = n}
<1>1. \A s \in SUBSET S : IsFiniteSet(s) /\ Cardinality(s) \in Nat
  BY FS_Subset, FS_CardinalityType
<1>2. ASSUME Bad # {} PROVE FALSE
  <2>1. Bad \subseteq Nat
    OBVIOUS
  <2>2. PICK n \in Bad : \A m \in Bad : n <= m
    <3> HIDE DEF Bad
    <3> QED BY <1>2, <2>1, LeastNumber
  <2>3. PICK s \in SUBSET S : s \notin P /\ Cardinality(s) = n
    OBVIOUS
  <2>4. ASSUME NEW x \in s PROVE s \ {x} \in P
    <3>1. s \ {x} \in SUBSET S
      OBVIOUS
    <3>2. Cardinality(s \ {x}) = n - 1
      BY <1>1, <2>3, FS_RemoveElement
    <3>3. n - 1 \in Nat /\ ~(n <= n - 1)
      <4> HIDE DEF Bad
      <4> QED BY <1>1, <2>1, <2>2, <3>1, <3>2
    <3>4. n - 1 \notin Bad
      <4> HIDE DEF Bad
      <4> QED BY <2>2, <3>3
    <3> QED BY <3>1, <3>2, <3>3, <3>4
  <2> QED BY <2>3, <2>4
<1> QED BY <1>1, <1>2

-----------------------------------------------------------------------------
(* The definition of a sum *)

Body(f, s, g) == IF s = {} THEN 0 ELSE LET x == CHOOSE y \in s : TRUE IN f[x] + g[s \ {x}]

Table(f, S) == CHOOSE g : g = [s \in SUBSET S |-> Body(f, s, g)]

LEMMA SumDef == ASSUME NEW f, NEW S PROVE Sum(f, S) = Table(f, S)[S]
BY DEF Sum, MapThenSumSet, MapThenFoldSet, Table, Body

\* What a sum needs of the sums of smaller sets.
LEMMA BodyLocal ==
  ASSUME NEW f, NEW s, NEW g, NEW h, \A x \in s : g[s \ {x}] = h[s \ {x}]
  PROVE  Body(f, s, g) = Body(f, s, h)
<1>1. CASE s # {}
  <2>1. PICK x \in s : x = CHOOSE y \in s : TRUE
    BY <1>1
  <2> QED BY <1>1, <2>1 DEF Body
<1> QED BY <1>1 DEF Body

LEMMA BodyType ==
  ASSUME NEW S, NEW f, \A x \in S : f[x] \in Nat,
         NEW s \in SUBSET S, NEW g, \A x \in s : g[s \ {x}] \in Nat
  PROVE  Body(f, s, g) \in Nat
<1>1. CASE s # {}
  <2>1. PICK x \in s : x = CHOOSE y \in s : TRUE
    BY <1>1
  <2>2. f[x] \in Nat /\ g[s \ {x}] \in Nat
    OBVIOUS
  <2> QED BY <1>1, <2>1, <2>2 DEF Body
<1> QED BY <1>1 DEF Body

\* Sums exist: a table of the sums of all sets of up to n elements is one of
\* those of n + 1.
LEMMA TableExists ==
  ASSUME NEW S, IsFiniteSet(S), NEW f, \A x \in S : f[x] \in Nat
  PROVE  \E g : g = [s \in SUBSET S |-> Body(f, s, g)]
<1> DEFINE G(n) == \E g \in [SUBSET S -> Nat] :
                     \A s \in SUBSET S : Cardinality(s) <= n => g[s] = Body(f, s, g)
           Bad == {n \in Nat : ~G(n)}
<1>1. \A s \in SUBSET S : IsFiniteSet(s) /\ Cardinality(s) \in Nat
  BY FS_Subset, FS_CardinalityType
<1>2. \A s \in SUBSET S : \A x \in s : s \ {x} \in SUBSET S /\ Cardinality(s \ {x}) = Cardinality(s) - 1
  BY <1>1, FS_RemoveElement
<1>3. \A g \in [SUBSET S -> Nat], s \in SUBSET S : Body(f, s, g) \in Nat
  <2> TAKE g \in [SUBSET S -> Nat], s \in SUBSET S
  <2>1. \A x \in s : g[s \ {x}] \in Nat
    OBVIOUS
  <2> QED BY <2>1, BodyType
<1>4. ASSUME Bad # {} PROVE FALSE
  <2>1. Bad \subseteq Nat
    OBVIOUS
  <2>2. PICK n \in Bad : \A m \in Bad : n <= m
    <3> HIDE DEF Bad
    <3> QED BY <1>4, <2>1, LeastNumber
  <2>3. CASE n = 0
    <3> DEFINE g == [s \in SUBSET S |-> 0]
    <3>1. ASSUME NEW s \in SUBSET S, Cardinality(s) <= n PROVE g[s] = Body(f, s, g)
      <4>1. s = {}
        BY <1>1, <2>3, <3>1, FS_EmptySet
      <4> QED BY <4>1 DEF Body
    <3>2. g \in [SUBSET S -> Nat]
      OBVIOUS
    <3> QED BY <2>2, <3>1, <3>2
  <2>4. CASE n # 0
    <3>1. n - 1 \in Nat /\ n - 1 \notin Bad
      <4> HIDE DEF Bad
      <4> QED BY <2>1, <2>2, <2>4
    <3>2. PICK g \in [SUBSET S -> Nat] :
            \A s \in SUBSET S : Cardinality(s) <= n - 1 => g[s] = Body(f, s, g)
      BY <3>1
    <3> DEFINE h == [s \in SUBSET S |-> IF Cardinality(s) = n THEN Body(f, s, g) ELSE g[s]]
    <3>3. h \in [SUBSET S -> Nat]
      BY <1>3
    <3>4. ASSUME NEW s \in SUBSET S, Cardinality(s) <= n PROVE h[s] = Body(f, s, h)
      <4>1. h[s] = Body(f, s, g)
        BY <1>1, <2>2, <3>2, <3>4
      <4>2. \A x \in s : h[s \ {x}] = g[s \ {x}]
        BY <1>1, <1>2, <2>2, <3>4
      <4>3. Body(f, s, g) = Body(f, s, h)
        <5> HIDE DEF h
        <5> QED BY <4>2, BodyLocal
      <4> QED BY <4>1, <4>3
    <3> HIDE DEF h
    <3> QED BY <2>2, <3>3, <3>4
  <2> QED BY <2>3, <2>4
<1>5. PICK g \in [SUBSET S -> Nat] :
        \A s \in SUBSET S : Cardinality(s) <= Cardinality(S) => g[s] = Body(f, s, g)
  <2>1. G(Cardinality(S))
    BY <1>1, <1>4
  <2> QED BY <2>1
<1>6. \A s \in SUBSET S : g[s] = Body(f, s, g)
  BY <1>1, <1>5, FS_Subset
<1>7. g = [s \in SUBSET S |-> Body(f, s, g)]
  BY <1>6
<1> QED BY <1>7

LEMMA TableIs ==
  ASSUME NEW S, IsFiniteSet(S), NEW f, \A x \in S : f[x] \in Nat
  PROVE  \A s \in SUBSET S : Table(f, S)[s] = Body(f, s, Table(f, S))
<1>1. Table(f, S) = [s \in SUBSET S |-> Body(f, s, Table(f, S))]
  BY TableExists DEF Table
<1> QED BY <1>1

\* The table of a set holds the sums of its subsets.
LEMMA TableHolds ==
  ASSUME NEW S, IsFiniteSet(S), NEW f, \A x \in S : f[x] \in Nat, NEW T \in SUBSET S
  PROVE  Table(f, S)[T] = Sum(f, T)
<1> DEFINE g == Table(f, S)
           h == Table(f, T)
           P == {s \in SUBSET T : g[s] = h[s]}
<1>1. IsFiniteSet(T) /\ (\A x \in T : f[x] \in Nat) /\ SUBSET T \subseteq SUBSET S
  BY FS_Subset
<1>2. \A s \in SUBSET T : g[s] = Body(f, s, g) /\ h[s] = Body(f, s, h)
  BY <1>1, TableIs
<1> HIDE DEF g, h
<1>3. ASSUME NEW s \in SUBSET T, \A x \in s : s \ {x} \in P PROVE s \in P
  BY <1>2, <1>3, BodyLocal
<1>4. \A s \in SUBSET T : s \in P
  <2> HIDE DEF P
  <2> QED BY <1>1, <1>3, AllSubsets
<1>5. g[T] = h[T]
  BY <1>4
<1> QED BY <1>5, SumDef DEF g, h

-----------------------------------------------------------------------------
(* Facts about sums *)

LEMMA SumEmpty == ASSUME NEW f PROVE Sum(f, {}) = 0
<1>1. IsFiniteSet({}) /\ \A x \in {} : f[x] \in Nat
  BY FS_EmptySet
<1>2. Table(f, {})[{}] = Body(f, {}, Table(f, {}))
  BY <1>1, TableIs
<1> QED BY <1>2, SumDef DEF Body

\* A sum is its summand of some element and the sum of the others.
LEMMA SumChosen ==
  ASSUME NEW S, IsFiniteSet(S), NEW f, \A x \in S : f[x] \in Nat, S # {}
  PROVE  \E x \in S : Sum(f, S) = f[x] + Sum(f, S \ {x})
<1> DEFINE g == Table(f, S)
<1>1. PICK x \in S : x = CHOOSE y \in S : TRUE
  OBVIOUS
<1>2. g[S] = Body(f, S, g)
  BY TableIs
<1>3. g[S] = Sum(f, S) /\ g[S \ {x}] = Sum(f, S \ {x})
  BY TableHolds
<1>4. g[S] = f[x] + g[S \ {x}]
  <2> HIDE DEF g
  <2> QED BY <1>1, <1>2 DEF Body
<1> QED BY <1>3, <1>4

LEMMA SumType ==
  ASSUME NEW S, IsFiniteSet(S), NEW f, \A x \in S : f[x] \in Nat
  PROVE  Sum(f, S) \in Nat
<1> DEFINE P == {s \in SUBSET S : Sum(f, s) \in Nat}
<1>1. ASSUME NEW s \in SUBSET S, \A x \in s : s \ {x} \in P PROVE s \in P
  <2>1. CASE s = {}
    BY <2>1, SumEmpty
  <2>2. CASE s # {}
    <3>1. PICK x \in s : Sum(f, s) = f[x] + Sum(f, s \ {x})
      BY <2>2, FS_Subset, SumChosen
    <3>2. f[x] \in Nat /\ Sum(f, s \ {x}) \in Nat
      BY <1>1
    <3> QED BY <3>1, <3>2
  <2> QED BY <2>1, <2>2
<1>2. \A s \in SUBSET S : s \in P
  <2> HIDE DEF P
  <2> QED BY <1>1, AllSubsets
<1> QED BY <1>2

\* ... and so of every element.
LEMMA SumRemove ==
  ASSUME NEW S, IsFiniteSet(S), NEW f, \A x \in S : f[x] \in Nat, NEW y \in S
  PROVE  Sum(f, S) = f[y] + Sum(f, S \ {y})
<1> DEFINE P == {s \in SUBSET S : \A z \in s : Sum(f, s) = f[z] + Sum(f, s \ {z})}
<1>1. ASSUME NEW s \in SUBSET S, \A x \in s : s \ {x} \in P PROVE s \in P
  <2> SUFFICES ASSUME NEW z \in s PROVE Sum(f, s) = f[z] + Sum(f, s \ {z})
    OBVIOUS
  <2>1. PICK x \in s : Sum(f, s) = f[x] + Sum(f, s \ {x})
    BY FS_Subset, SumChosen
  <2>2. CASE x # z
    <3>1. z \in s \ {x} /\ x \in s \ {z} /\ (s \ {x}) \ {z} = (s \ {z}) \ {x}
      BY <2>2
    <3>2. Sum(f, s \ {x}) = f[z] + Sum(f, (s \ {x}) \ {z})
      BY <1>1, <3>1
    <3>3. Sum(f, s \ {z}) = f[x] + Sum(f, (s \ {x}) \ {z})
      <4>1. Sum(f, s \ {z}) = f[x] + Sum(f, (s \ {z}) \ {x})
        BY <1>1, <3>1
      <4> QED BY <3>1, <4>1
    <3>4. f[x] \in Nat /\ f[z] \in Nat /\ Sum(f, (s \ {x}) \ {z}) \in Nat
      <4>1. IsFiniteSet((s \ {x}) \ {z}) /\ (s \ {x}) \ {z} \subseteq S
        BY FS_Subset
      <4> QED BY <4>1, SumType
    <3> QED BY <2>1, <3>2, <3>3, <3>4
  <2> QED BY <2>1, <2>2
<1>2. \A s \in SUBSET S : s \in P
  <2> HIDE DEF P
  <2> QED BY <1>1, AllSubsets
<1> QED BY <1>2

\* Sums of the same summands are the same.
LEMMA SumSame ==
  ASSUME NEW S, IsFiniteSet(S), NEW f, NEW g,
         \A x \in S : f[x] \in Nat /\ g[x] = f[x]
  PROVE  Sum(f, S) = Sum(g, S)
<1> DEFINE P == {s \in SUBSET S : Sum(f, s) = Sum(g, s)}
<1>1. ASSUME NEW s \in SUBSET S, \A x \in s : s \ {x} \in P PROVE s \in P
  <2>1. CASE s = {}
    BY <2>1, SumEmpty
  <2>2. CASE s # {}
    <3>1. PICK x \in s : TRUE
      BY <2>2
    <3>2. IsFiniteSet(s)
      BY FS_Subset
    <3>3. Sum(f, s) = f[x] + Sum(f, s \ {x})
      BY <3>2, SumRemove
    <3>4. Sum(g, s) = g[x] + Sum(g, s \ {x})
      BY <3>2, SumRemove
    <3> QED BY <1>1, <3>3, <3>4
  <2> QED BY <2>1, <2>2
<1>2. \A s \in SUBSET S : s \in P
  <2> HIDE DEF P
  <2> QED BY <1>1, AllSubsets
<1> QED BY <1>2

\* Changing one summand changes the sum by as much.
LEMMA SumChange ==
  ASSUME NEW S, IsFiniteSet(S), NEW f, NEW g, NEW y \in S,
         \A x \in S : f[x] \in Nat /\ g[x] \in Nat,
         \A x \in S \ {y} : g[x] = f[x]
  PROVE  Sum(g, S) + f[y] = Sum(f, S) + g[y]
<1>1. IsFiniteSet(S \ {y})
  BY FS_Subset
<1>2. Sum(f, S \ {y}) = Sum(g, S \ {y}) /\ Sum(f, S \ {y}) \in Nat
  BY <1>1, SumSame, SumType
<1>3. Sum(f, S) = f[y] + Sum(f, S \ {y}) /\ Sum(g, S) = g[y] + Sum(g, S \ {y})
  BY SumRemove
<1> QED BY <1>2, <1>3

\* A sum of sums of two is the sum of the sums.
LEMMA SumAdd ==
  ASSUME NEW S, IsFiniteSet(S), NEW f, NEW g, NEW h,
         \A x \in S : f[x] \in Nat /\ g[x] \in Nat /\ h[x] = f[x] + g[x]
  PROVE  Sum(h, S) = Sum(f, S) + Sum(g, S)
<1> DEFINE P == {s \in SUBSET S : Sum(h, s) = Sum(f, s) + Sum(g, s)}
<1>1. ASSUME NEW s \in SUBSET S, \A x \in s : s \ {x} \in P PROVE s \in P
  <2>1. CASE s = {}
    BY <2>1, SumEmpty
  <2>2. CASE s # {}
    <3>1. PICK x \in s : TRUE
      BY <2>2
    <3>2. IsFiniteSet(s) /\ IsFiniteSet(s \ {x})
      BY FS_Subset
    <3>3. Sum(f, s) = f[x] + Sum(f, s \ {x}) /\ Sum(g, s) = g[x] + Sum(g, s \ {x})
      BY <3>2, SumRemove
    <3>4. Sum(h, s) = h[x] + Sum(h, s \ {x})
      BY <3>2, SumRemove
    <3>5. Sum(f, s \ {x}) \in Nat /\ Sum(g, s \ {x}) \in Nat
      BY <3>2, SumType
    <3> QED BY <1>1, <3>3, <3>4, <3>5
  <2> QED BY <2>1, <2>2
<1>2. \A s \in SUBSET S : s \in P
  <2> HIDE DEF P
  <2> QED BY <1>1, AllSubsets
<1> QED BY <1>2

\* Summands none of which is larger add up to no more.
LEMMA SumMonotone ==
  ASSUME NEW S, IsFiniteSet(S), NEW f, NEW g,
         \A x \in S : f[x] \in Nat /\ g[x] \in Nat /\ f[x] <= g[x]
  PROVE  Sum(f, S) <= Sum(g, S)
<1> DEFINE d == [x \in S |-> g[x] - f[x]]
<1>1. \A x \in S : d[x] \in Nat /\ g[x] = f[x] + d[x]
  OBVIOUS
<1>2. Sum(g, S) = Sum(f, S) + Sum(d, S)
  <2> HIDE DEF d
  <2> QED BY <1>1, SumAdd
<1>3. Sum(d, S) \in Nat
  <2> HIDE DEF d
  <2> QED BY <1>1, SumType
<1>4. Sum(f, S) \in Nat
  BY SumType
<1> QED BY <1>2, <1>3, <1>4

\* Nothing adds up to nothing.
LEMMA SumZero ==
  ASSUME NEW S, IsFiniteSet(S), NEW f, \A x \in S : f[x] = 0
  PROVE  Sum(f, S) = 0
<1> DEFINE P == {s \in SUBSET S : Sum(f, s) = 0}
<1>1. ASSUME NEW s \in SUBSET S, \A x \in s : s \ {x} \in P PROVE s \in P
  <2>1. CASE s = {}
    BY <2>1, SumEmpty
  <2>2. CASE s # {}
    <3>1. IsFiniteSet(s) /\ \A x \in s : f[x] \in Nat
      BY FS_Subset
    <3>2. PICK x \in s : Sum(f, s) = f[x] + Sum(f, s \ {x})
      BY <2>2, <3>1, SumChosen
    <3> QED BY <1>1, <3>2
  <2> QED BY <2>1, <2>2
<1>2. \A s \in SUBSET S : s \in P
  <2> HIDE DEF P
  <2> QED BY <1>1, AllSubsets
<1> QED BY <1>2

\* What adds nothing may be left out.
LEMMA SumPart ==
  ASSUME NEW S, IsFiniteSet(S), NEW f, \A x \in S : f[x] \in Nat,
         NEW T \in SUBSET S, \A x \in S \ T : f[x] = 0
  PROVE  Sum(f, S) = Sum(f, T)
<1> DEFINE P == {s \in SUBSET S : Sum(f, s) = Sum(f, s \cap T)}
<1>1. ASSUME NEW s \in SUBSET S, \A x \in s : s \ {x} \in P PROVE s \in P
  <2>1. CASE s = {}
    BY <2>1
  <2>2. CASE s # {}
    <3>1. PICK x \in s : Sum(f, s) = f[x] + Sum(f, s \ {x})
      BY <2>2, FS_Subset, SumChosen
    <3>2. Sum(f, s \ {x}) = Sum(f, (s \ {x}) \cap T)
      BY <1>1
    <3>3. CASE x \in T
      <4>1. IsFiniteSet(s \cap T) /\ x \in s \cap T /\ \A y \in s \cap T : f[y] \in Nat
        BY <3>3, FS_Subset
      <4>2. Sum(f, s \cap T) = f[x] + Sum(f, (s \cap T) \ {x})
        BY <4>1, SumRemove
      <4>3. (s \cap T) \ {x} = (s \ {x}) \cap T
        OBVIOUS
      <4> QED BY <3>1, <3>2, <4>2, <4>3
    <3>4. CASE x \notin T
      <4>1. (s \ {x}) \cap T = s \cap T /\ f[x] = 0
        BY <3>4
      <4>2. IsFiniteSet(s \cap T) /\ \A y \in s \cap T : f[y] \in Nat
        BY FS_Subset
      <4>3. Sum(f, s \cap T) \in Nat
        BY <4>2, SumType
      <4> QED BY <3>1, <3>2, <4>1, <4>3
    <3> QED BY <3>3, <3>4
  <2> QED BY <2>1, <2>2
<1>2. \A s \in SUBSET S : s \in P
  <2> HIDE DEF P
  <2> QED BY <1>1, AllSubsets
<1>3. S \cap T = T
  OBVIOUS
<1> QED BY <1>2, <1>3

\* Leaving summands out leaves no more.
LEMMA SumSubset ==
  ASSUME NEW S, IsFiniteSet(S), NEW f, \A x \in S : f[x] \in Nat, NEW T \in SUBSET S
  PROVE  Sum(f, T) <= Sum(f, S)
<1> DEFINE g == [x \in S |-> IF x \in T THEN f[x] ELSE 0]
<1>1. \A x \in S : g[x] \in Nat /\ g[x] <= f[x]
  OBVIOUS
<1>2. IsFiniteSet(T) /\ (\A x \in T : f[x] \in Nat /\ g[x] = f[x]) /\ \A x \in S \ T : g[x] = 0
  BY FS_Subset
<1> HIDE DEF g
<1>3. Sum(g, S) = Sum(g, T)
  BY <1>1, <1>2, SumPart
<1>4. Sum(f, T) = Sum(g, T)
  BY <1>2, SumSame
<1>5. Sum(g, S) <= Sum(f, S)
  BY <1>1, SumMonotone
<1> QED BY <1>3, <1>4, <1>5
=============================================================================
