-------------------------- MODULE PagedFetch_proofs --------------------------
(***************************************************************************)
(* The scripts that ask page by page, for all answers, numbers of threads, *)
(* retries, starts and cut writes: what can be read is what the server had,*)
(* and what is lost is bounded by the writes that were cut.                *)
(***************************************************************************)
EXTENDS PagedFetch, FiniteSetTheorems, SequenceTheorems, FunctionTheorems, WellFoundedInduction, TLAPS

-----------------------------------------------------------------------------
(* Positions in an order *)

\* A set of numbers that is not empty has a least element.
LEMMA LeastNumber ==
  ASSUME NEW S, S \subseteq Nat, S # {}
  PROVE  \E m \in S : \A n \in S : m <= n
<1>1. IsWellFoundedOn(OpToRel(<, Nat), Nat)
  BY NatLessThanWellFounded
<1>2. PICK m \in S : \A n \in S : ~(<<n, m>> \in OpToRel(<, Nat))
  BY <1>1, WFMin
<1>3. \A n \in S : ~(n < m)
  BY <1>2 DEF OpToRel
<1> QED BY <1>3

Orders(R, K) ==
  /\ \A x \in K : <<x, x>> \notin R
  /\ \A x, y \in K : x # y => <<x, y>> \in R \/ <<y, x>> \in R
  /\ \A x, y, z \in K : <<x, y>> \in R /\ <<y, z>> \in R => <<x, z>> \in R

\* The one with the fewest before it has none before it.
LEMMA FirstExists ==
  ASSUME NEW K, IsFiniteSet(K), K # {}, NEW R, Orders(R, K)
  PROVE  \E m \in K : \A x \in K : x # m => <<m, x>> \in R
<1> DEFINE Ahead(x) == {y \in K : <<y, x>> \in R}
           Sizes == {Cardinality(Ahead(x)) : x \in K}
<1>1. \A x \in K : IsFiniteSet(Ahead(x)) /\ Cardinality(Ahead(x)) \in Nat
  BY FS_Subset, FS_CardinalityType
<1>2. Sizes \subseteq Nat /\ Sizes # {}
  BY <1>1
<1>3. PICK n \in Sizes : \A k \in Sizes : n <= k
  <2> HIDE DEF Sizes
  <2> QED BY <1>2, LeastNumber
<1>4. PICK m \in K : n = Cardinality(Ahead(m))
  OBVIOUS
<1>5. ASSUME NEW y \in Ahead(m) PROVE FALSE
  <2>1. Ahead(y) \subseteq Ahead(m) \ {y}
    BY DEF Orders
  <2>2. IsFiniteSet(Ahead(m) \ {y}) /\ Cardinality(Ahead(m) \ {y}) = Cardinality(Ahead(m)) - 1
    BY <1>1, FS_RemoveElement
  <2>3. Cardinality(Ahead(y)) <= Cardinality(Ahead(m) \ {y})
    BY <2>1, <2>2, FS_Subset
  <2>4. Cardinality(Ahead(y)) \in Nat /\ Cardinality(Ahead(y)) \in Sizes /\ n \in Nat
    BY <1>1, <1>2
  <2>5. n <= Cardinality(Ahead(y))
    BY <1>3, <2>4
  <2> HIDE DEF Ahead, Sizes
  <2> QED BY <1>4, <2>2, <2>3, <2>4, <2>5
<1> QED BY <1>5 DEF Orders

InRank(f, K, R) ==
  /\ f \in [1 .. Cardinality(K) -> K]
  /\ \A m, n \in 1 .. Cardinality(K) : m < n => <<f[m], f[n]>> \in R

\* The first in front of the others in order.
LEMMA FirstInFront ==
  ASSUME NEW K, IsFiniteSet(K), NEW R, NEW m \in K, \A x \in K : x # m => <<m, x>> \in R,
         NEW t, InRank(t, K \ {m}, R)
  PROVE  \E f : InRank(f, K, R)
<1> DEFINE c == Cardinality(K)
           f == [i \in 1 .. c |-> IF i = 1 THEN m ELSE t[i - 1]]
<1>1. c \in Nat /\ Cardinality(K \ {m}) = c - 1
  BY FS_CardinalityType, FS_RemoveElement
<1>2. t \in [1 .. c - 1 -> K \ {m}] /\ \A i, j \in 1 .. c - 1 : i < j => <<t[i], t[j]>> \in R
  BY <1>1 DEF InRank
<1>3. \A i \in 1 .. c : i # 1 => i - 1 \in 1 .. c - 1 /\ t[i - 1] \in K \ {m}
  <2> TAKE i \in 1 .. c
  <2> HAVE i # 1
  <2>1. i - 1 \in 1 .. c - 1
    BY <1>1
  <2> QED BY <1>2, <2>1
<1>4. f \in [1 .. c -> K]
  BY <1>3
<1>5. ASSUME NEW i \in 1 .. c, NEW j \in 1 .. c, i < j PROVE <<f[i], f[j]>> \in R
  <2>1. j # 1 /\ t[j - 1] \in K \ {m} /\ j - 1 \in 1 .. c - 1
    BY <1>1, <1>3, <1>5
  <2>2. CASE i = 1
    BY <2>1, <2>2
  <2>3. CASE i # 1
    <3>1. i - 1 \in 1 .. c - 1 /\ i - 1 < j - 1
      BY <1>1, <1>3, <1>5, <2>3
    <3> QED BY <1>2, <2>1, <2>3, <3>1
  <2> QED BY <2>2, <2>3
<1> HIDE DEF f
<1> QED BY <1>4, <1>5 DEF InRank

\* Every finite set can be put into any order of it.
LEMMA RankExists ==
  ASSUME NEW K, IsFiniteSet(K), NEW R, Orders(R, K)
  PROVE  \E f : InRank(f, K, R)
<1> DEFINE Bad == {n \in Nat : \E T \in SUBSET K : Cardinality(T) = n /\ ~ \E f : InRank(f, T, R)}
<1>1. \A T \in SUBSET K : IsFiniteSet(T) /\ Cardinality(T) \in Nat /\ Orders(R, T)
  BY FS_Subset, FS_CardinalityType DEF Orders
<1>2. ASSUME Bad # {} PROVE FALSE
  <2>1. Bad \subseteq Nat
    OBVIOUS
  <2>2. PICK n \in Bad : \A k \in Bad : n <= k
    <3> HIDE DEF Bad
    <3> QED BY <1>2, <2>1, LeastNumber
  <2>3. PICK T \in SUBSET K : Cardinality(T) = n /\ ~ \E f : InRank(f, T, R)
    OBVIOUS
  <2>4. CASE T = {}
    <3>1. InRank(<<>>, T, R)
      BY <2>4, FS_EmptySet DEF InRank
    <3> QED BY <2>3, <3>1
  <2>5. CASE T # {}
    <3>1. PICK m \in T : \A x \in T : x # m => <<m, x>> \in R
      BY <1>1, <2>5, FirstExists
    <3>2. T \ {m} \in SUBSET K /\ Cardinality(T \ {m}) = n - 1
      BY <1>1, <2>3, FS_RemoveElement
    <3>3. n - 1 \in Nat /\ ~(n <= n - 1)
      <4> HIDE DEF Bad
      <4> QED BY <1>1, <2>1, <2>2, <3>2
    <3>4. n - 1 \notin Bad
      <4> HIDE DEF Bad
      <4> QED BY <2>2, <3>3
    <3>5. PICK t : InRank(t, T \ {m}, R)
      BY <3>2, <3>3, <3>4
    <3>6. \E f : InRank(f, T, R)
      <4> HIDE DEF Bad
      <4> QED BY <1>1, <3>1, <3>5, FirstInFront
    <3> QED BY <2>3, <3>6
  <2> QED BY <2>4, <2>5
<1> QED BY <1>1, <1>2

\* Ranked names each of a finite set once and in order.
LEMMA RankedIs ==
  ASSUME NEW K, IsFiniteSet(K), NEW R, Orders(R, K)
  PROVE  /\ InRank(Ranked(K, R), K, R)
         /\ \A k \in K : \E n \in 1 .. Cardinality(K) : Ranked(K, R)[n] = k
<1> DEFINE c == Cardinality(K)
           f == Ranked(K, R)
<1>1. c \in Nat
  BY FS_CardinalityType
<1>2. \E g \in SetToSeqs(K) : \A m, n \in DOMAIN g : m < n => <<g[m], g[n]>> \in R
  <2>1. PICK g : InRank(g, K, R)
    BY RankExists
  <2>2. g \in [1 .. c -> K] /\ \A i, j \in 1 .. c : i < j => <<g[i], g[j]>> \in R
    BY <2>1 DEF InRank
  <2>3. ASSUME NEW i \in 1 .. c, NEW j \in 1 .. c, i # j PROVE g[i] # g[j]
    <3>1. i < j \/ j < i
      BY <1>1, <2>3
    <3> QED BY <2>2, <3>1 DEF Orders
  <2> QED BY <2>2, <2>3 DEF SetToSeqs
<1>3. f \in SetToSeqs(K) /\ \A m, n \in DOMAIN f : m < n => <<f[m], f[n]>> \in R
  BY <1>2 DEF Ranked
<1> HIDE DEF f
<1>4. f \in [1 .. c -> K] /\ \A i, j \in 1 .. c : i # j => f[i] # f[j]
  BY <1>3 DEF SetToSeqs
<1>5. f \in Injection(1 .. c, K)
  BY <1>4 DEF Injection, IsInjective
<1>6. f \in Surjection(1 .. c, K)
  <2>1. Cardinality(1 .. c) = c
    BY <1>1, FS_Interval
  <2> QED BY <1>5, <2>1, FS_Injection
<1>7. \A k \in K : \E n \in 1 .. c : f[n] = k
  BY <1>6 DEF Surjection
<1> QED BY <1>3, <1>4, <1>7 DEF f, InRank

\* Of two members of a the first comes from a position of s before the other's.
Follows(a, s, K, R) ==
  \A m, n \in 1 .. Cardinality(K) : m < n =>
    \E k, l \in K : <<k, l>> \in R /\ a[m] = s[k] /\ a[n] = s[l]

\* The members at some positions of a sequence, in an order of the positions.
LEMMA ArrangedIs ==
  ASSUME NEW X, NEW s \in Seq(X), NEW K, K \subseteq DOMAIN s, NEW R, Orders(R, K)
  PROVE  /\ Arranged(s, K, R) \in Seq(X)
         /\ IsFiniteSet(K) /\ Len(Arranged(s, K, R)) = Cardinality(K)
         /\ ToSet(Arranged(s, K, R)) = {s[k] : k \in K}
         /\ Follows(Arranged(s, K, R), s, K, R)
<1> DEFINE c == Cardinality(K)
           f == Ranked(K, R)
           a == [n \in 1 .. c |-> s[f[n]]]
<1>1. IsFiniteSet(DOMAIN s) /\ DOMAIN s = 1 .. Len(s) /\ \A k \in DOMAIN s : s[k] \in X
  <2>1. Len(s) \in Nat /\ DOMAIN s = 1 .. Len(s) /\ \A k \in DOMAIN s : s[k] \in X
    OBVIOUS
  <2> QED BY <2>1, FS_Interval
<1>2. IsFiniteSet(K) /\ c \in Nat
  BY <1>1, FS_Subset, FS_CardinalityType
<1>3. /\ f \in [1 .. c -> K]
      /\ \A m, n \in 1 .. c : m < n => <<f[m], f[n]>> \in R
      /\ \A k \in K : \E n \in 1 .. c : f[n] = k
  BY <1>2, RankedIs DEF InRank
<1>4. Arranged(s, K, R) = a
  BY <1>3 DEF Arranged
<1> HIDE DEF f
<1>5. a \in [1 .. c -> X]
  BY <1>1, <1>3
<1>6. a \in Seq(X) /\ Len(a) = c /\ DOMAIN a = 1 .. c
  BY <1>2, <1>5
<1>7. ToSet(a) = {s[k] : k \in K}
  <2>1. ToSet(a) = {a[n] : n \in 1 .. c}
    BY <1>6 DEF ToSet
  <2> QED BY <1>3, <2>1
<1>8. ASSUME NEW m \in 1 .. c, NEW n \in 1 .. c, m < n
      PROVE  \E k, l \in K : <<k, l>> \in R /\ a[m] = s[k] /\ a[n] = s[l]
  <2>1. f[m] \in K /\ f[n] \in K /\ <<f[m], f[n]>> \in R
    BY <1>3, <1>8
  <2> QED BY <2>1
<1> HIDE DEF a
<1>9. Follows(a, s, K, R)
  <2> SUFFICES ASSUME NEW m \in 1 .. Cardinality(K), NEW n \in 1 .. Cardinality(K), m < n
               PROVE  \E k, l \in K : <<k, l>> \in R /\ a[m] = s[k] /\ a[n] = s[l]
    BY DEF Follows
  <2> QED BY <1>8
<1> QED BY <1>2, <1>4, <1>6, <1>7, <1>9

LEMMA ThoseIs ==
  ASSUME NEW X, NEW s \in Seq(X), NEW K, K \subseteq DOMAIN s
  PROVE  /\ Those(s, K) \in Seq(X)
         /\ IsFiniteSet(K) /\ Len(Those(s, K)) = Cardinality(K)
         /\ ToSet(Those(s, K)) = {s[k] : k \in K}
<1> DEFINE R == {r \in K \X K : r[1] < r[2]}
<1>1. K \subseteq Nat
  <2>1. DOMAIN s = 1 .. Len(s) /\ Len(s) \in Nat
    OBVIOUS
  <2> QED BY <2>1
<1>2. \A x, y \in K : <<x, y>> \in R <=> x < y
  OBVIOUS
<1>3. Orders(R, K)
  <2> HIDE DEF R
  <2> QED BY <1>1, <1>2 DEF Orders
<1>4. Those(s, K) = Arranged(s, K, R)
  BY DEF Those
<1> HIDE DEF R
<1> QED BY <1>3, <1>4, ArrangedIs

\* What is picked depends on the picked positions only.
LEMMA ThoseSame ==
  ASSUME NEW X, NEW s \in Seq(X), NEW t \in Seq(X), NEW K, K \subseteq DOMAIN s,
         \A k \in K : s[k] = t[k]
  PROVE  Those(s, K) = Those(t, K)
<1> DEFINE R == {r \in K \X K : r[1] < r[2]}
           f == Ranked(K, R)
<1>1. K \subseteq Nat /\ IsFiniteSet(K)
  <2>1. DOMAIN s = 1 .. Len(s) /\ Len(s) \in Nat
    OBVIOUS
  <2>2. IsFiniteSet(DOMAIN s)
    BY <2>1, FS_Interval
  <2> QED BY <2>1, <2>2, FS_Subset
<1>2. \A x, y \in K : <<x, y>> \in R <=> x < y
  OBVIOUS
<1>3. Orders(R, K)
  <2> HIDE DEF R
  <2> QED BY <1>1, <1>2 DEF Orders
<1>4. f \in [1 .. Cardinality(K) -> K]
  <2> HIDE DEF R
  <2> QED BY <1>1, <1>3, RankedIs DEF InRank
<1>5. \A n \in DOMAIN f : s[f[n]] = t[f[n]]
  <2> HIDE DEF f
  <2> QED BY <1>4
<1> QED BY <1>5 DEF Those, Arranged

LEMMA ThoseNone == ASSUME NEW X PROVE Those(<<>>, {}) = <<>>
<1>1. <<>> \in Seq(X) /\ {} \subseteq DOMAIN <<>>
  OBVIOUS
<1>2. Those(<<>>, {}) \in Seq(X) /\ Len(Those(<<>>, {})) = 0
  BY <1>1, ThoseIs, FS_EmptySet
<1> QED BY <1>2

Rated(X) == \A x \in X : x.rate \in Nat

\* Sorted neither adds nor drops anything, and puts the better first.
LEMMA SortedIs ==
  ASSUME NEW X, Rated(X), NEW s \in Seq(X)
  PROVE  /\ Sorted(s) \in Seq(X) /\ Len(Sorted(s)) = Len(s) /\ ToSet(Sorted(s)) = ToSet(s)
         /\ \A m, n \in 1 .. Len(s) : m < n => ~Before(Sorted(s)[n], Sorted(s)[m])
<1> DEFINE K == DOMAIN s
           R == {r \in K \X K : InOrder(s, r[1], r[2])}
<1>1. K = 1 .. Len(s) /\ Len(s) \in Nat /\ Cardinality(K) = Len(s)
  <2>1. K = 1 .. Len(s) /\ Len(s) \in Nat
    OBVIOUS
  <2> QED BY <2>1, FS_Interval
<1>2. \A k \in K : s[k].rate \in Nat
  <2>1. \A k \in K : s[k] \in X
    OBVIOUS
  <2> QED BY <2>1 DEF Rated
<1>3. \A x, y \in K : <<x, y>> \in R <=> InOrder(s, x, y)
  OBVIOUS
<1>4. Sorted(s) = Arranged(s, K, R)
  BY DEF Sorted
<1>5. Orders(R, K)
  <2> HIDE DEF R, K
  <2> DEFINE r == [k \in K |-> s[k].rate]
  <2>1. K \subseteq Nat /\ \A k \in K : r[k] \in Nat
    BY <1>1, <1>2
  <2>2. \A x, y \in K : <<x, y>> \in R <=> r[x] < r[y] \/ (~(r[y] < r[x]) /\ x < y)
    BY <1>3 DEF InOrder, Before
  <2> HIDE DEF r
  <2> QED BY <2>1, <2>2 DEF Orders
<1>6. ToSet(s) = {s[k] : k \in K}
  BY DEF ToSet
<1> HIDE DEF K, R
<1>7. /\ Sorted(s) \in Seq(X)
      /\ Len(Sorted(s)) = Cardinality(K)
      /\ ToSet(Sorted(s)) = {s[k] : k \in K}
      /\ Follows(Sorted(s), s, K, R)
  <2>1. K \subseteq DOMAIN s
    BY DEF K
  <2> DEFINE a == Arranged(s, K, R)
  <2>4. a \in Seq(X) /\ Len(a) = Cardinality(K)
    BY <1>5, <2>1, ArrangedIs
  <2>5. ToSet(a) = {s[k] : k \in K}
    BY <1>5, <2>1, ArrangedIs
  <2>2. Follows(a, s, K, R)
    BY <1>5, <2>1, ArrangedIs
  <2> HIDE DEF a
  <2>3. Sorted(s) = a
    BY <1>4 DEF a
  <2> QED BY <2>2, <2>3, <2>4, <2>5
<1>8. ASSUME NEW m \in 1 .. Len(s), NEW n \in 1 .. Len(s), m < n
      PROVE  ~Before(Sorted(s)[n], Sorted(s)[m])
  <2>1. PICK k \in K, l \in K : /\ <<k, l>> \in R
                                /\ Sorted(s)[m] = s[k] /\ Sorted(s)[n] = s[l]
    BY <1>1, <1>7, <1>8 DEF Follows
  <2>2. InOrder(s, k, l)
    BY <1>3, <2>1
  <2> QED BY <1>2, <2>1, <2>2 DEF InOrder, Before
<1> QED BY <1>1, <1>6, <1>7, <1>8

\* A side is in order, and what its limit leaves out is no better than what it
\* keeps.
LEMMA SideIs ==
  ASSUME NEW X, Rated(X), NEW s \in Seq(X), NEW side
  PROVE  /\ \A k, l \in DOMAIN Side(s, side) : k < l => ~Before(Side(s, side)[l], Side(s, side)[k])
         /\ \A x \in ToSet(OnSide(s, side)) :
              \/ x \in ToSet(Side(s, side))
              \/ /\ Len(Side(s, side)) = Limit
                 /\ \A y \in ToSet(Side(s, side)) : ~Before(x, y)
<1> DEFINE t == OnSide(s, side)
           u == Sorted(t)
           v == Side(s, side)
<1>1. t \in Seq(X)
  BY ThoseIs DEF OnSide
<1>2. /\ u \in Seq(X) /\ Len(u) = Len(t) /\ ToSet(u) = ToSet(t)
      /\ \A m, n \in 1 .. Len(t) : m < n => ~Before(u[n], u[m])
  BY <1>1, SortedIs
<1>3. v = Kept(u)
  BY DEF Side
<1> HIDE DEF t, u, v
<1>4. Limit \in Nat /\ Len(t) \in Nat /\ DOMAIN u = 1 .. Len(t)
  BY <1>1, <1>2, PagedAssumption
<1>5. CASE Limit > 0 /\ Limit < Len(t)
  <2>1. v = SubSeq(u, 1, Limit)
    BY <1>2, <1>3, <1>5 DEF Kept
  <2>2. Len(v) = Limit /\ DOMAIN v = 1 .. Limit /\ \A n \in 1 .. Limit : v[n] = u[n]
    BY <1>2, <1>4, <1>5, <2>1
  <2>3. \A k, l \in DOMAIN v : k < l => ~Before(v[l], v[k])
    BY <1>2, <1>4, <1>5, <2>2
  <2>4. ASSUME NEW x \in ToSet(t), x \notin ToSet(v)
        PROVE  \A y \in ToSet(v) : ~Before(x, y)
    <3>1. PICK n \in 1 .. Len(t) : x = u[n]
      BY <1>2, <1>4 DEF ToSet
    <3>2. ~(n <= Limit)
      BY <1>4, <2>2, <2>4, <3>1 DEF ToSet
    <3>3. \A y \in ToSet(v) : \E m \in 1 .. Limit : y = u[m]
      BY <2>2 DEF ToSet
    <3> QED BY <1>2, <1>4, <1>5, <3>1, <3>2, <3>3
  <2> QED BY <2>2, <2>3, <2>4 DEF t, v
<1>6. CASE ~(Limit > 0 /\ Limit < Len(t))
  <2>1. v = u
    BY <1>2, <1>3, <1>6 DEF Kept
  <2> QED BY <1>2, <1>4, <2>1 DEF t, v
<1> QED BY <1>5, <1>6

-----------------------------------------------------------------------------
(* Pages one after the other *)

\* g[n] is what the first n of some pages hold.
Piles(g, s) ==
  /\ g[0] = <<>>
  /\ \A i \in 1 .. Len(s) : g[i] = g[i - 1] \o s[i]
  /\ FlattenSeq(s) = g[Len(s)]

Pile(s) == CHOOSE g : Piles(g, s)

Joins(h, s, n) ==
  \A i \in 1 .. n : h[i] = IF i = 1 THEN s[i] ELSE h[i - 1] \o s[i]

LEMMA JoinExists ==
  ASSUME NEW X, NEW s \in Seq(Seq(X))
  PROVE  \A n \in 0 .. Len(s) : \E h \in [1 .. n -> Seq(X)] : Joins(h, s, n)
<1> DEFINE Bad == {n \in 0 .. Len(s) : ~ \E h \in [1 .. n -> Seq(X)] : Joins(h, s, n)}
<1>1. Len(s) \in Nat /\ \A i \in 1 .. Len(s) : s[i] \in Seq(X)
  OBVIOUS
<1>2. ASSUME Bad # {} PROVE FALSE
  <2>1. Bad \subseteq Nat
    BY <1>1
  <2>2. PICK n \in Bad : \A m \in Bad : n <= m
    <3> HIDE DEF Bad
    <3> QED BY <1>2, <2>1, LeastNumber
  <2>3. n \in 0 .. Len(s) /\ ~ \E h \in [1 .. n -> Seq(X)] : Joins(h, s, n)
    OBVIOUS
  <2>4. n # 0
    <3>1. [i \in 1 .. 0 |-> <<>>] \in [1 .. 0 -> Seq(X)] /\ Joins([i \in 1 .. 0 |-> <<>>], s, 0)
      BY DEF Joins
    <3> QED BY <2>3, <3>1
  <2>5. n - 1 \in 0 .. Len(s) /\ ~(n <= n - 1)
    BY <1>1, <2>3, <2>4
  <2>6. n - 1 \notin Bad
    <3> HIDE DEF Bad
    <3> QED BY <2>2, <2>5
  <2>7. PICK h \in [1 .. n - 1 -> Seq(X)] : Joins(h, s, n - 1)
    BY <2>5, <2>6
  <2> DEFINE k == [i \in 1 .. n |-> IF i < n THEN h[i] ELSE IF i = 1 THEN s[i] ELSE h[i - 1] \o s[i]]
  <2> HIDE DEF Bad
  <2>8. \A i \in 1 .. n : i # n => i \in 1 .. n - 1
    BY <1>1, <2>3
  <2>9. \A i \in 1 .. n : i # 1 => i - 1 \in 1 .. n - 1 /\ i - 1 < n
    BY <1>1, <2>3
  <2>10. \A i \in 1 .. n : s[i] \in Seq(X)
    BY <1>1, <2>3
  <2>11. \A i \in 1 .. n : i < n => k[i] = h[i] /\ k[i] \in Seq(X)
    BY <1>1, <2>3, <2>7, <2>8
  <2>12. k[n] = IF n = 1 THEN s[n] ELSE h[n - 1] \o s[n]
    BY <1>1, <2>3, <2>4
  <2>13. k[n] \in Seq(X)
    BY <2>3, <2>4, <2>7, <2>9, <2>10, <2>12
  <2>14. k \in [1 .. n -> Seq(X)]
    <3>1. \A i \in 1 .. n : k[i] \in Seq(X)
      BY <1>1, <2>3, <2>11, <2>13
    <3> QED BY <3>1
  <2>15. Joins(k, s, n)
    <3> SUFFICES ASSUME NEW i \in 1 .. n PROVE k[i] = IF i = 1 THEN s[i] ELSE k[i - 1] \o s[i]
      BY DEF Joins
    <3>1. i # 1 => k[i - 1] = h[i - 1]
      BY <1>1, <2>3, <2>9, <2>11
    <3>2. CASE i = n
      BY <2>12, <3>1, <3>2
    <3>3. CASE i # n
      <4>1. i \in 1 .. n - 1 /\ i < n
        BY <1>1, <2>3, <3>3
      <4>2. h[i] = IF i = 1 THEN s[i] ELSE h[i - 1] \o s[i]
        BY <2>7, <4>1 DEF Joins
      <4> HIDE DEF k
      <4> QED BY <2>11, <3>1, <4>1, <4>2
    <3> QED BY <3>2, <3>3
  <2> HIDE DEF k
  <2> QED BY <2>3, <2>14, <2>15
<1> QED BY <1>2

LEMMA PileIs ==
  ASSUME NEW X, NEW s \in Seq(Seq(X)), Len(s) > 0
  PROVE  Piles(Pile(s), s) /\ \A n \in 0 .. Len(s) : Pile(s)[n] \in Seq(X)
<1> DEFINE c == Len(s)
           F(h) == [i \in 1 .. c |-> IF i = 1 THEN s[i] ELSE h[i - 1] \o s[i]]
           h == CHOOSE h : h = F(h)
<1>1. c \in Nat /\ c > 0 /\ \A i \in 1 .. c : s[i] \in Seq(X)
  OBVIOUS
<1>2. PICK k \in [1 .. c -> Seq(X)] : Joins(k, s, c)
  BY <1>1, JoinExists
<1>3. k = F(k)
  BY <1>2 DEF Joins
<1>4. h = F(h)
  <2> HIDE DEF F
  <2> QED BY <1>3
<1>5. FlattenSeq(s) = h[c]
  BY <1>1 DEF FlattenSeq
<1>6. \A i \in 1 .. c : h[i] = IF i = 1 THEN s[i] ELSE h[i - 1] \o s[i]
  <2> HIDE DEF h
  <2> QED BY <1>4
<1> HIDE DEF h, F
<1> DEFINE g == [n \in 0 .. c |-> IF n = 0 THEN <<>> ELSE h[n]]
<1>7. Piles(g, s)
  <2>1. \A i \in 1 .. c : g[i] = h[i] /\ i - 1 \in 0 .. c /\ i - 1 >= 0
    BY <1>1
  <2>2. g[0] = <<>> /\ FlattenSeq(s) = g[c]
    BY <1>1, <1>5
  <2>3. ASSUME NEW i \in 1 .. c PROVE g[i] = g[i - 1] \o s[i]
    <3>1. CASE i = 1
      <4>1. g[i] = s[i] /\ i - 1 = 0
        BY <1>1, <1>6, <2>1, <3>1
      <4>2. <<>> \o s[i] = s[i]
        BY <1>1, ConcatEmptySeq
      <4>3. g[i - 1] = <<>>
        BY <2>2, <4>1
      <4> HIDE DEF g
      <4> QED BY <4>1, <4>2, <4>3
    <3>2. CASE i # 1
      <4>1. i - 1 \in 1 .. c
        BY <1>1, <3>2
      <4> QED BY <1>6, <2>1, <3>2, <4>1
    <3> QED BY <3>1, <3>2
  <2> HIDE DEF g
  <2> QED BY <2>2, <2>3 DEF Piles
<1>8. Piles(Pile(s), s)
  BY <1>7 DEF Pile
<1>9. \A n \in 0 .. c : Pile(s)[n] \in Seq(X)
  <2> DEFINE Bad == {n \in 0 .. c : Pile(s)[n] \notin Seq(X)}
  <2>1. ASSUME Bad # {} PROVE FALSE
    <3>1. Bad \subseteq Nat
      BY <1>1
    <3>2. PICK n \in Bad : \A m \in Bad : n <= m
      <4> HIDE DEF Bad
      <4> QED BY <2>1, <3>1, LeastNumber
    <3>3. n \in 0 .. c /\ Pile(s)[n] \notin Seq(X)
      OBVIOUS
    <3>4. n # 0
      <4>1. Pile(s)[0] = <<>> /\ <<>> \in Seq(X)
        BY <1>8 DEF Piles
      <4> QED BY <3>3, <4>1
    <3>5. n \in 1 .. c /\ n - 1 \in 0 .. c /\ ~(n <= n - 1)
      BY <1>1, <3>3, <3>4
    <3>6. n - 1 \notin Bad
      <4> HIDE DEF Bad
      <4> QED BY <3>2, <3>5
    <3>7. Pile(s)[n - 1] \in Seq(X) /\ s[n] \in Seq(X)
      BY <1>1, <3>5, <3>6
    <3>8. Pile(s)[n] = Pile(s)[n - 1] \o s[n]
      BY <1>8, <3>5 DEF Piles
    <3> QED BY <3>3, <3>7, <3>8
  <2> QED BY <2>1
<1> QED BY <1>8, <1>9

Begins(s, n, X) == \E r \in Seq(X) : FlattenSeq(s) = Pile(s)[n] \o r

LEMMA Reassociate ==
  ASSUME NEW X, NEW a \in Seq(X), NEW b \in Seq(X), NEW c \in Seq(X), NEW f, NEW g,
         g = a \o b, f = g \o c
  PROVE  f = a \o (b \o c)
BY ConcatAssociative

LEMMA BeginsBefore ==
  ASSUME NEW X, NEW s \in Seq(Seq(X)), Len(s) > 0, NEW i \in 1 .. Len(s), Begins(s, i, X)
  PROVE  Begins(s, i - 1, X)
<1>1. PICK r \in Seq(X) : FlattenSeq(s) = Pile(s)[i] \o r
  BY DEF Begins
<1>2. i - 1 \in 0 .. Len(s) /\ s[i] \in Seq(X)
  OBVIOUS
<1>3. Pile(s)[i] = Pile(s)[i - 1] \o s[i] /\ Pile(s)[i - 1] \in Seq(X)
  <2>1. Piles(Pile(s), s) /\ \A n \in 0 .. Len(s) : Pile(s)[n] \in Seq(X)
    BY PileIs
  <2> QED BY <1>2, <2>1 DEF Piles
<1>5. s[i] \o r \in Seq(X)
  BY <1>2, ConcatProperties
<1>6. FlattenSeq(s) = Pile(s)[i - 1] \o (s[i] \o r)
  <2> DEFINE a == Pile(s)[i - 1]
             g == Pile(s)[i]
             b == s[i]
             f == FlattenSeq(s)
  <2>1. a \in Seq(X) /\ b \in Seq(X) /\ g = a \o b /\ f = g \o r
    BY <1>1, <1>2, <1>3
  <2> HIDE DEF a, b, f, g
  <2>2. f = a \o (b \o r)
    BY <2>1, Reassociate
  <2> QED BY <2>2 DEF a, b, f
<1> QED BY <1>5, <1>6, Zenon DEF Begins

\* What some of the pages hold is a beginning of what all of them hold.
LEMMA PileBegins ==
  ASSUME NEW X, NEW s \in Seq(Seq(X)), Len(s) > 0, NEW n \in 0 .. Len(s)
  PROVE  Begins(s, n, X)
<1> DEFINE c == Len(s)
           Bad == {m \in 0 .. c : ~Begins(s, c - m, X)}
<1>1. c \in Nat
  OBVIOUS
<1> HIDE DEF c
<1>2. ASSUME Bad # {} PROVE FALSE
  <2>1. Bad \subseteq Nat
    BY <1>1
  <2>2. PICK m \in Bad : \A k \in Bad : m <= k
    <3> HIDE DEF Bad
    <3> QED BY <1>2, <2>1, LeastNumber
  <2>3. m \in 0 .. c /\ ~Begins(s, c - m, X)
    OBVIOUS
  <2>4. m # 0
    <3>1. FlattenSeq(s) = Pile(s)[c] /\ Pile(s)[c] \in Seq(X)
      <4>1. Piles(Pile(s), s) /\ \A k \in 0 .. c : Pile(s)[k] \in Seq(X)
        BY PileIs DEF c
      <4> QED BY <1>1, <4>1 DEF Piles, c
    <3>2. Pile(s)[c] \o <<>> = Pile(s)[c] /\ <<>> \in Seq(X) /\ c - 0 = c
      BY <1>1, <3>1, ConcatEmptySeq
    <3> QED BY <2>3, <3>1, <3>2 DEF Begins
  <2>5. m - 1 \in 0 .. c /\ ~(m <= m - 1)
    BY <1>1, <2>3, <2>4
  <2>6. m - 1 \notin Bad
    <3> HIDE DEF Bad
    <3> QED BY <2>2, <2>5
  <2>7. Begins(s, c - (m - 1), X)
    BY <2>5, <2>6
  <2>8. c - (m - 1) \in 1 .. c /\ (c - (m - 1)) - 1 = c - m
    BY <1>1, <2>3, <2>4
  <2>9. Begins(s, (c - (m - 1)) - 1, X)
    BY <2>7, <2>8, BeginsBefore DEF c
  <2> QED BY <2>3, <2>8, <2>9
<1>3. c - n \in 0 .. c /\ c - (c - n) = n
  BY <1>1 DEF c
<1> QED BY <1>2, <1>3

-----------------------------------------------------------------------------
(* The early stop of the prebook *)

Short(s) == \A n \in 0 .. Len(s) : ~Enough(SubSeq(s, 1, n))

LEMMA FrontOf ==
  ASSUME NEW X, NEW s \in Seq(X), NEW p \in Seq(X), NEW r \in Seq(X)
  PROVE  /\ Len((s \o p) \o r) = Len(s) + Len(p) + Len(r)
         /\ \A n \in 0 .. Len(s) : SubSeq((s \o p) \o r, 1, n) = SubSeq(s, 1, n)
         /\ \A n \in 0 .. Len(p) : SubSeq((s \o p) \o r, 1, Len(s) + n) = s \o SubSeq(p, 1, n)
<1> DEFINE w == (s \o p) \o r
<1>1. Len(s) \in Nat /\ Len(p) \in Nat /\ Len(r) \in Nat /\ s \o p \in Seq(X) /\ w \in Seq(X)
  BY ConcatProperties
<1>2. Len(w) = Len(s) + Len(p) + Len(r)
  BY <1>1, ConcatProperties
<1>3. /\ \A i \in 1 .. Len(s) : w[i] = s[i]
      /\ \A i \in 1 .. Len(p) : w[Len(s) + i] = p[i]
  BY <1>1, ConcatProperties
<1> HIDE DEF w
<1>4. ASSUME NEW n \in 0 .. Len(s) PROVE SubSeq(w, 1, n) = SubSeq(s, 1, n)
  <2>1. /\ SubSeq(w, 1, n) \in Seq(X) /\ Len(SubSeq(w, 1, n)) = n
        /\ SubSeq(s, 1, n) \in Seq(X) /\ Len(SubSeq(s, 1, n)) = n
        /\ \A i \in 1 .. n : SubSeq(w, 1, n)[i] = w[i] /\ SubSeq(s, 1, n)[i] = s[i]
    BY <1>1, <1>2
  <2>2. \A i \in 1 .. n : SubSeq(w, 1, n)[i] = SubSeq(s, 1, n)[i]
    BY <1>1, <1>3, <2>1
  <2> QED BY <2>1, <2>2, SeqEqual
<1>5. ASSUME NEW n \in 0 .. Len(p) PROVE SubSeq(w, 1, Len(s) + n) = s \o SubSeq(p, 1, n)
  <2> DEFINE a == SubSeq(w, 1, Len(s) + n)
             b == SubSeq(p, 1, n)
  <2>1. /\ a \in Seq(X) /\ Len(a) = Len(s) + n
        /\ \A i \in 1 .. Len(s) + n : a[i] = w[i]
    BY <1>1, <1>2
  <2>2. b \in Seq(X) /\ Len(b) = n /\ \A i \in 1 .. n : b[i] = p[i]
    BY <1>1
  <2>3. /\ s \o b \in Seq(X) /\ Len(s \o b) = Len(s) + n
        /\ \A i \in 1 .. Len(s) + n : (s \o b)[i] = IF i <= Len(s) THEN s[i] ELSE b[i - Len(s)]
    BY <1>1, <2>2
  <2> HIDE DEF a, b
  <2>4. ASSUME NEW i \in 1 .. Len(s) + n PROVE a[i] = (s \o b)[i]
    <3>1. CASE i <= Len(s)
      BY <1>1, <1>3, <2>1, <2>3, <3>1
    <3>2. CASE ~(i <= Len(s))
      <4>1. i - Len(s) \in 1 .. n /\ i - Len(s) \in 1 .. Len(p) /\ i = Len(s) + (i - Len(s))
        BY <1>1, <3>2
      <4> QED BY <1>3, <2>1, <2>2, <2>3, <3>2, <4>1
    <3> QED BY <3>1, <3>2
  <2> QED BY <2>1, <2>3, <2>4, SeqEqual DEF a, b
<1> QED BY <1>2, <1>4, <1>5 DEF w

\* As long as too little is found a page is taken whole; and where enough is
\* found is where all pages together would be left.
LEMMA TakenIs ==
  ASSUME script = "prebook", NEW X, NEW s \in Seq(X), NEW p \in Seq(X), Short(s)
  PROVE  /\ Taken(s, p) \in Seq(X)
         /\ ~Enough(Taken(s, p)) => Taken(s, p) = s \o p /\ Short(Taken(s, p))
         /\ Enough(Taken(s, p)) =>
              \A r \in Seq(X) : Taken(<<>>, (s \o p) \o r) = Taken(s, p)
<1> DEFINE stops == {n \in 0 .. Len(p) : Enough(s \o SubSeq(p, 1, n))}
<1>1. Len(s) \in Nat /\ Len(p) \in Nat /\ s \o p \in Seq(X) /\ (s \o p) \o <<>> = s \o p
  <2>1. s \o p \in Seq(X)
    BY ConcatProperties
  <2> QED BY <2>1, ConcatEmptySeq
<1>2. CASE stops = {}
  <2>1. Taken(s, p) = s \o p
    BY <1>2 DEF Taken
  <2>2. ASSUME NEW n \in 0 .. Len(s \o p) PROVE ~Enough(SubSeq(s \o p, 1, n))
    <3>1. <<>> \in Seq(X) /\ Len(s \o p) = Len(s) + Len(p)
      BY <1>1, ConcatProperties
    <3>2. CASE n <= Len(s)
      <4>1. n \in 0 .. Len(s)
        BY <1>1, <3>1, <3>2
      <4>2. SubSeq(s \o p, 1, n) = SubSeq(s, 1, n)
        BY <1>1, <3>1, <4>1, FrontOf
      <4> QED BY <4>1, <4>2 DEF Short
    <3>3. CASE ~(n <= Len(s))
      <4>1. n - Len(s) \in 0 .. Len(p) /\ n = Len(s) + (n - Len(s))
        BY <1>1, <3>1, <3>3
      <4>2. SubSeq(s \o p, 1, n) = s \o SubSeq(p, 1, n - Len(s))
        <5>1. \A m \in 0 .. Len(p) : SubSeq(s \o p, 1, Len(s) + m) = s \o SubSeq(p, 1, m)
          BY <1>1, <3>1, FrontOf
        <5> QED BY <4>1, <5>1
      <4> QED BY <1>2, <4>1, <4>2
    <3> QED BY <3>2, <3>3
  <2>3. ~Enough(s \o p)
    <3>1. SubSeq(s \o p, 1, Len(s \o p)) = s \o p
      BY <1>1, SubSeqFull
    <3>2. Len(s \o p) \in 0 .. Len(s \o p)
      BY <1>1, LenProperties
    <3> QED BY <2>2, <3>1, <3>2
  <2> QED BY <1>1, <2>1, <2>2, <2>3 DEF Short
<1>3. CASE stops # {}
  <2> DEFINE first(S) == CHOOSE n \in S : \A m \in S : n <= m
             k == first(stops)
  <2>1. stops \subseteq Nat
    BY <1>1
  <2>2. k \in stops /\ \A m \in stops : k <= m
    <3> HIDE DEF stops
    <3> QED BY <1>3, <2>1, LeastNumber
  <2>3. Taken(s, p) = s \o SubSeq(p, 1, k)
    BY <1>3 DEF Taken
  <2> HIDE DEF k
  <2>4. k \in 0 .. Len(p) /\ Enough(s \o SubSeq(p, 1, k))
    BY <2>2
  <2>5. Taken(s, p) \in Seq(X)
    <3>1. SubSeq(p, 1, k) \in Seq(X)
      BY <1>1, <2>4
    <3> QED BY <2>3, <3>1, ConcatProperties
  <2>6. ASSUME NEW r \in Seq(X) PROVE Taken(<<>>, (s \o p) \o r) = Taken(s, p)
    <3> DEFINE w == (s \o p) \o r
               all == {n \in 0 .. Len(w) : Enough(<<>> \o SubSeq(w, 1, n))}
               K == Len(s) + k
    <3>1. /\ Len(w) = Len(s) + Len(p) + Len(r) /\ Len(r) \in Nat
          /\ \A n \in 0 .. Len(s) : SubSeq(w, 1, n) = SubSeq(s, 1, n)
          /\ \A n \in 0 .. Len(p) : SubSeq(w, 1, Len(s) + n) = s \o SubSeq(p, 1, n)
      BY FrontOf
    <3>2. w \in Seq(X) /\ \A n \in 0 .. Len(w) : <<>> \o SubSeq(w, 1, n) = SubSeq(w, 1, n)
      <4>1. w \in Seq(X)
        BY <1>1, ConcatProperties
      <4>2. ASSUME NEW n \in 0 .. Len(w) PROVE <<>> \o SubSeq(w, 1, n) = SubSeq(w, 1, n)
        <5>1. SubSeq(w, 1, n) \in Seq(X)
          BY <4>1
        <5> QED BY <5>1, ConcatEmptySeq
      <4> QED BY <4>1, <4>2
    <3> HIDE DEF w
    <3>3. K \in all
      <4>1. K \in 0 .. Len(w) /\ SubSeq(w, 1, K) = s \o SubSeq(p, 1, k)
        BY <1>1, <2>4, <3>1
      <4> QED BY <2>4, <3>2, <4>1
    <3>4. ASSUME NEW n \in all, n < K PROVE FALSE
      <4>1. n \in 0 .. Len(w) /\ Enough(SubSeq(w, 1, n))
        BY <3>2
      <4>2. CASE n <= Len(s)
        <5>1. n \in 0 .. Len(s)
          BY <1>1, <4>1, <4>2
        <5> QED BY <3>1, <4>1, <5>1 DEF Short
      <4>3. CASE ~(n <= Len(s))
        <5> DEFINE m == n - Len(s)
        <5>1. m \in 0 .. Len(p) /\ n = Len(s) + m /\ ~(k <= m)
          BY <1>1, <2>4, <3>1, <3>4, <4>1, <4>3
        <5>2. Enough(s \o SubSeq(p, 1, m))
          <6> HIDE DEF m
          <6> QED BY <3>1, <4>1, <5>1
        <5> HIDE DEF m
        <5>3. m \in stops
          BY <5>1, <5>2
        <5> QED BY <2>2, <5>1, <5>3
      <4> QED BY <4>2, <4>3
    <3>5. K \in Nat /\ all \subseteq Nat
      BY <1>1, <2>4, <3>1
    <3>6. first(all) = K
      <4> HIDE DEF K, all
      <4>1. \A m \in all : K <= m
        BY <3>4, <3>5
      <4>2. first(all) \in all /\ \A m \in all : first(all) <= m
        BY <3>3, <4>1
      <4>3. first(all) <= K /\ K <= first(all) /\ first(all) \in Nat
        BY <3>3, <3>5, <4>1, <4>2
      <4> HIDE DEF first
      <4> QED BY <3>5, <4>3
    <3>7. Taken(<<>>, w) = <<>> \o SubSeq(w, 1, first(all))
      <4>1. all # {}
        BY <3>3
      <4> QED BY <4>1 DEF Taken
    <3>8. K \in 0 .. Len(w) /\ SubSeq(w, 1, K) = s \o SubSeq(p, 1, k)
      BY <1>1, <2>4, <3>1
    <3> HIDE DEF first, all, K
    <3> QED BY <2>3, <3>2, <3>6, <3>7, <3>8 DEF w
  <2> QED BY <2>3, <2>4, <2>5, <2>6
<1> QED BY <1>2, <1>3

LEMMA TakenShort ==
  ASSUME script = "prebook", NEW X, NEW s \in Seq(X), Short(s)
  PROVE  Taken(<<>>, s) = s
<1>1. Len(s) \in Nat /\ <<>> \o s = s
  BY ConcatEmptySeq
<1>2. ASSUME NEW n \in 0 .. Len(s) PROVE ~Enough(<<>> \o SubSeq(s, 1, n))
  <2>1. SubSeq(s, 1, n) \in Seq(X)
    BY <1>1
  <2>2. <<>> \o SubSeq(s, 1, n) = SubSeq(s, 1, n)
    BY <2>1, ConcatEmptySeq
  <2> QED BY <2>2 DEF Short
<1>3. {n \in 0 .. Len(s) : Enough(<<>> \o SubSeq(s, 1, n))} = {}
  BY <1>2
<1> QED BY <1>1, <1>3 DEF Taken

-----------------------------------------------------------------------------
(* The invariant: jobs and the pool *)

Working == {"todo", "queued", "calling", "storing", "reporting"}

AllParts == UNION {ToSet(Parts[script][j]) : j \in Jobs}

AllItems == UNION {Answers(script, j) : j \in Jobs}

Line == [job : Jobs, part : AllParts, value : Seq(AllItems), end : Ends]

StateTypes ==
  /\ ok \in [Files -> Seq(Line)]
  /\ page \in [Jobs -> Nat] /\ attempt \in [Jobs -> Nat]
  /\ items \in [Jobs -> Seq(AllItems)]
  /\ parts \in [Jobs -> Seq(AllParts)] /\ left \in [Jobs -> Seq(AllParts)]

\* What a job has still to write is part of what it is there for, and a job
\* that is not over has something to write.
JobInv ==
  \A j \in Jobs :
    /\ ToSet(left[j]) \subseteq ToSet(parts[j])
    /\ ToSet(parts[j]) \subseteq ToSet(Parts[script][j])
    /\ phase[j] \in Working => left[j] # <<>>
    /\ phase[j] \in {"todo", "queued"} => page[j] = 1 /\ items[j] = <<>>
    /\ phase[j] = "storing" /\ script # "prebook" => LastPage(j)

\* No job is left behind: while one waits to be handed to the pool another is
\* in it.
PoolInv ==
  /\ script = "ticks" => \A j \in Jobs : phase[j] \notin {"storing", "reporting"}
  /\ pc # "fetching" => \A j \in Jobs : phase[j] = "idle"
  /\ (\E j \in Jobs : phase[j] = "todo") => \E j \in Jobs : phase[j] \notin {"idle", "todo"}
  /\ pc = "writing" => script = "ticks" /\ answered = Jobs

PagedInv == TypeOK /\ StateTypes /\ JobInv /\ PoolInv

\* The answers and the parts are sequences of what the script deals with.
LEMMA DataTypes ==
  ASSUME script \in Scripts
  PROVE  \A j \in Jobs :
           /\ Pages[script][j] \in Seq(Seq(AllItems)) /\ Len(Pages[script][j]) > 0
           /\ Parts[script][j] \in Seq(AllParts)
           /\ \A n \in DOMAIN Pages[script][j] : Pages[script][j][n] \in Seq(AllItems)
<1> TAKE j \in Jobs
<1> DEFINE X == Answers(script, j)
           Y == ToSet(Parts[script][j])
           P == Pages[script][j]
           Q == Parts[script][j]
<1>1. P \in Seq(Seq(X)) /\ Len(P) > 0 /\ Q \in Seq(Y)
  BY PagedAssumption
<1>2. X \subseteq AllItems /\ Y \subseteq AllParts
  BY DEF AllItems, AllParts
<1> HIDE DEF X, Y, P, Q
<1>3. Seq(X) \subseteq Seq(AllItems) /\ Seq(Y) \subseteq Seq(AllParts)
  BY <1>2, SeqMonotonic
<1>4. Seq(Seq(X)) \subseteq Seq(Seq(AllItems))
  BY <1>3, SeqMonotonic
<1>5. P \in Seq(Seq(AllItems)) /\ Q \in Seq(AllParts)
  BY <1>1, <1>3, <1>4
<1>6. \A n \in DOMAIN P : P[n] \in Seq(AllItems)
  BY <1>5
<1> QED BY <1>1, <1>5, <1>6 DEF P, Q

LEMMA PrebookRated ==
  ASSUME script = "prebook", script \in Scripts
  PROVE  Rated(AllItems)
BY PagedAssumption DEF Rated, AllItems

\* What a job gathers, and what is written of it, is of the answers.
LEMMA TakenType ==
  ASSUME NEW s \in Seq(AllItems), NEW p \in Seq(AllItems)
  PROVE  Taken(s, p) \in Seq(AllItems)
<1>1. s \o p \in Seq(AllItems) /\ Len(p) \in Nat
  BY ConcatProperties
<1>2. \A n \in 0 .. Len(p) : s \o SubSeq(p, 1, n) \in Seq(AllItems)
  <2> TAKE n \in 0 .. Len(p)
  <2>1. SubSeq(p, 1, n) \in Seq(AllItems)
    BY <1>1
  <2> QED BY <2>1, ConcatProperties
<1> DEFINE stops == {n \in 0 .. Len(p) : Enough(s \o SubSeq(p, 1, n))}
<1>3. CASE script # "prebook" \/ stops = {}
  BY <1>1, <1>3 DEF Taken
<1>4. CASE script = "prebook" /\ stops # {}
  <2>1. stops \subseteq Nat
    BY <1>1
  <2>2. \E n \in stops : \A m \in stops : n <= m
    <3> HIDE DEF stops
    <3> QED BY <1>4, <2>1, LeastNumber
  <2> DEFINE k == CHOOSE n \in stops : \A m \in stops : n <= m
  <2>3. k \in stops
    <3> HIDE DEF stops
    <3> QED BY <2>2
  <2>4. Taken(s, p) = s \o SubSeq(p, 1, k)
    BY <1>4 DEF Taken
  <2> HIDE DEF k
  <2> QED BY <1>2, <2>3, <2>4
<1> QED BY <1>3, <1>4

LEMMA ValueType ==
  ASSUME script \in Scripts, NEW s \in Seq(AllItems), NEW part
  PROVE  ValueOf(part, s) \in Seq(AllItems)
<1>1. Matches(s, part) \in Seq(AllItems)
  BY ThoseIs DEF Matches
<1>2. ASSUME script = "prebook" PROVE Side(s, part) \in Seq(AllItems)
  <2>1. OnSide(s, part) \in Seq(AllItems)
    BY ThoseIs DEF OnSide
  <2>2. Sorted(OnSide(s, part)) \in Seq(AllItems)
    BY <1>2, <2>1, PrebookRated, SortedIs
  <2> DEFINE t == Sorted(OnSide(s, part))
  <2> HIDE DEF t
  <2>3. Limit > 0 /\ Limit < Len(t) => SubSeq(t, 1, Limit) \in Seq(AllItems)
    BY <2>2, PagedAssumption DEF t
  <2> QED BY <2>2, <2>3 DEF Side, Kept, t
<1> QED BY <1>1, <1>2 DEF ValueOf

LEMMA DueType ==
  ASSUME script \in Scripts, NEW j \in Jobs
  PROVE  /\ Due(j) \in Seq(AllParts) /\ ToSet(Due(j)) \subseteq ToSet(Parts[script][j])
         /\ script \notin {"lines", "offers"} => Due(j) = Parts[script][j]
         /\ \A part \in ToSet(Parts[script][j]) : ~Written(j, part) => part \in ToSet(Due(j))
<1> DEFINE all == Parts[script][j]
           K == {k \in DOMAIN all : ~Written(j, all[k])}
<1>1. all \in Seq(AllParts) /\ ToSet(all) = {all[k] : k \in DOMAIN all}
  BY DataTypes DEF ToSet
<1>2. /\ Those(all, K) \in Seq(AllParts)
      /\ ToSet(Those(all, K)) = {all[k] : k \in K}
  <2> HIDE DEF all
  <2> QED BY <1>1, ThoseIs
<1>3. Pending(j) = Those(all, K)
  BY DEF Pending
<1> HIDE DEF all
<1> QED BY <1>1, <1>2, <1>3 DEF Due, all

\* A line that is appended stands alone, or spoils the one it is appended to.
LEMMA AppendedIs ==
  ASSUME NEW file \in Seq(Line), NEW line \in Line
  PROVE  /\ Appended(file, line) \in Seq(Line)
         /\ ~Open(file) => Appended(file, line) = Append(file, line)
         /\ Open(file) =>
              /\ Len(file) > 0 /\ file[Len(file)].end \in {"unended", "cut"}
              /\ Len(Appended(file, line)) = Len(file)
              /\ \A k \in 1 .. Len(file) :
                   /\ k # Len(file) => Appended(file, line)[k] = file[k]
                   /\ Appended(file, line)[k].job = file[k].job
                   /\ Appended(file, line)[k].part = file[k].part
                   /\ Appended(file, line)[k].value = file[k].value
              /\ Appended(file, line)[Len(file)].end = IF line.end = "whole" THEN "spoiled" ELSE "cut"
<1>1. Len(file) \in Nat /\ DOMAIN file = 1 .. Len(file) /\ \A k \in 1 .. Len(file) : file[k] \in Line
  OBVIOUS
<1>2. CASE ~Open(file)
  <2>1. Appended(file, line) = Append(file, line)
    BY <1>2 DEF Appended
  <2>2. Append(file, line) \in Seq(Line)
    OBVIOUS
  <2> QED BY <1>2, <2>1, <2>2
<1>3. CASE Open(file)
  <2> DEFINE n == Len(file)
             e == IF line.end = "whole" THEN "spoiled" ELSE "cut"
             a == Appended(file, line)
  <2>1. n \in 1 .. n /\ file[n].end \in {"unended", "cut"}
    BY <1>1, <1>3 DEF Open, Last
  <2>2. a = [file EXCEPT ![n] = [file[n] EXCEPT !.end = e]]
    BY <1>3 DEF Appended
  <2> DEFINE r == [file[n] EXCEPT !.end = e]
  <2>3. r \in Line /\ r.end = e /\ r.job = file[n].job /\ r.part = file[n].part /\ r.value = file[n].value
    <3>1. file[n] \in Line /\ e \in Ends
      BY <1>1, <2>1 DEF Ends
    <3> HIDE DEF n, e
    <3> QED BY <3>1 DEF Line
  <2>4. a = [file EXCEPT ![n] = r]
    BY <2>2
  <2> HIDE DEF r, a
  <2>5. DOMAIN a = 1 .. n /\ a[n] = r /\ \A k \in 1 .. n : k # n => a[k] = file[k]
    BY <1>1, <2>1, <2>4
  <2>6. a \in Seq(Line) /\ Len(a) = n
    BY <1>1, <2>1, <2>3, <2>4
  <2>7. \A k \in 1 .. n : a[k].job = file[k].job /\ a[k].part = file[k].part /\ a[k].value = file[k].value
    BY <2>3, <2>5
  <2>8. a[n].end = e
    BY <2>3, <2>5
  <2>9. n > 0
    BY <1>1, <2>1
  <2>10. /\ a \in Seq(Line) /\ Len(a) = n /\ a[n].end = e
         /\ \A k \in 1 .. n :
              /\ k # n => a[k] = file[k]
              /\ a[k].job = file[k].job /\ a[k].part = file[k].part /\ a[k].value = file[k].value
    BY <2>5, <2>6, <2>7, <2>8
  <2> QED BY <1>3, <2>1, <2>9, <2>10 DEF a
<1> QED BY <1>2, <1>3

-----------------------------------------------------------------------------
(* Steps of the pool *)

LEMMA JobsFinite ==
  \A S \in SUBSET Jobs : IsFiniteSet(S) /\ Cardinality(S) \in Nat
BY PagedAssumption, FS_Subset, FS_CardinalityType

LEMMA FirstOfIs ==
  ASSUME NEW S \in SUBSET Jobs, NEW n \in Nat
  PROVE  /\ FirstOf(S, n) \subseteq S
         /\ S # {} /\ n > 0 => FirstOf(S, n) # {}
<1>1. ASSUME S # {}, n > 0 PROVE FirstOf(S, n) # {}
  <2>1. S \subseteq Nat
    BY PagedAssumption
  <2>2. PICK m \in S : \A k \in S : m <= k
    BY <1>1, <2>1, LeastNumber
  <2>3. {i \in S : i < m} = {}
    <3>1. \A i \in S : i \in Nat /\ m \in Nat /\ m <= i
      BY <2>1, <2>2
    <3> QED BY <3>1
  <2>4. Cardinality({i \in S : i < m}) < n
    BY <1>1, <2>3, FS_EmptySet
  <2> QED BY <2>4 DEF FirstOf
<1> QED BY <1>1 DEF FirstOf

LEMMA ThreadsType ==
  ASSUME script \in Scripts
  PROVE  Threads \in Nat \ {0} /\ Window \in Nat /\ (Jobs # {} => Window > 0)
<1>1. Threads \in Nat \ {0}
  BY PagedAssumption DEF Threads
<1>2. Cardinality(Jobs) \in Nat /\ (Jobs # {} => Cardinality(Jobs) # 0)
  BY PagedAssumption, FS_CardinalityType, FS_EmptySet
<1> HIDE DEF Threads
<1> QED BY <1>1, <1>2 DEF Window

EndsKnown == \A f \in Files : \A line \in ToSet(ok[f]) : line.end \in Ends

LEMMA EndsTyped == StateTypes => EndsKnown
<1> SUFFICES ASSUME StateTypes, NEW f \in Files, NEW line \in ToSet(ok[f]) PROVE line.end \in Ends
  BY DEF EndsKnown
<1>1. ok[f] \in Seq(Line)
  BY DEF StateTypes
<1>2. line \in Line
  BY <1>1 DEF ToSet
<1> QED BY <1>2 DEF Line

LEMMA EndsTypedNext == StateTypes' => EndsKnown'
BY EndsTyped, PTL

\* The types that an unchanged script leaves alone.
LEMMA SameScript ==
  ASSUME script' = script
  PROVE  /\ AllParts' = AllParts /\ AllItems' = AllItems /\ Line' = Line
         /\ Threads' = Threads
         /\ \A j \in Jobs : Parts[script'][j] = Parts[script][j] /\ Pages[script'][j] = Pages[script][j]
BY DEF AllParts, AllItems, Line, Answers, Threads

\* Fewer busy threads are few enough.
LEMMA BusyBound ==
  ASSUME TypeOK, script' = script, Busy' \subseteq Busy
  PROVE  Cardinality(Busy') <= Threads'
<1>1. Busy \in SUBSET Jobs /\ Busy' \in SUBSET Jobs
  BY DEF Busy, In
<1>2. Cardinality(Busy') <= Cardinality(Busy) /\ Cardinality(Busy) \in Nat /\ Cardinality(Busy') \in Nat
  BY <1>1, JobsFinite, FS_Subset
<1>3. Cardinality(Busy) <= Threads /\ Threads \in Nat
  BY ThreadsType DEF TypeOK
<1> QED BY <1>2, <1>3, SameScript

LEMMA PagedInit == Init => PagedInv
<1> SUFFICES ASSUME Init PROVE PagedInv
  OBVIOUS
<1>1. script \in Scripts
  BY DEF Init
<1>2. \A j \in Jobs : 1 \in DOMAIN Pages[script][j]
  <2> TAKE j \in Jobs
  <2>1. Pages[script][j] \in Seq(Seq(AllItems)) /\ Len(Pages[script][j]) > 0
    BY <1>1, DataTypes
  <2> QED BY <2>1
<1>3. Busy = {} /\ Cardinality({}) = 0 /\ Threads \in Nat
  BY <1>1, ThreadsType, FS_EmptySet DEF Init, Busy, In
<1>4. Retries \in Nat /\ MaxRuns \in Nat /\ MaxBreaks \in Nat /\ Stops \subseteq Nat
  BY PagedAssumption
<1>5. StateTypes
  <2>1. <<>> \in Seq(Line) /\ <<>> \in Seq(AllItems) /\ <<>> \in Seq(AllParts)
    OBVIOUS
  <2> QED BY <2>1 DEF Init, StateTypes
<1>6. TypeOK
  <2>1. stopAt \in Nat
    BY <1>4 DEF Init
  <2>2. phase \in [Jobs -> Phases]
    BY DEF Init, Phases
  <2> QED BY <1>1, <1>2, <1>3, <1>4, <1>5, <2>1, <2>2, EndsTyped DEF Init, TypeOK, EndsKnown
<1>7. JobInv
  <2>1. ToSet(<<>>) = {}
    BY DEF ToSet
  <2> QED BY <2>1 DEF Init, JobInv, Working
<1>8. PoolInv
  BY DEF Init, PoolInv
<1> QED BY <1>5, <1>6, <1>7, <1>8 DEF PagedInv

LEMMA StartPaged ==
  ASSUME PagedInv, Start
  PROVE  PagedInv'
<1> DEFINE due == {j \in Jobs : Due(j) # <<>>}
<1>1. script \in Scripts /\ script' = script /\ stopAt' = stopAt
  BY DEF PagedInv, TypeOK, Start
<1>2. \A j \in Jobs : Due(j) \in Seq(AllParts) /\ ToSet(Due(j)) \subseteq ToSet(Parts[script][j])
  BY <1>1, DueType
<1>3. FirstOf(due, Window) \subseteq due /\ (due # {} => FirstOf(due, Window) # {})
  BY <1>1, ThreadsType, FirstOfIs
<1>4. /\ phase' = [j \in Jobs |-> IF j \in FirstOf(due, Window) THEN "queued"
                                    ELSE IF j \in due THEN "todo" ELSE "idle"]
      /\ parts' = [j \in Jobs |-> Due(j)] /\ left' = parts'
      /\ page' = [j \in Jobs |-> 1] /\ attempt' = [j \in Jobs |-> 0]
      /\ items' = [j \in Jobs |-> <<>>] /\ answered' = {}
      /\ pc' = "fetching" /\ runs' = runs + 1 /\ runs < MaxRuns
      /\ ok' = (IF script = "prebook" THEN [f \in Files |-> <<>>] ELSE ok)
      /\ failed' = IF script = "prebook" THEN {} ELSE failed
      /\ ticks' = ticks /\ breaks' = breaks /\ rewritten' = rewritten
  BY DEF Start, history
<1> HIDE DEF due
<1>5. \A j \in Jobs : phase'[j] = IF j \in FirstOf(due, Window) THEN "queued"
                                  ELSE IF j \in due THEN "todo" ELSE "idle"
  BY <1>4
<1>6. StateTypes'
  <2>1. <<>> \in Seq(Line) /\ <<>> \in Seq(AllItems)
    OBVIOUS
  <2>2. ok' \in [Files -> Seq(Line)]
    BY <1>4, <2>1 DEF PagedInv, StateTypes
  <2>3. items' \in [Jobs -> Seq(AllItems)] /\ parts' \in [Jobs -> Seq(AllParts)] /\ left' = parts'
    BY <1>2, <1>4, <2>1
  <2>4. page' \in [Jobs -> Nat] /\ attempt' \in [Jobs -> Nat]
    BY <1>4
  <2> QED BY <1>1, <2>2, <2>3, <2>4, SameScript DEF StateTypes
<1>7. JobInv'
  <2> SUFFICES ASSUME NEW j \in Jobs
               PROVE  /\ ToSet(left'[j]) \subseteq ToSet(parts'[j])
                      /\ ToSet(parts'[j]) \subseteq ToSet(Parts[script'][j])
                      /\ phase'[j] \in Working => left'[j] # <<>>
                      /\ phase'[j] \in {"todo", "queued"} => page'[j] = 1 /\ items'[j] = <<>>
                      /\ phase'[j] = "storing" /\ script' # "prebook" => LastPage(j)'
    BY DEF JobInv
  <2>1. left'[j] = Due(j) /\ parts'[j] = Due(j) /\ page'[j] = 1 /\ items'[j] = <<>>
    BY <1>4
  <2>2. phase'[j] \in Working => Due(j) # <<>>
    BY <1>3, <1>5 DEF Working, due
  <2> QED BY <1>1, <1>2, <1>5, <2>1, <2>2
<1>8. PoolInv'
  <2>1. ASSUME NEW j \in Jobs, phase'[j] = "todo" PROVE \E k \in Jobs : phase'[k] \notin {"idle", "todo"}
    <3>1. j \in due
      BY <1>5, <2>1
    <3>2. PICK k : k \in FirstOf(due, Window)
      BY <1>3, <3>1
    <3> QED BY <1>3, <1>5, <3>2 DEF due
  <2> QED BY <1>4, <1>5, <2>1 DEF PoolInv
<1>9. TypeOK'
  <2>1. Busy' \subseteq Busy
    BY <1>5 DEF Busy, In
  <2>2. Cardinality(Busy') <= Threads'
    BY <1>1, <2>1, BusyBound DEF PagedInv
  <2>3. \A j \in Jobs : page'[j] \in DOMAIN Pages[script'][j] /\ attempt'[j] \in 0 .. Retries
    <3> TAKE j \in Jobs
    <3>1. Pages[script][j] \in Seq(Seq(AllItems)) /\ Len(Pages[script][j]) > 0
      BY <1>1, DataTypes
    <3>2. 1 \in DOMAIN Pages[script][j]
      BY <3>1
    <3> QED BY <1>1, <1>4, <3>2, PagedAssumption
  <2>4. phase' \in [Jobs -> Phases]
    BY <1>4 DEF Phases
  <2>5. runs' \in 0 .. MaxRuns
    BY <1>4, PagedAssumption DEF PagedInv, TypeOK
  <2>6. \A f \in Files : \A line \in ToSet(ok'[f]) : line.end \in Ends
    BY <1>6, EndsTypedNext DEF EndsKnown
  <2>7. failed' \subseteq UNION {Jobs \X ToSet(Parts[script'][j]) : j \in Jobs}
    BY <1>1, <1>4 DEF PagedInv, TypeOK
  <2> QED BY <1>1, <1>4, <2>2, <2>3, <2>4, <2>5, <2>6, <2>7 DEF PagedInv, TypeOK
<1> QED BY <1>6, <1>7, <1>8, <1>9 DEF PagedInv

\* What a step that leaves a job's script, parts and file lines alone keeps.
LEMMA KeepTypes ==
  ASSUME PagedInv, script' = script, ok' \in [Files -> Seq(Line)],
         page' \in [Jobs -> Nat], attempt' \in [Jobs -> Nat],
         items' \in [Jobs -> Seq(AllItems)],
         parts' \in [Jobs -> Seq(AllParts)], left' \in [Jobs -> Seq(AllParts)]
  PROVE  StateTypes' /\ EndsKnown'
<1>1. StateTypes'
  BY SameScript DEF StateTypes
<1> QED BY <1>1, EndsTypedNext

LEMMA TakePaged ==
  ASSUME PagedInv, NEW j \in Jobs, Take(j)
  PROVE  PagedInv'
<1>1. /\ script' = script /\ stopAt' = stopAt /\ ok' = ok /\ failed' = failed /\ ticks' = ticks
      /\ pc' = pc /\ page' = page /\ attempt' = attempt /\ items' = items /\ parts' = parts
      /\ left' = left /\ answered' = answered /\ runs' = runs /\ breaks' = breaks
      /\ rewritten' = rewritten
      /\ phase' = [phase EXCEPT ![j] = "calling"]
  BY DEF Take, Becomes, files, history
<1>2. phase[j] = "queued" /\ Cardinality(Busy) < Threads
  BY DEF Take, FirstOf, In, HasRoom
<1>3. phase \in [Jobs -> Phases] /\ script \in Scripts
  BY DEF PagedInv, TypeOK
<1>4. \A i \in Jobs : phase'[i] = IF i = j THEN "calling" ELSE phase[i]
  BY <1>1, <1>3
<1>5. StateTypes' /\ EndsKnown'
  BY <1>1, KeepTypes DEF PagedInv, StateTypes
<1>6. JobInv'
  <2>1. \A i \in Jobs : LastPage(i)' = LastPage(i)
    BY <1>1 DEF LastPage
  <2>2. \A i \in Jobs : phase'[i] \in Working => phase[i] \in Working
    BY <1>2, <1>4 DEF Working
  <2> QED BY <1>1, <1>4, <2>1, <2>2 DEF PagedInv, JobInv
<1>7. PoolInv'
  <2>1. pc = "fetching"
    BY <1>2 DEF PagedInv, PoolInv
  <2>2. phase'[j] \notin {"idle", "todo"}
    BY <1>4
  <2> QED BY <1>1, <1>2, <1>4, <2>1, <2>2 DEF PagedInv, PoolInv
<1>8. Cardinality(Busy') <= Threads'
  <2>1. Busy \in SUBSET Jobs
    BY DEF Busy, In
  <2>2. Busy' = Busy \cup {j} /\ j \notin Busy
    BY <1>2, <1>4 DEF Busy, In
  <2>3. IsFiniteSet(Busy) /\ Cardinality(Busy) \in Nat
    BY <2>1, JobsFinite
  <2>4. Cardinality(Busy') = Cardinality(Busy) + 1
    BY <2>2, <2>3, FS_AddElement
  <2>5. Threads \in Nat /\ Threads' = Threads
    BY <1>1, <1>3, ThreadsType, SameScript
  <2> QED BY <1>2, <2>3, <2>4, <2>5
<1>9. TypeOK'
  <2>1. phase' \in [Jobs -> Phases]
    BY <1>1, <1>3 DEF Phases
  <2> QED BY <1>1, <1>5, <1>8, <2>1 DEF PagedInv, TypeOK, EndsKnown
<1> QED BY <1>5, <1>6, <1>7, <1>9 DEF PagedInv

\* Where an error leaves a job.
LEMMA FailsIs ==
  ASSUME PagedInv, NEW j \in Jobs, Fails(j)
  PROVE  \E p \in {"calling", "reporting", "finished"} :
           /\ phase' = [phase EXCEPT ![j] = p]
           /\ p = "calling" \/ (IF script = "ticks" THEN p = "finished" ELSE p = "reporting")
           /\ attempt' \in [Jobs -> Nat] /\ \A i \in Jobs : attempt'[i] \in 0 .. Retries
           /\ page' = page /\ items' = items /\ answered' = answered
<1>1. attempt \in [Jobs -> Nat] /\ \A i \in Jobs : attempt[i] \in 0 .. Retries
  BY DEF PagedInv, StateTypes, TypeOK
<1>2. Retries \in Nat
  BY PagedAssumption
<1>3. CASE attempt[j] < Retries
  <2>1. /\ attempt' = [attempt EXCEPT ![j] = @ + 1] /\ phase' = [phase EXCEPT ![j] = "calling"]
        /\ page' = page /\ items' = items /\ answered' = answered
    BY <1>3 DEF Fails, Becomes
  <2>2. attempt' \in [Jobs -> Nat] /\ \A i \in Jobs : attempt'[i] \in 0 .. Retries
    BY <1>1, <1>2, <1>3, <2>1
  <2> QED BY <2>1, <2>2
<1>4. CASE ~(attempt[j] < Retries)
  <2>1. /\ phase' = [phase EXCEPT ![j] = IF script = "ticks" THEN "finished" ELSE "reporting"]
        /\ attempt' = attempt /\ page' = page /\ items' = items /\ answered' = answered
    BY <1>4 DEF Fails, Becomes
  <2> QED BY <1>1, <2>1
<1> QED BY <1>3, <1>4

LEMMA CallFailsPaged ==
  ASSUME PagedInv, NEW j \in Jobs, CallFails(j)
  PROVE  PagedInv'
<1>1. /\ script' = script /\ stopAt' = stopAt /\ ok' = ok /\ failed' = failed /\ ticks' = ticks
      /\ pc' = pc /\ parts' = parts
      /\ left' = left /\ runs' = runs /\ breaks' = breaks
      /\ rewritten' = rewritten /\ phase[j] = "calling"
  BY DEF CallFails, files, history
<1>2. PICK p \in {"calling", "reporting", "finished"} :
           /\ phase' = [phase EXCEPT ![j] = p]
           /\ p = "calling" \/ (IF script = "ticks" THEN p = "finished" ELSE p = "reporting")
           /\ attempt' \in [Jobs -> Nat] /\ \A i \in Jobs : attempt'[i] \in 0 .. Retries
           /\ page' = page /\ items' = items /\ answered' = answered
  BY FailsIs DEF CallFails
<1>3. phase \in [Jobs -> Phases] /\ script \in Scripts
  BY DEF PagedInv, TypeOK
<1>4. \A i \in Jobs : phase'[i] = IF i = j THEN p ELSE phase[i]
  BY <1>2, <1>3
<1>5. StateTypes' /\ EndsKnown'
  BY <1>1, <1>2, KeepTypes DEF PagedInv, StateTypes
<1>6. JobInv'
  <2>1. \A i \in Jobs : LastPage(i)' = LastPage(i)
    BY <1>1, <1>2 DEF LastPage
  <2>2. \A i \in Jobs : phase'[i] \in Working => phase[i] \in Working
    BY <1>1, <1>4 DEF Working
  <2> QED BY <1>1, <1>2, <1>4, <2>1, <2>2 DEF PagedInv, JobInv
<1>7. PoolInv'
  <2>1. pc = "fetching"
    BY <1>1 DEF PagedInv, PoolInv
  <2>2. phase'[j] \notin {"idle", "todo"}
    BY <1>2, <1>4
  <2> QED BY <1>1, <1>2, <1>4, <2>1, <2>2 DEF PagedInv, PoolInv
<1>8. Cardinality(Busy') <= Threads'
  <2>1. Busy' \subseteq Busy
    BY <1>1, <1>4 DEF Busy, In
  <2> QED BY <1>1, <2>1, BusyBound DEF PagedInv
<1>9. TypeOK'
  <2>1. phase' \in [Jobs -> Phases]
    BY <1>2, <1>3 DEF Phases
  <2> QED BY <1>1, <1>2, <1>5, <1>8, <2>1 DEF PagedInv, TypeOK, EndsKnown
<1> QED BY <1>5, <1>6, <1>7, <1>9 DEF PagedInv

LEMMA CallReturnsPaged ==
  ASSUME PagedInv, NEW j \in Jobs, CallReturns(j)
  PROVE  PagedInv'
<1> DEFINE over == LastPage(j) \/ (script = "prebook" /\ Enough(Gathered(j)))
           p == IF ~over THEN "calling" ELSE IF script = "ticks" THEN "finished" ELSE "storing"
<1>1. /\ script' = script /\ stopAt' = stopAt /\ ok' = ok /\ failed' = failed /\ ticks' = ticks
      /\ pc' = pc /\ parts' = parts
      /\ left' = left /\ runs' = runs /\ breaks' = breaks
      /\ rewritten' = rewritten /\ phase[j] = "calling"
      /\ items' = [items EXCEPT ![j] = Gathered(j)]
  BY DEF CallReturns, files, history
<1>2. phase \in [Jobs -> Phases] /\ script \in Scripts
  BY DEF PagedInv, TypeOK
<1>3. /\ phase' = [phase EXCEPT ![j] = p]
      /\ over => page' = page /\ attempt' = attempt
      /\ ~over => page' = [page EXCEPT ![j] = @ + 1] /\ attempt' = [attempt EXCEPT ![j] = 0]
      /\ answered' = answered \/ answered' = answered \cup {j}
  <2>1. CASE over
    BY <2>1 DEF CallReturns, Becomes
  <2>2. CASE ~over
    <3>1. phase' = phase /\ phase = [phase EXCEPT ![j] = "calling"]
      BY <1>1, <1>2, <2>2 DEF CallReturns
    <3> QED BY <2>2, <3>1 DEF CallReturns
  <2> QED BY <2>1, <2>2
<1>4. \A i \in Jobs : phase'[i] = IF i = j THEN p ELSE phase[i]
  BY <1>2, <1>3
<1>5. p \in {"calling", "storing", "finished"} /\ (p = "storing" => script # "ticks")
      /\ (p = "storing" /\ script # "prebook" => LastPage(j)) /\ (p = "calling" <=> ~over)
  OBVIOUS
<1>6. Gathered(j) \in Seq(AllItems)
  <2>1. items[j] \in Seq(AllItems) /\ page[j] \in DOMAIN Pages[script][j]
    BY DEF PagedInv, StateTypes, TypeOK
  <2>2. Pages[script][j][page[j]] \in Seq(AllItems)
    BY <1>2, <2>1, DataTypes
  <2> QED BY <2>1, <2>2, TakenType DEF Gathered
<1>7. /\ \A i \in Jobs : page'[i] \in DOMAIN Pages[script][i] /\ attempt'[i] \in 0 .. Retries
      /\ page' \in [Jobs -> Nat] /\ attempt' \in [Jobs -> Nat]
  <2>1. /\ page \in [Jobs -> Nat] /\ attempt \in [Jobs -> Nat]
        /\ \A i \in Jobs : page[i] \in DOMAIN Pages[script][i] /\ attempt[i] \in 0 .. Retries
    BY DEF PagedInv, StateTypes, TypeOK
  <2>2. CASE over
    BY <1>3, <2>1, <2>2
  <2>3. CASE ~over
    <3>1. page[j] + 1 \in DOMAIN Pages[script][j]
      <4>1. Pages[script][j] \in Seq(Seq(AllItems))
        BY <1>2, DataTypes
      <4>2. DOMAIN Pages[script][j] = 1 .. Len(Pages[script][j]) /\ Len(Pages[script][j]) \in Nat
        BY <4>1
      <4>3. page[j] # Len(Pages[script][j])
        BY <2>3 DEF LastPage
      <4> QED BY <2>1, <4>2, <4>3
    <3>2. page' = [page EXCEPT ![j] = @ + 1] /\ attempt' = [attempt EXCEPT ![j] = 0]
      BY <1>3, <2>3
    <3> HIDE DEF over
    <3> QED BY <2>1, <3>1, <3>2, PagedAssumption
  <2> QED BY <2>2, <2>3
<1> HIDE DEF p
<1>8. StateTypes' /\ EndsKnown'
  <2>1. items' \in [Jobs -> Seq(AllItems)]
    BY <1>1, <1>6 DEF PagedInv, StateTypes
  <2> QED BY <1>1, <1>7, <2>1, KeepTypes DEF PagedInv, StateTypes
<1>9. JobInv'
  <2> SUFFICES ASSUME NEW i \in Jobs
               PROVE  /\ ToSet(left'[i]) \subseteq ToSet(parts'[i])
                      /\ ToSet(parts'[i]) \subseteq ToSet(Parts[script'][i])
                      /\ phase'[i] \in Working => left'[i] # <<>>
                      /\ phase'[i] \in {"todo", "queued"} => page'[i] = 1 /\ items'[i] = <<>>
                      /\ phase'[i] = "storing" /\ script' # "prebook" => LastPage(i)'
    BY DEF JobInv
  <2>1. phase'[i] \in Working => phase[i] \in Working
    BY <1>1, <1>4, <1>5 DEF Working
  <2>2. i # j => page'[i] = page[i] /\ items'[i] = items[i] /\ phase'[i] = phase[i]
    BY <1>1, <1>3, <1>4 DEF PagedInv, StateTypes
  <2>3. i = j => phase'[i] \notin {"todo", "queued"}
    BY <1>4, <1>5
  <2>4. phase'[i] = "storing" /\ script' # "prebook" => LastPage(i)'
    <3>1. CASE i = j
      <4>1. phase'[i] = "storing" => over
        BY <1>4, <1>5, <3>1
      <4>2. over => page'[i] = page[i]
        BY <1>3
      <4> QED BY <1>1, <1>4, <1>5, <3>1, <4>1, <4>2 DEF LastPage
    <3>2. CASE i # j
      BY <1>1, <2>2, <3>2 DEF LastPage, PagedInv, JobInv
    <3> QED BY <3>1, <3>2
  <2> QED BY <1>1, <2>1, <2>2, <2>3, <2>4 DEF PagedInv, JobInv
<1>10. PoolInv'
  <2>1. pc = "fetching"
    BY <1>1 DEF PagedInv, PoolInv
  <2>2. phase'[j] \notin {"idle", "todo"}
    BY <1>4, <1>5
  <2> QED BY <1>1, <1>4, <1>5, <2>1, <2>2 DEF PagedInv, PoolInv
<1>11. Cardinality(Busy') <= Threads'
  <2>1. Busy' \subseteq Busy
    BY <1>1, <1>4, <1>5 DEF Busy, In
  <2> QED BY <1>1, <2>1, BusyBound DEF PagedInv
<1>12. TypeOK'
  <2>1. phase' \in [Jobs -> Phases]
    BY <1>2, <1>3, <1>5 DEF Phases
  <2> QED BY <1>1, <1>3, <1>7, <1>8, <1>11, <2>1 DEF PagedInv, TypeOK, EndsKnown
<1> QED BY <1>8, <1>9, <1>10, <1>12 DEF PagedInv

\* What a job in "storing" appends.
LEMMA AppendToIs ==
  ASSUME PagedInv, NEW j \in Jobs, phase[j] = "storing", NEW end \in Ends, AppendTo(j, end)
  PROVE  /\ FileOf(Head(left[j])) \in Files
         /\ LineOf(j, end) \in Line
         /\ LineOf(j, end).job = j /\ LineOf(j, end).part = Head(left[j]) /\ LineOf(j, end).end = end
         /\ Head(left[j]) \in ToSet(left[j])
         /\ ok' = [ok EXCEPT ![FileOf(Head(left[j]))] =
                     Appended(ok[FileOf(Head(left[j]))], LineOf(j, end))]
         /\ ok' \in [Files -> Seq(Line)]
<1>1. left[j] \in Seq(AllParts) /\ left[j] # <<>> /\ items[j] \in Seq(AllItems) /\ script \in Scripts
      /\ ok \in [Files -> Seq(Line)]
  BY DEF PagedInv, StateTypes, JobInv, Working, TypeOK
<1>2. Head(left[j]) \in AllParts /\ Head(left[j]) \in ToSet(left[j])
  BY <1>1 DEF ToSet
<1>3. FileOf(Head(left[j])) \in Files
  BY DEF FileOf, Files
<1>4. ValueOf(Head(left[j]), items[j]) \in Seq(AllItems)
  BY <1>1, ValueType
<1>5. /\ LineOf(j, end) \in Line
      /\ LineOf(j, end).job = j /\ LineOf(j, end).part = Head(left[j]) /\ LineOf(j, end).end = end
  BY <1>2, <1>4 DEF LineOf, Line
<1>6. ok' = [ok EXCEPT ![FileOf(Head(left[j]))] =
               Appended(ok[FileOf(Head(left[j]))], LineOf(j, end))]
  BY DEF AppendTo
<1>7. Appended(ok[FileOf(Head(left[j]))], LineOf(j, end)) \in Seq(Line)
  BY <1>1, <1>3, <1>5, AppendedIs
<1>8. ok' \in [Files -> Seq(Line)]
  BY <1>1, <1>3, <1>6, <1>7
<1> QED BY <1>2, <1>3, <1>5, <1>6, <1>8

LEMMA StorePaged ==
  ASSUME PagedInv, NEW j \in Jobs, Store(j)
  PROVE  PagedInv'
<1> DEFINE p == IF Len(left[j]) = 1 THEN "finished" ELSE "storing"
<1>1. /\ script' = script /\ stopAt' = stopAt /\ failed' = failed /\ ticks' = ticks
      /\ pc' = pc /\ page' = page /\ attempt' = attempt /\ items' = items /\ parts' = parts
      /\ left' = [left EXCEPT ![j] = Tail(@)] /\ answered' = answered /\ runs' = runs
      /\ breaks' = breaks /\ rewritten' = rewritten /\ phase[j] = "storing"
      /\ AppendTo(j, "whole")
  BY DEF Store, history
<1>2. phase \in [Jobs -> Phases] /\ script \in Scripts
  BY DEF PagedInv, TypeOK
<1>3. \A i \in Jobs : phase'[i] = IF i = j THEN p ELSE phase[i]
  BY <1>1, <1>2 DEF Store, Becomes
<1>4. phase' \in [Jobs -> Phases]
  BY <1>2 DEF Store, Becomes, Phases
<1>5. /\ left[j] \in Seq(AllParts) /\ left[j] # <<>> /\ Tail(left[j]) \in Seq(AllParts)
      /\ Len(left[j]) # 1 => Tail(left[j]) # <<>>
      /\ ToSet(Tail(left[j])) \subseteq ToSet(left[j])
  <2>1. left[j] \in Seq(AllParts) /\ left[j] # <<>>
    BY <1>1 DEF PagedInv, StateTypes, JobInv, Working
  <2>2. /\ Tail(left[j]) \in Seq(AllParts) /\ Len(Tail(left[j])) = Len(left[j]) - 1
        /\ Len(left[j]) \in Nat /\ Len(left[j]) > 0
        /\ \A i \in 1 .. Len(left[j]) - 1 : Tail(left[j])[i] = left[j][i + 1]
    BY <2>1
  <2>3. ToSet(Tail(left[j])) \subseteq ToSet(left[j])
    <3> DEFINE t == Tail(left[j])
               s == left[j]
    <3>1. \A i \in 1 .. Len(t) : t[i] = s[i + 1] /\ i + 1 \in 1 .. Len(s)
      BY <2>2
    <3>2. DOMAIN t = 1 .. Len(t) /\ DOMAIN s = 1 .. Len(s)
      BY <2>1, <2>2
    <3> HIDE DEF t, s
    <3>3. ToSet(t) = {t[i] : i \in DOMAIN t} /\ ToSet(s) = {s[i] : i \in DOMAIN s}
      BY DEF ToSet
    <3>4. ToSet(t) \subseteq ToSet(s)
      BY <3>1, <3>2, <3>3
    <3> QED BY <3>4 DEF t, s
  <2>4. Len(left[j]) # 1 => Tail(left[j]) # <<>>
    <3> DEFINE t == Tail(left[j])
    <3>1. Len(t) = Len(left[j]) - 1 /\ Len(left[j]) \in Nat /\ Len(left[j]) > 0
      BY <2>2
    <3> HIDE DEF t
    <3>2. ASSUME t = <<>> PROVE Len(left[j]) = 1
      <4>1. Len(t) = 0
        BY <3>2
      <4> QED BY <4>1, <3>1
    <3> QED BY <3>2 DEF t
  <2> QED BY <2>1, <2>2, <2>3, <2>4
<1>6. \A i \in Jobs : left'[i] = IF i = j THEN Tail(left[j]) ELSE left[i]
  BY <1>1 DEF PagedInv, StateTypes
<1>7. StateTypes' /\ EndsKnown'
  <2>1. left' \in [Jobs -> Seq(AllParts)]
    BY <1>1, <1>5 DEF PagedInv, StateTypes
  <2>2. ok' \in [Files -> Seq(Line)]
    BY <1>1, AppendToIs DEF Ends
  <2> QED BY <1>1, <2>1, <2>2, KeepTypes DEF PagedInv, StateTypes
<1> HIDE DEF p
<1>8. p \in {"finished", "storing"} /\ (p = "storing" => Len(left[j]) # 1)
  BY DEF p
<1>9. JobInv'
  <2>1. \A i \in Jobs : LastPage(i)' = LastPage(i)
    BY <1>1 DEF LastPage
  <2>2. \A i \in Jobs : phase'[i] \in Working => left'[i] # <<>>
    BY <1>3, <1>5, <1>6, <1>8 DEF PagedInv, JobInv, Working
  <2> QED BY <1>1, <1>3, <1>5, <1>6, <1>8, <2>1, <2>2 DEF PagedInv, JobInv
<1>10. PoolInv'
  <2>1. pc = "fetching" /\ script # "ticks"
    BY <1>1 DEF PagedInv, PoolInv
  <2>2. phase'[j] \notin {"idle", "todo"}
    BY <1>3, <1>8
  <2> QED BY <1>1, <1>3, <1>8, <2>1, <2>2 DEF PagedInv, PoolInv
<1>11. Cardinality(Busy') <= Threads'
  <2>1. Busy' \subseteq Busy
    BY <1>1, <1>3, <1>8 DEF Busy, In
  <2> QED BY <1>1, <2>1, BusyBound DEF PagedInv
<1>12. TypeOK'
  BY <1>1, <1>4, <1>7, <1>11 DEF PagedInv, TypeOK, EndsKnown
<1> QED BY <1>7, <1>9, <1>10, <1>12 DEF PagedInv

LEMMA StoreFailsPaged ==
  ASSUME PagedInv, NEW j \in Jobs, StoreFails(j)
  PROVE  PagedInv'
<1>1. /\ script' = script /\ stopAt' = stopAt /\ failed' = failed /\ ticks' = ticks
      /\ pc' = pc /\ parts' = parts
      /\ left' = [left EXCEPT ![j] = parts[j]] /\ runs' = runs /\ phase[j] = "storing"
  BY DEF StoreFails
<1>2. phase \in [Jobs -> Phases] /\ script \in Scripts
  BY DEF PagedInv, TypeOK
<1>3. ok' \in [Files -> Seq(Line)] /\ breaks' \in Nat /\ rewritten' \subseteq Jobs
  <2>1. ok \in [Files -> Seq(Line)] /\ breaks \in Nat /\ rewritten \subseteq Jobs
    BY DEF PagedInv, StateTypes, TypeOK
  <2>2. \A end \in {"unended", "cut"} : AppendTo(j, end) => ok' \in [Files -> Seq(Line)]
    BY <1>1, AppendToIs DEF Ends
  <2> QED BY <2>1, <2>2 DEF StoreFails
<1>4. script # "ticks"
  BY <1>1 DEF PagedInv, PoolInv
<1>5. PICK p \in {"calling", "reporting"} :
           /\ phase' = [phase EXCEPT ![j] = p]
           /\ attempt' \in [Jobs -> Nat] /\ \A i \in Jobs : attempt'[i] \in 0 .. Retries
           /\ page' = page /\ items' = items /\ answered' = answered
  <2>1. CASE script = "prebook"
    BY <2>1 DEF StoreFails, Becomes, PagedInv, StateTypes, TypeOK
  <2>2. CASE script # "prebook"
    <3>1. Fails(j)
      BY <2>2 DEF StoreFails
    <3> QED BY <1>4, <3>1, FailsIs
  <2> QED BY <2>1, <2>2
<1>6. \A i \in Jobs : phase'[i] = IF i = j THEN p ELSE phase[i]
  BY <1>2, <1>5
<1>7. \A i \in Jobs : left'[i] = IF i = j THEN parts[j] ELSE left[i]
  BY <1>1 DEF PagedInv, StateTypes
<1>8. StateTypes' /\ EndsKnown'
  <2>1. left' \in [Jobs -> Seq(AllParts)]
    BY <1>1 DEF PagedInv, StateTypes
  <2> QED BY <1>1, <1>3, <1>5, <2>1, KeepTypes DEF PagedInv, StateTypes
<1>9. JobInv'
  <2>1. \A i \in Jobs : LastPage(i)' = LastPage(i)
    BY <1>1, <1>5 DEF LastPage
  <2>2. parts[j] # <<>>
    <3>1. left[j] \in Seq(AllParts) /\ left[j] # <<>> /\ ToSet(left[j]) \subseteq ToSet(parts[j])
      BY <1>1 DEF PagedInv, StateTypes, JobInv, Working
    <3>2. left[j][1] \in ToSet(left[j])
      BY <3>1 DEF ToSet
    <3>3. left[j][1] \in ToSet(parts[j]) /\ ToSet(<<>>) = {}
      BY <3>1, <3>2 DEF ToSet
    <3> QED BY <3>3
  <2>3. \A i \in Jobs : phase'[i] \in Working => left'[i] # <<>>
    BY <1>6, <1>7, <2>2 DEF PagedInv, JobInv
  <2> QED BY <1>1, <1>5, <1>6, <1>7, <2>1, <2>3 DEF PagedInv, JobInv
<1>10. PoolInv'
  <2>1. pc = "fetching"
    BY <1>1 DEF PagedInv, PoolInv
  <2>2. phase'[j] \notin {"idle", "todo"}
    BY <1>6
  <2> QED BY <1>1, <1>4, <1>5, <1>6, <2>1, <2>2 DEF PagedInv, PoolInv
<1>11. Cardinality(Busy') <= Threads'
  <2>1. Busy' \subseteq Busy
    BY <1>1, <1>6 DEF Busy, In
  <2> QED BY <1>1, <2>1, BusyBound DEF PagedInv
<1>12. TypeOK'
  <2>1. phase' \in [Jobs -> Phases]
    BY <1>2, <1>5 DEF Phases
  <2> QED BY <1>1, <1>3, <1>5, <1>8, <1>11, <2>1 DEF PagedInv, TypeOK, EndsKnown
<1> QED BY <1>8, <1>9, <1>10, <1>12 DEF PagedInv

LEMMA NamedIs ==
  ASSUME PagedInv, NEW j \in Jobs
  PROVE  /\ Named(j) = {<<j, part>> : part \in ToSet(parts[j])}
         /\ Named(j) \subseteq UNION {Jobs \X ToSet(Parts[script][i]) : i \in Jobs}
<1>1. Named(j) = {<<j, part>> : part \in ToSet(parts[j])}
  BY DEF Named, ToSet
<1>2. ToSet(parts[j]) \subseteq ToSet(Parts[script][j])
  BY DEF PagedInv, JobInv
<1>3. Named(j) \subseteq Jobs \X ToSet(Parts[script][j])
  BY <1>1, <1>2
<1> QED BY <1>1, <1>3

LEMMA ReportPaged ==
  ASSUME PagedInv, NEW j \in Jobs, Report(j)
  PROVE  PagedInv'
<1>1. /\ script' = script /\ stopAt' = stopAt /\ ok' = ok /\ failed' = failed \cup Named(j)
      /\ ticks' = ticks /\ pc' = pc /\ page' = page /\ attempt' = attempt /\ items' = items
      /\ parts' = parts /\ left' = left /\ answered' = answered /\ runs' = runs
      /\ breaks' = breaks /\ rewritten' = rewritten /\ phase[j] = "reporting"
      /\ phase' = [phase EXCEPT ![j] = "finished"]
  BY DEF Report, Becomes, history
<1>2. phase \in [Jobs -> Phases] /\ script \in Scripts
  BY DEF PagedInv, TypeOK
<1>3. \A i \in Jobs : phase'[i] = IF i = j THEN "finished" ELSE phase[i]
  BY <1>1, <1>2
<1>4. StateTypes' /\ EndsKnown'
  BY <1>1, KeepTypes DEF PagedInv, StateTypes
<1>5. JobInv'
  <2>1. \A i \in Jobs : LastPage(i)' = LastPage(i)
    BY <1>1 DEF LastPage
  <2>2. \A i \in Jobs : phase'[i] \in Working => phase[i] \in Working
    BY <1>3 DEF Working
  <2> QED BY <1>1, <1>3, <2>1, <2>2 DEF PagedInv, JobInv
<1>6. PoolInv'
  <2>1. pc = "fetching"
    BY <1>1 DEF PagedInv, PoolInv
  <2>2. phase'[j] \notin {"idle", "todo"}
    BY <1>3
  <2> QED BY <1>1, <1>3, <2>1, <2>2 DEF PagedInv, PoolInv
<1>7. Cardinality(Busy') <= Threads'
  <2>1. Busy' \subseteq Busy
    BY <1>3 DEF Busy, In
  <2> QED BY <1>1, <2>1, BusyBound DEF PagedInv
<1>8. TypeOK'
  <2>1. phase' \in [Jobs -> Phases]
    BY <1>1, <1>2 DEF Phases
  <2>2. failed' \subseteq UNION {Jobs \X ToSet(Parts[script][i]) : i \in Jobs}
    BY <1>1, NamedIs DEF PagedInv, TypeOK
  <2> QED BY <1>1, <1>4, <1>7, <2>1, <2>2 DEF PagedInv, TypeOK, EndsKnown
<1> QED BY <1>4, <1>5, <1>6, <1>8 DEF PagedInv

LEMMA EndedIs ==
  ASSUME PagedInv, NEW gone \in SUBSET Jobs, Ended(gone)
  PROVE  /\ page' \in [Jobs -> Nat] /\ attempt' \in [Jobs -> Nat]
         /\ items' \in [Jobs -> Seq(AllItems)]
         /\ parts' \in [Jobs -> Seq(AllParts)] /\ left' \in [Jobs -> Seq(AllParts)]
         /\ \A j \in Jobs :
              /\ page'[j] \in DOMAIN Pages[script][j] /\ attempt'[j] \in 0 .. Retries
              /\ j \in gone => items'[j] = <<>> /\ parts'[j] = <<>> /\ left'[j] = <<>> /\ page'[j] = 1
              /\ j \notin gone => /\ page'[j] = page[j] /\ items'[j] = items[j]
                                  /\ parts'[j] = parts[j] /\ left'[j] = left[j]
<1>1. <<>> \in Seq(AllItems) /\ <<>> \in Seq(AllParts) /\ Retries \in Nat
  BY PagedAssumption
<1>2. \A j \in Jobs : 1 \in DOMAIN Pages[script][j]
  <2> TAKE j \in Jobs
  <2>1. Pages[script][j] \in Seq(Seq(AllItems)) /\ Len(Pages[script][j]) > 0
    BY DataTypes DEF PagedInv, TypeOK
  <2> QED BY <2>1
<1> QED BY <1>1, <1>2 DEF Ended, PagedInv, StateTypes, TypeOK

LEMMA CollectPaged ==
  ASSUME PagedInv, Collect
  PROVE  PagedInv'
<1> DEFINE ready == In({"finished"})
           next == FirstOf(In({"todo"}), Cardinality(ready))
<1>1. /\ script' = script /\ stopAt' = stopAt /\ ok' = ok /\ failed' = failed
      /\ ticks' = ticks /\ pc' = pc /\ answered' = answered /\ runs' = runs
      /\ breaks' = breaks /\ rewritten' = rewritten /\ pc = "fetching"
      /\ ready # {} /\ Ended(ready)
      /\ phase' = [j \in Jobs |-> IF j \in ready THEN "idle"
                                  ELSE IF j \in next THEN "queued" ELSE phase[j]]
  BY DEF Collect, files, history
<1>2. phase \in [Jobs -> Phases] /\ script \in Scripts
  BY DEF PagedInv, TypeOK
<1>3. /\ ready \subseteq Jobs /\ \A j \in Jobs : j \in ready <=> phase[j] = "finished"
      /\ next \subseteq In({"todo"}) /\ (In({"todo"}) # {} => next # {})
  <2>1. ready \in SUBSET Jobs /\ In({"todo"}) \in SUBSET Jobs
    BY DEF In
  <2>2. Cardinality(ready) \in Nat /\ Cardinality(ready) > 0
    BY <1>1, <2>1, JobsFinite, FS_EmptySet
  <2> QED BY <2>1, <2>2, FirstOfIs DEF In
<1>4. \A j \in Jobs : j \in next => phase[j] = "todo"
  BY <1>3 DEF In
<1> HIDE DEF ready, next
<1>5. \A j \in Jobs : phase'[j] = IF j \in ready THEN "idle"
                                  ELSE IF j \in next THEN "queued" ELSE phase[j]
  BY <1>1
<1>6. /\ page' \in [Jobs -> Nat] /\ attempt' \in [Jobs -> Nat]
      /\ items' \in [Jobs -> Seq(AllItems)]
      /\ parts' \in [Jobs -> Seq(AllParts)] /\ left' \in [Jobs -> Seq(AllParts)]
      /\ \A j \in Jobs :
           /\ page'[j] \in DOMAIN Pages[script][j] /\ attempt'[j] \in 0 .. Retries
           /\ j \in ready => items'[j] = <<>> /\ parts'[j] = <<>> /\ left'[j] = <<>> /\ page'[j] = 1
           /\ j \notin ready => /\ page'[j] = page[j] /\ items'[j] = items[j]
                                /\ parts'[j] = parts[j] /\ left'[j] = left[j]
  BY <1>1, <1>3, EndedIs
<1>7. StateTypes' /\ EndsKnown'
  BY <1>1, <1>6, KeepTypes DEF PagedInv, StateTypes
<1>8. JobInv'
  <2> SUFFICES ASSUME NEW j \in Jobs
               PROVE  /\ ToSet(left'[j]) \subseteq ToSet(parts'[j])
                      /\ ToSet(parts'[j]) \subseteq ToSet(Parts[script'][j])
                      /\ phase'[j] \in Working => left'[j] # <<>>
                      /\ phase'[j] \in {"todo", "queued"} => page'[j] = 1 /\ items'[j] = <<>>
                      /\ phase'[j] = "storing" /\ script' # "prebook" => LastPage(j)'
    BY DEF JobInv
  <2>1. CASE j \in ready
    <3>1. ToSet(<<>>) = {}
      BY DEF ToSet
    <3> QED BY <1>5, <1>6, <2>1, <3>1 DEF Working
  <2>2. CASE j \notin ready
    <3>1. phase'[j] \in Working => phase[j] \in Working
      BY <1>4, <1>5, <2>2 DEF Working
    <3>2. phase'[j] \in {"todo", "queued"} => phase[j] \in {"todo", "queued"}
      BY <1>4, <1>5, <2>2
    <3>3. LastPage(j)' = LastPage(j) /\ (phase'[j] = "storing" => phase[j] = "storing")
      BY <1>1, <1>5, <1>6, <2>2 DEF LastPage
    <3> QED BY <1>1, <1>6, <2>2, <3>1, <3>2, <3>3 DEF PagedInv, JobInv
  <2> QED BY <2>1, <2>2
<1>9. PoolInv'
  <2>1. ASSUME NEW i \in Jobs, phase'[i] = "todo" PROVE \E k \in Jobs : phase'[k] \notin {"idle", "todo"}
    <3>1. phase[i] = "todo" /\ i \in In({"todo"})
      BY <1>5, <2>1 DEF In
    <3>2. PICK k : k \in next
      BY <1>3, <3>1
    <3>3. k \in Jobs /\ k \notin ready
      BY <1>3, <1>4, <3>2 DEF In
    <3> QED BY <1>5, <3>2, <3>3
  <2> QED BY <1>1, <1>5, <2>1 DEF PagedInv, PoolInv
<1>10. Cardinality(Busy') <= Threads'
  <2>1. Busy' \subseteq Busy
    BY <1>5 DEF Busy, In
  <2> QED BY <1>1, <2>1, BusyBound DEF PagedInv
<1>11. TypeOK'
  <2>1. phase' \in [Jobs -> Phases]
    BY <1>1, <1>2 DEF Phases
  <2> QED BY <1>1, <1>6, <1>7, <1>10, <2>1 DEF PagedInv, TypeOK, EndsKnown
<1> QED BY <1>7, <1>8, <1>9, <1>11 DEF PagedInv

\* Steps that touch neither jobs nor lines.
LEMMA RestPaged ==
  ASSUME PagedInv, script' = script, stopAt' = stopAt, ok' = ok, failed' = failed,
         phase' = phase, page' = page, attempt' = attempt, items' = items, parts' = parts,
         left' = left, answered' = answered, runs' = runs, breaks' = breaks,
         rewritten' = rewritten, pc' \in {"off", "fetching", "writing", "done"}, PoolInv'
  PROVE  PagedInv'
<1>1. StateTypes' /\ EndsKnown'
  BY KeepTypes DEF PagedInv, StateTypes
<1>2. JobInv'
  <2>1. \A i \in Jobs : LastPage(i)' = LastPage(i)
    BY DEF LastPage
  <2> QED BY <2>1 DEF PagedInv, JobInv
<1>3. Cardinality(Busy') <= Threads'
  <2>1. Busy' \subseteq Busy
    BY DEF Busy, In
  <2> QED BY <2>1, BusyBound DEF PagedInv
<1>4. TypeOK'
  BY <1>1, <1>3 DEF PagedInv, TypeOK, EndsKnown
<1> QED BY <1>1, <1>2, <1>4 DEF PagedInv

LEMMA FinishRunPaged ==
  ASSUME PagedInv, FinishRun
  PROVE  PagedInv'
<1>1. /\ script' = script /\ stopAt' = stopAt /\ ok' = ok /\ failed' = failed
      /\ phase' = phase /\ page' = page /\ attempt' = attempt /\ items' = items /\ parts' = parts
      /\ left' = left /\ answered' = answered /\ runs' = runs /\ breaks' = breaks
      /\ rewritten' = rewritten
      /\ pc' = IF script = "ticks" /\ AllAnswered THEN "writing" ELSE "done"
  BY DEF FinishRun, files, threads, history
<1>2. \A j \in Jobs : phase[j] \in {"idle", "todo"}
  BY DEF FinishRun, In, PagedInv, TypeOK
<1>3. \A j \in Jobs : phase[j] = "idle"
  BY <1>2 DEF PagedInv, PoolInv
<1>4. PoolInv'
  BY <1>1, <1>3 DEF PoolInv, AllAnswered
<1> QED BY <1>1, <1>4, RestPaged

LEMMA WriteTicksPaged ==
  ASSUME PagedInv, WriteTicks
  PROVE  PagedInv'
<1>1. /\ script' = script /\ stopAt' = stopAt /\ ok' = ok /\ failed' = failed
      /\ phase' = phase /\ page' = page /\ attempt' = attempt /\ items' = items /\ parts' = parts
      /\ left' = left /\ answered' = answered /\ runs' = runs /\ breaks' = breaks
      /\ rewritten' = rewritten
      /\ pc' \in {"writing", "done"} /\ pc = "writing"
  BY DEF WriteTicks, threads, history
<1>2. PoolInv'
  BY <1>1 DEF PagedInv, PoolInv
<1> QED BY <1>1, <1>2, RestPaged

LEMMA CrashPaged ==
  ASSUME PagedInv, Crash
  PROVE  PagedInv'
<1>1. /\ script' = script /\ stopAt' = stopAt /\ failed' = failed
      /\ pc' = "off" /\ answered' = {} /\ runs' = runs /\ rewritten' = rewritten
      /\ Ended(Jobs) /\ phase' = [j \in Jobs |-> "idle"]
  BY DEF Crash
<1>2. ok' \in [Files -> Seq(Line)] /\ breaks' \in Nat
  <2>1. ok \in [Files -> Seq(Line)] /\ breaks \in Nat
    BY DEF PagedInv, StateTypes, TypeOK
  <2>2. \A j \in In({"storing"}), end \in {"unended", "cut"} : AppendTo(j, end) => ok' \in [Files -> Seq(Line)]
    BY AppendToIs DEF In, Ends
  <2> QED BY <2>1, <2>2 DEF Crash
<1>3. /\ page' \in [Jobs -> Nat] /\ attempt' \in [Jobs -> Nat]
      /\ items' \in [Jobs -> Seq(AllItems)]
      /\ parts' \in [Jobs -> Seq(AllParts)] /\ left' \in [Jobs -> Seq(AllParts)]
      /\ \A j \in Jobs :
           /\ page'[j] \in DOMAIN Pages[script][j] /\ attempt'[j] \in 0 .. Retries
           /\ items'[j] = <<>> /\ parts'[j] = <<>> /\ left'[j] = <<>> /\ page'[j] = 1
  BY <1>1, EndedIs
<1>4. StateTypes' /\ EndsKnown'
  BY <1>1, <1>2, <1>3, KeepTypes DEF PagedInv, StateTypes
<1>5. \A j \in Jobs : phase'[j] = "idle"
  BY <1>1
<1>6. JobInv'
  <2>1. ToSet(<<>>) = {}
    BY DEF ToSet
  <2> QED BY <1>3, <1>5, <2>1 DEF JobInv, Working
<1>7. PoolInv'
  BY <1>1, <1>5 DEF PoolInv
<1>8. Cardinality(Busy') <= Threads'
  <2>1. Busy' \subseteq Busy
    BY <1>5 DEF Busy, In
  <2> QED BY <1>1, <2>1, BusyBound DEF PagedInv
<1>9. TypeOK'
  <2>1. phase' \in [Jobs -> Phases]
    BY <1>1 DEF Phases
  <2> QED BY <1>1, <1>2, <1>3, <1>4, <1>8, <2>1 DEF PagedInv, TypeOK, EndsKnown
<1> QED BY <1>4, <1>6, <1>7, <1>9 DEF PagedInv

LEMMA PagedStep == PagedInv /\ [Next]_vars => PagedInv'
<1> SUFFICES ASSUME PagedInv, [Next]_vars PROVE PagedInv'
  OBVIOUS
<1>1. CASE UNCHANGED vars
  <2>1. /\ script' = script /\ stopAt' = stopAt /\ ok' = ok /\ failed' = failed
        /\ phase' = phase /\ page' = page /\ attempt' = attempt /\ items' = items /\ parts' = parts
        /\ left' = left /\ answered' = answered /\ runs' = runs /\ breaks' = breaks
        /\ rewritten' = rewritten /\ pc' = pc
    BY <1>1 DEF vars, files, threads, history
  <2>2. PoolInv'
    BY <2>1 DEF PagedInv, PoolInv
  <2>3. pc' \in {"off", "fetching", "writing", "done"}
    BY <2>1 DEF PagedInv, TypeOK
  <2> QED BY <2>1, <2>2, <2>3, RestPaged
<1>2. CASE Start
  BY <1>2, StartPaged
<1>3. CASE Main
  BY <1>3, CollectPaged, FinishRunPaged, WriteTicksPaged DEF Main
<1>4. CASE Crash
  BY <1>4, CrashPaged
<1>5. ASSUME NEW j \in Jobs, Take(j) \/ Fetch(j) PROVE PagedInv'
  BY <1>5, TakePaged, CallFailsPaged, CallReturnsPaged, StorePaged, StoreFailsPaged, ReportPaged DEF Fetch
<1> QED BY <1>1, <1>2, <1>3, <1>4, <1>5 DEF Next

LEMMA PagedInvariant == Spec => []PagedInv
BY PagedInit, PagedStep, PTL DEF Spec

\* Whatever fails, the pool has no more busy threads than it has threads, a page
\* that is asked for exists and is asked for no more often than the retries
\* allow.
THEOREM PagedTypeCorrect == Spec => []TypeOK
BY PagedInvariant, PTL DEF PagedInv

-----------------------------------------------------------------------------
(* What has been gathered *)

\* What the first n pages of a job hold.
Upto(j, n) == Pile(Pages[script][j])[n]

\* All pages, and after them nothing or the last of them again, as often as a
\* write failed.
Doubled(j, n, s) ==
  /\ n = Len(Pages[script][j])
  /\ \E r \in Seq(AllItems) :
       s = Upto(j, n) \o r /\ (r = <<>> \/ ToSet(r) = ToSet(Pages[script][j][n]))

Repeats(j) == script = "lines" \/ (script = "offers" /\ j \in rewritten)

Gathering(j) ==
  /\ phase[j] = "calling" =>
       \/ items[j] = Upto(j, page[j] - 1) /\ (script = "prebook" => Short(items[j]))
       \/ Repeats(j) /\ Doubled(j, page[j], items[j])
  /\ phase[j] = "storing" =>
       items[j] = Whole(j) \/ (Repeats(j) /\ Doubled(j, page[j], items[j]))

GatherInv == \A j \in Jobs : Gathering(j)

LEMMA Concat ==
  ASSUME NEW X, NEW a \in Seq(X), NEW b \in Seq(X)
  PROVE  /\ a \o b \in Seq(X) /\ Len(a \o b) = Len(a) + Len(b)
         /\ \A k \in 1 .. Len(a) : (a \o b)[k] = a[k]
         /\ \A k \in 1 .. Len(b) : (a \o b)[Len(a) + k] = b[k]
         /\ ToSet(a \o b) = ToSet(a) \cup ToSet(b)
<1>1. /\ a \o b \in Seq(X) /\ Len(a \o b) = Len(a) + Len(b)
      /\ \A k \in 1 .. Len(a) : (a \o b)[k] = a[k]
      /\ \A k \in 1 .. Len(b) : (a \o b)[Len(a) + k] = b[k]
      /\ Len(a) \in Nat /\ Len(b) \in Nat
  OBVIOUS
<1> DEFINE c == a \o b
<1>2. /\ DOMAIN a = 1 .. Len(a) /\ DOMAIN b = 1 .. Len(b) /\ DOMAIN c = 1 .. Len(a) + Len(b)
  BY <1>1
<1>3. \A k \in DOMAIN c : k \in DOMAIN a \/ (k - Len(a) \in DOMAIN b /\ k = Len(a) + (k - Len(a)))
  BY <1>1, <1>2
<1>4. /\ \A k \in DOMAIN a : k \in DOMAIN c /\ c[k] = a[k]
      /\ \A k \in DOMAIN b : Len(a) + k \in DOMAIN c /\ c[Len(a) + k] = b[k]
  BY <1>1, <1>2
<1>5. /\ ToSet(a) = {a[k] : k \in DOMAIN a} /\ ToSet(b) = {b[k] : k \in DOMAIN b}
      /\ ToSet(c) = {c[k] : k \in DOMAIN c}
  BY DEF ToSet
<1> HIDE DEF c
<1>6. ToSet(c) \subseteq ToSet(a) \cup ToSet(b)
  <2> SUFFICES ASSUME NEW k \in DOMAIN c PROVE c[k] \in ToSet(a) \cup ToSet(b)
    BY <1>5
  <2>1. CASE k \in DOMAIN a
    BY <1>4, <1>5, <2>1
  <2>2. CASE k - Len(a) \in DOMAIN b /\ k = Len(a) + (k - Len(a))
    BY <1>4, <1>5, <2>2
  <2> QED BY <1>3, <2>1, <2>2
<1>7. ToSet(a) \cup ToSet(b) \subseteq ToSet(c)
  BY <1>4, <1>5
<1>8. ToSet(c) = ToSet(a) \cup ToSet(b)
  BY <1>6, <1>7
<1> QED BY <1>1, <1>8 DEF c

LEMMA SameAnswers ==
  ASSUME script' = script, stopAt' = stopAt
  PROVE  /\ \A s : Enough(s)' = Enough(s) /\ Short(s)' = Short(s)
         /\ \A s, p : Taken(s, p)' = Taken(s, p)
         /\ \A j \in Jobs : Whole(j)' = Whole(j)
         /\ \A part, s : ValueOf(part, s)' = ValueOf(part, s)
<1>1. \A s : Enough(s)' = Enough(s)
  BY DEF Enough
<1>2. \A s : Short(s)' = Short(s)
  BY <1>1 DEF Short
<1>3. ASSUME NEW s, NEW p PROVE Taken(s, p)' = Taken(s, p)
  <2> DEFINE stops == {n \in 0 .. Len(p) : Enough(s \o SubSeq(p, 1, n))}
             front(S) == s \o SubSeq(p, 1, CHOOSE n \in S : \A m \in S : n <= m)
  <2>1. stops' = stops
    BY <1>1
  <2>2. Taken(s, p) = IF script # "prebook" \/ stops = {} THEN s \o p ELSE front(stops)
    BY DEF Taken
  <2>3. Taken(s, p)' = IF script' # "prebook" \/ stops' = {} THEN s \o p ELSE front(stops')
    BY DEF Taken
  <2> HIDE DEF stops, front
  <2> QED BY <2>1, <2>2, <2>3
<1>4. \A j \in Jobs : Whole(j)' = Whole(j)
  BY <1>3 DEF Whole
<1>5. \A part, s : ValueOf(part, s)' = ValueOf(part, s)
  BY DEF ValueOf
<1> QED BY <1>1, <1>2, <1>3, <1>4, <1>5

\* The pages of a job, one after the other.
LEMMA UptoIs ==
  ASSUME script \in Scripts, NEW j \in Jobs
  PROVE  /\ Len(Pages[script][j]) \in Nat /\ Len(Pages[script][j]) > 0
         /\ DOMAIN Pages[script][j] = 1 .. Len(Pages[script][j])
         /\ \A n \in 0 .. Len(Pages[script][j]) : Upto(j, n) \in Seq(AllItems)
         /\ Upto(j, 0) = <<>>
         /\ \A n \in 1 .. Len(Pages[script][j]) :
              /\ Pages[script][j][n] \in Seq(AllItems)
              /\ Upto(j, n) = Upto(j, n - 1) \o Pages[script][j][n]
         /\ FlattenSeq(Pages[script][j]) = Upto(j, Len(Pages[script][j]))
         /\ FlattenSeq(Pages[script][j]) \in Seq(AllItems)
         /\ \A n \in 0 .. Len(Pages[script][j]) : Begins(Pages[script][j], n, AllItems)
<1> DEFINE s == Pages[script][j]
<1>1. s \in Seq(Seq(AllItems)) /\ Len(s) > 0 /\ \A n \in DOMAIN s : s[n] \in Seq(AllItems)
  BY DataTypes
<1>2. Len(s) \in Nat /\ DOMAIN s = 1 .. Len(s)
  BY <1>1
<1> HIDE DEF s
<1>3. Piles(Pile(s), s) /\ \A n \in 0 .. Len(s) : Pile(s)[n] \in Seq(AllItems)
  BY <1>1, PileIs
<1>4. \A n \in 0 .. Len(s) : Begins(s, n, AllItems)
  BY <1>1, PileBegins
<1>5. Pile(s)[Len(s)] \in Seq(AllItems)
  BY <1>2, <1>3
<1> QED BY <1>1, <1>2, <1>3, <1>4, <1>5 DEF s, Upto, Piles

LEMMA NothingIsShort ==
  ASSUME stopAt \in Nat
  PROVE  Short(<<>>)
<1>1. ~Enough(<<>>)
  <2>1. {k \in DOMAIN <<>> : <<>>[k].side = "getsXRP"} = {}
    OBVIOUS
  <2>2. OnSide(<<>>, "getsXRP") = <<>>
    BY <2>1, ThoseNone DEF OnSide
  <2> QED BY <2>2 DEF Enough
<1>2. \A n \in 0 .. Len(<<>>) : SubSeq(<<>>, 1, n) = <<>>
  OBVIOUS
<1> QED BY <1>1, <1>2 DEF Short

\* All that there is, when nothing stops a script before the last page.
LEMMA WholeIs ==
  ASSUME script \in Scripts, NEW j \in Jobs,
         script = "prebook" => Short(Upto(j, Len(Pages[script][j])))
  PROVE  Whole(j) = Upto(j, Len(Pages[script][j]))
<1> DEFINE w == Upto(j, Len(Pages[script][j]))
<1>1. w \in Seq(AllItems) /\ FlattenSeq(Pages[script][j]) = w
  BY UptoIs
<1>2. Whole(j) = Taken(<<>>, w)
  BY <1>1 DEF Whole
<1> HIDE DEF w
<1>3. CASE script = "prebook"
  BY <1>1, <1>2, <1>3, TakenShort DEF w
<1>4. CASE script # "prebook"
  BY <1>1, <1>2, <1>4 DEF w, Taken
<1> QED BY <1>3, <1>4

LEMMA WholeType ==
  ASSUME script \in Scripts, NEW j \in Jobs
  PROVE  Whole(j) \in Seq(AllItems)
<1>1. FlattenSeq(Pages[script][j]) \in Seq(AllItems)
  BY UptoIs
<1>2. <<>> \in Seq(AllItems)
  OBVIOUS
<1> QED BY <1>1, <1>2, TakenType DEF Whole

\* A job that a step leaves where it is.
LEMMA GatherKeep ==
  ASSUME GatherInv, script' = script, stopAt' = stopAt, rewritten \subseteq rewritten',
         NEW i \in Jobs, phase'[i] \in {"calling", "storing"} => phase'[i] = phase[i],
         page'[i] = page[i], items'[i] = items[i]
  PROVE  Gathering(i)'
<1>1. Gathering(i)
  BY DEF GatherInv
<1>2. /\ \A n : Upto(i, n)' = Upto(i, n)
      /\ \A n, s : Doubled(i, n, s)' = Doubled(i, n, s)
      /\ Repeats(i) => Repeats(i)'
  <2>1. AllItems' = AllItems
    BY SameScript
  <2> QED BY <2>1 DEF Upto, Doubled, Repeats
<1>3. Whole(i)' = Whole(i) /\ \A s : Short(s)' = Short(s)
  BY SameAnswers
<1> QED BY <1>1, <1>2, <1>3 DEF Gathering

LEMMA TakeGather ==
  ASSUME PagedInv, GatherInv, NEW j \in Jobs, Take(j)
  PROVE  GatherInv'
<1>1. /\ script' = script /\ stopAt' = stopAt /\ page' = page /\ items' = items
      /\ rewritten' = rewritten /\ phase' = [phase EXCEPT ![j] = "calling"] /\ phase[j] = "queued"
  BY FirstOfIs DEF Take, Becomes, history, FirstOf, In
<1>2. phase \in [Jobs -> Phases] /\ script \in Scripts /\ stopAt \in Nat
  BY DEF PagedInv, TypeOK
<1>3. \A i \in Jobs : phase'[i] = IF i = j THEN "calling" ELSE phase[i]
  BY <1>1, <1>2
<1>4. ASSUME NEW i \in Jobs, i # j PROVE Gathering(i)'
  BY <1>1, <1>3, <1>4, GatherKeep
<1>5. Gathering(j)'
  <2>1. items[j] = <<>> /\ page[j] = 1
    BY <1>1 DEF PagedInv, JobInv
  <2>2. Upto(j, 0) = <<>> /\ Short(<<>>)
    BY <1>2, UptoIs, NothingIsShort
  <2>3. (\A n : Upto(j, n)' = Upto(j, n)) /\ (\A s : Short(s)' = Short(s))
    BY <1>1, SameAnswers DEF Upto
  <2>4. (items[j] = Upto(j, page[j] - 1))' /\ Short(items[j])'
    BY <1>1, <2>1, <2>2, <2>3
  <2>5. phase'[j] = "calling"
    BY <1>3
  <2> QED BY <2>4, <2>5 DEF Gathering
<1> QED BY <1>4, <1>5 DEF GatherInv

LEMMA CallFailsGather ==
  ASSUME PagedInv, GatherInv, NEW j \in Jobs, CallFails(j)
  PROVE  GatherInv'
<1>1. /\ script' = script /\ stopAt' = stopAt /\ rewritten' = rewritten
      /\ phase[j] = "calling" /\ Fails(j)
  BY DEF CallFails, history
<1>2. PICK p \in {"calling", "reporting", "finished"} :
         phase' = [phase EXCEPT ![j] = p] /\ page' = page /\ items' = items
  BY <1>1, FailsIs
<1>3. phase \in [Jobs -> Phases]
  BY DEF PagedInv, TypeOK
<1>4. \A i \in Jobs : phase'[i] = IF i = j THEN p ELSE phase[i]
  BY <1>2, <1>3
<1>5. ASSUME NEW i \in Jobs PROVE Gathering(i)'
  <2>1. phase'[i] \in {"calling", "storing"} => phase'[i] = phase[i]
    BY <1>1, <1>4
  <2> QED BY <1>1, <1>2, <2>1, GatherKeep
<1> QED BY <1>5 DEF GatherInv

\* What an answer adds to what was gathered, and when it is all there is.
LEMMA GatheredIs ==
  ASSUME PagedInv, NEW j \in Jobs, phase[j] = "calling", Gathering(j)
  PROVE  IF LastPage(j) \/ (script = "prebook" /\ Enough(Gathered(j)))
         THEN Gathered(j) = Whole(j) \/ (Repeats(j) /\ Doubled(j, page[j], Gathered(j)))
         ELSE Gathered(j) = Upto(j, page[j]) /\ (script = "prebook" => Short(Gathered(j)))
<1> DEFINE s == items[j]
           n == page[j]
           p == Pages[script][j][n]
           last == Len(Pages[script][j])
<1>1. script \in Scripts /\ stopAt \in Nat /\ n \in DOMAIN Pages[script][j]
      /\ s \in Seq(AllItems)
  BY DEF PagedInv, TypeOK, StateTypes
<1>2. /\ last \in Nat /\ n \in 1 .. last /\ n \in 0 .. last /\ n - 1 \in 0 .. last
      /\ p \in Seq(AllItems) /\ Upto(j, n) = Upto(j, n - 1) \o p
      /\ Upto(j, n) \in Seq(AllItems) /\ Upto(j, n - 1) \in Seq(AllItems)
      /\ FlattenSeq(Pages[script][j]) = Upto(j, last)
      /\ Begins(Pages[script][j], n, AllItems)
  <2>1. last \in Nat /\ DOMAIN Pages[script][j] = 1 .. last
    BY <1>1, UptoIs
  <2>2. n \in 1 .. last /\ n \in 0 .. last /\ n - 1 \in 0 .. last
    BY <1>1, <2>1
  <2> QED BY <1>1, <2>1, <2>2, UptoIs
<1>3. Gathered(j) = Taken(s, p) /\ (LastPage(j) <=> n = last)
  BY DEF Gathered, LastPage
<1>4. \/ s = Upto(j, n - 1) /\ (script = "prebook" => Short(s))
      \/ Repeats(j) /\ Doubled(j, n, s) /\ script # "prebook"
  BY DEF Gathering, Repeats
<1> HIDE DEF s, n, p, last
<1>5. CASE s = Upto(j, n - 1) /\ script = "prebook"
  <2>1. Short(s) /\ Taken(s, p) \in Seq(AllItems)
        /\ (~Enough(Taken(s, p)) => Taken(s, p) = s \o p /\ Short(Taken(s, p)))
        /\ (Enough(Taken(s, p)) => \A r \in Seq(AllItems) : Taken(<<>>, (s \o p) \o r) = Taken(s, p))
    <3>1. Short(s) /\ script = "prebook"
      BY <1>4, <1>5
    <3>2. s \in Seq(AllItems) /\ p \in Seq(AllItems)
      BY <1>1, <1>2
    <3>3. Taken(s, p) \in Seq(AllItems)
      BY <3>1, <3>2, TakenIs
    <3>4. ~Enough(Taken(s, p)) => Taken(s, p) = s \o p /\ Short(Taken(s, p))
      BY <3>1, <3>2, TakenIs
    <3>5. ASSUME Enough(Taken(s, p)), NEW r \in Seq(AllItems)
          PROVE  Taken(<<>>, (s \o p) \o r) = Taken(s, p)
      BY <3>1, <3>2, <3>5, TakenIs
    <3> QED BY <3>1, <3>3, <3>4, <3>5
  <2>2. CASE Enough(Taken(s, p))
    <3>1. PICK r \in Seq(AllItems) : Upto(j, last) = Upto(j, n) \o r
      BY <1>2 DEF Begins, Upto
    <3>2. Whole(j) = Taken(<<>>, (s \o p) \o r)
      BY <1>2, <1>5, <3>1 DEF Whole
    <3> QED BY <1>3, <1>5, <2>1, <2>2, <3>2
  <2>3. CASE ~Enough(Taken(s, p))
    <3>1. Gathered(j) = Upto(j, n) /\ Short(Gathered(j))
      BY <1>2, <1>3, <1>5, <2>1, <2>3
    <3>2. LastPage(j) => Whole(j) = Upto(j, n)
      BY <1>1, <1>3, <3>1, WholeIs DEF last
    <3> QED BY <1>3, <2>3, <3>1, <3>2 DEF n
  <2> QED BY <2>2, <2>3
<1>6. CASE s = Upto(j, n - 1) /\ script # "prebook"
  <2>1. Gathered(j) = Upto(j, n)
    BY <1>2, <1>3, <1>6 DEF Taken
  <2>2. LastPage(j) => Whole(j) = Upto(j, n)
    BY <1>1, <1>3, <1>6, WholeIs DEF last
  <2> QED BY <1>6, <2>1, <2>2 DEF n
<1>7. CASE Repeats(j) /\ Doubled(j, n, s) /\ script # "prebook"
  <2>1. PICK r \in Seq(AllItems) : s = Upto(j, n) \o r /\ (r = <<>> \/ ToSet(r) = ToSet(p))
    BY <1>7 DEF Doubled, p
  <2>2. r \o p \in Seq(AllItems) /\ ToSet(r \o p) = ToSet(r) \cup ToSet(p)
    BY <1>2, <2>1, Concat
  <2>3. ToSet(r \o p) = ToSet(p)
    <3>1. ToSet(<<>>) = {}
      BY DEF ToSet
    <3> QED BY <2>1, <2>2, <3>1
  <2>4. Gathered(j) = s \o p
    BY <1>3, <1>7 DEF Taken
  <2>5. Gathered(j) = Upto(j, n) \o (r \o p)
    BY <1>2, <2>1, <2>4, Reassociate
  <2>6. n = Len(Pages[script][j])
    BY <1>7 DEF Doubled
  <2>7. Doubled(j, n, Gathered(j))
    BY <2>2, <2>3, <2>5, <2>6 DEF Doubled, p
  <2> QED BY <1>3, <1>7, <2>6, <2>7 DEF n, last
<1> QED BY <1>4, <1>5, <1>6, <1>7

LEMMA CallReturnsGather ==
  ASSUME PagedInv, GatherInv, NEW j \in Jobs, CallReturns(j)
  PROVE  GatherInv'
<1> DEFINE over == LastPage(j) \/ (script = "prebook" /\ Enough(Gathered(j)))
           g == Gathered(j)
<1>1. /\ script' = script /\ stopAt' = stopAt /\ rewritten' = rewritten
      /\ phase[j] = "calling" /\ items' = [items EXCEPT ![j] = g]
  BY DEF CallReturns, history
<1>2. phase \in [Jobs -> Phases] /\ page \in [Jobs -> Nat] /\ items \in [Jobs -> Seq(AllItems)]
      /\ script \in Scripts
  BY DEF PagedInv, StateTypes, TypeOK
<1>3. IF over THEN g = Whole(j) \/ (Repeats(j) /\ Doubled(j, page[j], g))
      ELSE g = Upto(j, page[j]) /\ (script = "prebook" => Short(g))
  BY <1>1, GatheredIs DEF GatherInv
<1>4. /\ over => /\ page' = page
                 /\ phase' = [phase EXCEPT ![j] = IF script = "ticks" THEN "finished" ELSE "storing"]
      /\ ~over => page' = [page EXCEPT ![j] = @ + 1] /\ phase' = phase
  BY DEF CallReturns, Becomes
<1> HIDE DEF over, g
<1>5. items'[j] = g /\ \A i \in Jobs : i # j => items'[i] = items[i] /\ page'[i] = page[i] /\ phase'[i] = phase[i]
  BY <1>1, <1>2, <1>4
<1>6. ASSUME NEW i \in Jobs, i # j PROVE Gathering(i)'
  BY <1>1, <1>5, <1>6, GatherKeep
<1>7. /\ \A n : Upto(j, n)' = Upto(j, n)
      /\ \A n, s : Doubled(j, n, s)' = Doubled(j, n, s)
      /\ Repeats(j)' = Repeats(j)
      /\ Whole(j)' = Whole(j) /\ \A s : Short(s)' = Short(s)
  <2>1. AllItems' = AllItems
    BY <1>1, SameScript
  <2> QED BY <1>1, <2>1, SameAnswers DEF Upto, Doubled, Repeats
<1>8. Gathering(j)'
  <2>1. CASE over
    <3>1. page'[j] = page[j] /\ phase'[j] # "calling"
      BY <1>2, <1>4, <2>1
    <3> QED BY <1>3, <1>5, <1>7, <2>1, <3>1 DEF Gathering
  <2>2. CASE ~over
    <3>1. page'[j] = page[j] + 1 /\ page[j] \in Nat /\ phase'[j] = "calling"
      BY <1>1, <1>2, <1>4, <2>2
    <3>2. page'[j] - 1 = page[j]
      BY <3>1
    <3> QED BY <1>1, <1>3, <1>5, <1>7, <2>2, <3>1, <3>2 DEF Gathering
  <2> QED BY <2>1, <2>2
<1> QED BY <1>6, <1>8 DEF GatherInv

LEMMA StoreFailsGather ==
  ASSUME PagedInv, GatherInv, NEW j \in Jobs, StoreFails(j)
  PROVE  GatherInv'
<1>1. /\ script' = script /\ stopAt' = stopAt /\ rewritten \subseteq rewritten' /\ phase[j] = "storing"
      /\ script = "lines" \/ j \in rewritten'
  BY DEF StoreFails, Ambiguous
<1>2. phase \in [Jobs -> Phases] /\ script \in Scripts
  BY DEF PagedInv, TypeOK
<1>3. PICK p \in {"calling", "reporting"} :
         /\ phase' = [phase EXCEPT ![j] = p] /\ page' = page /\ items' = items
         /\ script = "prebook" => p = "reporting"
  <2>1. CASE script = "prebook"
    BY <2>1 DEF StoreFails, Becomes
  <2>2. CASE script # "prebook"
    <3>1. Fails(j) /\ script # "ticks"
      BY <1>1, <2>2 DEF StoreFails, PagedInv, PoolInv
    <3> QED BY <2>2, <3>1, FailsIs
  <2> QED BY <2>1, <2>2
<1>4. \A i \in Jobs : phase'[i] = IF i = j THEN p ELSE phase[i]
  BY <1>2, <1>3
<1>5. ASSUME NEW i \in Jobs, i # j PROVE Gathering(i)'
  BY <1>1, <1>3, <1>4, <1>5, GatherKeep
<1>6. CASE p = "calling"
  <2>1. script # "prebook" /\ script # "ticks" /\ LastPage(j)
    BY <1>1, <1>3, <1>6 DEF PagedInv, PoolInv, JobInv
  <2>2. Repeats(j)' /\ script' # "prebook"
    BY <1>1, <1>2, <2>1, PagedAssumption DEF Repeats
  <2>3. /\ \A n : Upto(j, n)' = Upto(j, n)
        /\ \A n, s : Doubled(j, n, s)' = Doubled(j, n, s)
    <3>1. AllItems' = AllItems
      BY <1>1, SameScript
    <3> QED BY <1>1, <3>1 DEF Upto, Doubled
  <2>4. Doubled(j, page[j], items[j])
    <3>1. CASE items[j] = Whole(j)
      <4>1. page[j] = Len(Pages[script][j]) /\ items[j] = Upto(j, page[j])
        BY <1>2, <2>1, <3>1, WholeIs DEF LastPage
      <4>2. Upto(j, page[j]) \in Seq(AllItems)
        BY <4>1 DEF PagedInv, StateTypes
      <4>3. <<>> \in Seq(AllItems)
        OBVIOUS
      <4>4. Upto(j, page[j]) = Upto(j, page[j]) \o <<>>
        BY <4>2
      <4> QED BY <4>1, <4>3, <4>4 DEF Doubled
    <3> QED BY <1>1, <3>1 DEF GatherInv, Gathering
  <2>5. phase'[j] = "calling" /\ items'[j] = items[j] /\ page'[j] = page[j]
    BY <1>3, <1>4, <1>6
  <2> QED BY <1>5, <2>2, <2>3, <2>4, <2>5 DEF GatherInv, Gathering
<1>7. CASE p = "reporting"
  <2>1. Gathering(j)'
    BY <1>4, <1>7 DEF Gathering
  <2> QED BY <1>5, <2>1 DEF GatherInv
<1> QED BY <1>6, <1>7

LEMMA GatherStep == PagedInv /\ GatherInv /\ [Next]_vars => GatherInv'
<1> SUFFICES ASSUME PagedInv, GatherInv, [Next]_vars PROVE GatherInv'
  OBVIOUS
<1>1. ASSUME script' = script, stopAt' = stopAt, rewritten' = rewritten, page' = page, items' = items,
             \A i \in Jobs : phase'[i] \in {"calling", "storing"} => phase'[i] = phase[i]
      PROVE  GatherInv'
  BY <1>1, GatherKeep DEF GatherInv
<1>2. ASSUME \A i \in Jobs : phase'[i] \notin {"calling", "storing"} PROVE GatherInv'
  BY <1>2 DEF GatherInv, Gathering
<1>3. phase \in [Jobs -> Phases]
  BY DEF PagedInv, TypeOK
<1>4. CASE UNCHANGED vars
  BY <1>1, <1>4 DEF vars, files, threads, history
<1>5. CASE Start
  BY <1>2, <1>5 DEF Start
<1>6. CASE Collect
  <2>1. /\ script' = script /\ stopAt' = stopAt /\ rewritten' = rewritten
        /\ Ended(In({"finished"}))
    BY <1>6 DEF Collect, history
  <2>2. ASSUME NEW i \in Jobs PROVE Gathering(i)'
    <3>1. CASE phase[i] = "finished"
      <4>1. phase'[i] = "idle"
        BY <1>6, <3>1 DEF Collect, In
      <4> QED BY <4>1 DEF Gathering
    <3>2. CASE phase[i] # "finished"
      <4>1. page'[i] = page[i] /\ items'[i] = items[i]
        BY <2>1, <3>2 DEF Ended, In
      <4>2. phase'[i] \in {"calling", "storing"} => phase'[i] = phase[i]
        BY <1>6, <3>2 DEF Collect
      <4> QED BY <2>1, <4>1, <4>2, GatherKeep
    <3> QED BY <3>1, <3>2
  <2> QED BY <2>2 DEF GatherInv
<1>7. CASE FinishRun
  BY <1>1, <1>7 DEF FinishRun, threads, history
<1>8. CASE WriteTicks
  BY <1>1, <1>8 DEF WriteTicks, threads, history
<1>9. CASE Crash
  BY <1>2, <1>9 DEF Crash
<1>10. ASSUME NEW j \in Jobs, Store(j) PROVE GatherInv'
  <2>1. \A i \in Jobs : phase'[i] \in {"calling", "storing"} => phase'[i] = phase[i]
    BY <1>3, <1>10 DEF Store, Becomes
  <2> QED BY <1>1, <1>10, <2>1 DEF Store, history
<1>11. ASSUME NEW j \in Jobs, Report(j) PROVE GatherInv'
  <2>1. \A i \in Jobs : phase'[i] \in {"calling", "storing"} => phase'[i] = phase[i]
    BY <1>3, <1>11 DEF Report, Becomes
  <2> QED BY <1>1, <1>11, <2>1 DEF Report, history
<1>12. ASSUME NEW j \in Jobs, Take(j) \/ Fetch(j) PROVE GatherInv'
  BY <1>10, <1>11, <1>12, TakeGather, CallFailsGather, CallReturnsGather, StoreFailsGather DEF Fetch
<1> QED BY <1>4, <1>5, <1>6, <1>7, <1>8, <1>9, <1>12 DEF Next, Main

-----------------------------------------------------------------------------
(* What can be read is what the server had *)

\* Nothing is picked from what is gathered a second time: a currency on a page
\* that is gathered twice would be found twice.
LEMMA OneMatch ==
  ASSUME NEW X, NEW a \in Seq(X), NEW p \in Seq(X), NEW r \in Seq(X), NEW part,
         ToSet(r) = ToSet(p), Len(Matches((a \o p) \o r, part)) <= 1
  PROVE  Matches((a \o p) \o r, part) = Matches(a \o p, part)
<1> DEFINE w == a \o p
           s == w \o r
           K == {k \in DOMAIN s : s[k] = part}
           L == {k \in DOMAIN w : w[k] = part}
<1>1. /\ w \in Seq(X) /\ Len(w) = Len(a) + Len(p)
      /\ \A k \in 1 .. Len(p) : w[Len(a) + k] = p[k]
  BY Concat
<1>2. /\ Len(a) \in Nat /\ Len(p) \in Nat /\ Len(r) \in Nat /\ Len(w) \in Nat
      /\ DOMAIN p = 1 .. Len(p) /\ DOMAIN r = 1 .. Len(r) /\ DOMAIN w = 1 .. Len(w)
  BY <1>1
<1> HIDE DEF w
<1>3. /\ s \in Seq(X) /\ Len(s) = Len(w) + Len(r) /\ DOMAIN s = 1 .. Len(w) + Len(r)
      /\ \A k \in 1 .. Len(w) : s[k] = w[k]
      /\ \A k \in 1 .. Len(r) : s[Len(w) + k] = r[k]
  <2>1. /\ s \in Seq(X) /\ Len(s) = Len(w) + Len(r)
        /\ \A k \in 1 .. Len(w) : s[k] = w[k]
        /\ \A k \in 1 .. Len(r) : s[Len(w) + k] = r[k]
    <3>1. w \in Seq(X) /\ r \in Seq(X)
      BY <1>1
    <3> QED BY <3>1, Concat
  <2>2. DOMAIN s = 1 .. Len(s)
    BY <2>1
  <2> QED BY <2>1, <2>2
<1>4. Matches(s, part) = Those(s, K) /\ Matches(w, part) = Those(w, L)
  BY DEF Matches
<1> HIDE DEF s
<1>5. K \subseteq DOMAIN s /\ IsFiniteSet(K) /\ Cardinality(K) <= 1
  BY <1>3, <1>4, ThoseIs DEF s, w
<1>6. ASSUME NEW k \in 1 .. Len(r), r[k] = part PROVE FALSE
  <2>1. part \in ToSet(p)
    BY <1>2, <1>6 DEF ToSet
  <2>2. PICK m \in 1 .. Len(p) : p[m] = part
    BY <1>2, <2>1 DEF ToSet
  <2>3. Len(a) + m \in 1 .. Len(w) /\ s[Len(a) + m] = part
    BY <1>1, <1>2, <1>3, <2>2
  <2>4. Len(w) + k \in DOMAIN s /\ s[Len(w) + k] = part /\ Len(a) + m \in DOMAIN s
    BY <1>2, <1>3, <1>6, <2>3
  <2>5. Len(w) + k \in K /\ Len(a) + m \in K /\ Len(w) + k # Len(a) + m
    BY <1>2, <2>3, <2>4
  <2> HIDE DEF K
  <2>6. IsFiniteSet({Len(a) + m}) /\ Cardinality({Len(a) + m}) = 1
    BY FS_Singleton
  <2>7. Cardinality({Len(a) + m} \cup {Len(w) + k}) = 2
    <3>1. Len(w) + k \notin {Len(a) + m}
      BY <2>5
    <3>2. Cardinality({Len(a) + m} \cup {Len(w) + k}) = Cardinality({Len(a) + m}) + 1
      BY <2>6, <3>1, FS_AddElement
    <3> QED BY <2>6, <3>2
  <2>8. {Len(a) + m} \cup {Len(w) + k} \in SUBSET K
    BY <2>5
  <2>9. 2 <= Cardinality(K) /\ Cardinality(K) \in Nat
    BY <1>5, <2>7, <2>8, FS_Subset, FS_CardinalityType
  <2> QED BY <1>5, <2>9
<1>7. K = L
  <2>1. \A k \in DOMAIN s : k \in DOMAIN w \/ (k - Len(w) \in 1 .. Len(r) /\ k = Len(w) + (k - Len(w)))
    BY <1>2, <1>3
  <2>2. \A k \in K : k \in DOMAIN w
    BY <1>3, <1>6, <2>1
  <2>3. \A k \in DOMAIN w : k \in DOMAIN s /\ s[k] = w[k]
    BY <1>2, <1>3
  <2> QED BY <2>2, <2>3
<1>8. Those(w, L) = Those(s, L)
  <2>1. L \subseteq DOMAIN w /\ \A k \in L : w[k] = s[k]
    BY <1>2, <1>3
  <2> HIDE DEF L
  <2> QED BY <1>1, <1>3, <2>1, ThoseSame
<1> QED BY <1>4, <1>7, <1>8 DEF s, w

\* A line that says what the server had.
Right(line) ==
  \/ line.value = ValueOf(line.part, Whole(line.job))
  \/ /\ script = "offers" /\ line.job \in rewritten
     /\ ToSet(line.value) = ToSet(Whole(line.job))

LinesRight == \A f \in Files : \A line \in ToSet(ok[f]) : Readable(line) => Right(line)

\* A tick-size file that is whole was written when every job had its answer.
TicksRight ==
  /\ ticks \in [TickLedgers -> [state : {"none", "whole", "cut"}, jobs : SUBSET Jobs]]
  /\ \A l \in TickLedgers : ticks[l].state = "whole" =>
       \A j \in Jobs : LedgerOf[j] = l => j \in ticks[l].jobs

FaithInv == PagedInv /\ GatherInv /\ LinesRight /\ TicksRight

\* What a job writes is right even when its last page was gathered twice: an
\* account line is then found once or not written, and offers are listed twice.
LEMMA LineRight ==
  ASSUME PagedInv, GatherInv, NEW j \in Jobs, phase[j] = "storing", ~Ambiguous(j), NEW end
  PROVE  Right(LineOf(j, end))
<1> DEFINE part == Head(left[j])
           line == LineOf(j, end)
           n == page[j]
           p == Pages[script][j][n]
<1>1. line.job = j /\ line.part = part /\ line.value = ValueOf(part, items[j])
  BY DEF LineOf
<1>2. script \in Scripts /\ stopAt \in Nat
  BY DEF PagedInv, TypeOK
<1>3. items[j] = Whole(j) \/ (Repeats(j) /\ Doubled(j, n, items[j]))
  BY DEF GatherInv, Gathering
<1> HIDE DEF line, part, n, p
<1>4. CASE items[j] = Whole(j)
  BY <1>1, <1>4 DEF Right, line
<1>5. CASE Repeats(j) /\ Doubled(j, n, items[j])
  <2>1. n = Len(Pages[script][j]) /\ script # "prebook"
    BY <1>5 DEF Doubled, Repeats
  <2>2. PICK r \in Seq(AllItems) : items[j] = Upto(j, n) \o r /\ (r = <<>> \/ ToSet(r) = ToSet(p))
    BY <1>5 DEF Doubled, p
  <2>3. /\ Upto(j, n) = Upto(j, n - 1) \o p /\ p \in Seq(AllItems)
        /\ Upto(j, n - 1) \in Seq(AllItems) /\ Upto(j, n) \in Seq(AllItems)
    <3>1. n \in 1 .. Len(Pages[script][j]) /\ n - 1 \in 0 .. Len(Pages[script][j])
          /\ n \in 0 .. Len(Pages[script][j])
      <4>1. Len(Pages[script][j]) \in Nat /\ Len(Pages[script][j]) > 0
        BY <1>2, UptoIs
      <4> QED BY <2>1, <4>1
    <3> QED BY <1>2, <3>1, UptoIs DEF p
  <2>4. Whole(j) = Upto(j, n)
    BY <1>2, <2>1, WholeIs
  <2>5. CASE r = <<>>
    <3>1. items[j] = Upto(j, n)
      BY <2>2, <2>3, <2>5
    <3> QED BY <1>4, <2>4, <3>1
  <2>6. CASE ToSet(r) = ToSet(p) /\ script = "lines"
    <3>1. Len(Matches(items[j], part)) <= 1
      <4>1. Matches(items[j], part) \in Seq(AllItems)
        <5>1. ValueOf(part, items[j]) \in Seq(AllItems)
          BY <1>2, ValueType DEF PagedInv, StateTypes
        <5> QED BY <2>6, <5>1 DEF ValueOf
      <4>2. Len(Matches(items[j], part)) \in Nat
        BY <4>1
      <4> QED BY <2>6, <4>2 DEF Ambiguous, part
    <3>2. Matches(items[j], part) = Matches(Upto(j, n), part)
      <4>1. items[j] = (Upto(j, n - 1) \o p) \o r
        BY <2>2, <2>3
      <4>2. Len(Matches((Upto(j, n - 1) \o p) \o r, part)) <= 1
        BY <3>1, <4>1
      <4>3. Matches((Upto(j, n - 1) \o p) \o r, part) = Matches(Upto(j, n - 1) \o p, part)
        BY <2>3, <2>6, <4>2, OneMatch
      <4> QED BY <2>3, <4>1, <4>3
    <3> QED BY <1>1, <2>4, <2>6, <3>2 DEF Right, ValueOf, line
  <2>7. CASE ToSet(r) = ToSet(p) /\ script # "lines"
    <3>1. script = "offers" /\ j \in rewritten
      BY <1>5, <2>7 DEF Repeats
    <3>2. ToSet(items[j]) = ToSet(Upto(j, n)) \cup ToSet(r)
      <4>1. Upto(j, n) \in Seq(AllItems) /\ items[j] = Upto(j, n) \o r
        BY <2>2, <2>3
      <4>2. ToSet(Upto(j, n) \o r) = ToSet(Upto(j, n)) \cup ToSet(r)
        BY <4>1, Concat
      <4> QED BY <4>1, <4>2
    <3>3. ToSet(Upto(j, n)) = ToSet(Upto(j, n - 1)) \cup ToSet(p)
      BY <2>3, Concat
    <3>4. ToSet(items[j]) = ToSet(Whole(j))
      BY <2>4, <2>7, <3>2, <3>3
    <3> QED BY <1>1, <3>1, <3>4 DEF Right, ValueOf, line
  <2> QED BY <2>2, <2>5, <2>6, <2>7
<1> QED BY <1>3, <1>4, <1>5

\* Of a file to which something is appended nothing can be read that could not
\* be read before, but for the new line.
LEMMA AppendedReads ==
  ASSUME NEW file \in Seq(Line), NEW line \in Line, NEW x \in ToSet(Appended(file, line)), Readable(x)
  PROVE  x \in ToSet(file) \/ x = line
<1> DEFINE a == Appended(file, line)
<1>1. a \in Seq(Line)
  BY AppendedIs
<1>2. PICK k \in 1 .. Len(a) : x = a[k]
  BY <1>1 DEF ToSet
<1>3. DOMAIN file = 1 .. Len(file) /\ Len(file) \in Nat
  OBVIOUS
<1>4. CASE Open(file)
  <2>1. /\ Len(a) = Len(file) /\ \A i \in 1 .. Len(file) : i # Len(file) => a[i] = file[i]
        /\ a[Len(file)].end = IF line.end = "whole" THEN "spoiled" ELSE "cut"
    BY <1>4, AppendedIs
  <2>2. k # Len(file)
    BY <1>2, <2>1 DEF Readable
  <2>3. x = file[k] /\ k \in DOMAIN file
    BY <1>2, <1>3, <2>1, <2>2
  <2> QED BY <2>3 DEF ToSet
<1>5. CASE ~Open(file)
  <2>1. a = Append(file, line)
    BY <1>5, AppendedIs
  <2>2. Len(a) = Len(file) + 1 /\ a[Len(file) + 1] = line /\ \A i \in 1 .. Len(file) : a[i] = file[i]
    BY <2>1
  <2>3. k \in DOMAIN file \/ k = Len(file) + 1
    BY <1>2, <1>3, <2>2
  <2> QED BY <1>2, <1>3, <2>2, <2>3 DEF ToSet
<1> QED BY <1>4, <1>5

\* A job in "storing" appends a line that is right.
LEMMA AppendRight ==
  ASSUME PagedInv, GatherInv, LinesRight, script' = script, stopAt' = stopAt,
         rewritten \subseteq rewritten', NEW j \in Jobs, phase[j] = "storing", ~Ambiguous(j),
         NEW end \in Ends, AppendTo(j, end)
  PROVE  LinesRight'
<1> DEFINE line == LineOf(j, end)
           file == FileOf(Head(left[j]))
<1>1. /\ file \in Files /\ line \in Line /\ ok \in [Files -> Seq(Line)]
      /\ ok' = [ok EXCEPT ![file] = Appended(ok[file], line)]
  BY AppendToIs DEF PagedInv, StateTypes
<1>2. Right(line)
  BY LineRight
<1> HIDE DEF line, file
<1>3. ASSUME NEW x, Right(x), x.job \in Jobs PROVE Right(x)'
  BY <1>3, SameAnswers DEF Right
<1>4. ASSUME NEW f \in Files, NEW x \in ToSet(ok'[f]), Readable(x) PROVE Right(x)'
  <2>1. x \in ToSet(ok[f]) \/ x = line
    BY <1>1, <1>4, AppendedReads
  <2>2. x \in Line
    <3>1. \A y \in ToSet(ok[f]) : y \in Line
      BY <1>1 DEF ToSet
    <3> QED BY <1>1, <2>1, <3>1
  <2>3. Right(x) /\ x.job \in Jobs
    BY <1>2, <1>4, <2>1, <2>2 DEF LinesRight, Line
  <2> QED BY <1>3, <2>3
<1> QED BY <1>4 DEF LinesRight, Readable

LEMMA LinesKeep ==
  ASSUME PagedInv, LinesRight, script' = script, stopAt' = stopAt, rewritten \subseteq rewritten',
         ok' = ok
  PROVE  LinesRight'
<1>1. ASSUME NEW f \in Files, NEW x \in ToSet(ok[f]), Readable(x) PROVE Right(x)'
  <2>1. x \in Line
    BY DEF PagedInv, StateTypes, ToSet
  <2>2. Right(x) /\ x.job \in Jobs
    BY <1>1, <2>1 DEF LinesRight, Line
  <2> QED BY <2>2, SameAnswers DEF Right
<1> QED BY <1>1 DEF LinesRight, Readable

LEMMA FaithInit == Init => FaithInv
<1> SUFFICES ASSUME Init PROVE FaithInv
  OBVIOUS
<1>1. GatherInv
  BY DEF Init, GatherInv, Gathering
<1>2. LinesRight
  <2>1. ToSet(<<>>) = {}
    BY DEF ToSet
  <2> QED BY <2>1 DEF Init, LinesRight
<1>3. TicksRight
  BY DEF Init, TicksRight, NoFile
<1> QED BY <1>1, <1>2, <1>3, PagedInit DEF FaithInv

LEMMA FaithLines == FaithInv /\ [Next]_vars => LinesRight'
<1> SUFFICES ASSUME FaithInv, [Next]_vars PROVE LinesRight'
  OBVIOUS
<1>1. PagedInv /\ GatherInv /\ LinesRight
  BY DEF FaithInv
<1>2. CASE UNCHANGED vars
  BY <1>1, <1>2, LinesKeep DEF vars, files, history
<1>3. CASE Start
  <2>1. CASE script = "prebook"
    <3>1. ToSet(<<>>) = {}
      BY DEF ToSet
    <3> QED BY <1>3, <2>1, <3>1 DEF Start, LinesRight
  <2>2. CASE script # "prebook"
    BY <1>1, <1>3, <2>2, LinesKeep DEF Start, history
  <2> QED BY <2>1, <2>2
<1>4. CASE Main
  BY <1>1, <1>4, LinesKeep DEF Main, Collect, FinishRun, WriteTicks, files, history
<1>5. CASE Crash
  <2>1. script' = script /\ stopAt' = stopAt /\ rewritten' = rewritten
    BY <1>5 DEF Crash
  <2>2. \/ ok' = ok
        \/ \E j \in In({"storing"}), end \in {"unended", "cut"} : ~Ambiguous(j) /\ AppendTo(j, end)
    BY <1>5 DEF Crash
  <2> QED BY <1>1, <2>1, <2>2, LinesKeep, AppendRight DEF In, Ends
<1>6. ASSUME NEW j \in Jobs, Store(j) PROVE LinesRight'
  BY <1>1, <1>6, AppendRight DEF Store, history, Ends
<1>7. ASSUME NEW j \in Jobs, StoreFails(j) PROVE LinesRight'
  <2>1. script' = script /\ stopAt' = stopAt /\ rewritten \subseteq rewritten' /\ phase[j] = "storing"
    BY <1>7 DEF StoreFails
  <2>2. ok' = ok \/ (~Ambiguous(j) /\ \E end \in {"unended", "cut"} : AppendTo(j, end))
    BY <1>7 DEF StoreFails
  <2> QED BY <1>1, <2>1, <2>2, LinesKeep, AppendRight DEF Ends
<1>8. ASSUME NEW j \in Jobs, Take(j) \/ CallFails(j) \/ CallReturns(j) \/ Report(j) PROVE LinesRight'
  BY <1>1, <1>8, LinesKeep DEF Take, CallFails, CallReturns, Report, files, history
<1> QED BY <1>2, <1>3, <1>4, <1>5, <1>6, <1>7, <1>8 DEF Next, Fetch

LEMMA FaithTicks == FaithInv /\ [Next]_vars => TicksRight'
<1> SUFFICES ASSUME FaithInv, [Next]_vars PROVE TicksRight'
  OBVIOUS
<1>1. PagedInv /\ TicksRight
  BY DEF FaithInv
<1>2. ticks' = ticks => TicksRight'
  BY <1>1 DEF TicksRight
<1>3. CASE WriteTicks
  <2>1. answered = Jobs
    BY <1>1, <1>3 DEF WriteTicks, PagedInv, PoolInv
  <2>2. \A l \in TickLedgers :
          /\ TickFile(l) \in [state : {"none", "whole", "cut"}, jobs : SUBSET Jobs]
          /\ \A j \in Jobs : LedgerOf[j] = l => j \in TickFile(l).jobs
    BY <2>1 DEF TickFile
  <2>3. \/ ticks' = ticks
        \/ ticks' = [l \in TickLedgers |-> IF l \in FirstOf(Unwritten, 1) THEN TickFile(l) ELSE ticks[l]]
    BY <1>3 DEF WriteTicks
  <2> HIDE DEF TickFile, TickLedgers
  <2> QED BY <1>1, <1>2, <2>2, <2>3 DEF TicksRight
<1>4. CASE Crash
  <2>1. \/ ticks' = ticks
        \/ \E l \in FirstOf(Unwritten, 1) : ticks' = [ticks EXCEPT ![l].state = "cut"]
    BY <1>4 DEF Crash
  <2>2. \A l \in FirstOf(Unwritten, 1) : l \in TickLedgers
    BY DEF FirstOf, Unwritten
  <2> QED BY <1>1, <1>2, <2>1, <2>2 DEF TicksRight
<1>5. CASE UNCHANGED vars \/ Start \/ Collect \/ FinishRun
  BY <1>2, <1>5 DEF vars, files, Start, Collect, FinishRun
<1>6. ASSUME NEW j \in Jobs, Take(j) \/ Fetch(j) PROVE TicksRight'
  BY <1>2, <1>6 DEF files, Take, Fetch, CallFails, CallReturns, Store, StoreFails, Report
<1> QED BY <1>3, <1>4, <1>5, <1>6 DEF Next, Main

LEMMA FaithInvariant == Spec => []FaithInv
<1>1. FaithInv /\ [Next]_vars => FaithInv'
  BY PagedStep, GatherStep, FaithLines, FaithTicks DEF FaithInv
<1> QED BY <1>1, FaithInit, PTL DEF Spec

LEMMA FaithImplies == FaithInv => RecordsFaithful
BY DEF FaithInv, LinesRight, Right, TicksRight, RecordsFaithful

\* Every line that can be read says what the server had, whatever failed and in
\* whichever run it was written, but for offers that an account whose write
\* failed has listed twice; a tick-size file has all issuers of its ledger.
THEOREM ReadableIsRight == Spec => []RecordsFaithful
BY FaithInvariant, FaithImplies, PTL

LEMMA FaithKeepsBest == FaithInv => KeepsBest
<1> SUFFICES ASSUME FaithInv, NEW f \in Files, NEW line \in ToSet(ok[f]), script = "prebook", Readable(line)
             PROVE  /\ \A k, l \in DOMAIN line.value : k < l => ~Before(line.value[l], line.value[k])
                    /\ \A x \in ToSet(OnSide(Whole(line.job), line.part)) :
                         \/ x \in ToSet(line.value)
                         \/ Len(line.value) = Limit /\ \A y \in ToSet(line.value) : ~Before(x, y)
  BY DEF KeepsBest
<1>1. line \in Line /\ script \in Scripts
  BY DEF FaithInv, PagedInv, StateTypes, TypeOK, ToSet
<1>2. line.job \in Jobs /\ Right(line)
  BY <1>1 DEF FaithInv, LinesRight, Line
<1>3. line.value = Side(Whole(line.job), line.part)
  BY <1>2 DEF Right, ValueOf
<1>4. Whole(line.job) \in Seq(AllItems) /\ Rated(AllItems)
  BY <1>1, <1>2, WholeType, PrebookRated
<1> DEFINE w == Whole(line.job)
           side == line.part
<1> HIDE DEF w, side
<1>5. w \in Seq(AllItems) /\ line.value = Side(w, side)
  BY <1>3, <1>4 DEF w, side
<1>6. /\ \A k, l \in DOMAIN Side(w, side) : k < l => ~Before(Side(w, side)[l], Side(w, side)[k])
      /\ \A x \in ToSet(OnSide(w, side)) :
           \/ x \in ToSet(Side(w, side))
           \/ /\ Len(Side(w, side)) = Limit
              /\ \A y \in ToSet(Side(w, side)) : ~Before(x, y)
  BY <1>4, <1>5, SideIs
<1> QED BY <1>5, <1>6 DEF w, side

\* A side of the prebook is in crossing order whatever the order of the pages
\* was, and what its limit leaves out is no better than what it keeps.
THEOREM BestAreKept == Spec => []KeepsBest
BY FaithInvariant, FaithKeepsBest, PTL

-----------------------------------------------------------------------------
(* What is lost *)

\* A file's lines that cannot be read, and the one that the next write will
\* spoil.
Damage(file) ==
  Cardinality(Lost(file)) + IF Open(file) /\ Readable(Last(file)) THEN 1 ELSE 0

LEMMA LostIs ==
  ASSUME NEW file \in Seq(Line)
  PROVE  /\ Lost(file) \subseteq 1 .. Len(file) /\ IsFiniteSet(Lost(file))
         /\ Cardinality(Lost(file)) \in Nat /\ Damage(file) \in Nat
<1>1. DOMAIN file = 1 .. Len(file) /\ Len(file) \in Nat
  OBVIOUS
<1>2. IsFiniteSet(1 .. Len(file)) /\ Lost(file) \in SUBSET (1 .. Len(file))
  BY <1>1, FS_Interval DEF Lost
<1>3. IsFiniteSet(Lost(file)) /\ Cardinality(Lost(file)) \in Nat
  BY <1>2, FS_Subset, FS_CardinalityType
<1> QED BY <1>2, <1>3 DEF Damage

\* What a write leaves behind it, of a file that is open and of one that is not.
LEMMA AppendedEnds ==
  ASSUME NEW file \in Seq(Line), NEW line \in Line, line.end \in {"whole", "unended", "cut"}
  PROVE  LET a == Appended(file, line)
         IN  /\ Open(a) <=> line.end # "whole"
             /\ Open(file) =>
                  /\ Len(file) > 0 /\ Last(file).end \in {"unended", "cut"}
                  /\ Lost(a) = Lost(file) \cup {Len(file)}
                  /\ (Open(a) => ~Readable(Last(a)))
                  /\ (Readable(Last(file)) <=> Len(file) \notin Lost(file))
             /\ ~Open(file) =>
                  /\ Lost(a) = IF Readable(line) THEN Lost(file) ELSE Lost(file) \cup {Len(file) + 1}
                  /\ Last(a) = line
<1> DEFINE a == Appended(file, line)
<1>1. a \in Seq(Line) /\ Len(file) \in Nat /\ DOMAIN file = 1 .. Len(file) /\ DOMAIN a = 1 .. Len(a)
      /\ Len(a) \in Nat
  <2>1. a \in Seq(Line)
    BY AppendedIs
  <2> HIDE DEF a
  <2> QED BY <2>1
<1>2. CASE Open(file)
  <2>1. /\ Len(file) > 0 /\ file[Len(file)].end \in {"unended", "cut"}
        /\ Len(a) = Len(file)
        /\ \A k \in 1 .. Len(file) : k # Len(file) => a[k] = file[k]
        /\ a[Len(file)].end = IF line.end = "whole" THEN "spoiled" ELSE "cut"
    BY <1>2, AppendedIs
  <2> HIDE DEF a
  <2>2. Last(file) = file[Len(file)] /\ Last(a) = a[Len(file)] /\ a # <<>>
    <3>1. ASSUME a = <<>> PROVE Len(a) = 0
      BY <3>1
    <3>2. Len(a) = Len(file) /\ Len(file) > 0 /\ Len(file) \in Nat
      BY <1>1, <2>1
    <3>3. Len(a) # 0
      BY <3>2
    <3>4. a # <<>>
      BY <3>1, <3>3
    <3> QED BY <2>1, <3>4 DEF Last
  <2>3. Open(a) <=> line.end # "whole"
    BY <2>1, <2>2 DEF Open
  <2>4. ~Readable(a[Len(file)])
    BY <2>1 DEF Readable
  <2> DEFINE n == Len(file)
  <2>5. n \in DOMAIN file /\ DOMAIN a = DOMAIN file /\ \A k \in DOMAIN file : k # n => a[k] = file[k]
    <3>1. Len(file) \in 1 .. Len(file) /\ DOMAIN file = 1 .. Len(file) /\ DOMAIN a = 1 .. Len(file)
      <4>1. Len(a) = Len(file) /\ Len(file) > 0
        BY <2>1
      <4>2. Len(file) \in Nat /\ DOMAIN file = 1 .. Len(file) /\ DOMAIN a = 1 .. Len(a)
        BY <1>1
      <4>3. Len(file) \in 1 .. Len(file)
        BY <4>1, <4>2
      <4> QED BY <4>1, <4>2, <4>3
    <3> QED BY <2>1, <3>1
  <2> HIDE DEF n
  <2>6. Lost(a) = Lost(file) \cup {n} /\ (Readable(file[n]) <=> n \notin Lost(file))
    <3>1. \A k : k \in Lost(a) <=> k \in DOMAIN a /\ ~Readable(a[k])
      BY DEF Lost
    <3>2. \A k : k \in Lost(file) <=> k \in DOMAIN file /\ ~Readable(file[k])
      BY DEF Lost
    <3>3. ~Readable(a[n])
      BY <2>4 DEF n
    <3>4. \A k : k \in Lost(a) <=> k \in Lost(file) \/ k = n
      BY <2>5, <3>1, <3>2, <3>3
    <3> QED BY <2>5, <3>2, <3>4
  <2>7. Lost(a) = Lost(file) \cup {Len(file)} /\ (Readable(Last(file)) <=> Len(file) \notin Lost(file))
    BY <2>2, <2>6 DEF n
  <2>8. Last(file).end \in {"unended", "cut"} /\ ~Readable(Last(a))
    BY <2>1, <2>2, <2>4
  <2> QED BY <1>2, <2>1, <2>3, <2>7, <2>8 DEF a
<1>3. CASE ~Open(file)
  <2>1. a = Append(file, line)
    BY <1>3, AppendedIs
  <2>2. Len(a) = Len(file) + 1 /\ a[Len(file) + 1] = line /\ \A i \in 1 .. Len(file) : a[i] = file[i]
    BY <2>1
  <2> HIDE DEF a
  <2>3. Last(a) = line /\ a # <<>>
    BY <1>1, <2>2 DEF Last
  <2>4. Open(a) <=> line.end # "whole"
    BY <2>3 DEF Open
  <2>5. Lost(a) = IF Readable(line) THEN Lost(file) ELSE Lost(file) \cup {Len(file) + 1}
    <3>1. DOMAIN a = DOMAIN file \cup {Len(file) + 1}
      BY <1>1, <2>2
    <3>2. \A k \in DOMAIN file : a[k] = file[k]
      BY <1>1, <2>2
    <3> QED BY <2>2, <3>1, <3>2 DEF Lost
  <2> QED BY <1>3, <2>3, <2>4, <2>5 DEF a
<1> QED BY <1>2, <1>3

\* A whole line does no damage that was not there, and one that is cut does
\* once.
LEMMA DamageIs ==
  ASSUME NEW file \in Seq(Line), NEW line \in Line, line.end \in {"whole", "unended", "cut"}
  PROVE  Damage(Appended(file, line)) <= Damage(file) + IF line.end = "whole" THEN 0 ELSE 1
<1> DEFINE a == Appended(file, line)
           l == Cardinality(Lost(file))
<1>1. /\ Open(a) <=> line.end # "whole"
      /\ Open(file) =>
           /\ Len(file) > 0 /\ Last(file).end \in {"unended", "cut"}
           /\ Lost(a) = Lost(file) \cup {Len(file)}
           /\ (Open(a) => ~Readable(Last(a)))
           /\ (Readable(Last(file)) <=> Len(file) \notin Lost(file))
      /\ ~Open(file) =>
           /\ Lost(a) = IF Readable(line) THEN Lost(file) ELSE Lost(file) \cup {Len(file) + 1}
           /\ Last(a) = line
  BY AppendedEnds
<1>2. IsFiniteSet(Lost(file)) /\ l \in Nat /\ Lost(file) \subseteq 1 .. Len(file) /\ Len(file) \in Nat
  BY LostIs
<1>3. Damage(file) = l + (IF Open(file) /\ Readable(Last(file)) THEN 1 ELSE 0)
  BY DEF Damage
<1>4. Damage(a) = Cardinality(Lost(a)) + (IF Open(a) /\ Readable(Last(a)) THEN 1 ELSE 0)
  BY DEF Damage
<1>5. \A k : Cardinality(Lost(file) \cup {k}) = IF k \in Lost(file) THEN l ELSE l + 1
  BY <1>2, FS_AddElement
<1> HIDE DEF a, l
<1>6. CASE Open(file)
  BY <1>1, <1>2, <1>3, <1>4, <1>5, <1>6 DEF a
<1>7. CASE ~Open(file)
  <2>1. Readable(line) <=> line.end # "cut"
    BY DEF Readable
  <2>2. Len(file) + 1 \notin Lost(file)
    BY <1>2
  <2>3. Cardinality(Lost(a)) = IF Readable(line) THEN l ELSE l + 1
    BY <1>1, <1>5, <1>7, <2>2 DEF l
  <2>4. Damage(a) = (IF Readable(line) THEN l ELSE l + 1) + (IF Open(a) /\ Readable(line) THEN 1 ELSE 0)
    BY <1>1, <1>4, <1>7, <2>3
  <2>5. Damage(file) = l
    BY <1>2, <1>3, <1>7
  <2> QED BY <1>1, <1>2, <2>1, <2>4, <2>5 DEF a
<1> QED BY <1>6, <1>7

DamageInv == Damage(ok["ok"]) + Damage(ok["second"]) <= breaks

LEMMA DamageAppend ==
  ASSUME PagedInv, DamageInv, NEW j \in Jobs, phase[j] = "storing",
         NEW end \in {"whole", "unended", "cut"}, AppendTo(j, end),
         breaks' = breaks + IF end = "whole" THEN 0 ELSE 1
  PROVE  DamageInv'
<1> DEFINE f == FileOf(Head(left[j]))
           line == LineOf(j, end)
<1>2. f \in Files /\ line \in Line /\ line.end = end /\ ok' = [ok EXCEPT ![f] = Appended(ok[f], line)]
      /\ ok \in [Files -> Seq(Line)]
  BY AppendToIs DEF Ends, PagedInv, StateTypes
<1> HIDE DEF f, line
<1>3. ok["ok"] \in Seq(Line) /\ ok["second"] \in Seq(Line) /\ ok[f] \in Seq(Line)
  BY <1>2 DEF Files
<1>4. Damage(ok["ok"]) \in Nat /\ Damage(ok["second"]) \in Nat
  BY <1>3, LostIs
<1>5. Damage(Appended(ok[f], line)) \in Nat
      /\ Damage(Appended(ok[f], line)) <= Damage(ok[f]) + IF end = "whole" THEN 0 ELSE 1
  <2>1. Appended(ok[f], line) \in Seq(Line)
    BY <1>2, <1>3, AppendedIs
  <2> QED BY <1>2, <1>3, <2>1, DamageIs, LostIs
<1>6. \A g \in Files : ok'[g] = IF g = f THEN Appended(ok[f], line) ELSE ok[g]
  BY <1>2
<1> DEFINE new == Appended(ok[f], line)
<1> HIDE DEF new
<1>7. breaks \in Nat
  BY DEF PagedInv, TypeOK
<1>8. CASE f = "ok"
  <2>1. ok'["ok"] = new /\ ok'["second"] = ok["second"]
    BY <1>6, <1>8 DEF Files, new
  <2> QED BY <1>4, <1>5, <1>7, <1>8, <2>1 DEF DamageInv, new
<1>9. CASE f = "second"
  <2>1. ok'["second"] = new /\ ok'["ok"] = ok["ok"]
    BY <1>6, <1>9 DEF Files, new
  <2> QED BY <1>4, <1>5, <1>7, <1>9, <2>1 DEF DamageInv, new
<1> QED BY <1>2, <1>8, <1>9 DEF Files

LEMMA DamageStart == Damage(<<>>) = 0
<1>1. Lost(<<>>) = {} /\ ~Open(<<>>)
  BY DEF Lost, Open
<1> QED BY <1>1, FS_EmptySet DEF Damage

LEMMA DamageStep == PagedInv /\ DamageInv /\ [Next]_vars => DamageInv'
<1> SUFFICES ASSUME PagedInv, DamageInv, [Next]_vars PROVE DamageInv'
  OBVIOUS
<1>1. breaks \in Nat /\ Damage(ok["ok"]) \in Nat /\ Damage(ok["second"]) \in Nat
  BY LostIs DEF PagedInv, TypeOK, StateTypes, Files
<1>2. ASSUME ok' = ok, breaks' = breaks \/ breaks' = breaks + 1 PROVE DamageInv'
  BY <1>1, <1>2 DEF DamageInv
<1>3. CASE UNCHANGED vars
  BY <1>2, <1>3 DEF vars, files, history
<1>4. CASE Start
  <2>1. CASE script = "prebook"
    BY <1>1, <1>4, <2>1, DamageStart DEF Start, DamageInv, Files, history
  <2>2. CASE script # "prebook"
    BY <1>2, <1>4, <2>2 DEF Start, history
  <2> QED BY <2>1, <2>2
<1>5. CASE Main
  BY <1>2, <1>5 DEF Main, Collect, FinishRun, WriteTicks, files, history
<1>6. CASE Crash
  <2>1. \/ ok' = ok /\ (breaks' = breaks \/ breaks' = breaks + 1)
        \/ /\ \E j \in In({"storing"}), end \in {"unended", "cut"} : AppendTo(j, end)
           /\ breaks' = breaks + 1
    BY <1>6 DEF Crash
  <2> QED BY <1>2, <2>1, DamageAppend DEF In
<1>7. ASSUME NEW j \in Jobs, Store(j) PROVE DamageInv'
  <2>1. AppendTo(j, "whole") /\ phase[j] = "storing" /\ breaks' = breaks + 0
    BY <1>1, <1>7 DEF Store, history
  <2> QED BY <2>1, DamageAppend
<1>8. ASSUME NEW j \in Jobs, StoreFails(j) PROVE DamageInv'
  <2>1. \/ ok' = ok /\ (breaks' = breaks \/ breaks' = breaks + 1)
        \/ /\ \E end \in {"unended", "cut"} : AppendTo(j, end)
           /\ breaks' = breaks + 1 /\ phase[j] = "storing"
    BY <1>8 DEF StoreFails
  <2> QED BY <1>2, <2>1, DamageAppend
<1>9. ASSUME NEW j \in Jobs, Take(j) \/ CallFails(j) \/ CallReturns(j) \/ Report(j) PROVE DamageInv'
  BY <1>2, <1>9 DEF Take, CallFails, CallReturns, Report, files, history
<1> QED BY <1>3, <1>4, <1>5, <1>6, <1>7, <1>8, <1>9 DEF Next, Fetch

\* A part that a job of this run has still to write.
Carried(j, part) == phase[j] \in Working /\ part \in ToSet(left[j])

Owed(j, part) ==
  part \in ToSet(Parts[script][j]) /\ ~Written(j, part) /\ <<j, part>> \notin failed

\* The missing parts that nobody is going to write in this run.
Adrift == {t \in Missing : ~Carried(t[1], t[2])}

OpenFiles == {f \in Files : Open(ok[f])}

\* Each cut write leaves a file open, and closing it costs at most two parts:
\* the one on its last line and the one that is appended to that line.
LossInv ==
  script # "ticks" =>
    /\ Cardinality(OpenFiles) <= breaks
    /\ pc \in {"fetching", "done"} =>
         IsFiniteSet(Adrift) /\ Cardinality(Adrift) + 2 * Cardinality(OpenFiles) <= 2 * breaks

LEMMA MissingIs ==
  \A t : t \in Missing <=> \E j \in Jobs : \E part : t = <<j, part>> /\ Owed(j, part)
<1> SUFFICES ASSUME NEW t
             PROVE  t \in Missing <=> \E j \in Jobs : \E part : t = <<j, part>> /\ Owed(j, part)
  OBVIOUS
<1>1. ASSUME t \in Missing PROVE \E j \in Jobs : \E part : t = <<j, part>> /\ Owed(j, part)
  <2>1. PICK i \in Jobs : t \in Jobs \X ToSet(Parts[script][i])
    BY <1>1 DEF Missing
  <2>2. PICK j \in Jobs, part \in ToSet(Parts[script][i]) : t = <<j, part>>
    BY <2>1
  <2>3. part \in ToSet(Parts[script][j]) /\ ~Written(j, part) /\ t \notin failed
    BY <1>1, <2>2 DEF Missing
  <2> QED BY <2>2, <2>3 DEF Owed
<1>2. ASSUME NEW j \in Jobs, NEW part \in ToSet(Parts[script][j]), t = <<j, part>>, Owed(j, part)
      PROVE  t \in Missing
  <2>1. t \in UNION {Jobs \X ToSet(Parts[script][i]) : i \in Jobs} /\ t[1] = j /\ t[2] = part
    BY <1>2
  <2>2. Parts[script][t[1]] = Parts[script][j] /\ (Written(t[1], t[2]) <=> Written(j, part))
    BY <2>1
  <2>3. t[2] \in ToSet(Parts[script][t[1]]) /\ ~Written(t[1], t[2]) /\ t \notin failed
    BY <1>2, <2>1, <2>2 DEF Owed
  <2> QED BY <2>1, <2>3 DEF Missing
<1> QED BY <1>1, <1>2 DEF Owed

LEMMA AdriftIs ==
  \A t : t \in Adrift <=>
    \E j \in Jobs : \E part :
      t = <<j, part>> /\ Owed(j, part) /\ ~Carried(j, part)
BY MissingIs DEF Adrift

LEMMA AdriftIsNext ==
  (\A t : t \in Adrift <=>
     \E j \in Jobs : \E part :
       t = <<j, part>> /\ Owed(j, part) /\ ~Carried(j, part))'
BY AdriftIs, PTL

\* What a step sets adrift: what it unwrites, and what it drops unwritten.
LEMMA AdriftStep ==
  ASSUME NEW U, script' = script, failed \subseteq failed',
         \A j \in Jobs : \A part \in ToSet(Parts[script][j]) :
           /\ Written(j, part) => Written(j, part)' \/ <<j, part>> \in U
           /\ Carried(j, part) =>
                Carried(j, part)' \/ Written(j, part)' \/ <<j, part>> \in failed' \/ <<j, part>> \in U
  PROVE  Adrift' \subseteq Adrift \cup U
<1> SUFFICES ASSUME NEW t \in Adrift' PROVE t \in Adrift \cup U
  OBVIOUS
<1>1. PICK j \in Jobs : \E part : t = <<j, part>> /\ Owed(j, part)' /\ ~Carried(j, part)'
  BY AdriftIsNext
<1>2. PICK part : t = <<j, part>> /\ Owed(j, part)' /\ ~Carried(j, part)'
  BY <1>1
<1>3. part \in ToSet(Parts[script][j]) /\ ~Written(j, part)' /\ t \notin failed'
  BY <1>2 DEF Owed
<1>4. t \in U \/ ~Written(j, part)
  BY <1>2, <1>3
<1>5. t \in U \/ ~Carried(j, part)
  BY <1>2, <1>3
<1>6. t \in U \/ (Owed(j, part) /\ ~Carried(j, part))
  BY <1>2, <1>3, <1>4, <1>5 DEF Owed
<1> QED BY <1>2, <1>6, AdriftIs

LEMMA OpenFilesIs ==
  IsFiniteSet(OpenFiles) /\ Cardinality(OpenFiles) \in Nat
<1>1. IsFiniteSet(Files)
  <2>1. IsFiniteSet({"ok"}) /\ Files = {"ok"} \cup {"second"}
    BY FS_Singleton DEF Files
  <2> QED BY <2>1, FS_AddElement
<1> QED BY <1>1, FS_Subset, FS_CardinalityType DEF OpenFiles

Reads(file, j, part) ==
  \E k \in DOMAIN file : Readable(file[k]) /\ file[k].job = j /\ file[k].part = part

LEMMA WrittenIs == \A j, part : Written(j, part) <=> Reads(ok[FileOf(part)], j, part)
BY DEF Written, Reads

\* What is read of a file is read of it after the next write, but for its last
\* line when that lacks its end.
LEMMA AppendedKeeps ==
  ASSUME NEW file \in Seq(Line), NEW line \in Line
  PROVE  /\ ~Open(file) => /\ \A j, part : Reads(file, j, part) => Reads(Appended(file, line), j, part)
                           /\ Readable(line) => Reads(Appended(file, line), line.job, line.part)
         /\ \A j, part : Reads(file, j, part) =>
              Reads(Appended(file, line), j, part) \/ <<j, part>> = <<Last(file).job, Last(file).part>>
<1> DEFINE a == Appended(file, line)
<1>1. Len(file) \in Nat /\ DOMAIN file = 1 .. Len(file)
  OBVIOUS
<1>2. CASE ~Open(file)
  <2>1. a = Append(file, line)
    BY <1>2, AppendedIs
  <2>2. /\ Len(a) = Len(file) + 1 /\ DOMAIN a = 1 .. Len(file) + 1
        /\ a[Len(file) + 1] = line /\ \A i \in 1 .. Len(file) : a[i] = file[i]
    BY <2>1
  <2> HIDE DEF a
  <2>3. \A k \in DOMAIN file : k \in DOMAIN a /\ a[k] = file[k]
    BY <1>1, <2>2
  <2>4. \A j, part : Reads(file, j, part) => Reads(a, j, part)
    BY <2>3 DEF Reads
  <2>5. Len(file) + 1 \in DOMAIN a
    BY <1>1, <2>2
  <2>6. Readable(line) => Reads(a, line.job, line.part)
    BY <2>2, <2>5 DEF Reads
  <2> QED BY <2>4, <2>6 DEF a
<1>3. CASE Open(file)
  <2>1. /\ a \in Seq(Line) /\ Len(a) = Len(file) /\ \A k \in 1 .. Len(file) : k # Len(file) => a[k] = file[k]
    BY <1>3, AppendedIs
  <2> HIDE DEF a
  <2>2. DOMAIN a = 1 .. Len(file)
    BY <2>1
  <2>3. ASSUME NEW j, NEW part, Reads(file, j, part)
        PROVE  Reads(a, j, part) \/ <<j, part>> = <<Last(file).job, Last(file).part>>
    <3>1. PICK k \in DOMAIN file : Readable(file[k]) /\ file[k].job = j /\ file[k].part = part
      BY <2>3 DEF Reads
    <3>2. CASE k = Len(file)
      BY <3>1, <3>2 DEF Last
    <3>3. CASE k # Len(file)
      <4>1. k \in DOMAIN a /\ a[k] = file[k]
        BY <1>1, <2>1, <2>2, <3>3
      <4> QED BY <3>1, <4>1 DEF Reads
    <3> QED BY <3>2, <3>3
  <2> QED BY <1>3, <2>3 DEF a
<1> QED BY <1>2, <1>3

\* The file that a job in "storing" appends to, and what becomes unreadable.
LEMMA AppendSpoils ==
  ASSUME PagedInv, NEW j \in Jobs, phase[j] = "storing", NEW end \in {"whole", "unended", "cut"},
         AppendTo(j, end), NEW part, part = Head(left[j])
  PROVE  LET f == FileOf(part)
         IN  /\ f \in Files
             /\ OpenFiles' = IF end = "whole" THEN OpenFiles \ {f} ELSE OpenFiles \cup {f}
             /\ \E u : \A i, p : Written(i, p) => Written(i, p)' \/ (f \in OpenFiles /\ <<i, p>> = u)
             /\ end = "whole" /\ f \notin OpenFiles => Written(j, part)'
<1> DEFINE f == FileOf(part)
           line == LineOf(j, end)
           new == Appended(ok[f], line)
<1>1. /\ f \in Files /\ line \in Line /\ line.end = end /\ line.job = j /\ line.part = part
      /\ ok' = [ok EXCEPT ![f] = new] /\ ok \in [Files -> Seq(Line)]
  BY AppendToIs DEF Ends, PagedInv, StateTypes
<1>2. ok[f] \in Seq(Line)
  BY <1>1
<1>3. \A g \in Files : ok'[g] = IF g = f THEN new ELSE ok[g]
  BY <1>1
<1>4. Open(new) <=> end # "whole"
  <2> HIDE DEF line
  <2> QED BY <1>1, <1>2, AppendedEnds
<1>5. /\ ~Open(ok[f]) => /\ \A i, p : Reads(ok[f], i, p) => Reads(new, i, p)
                         /\ Readable(line) => Reads(new, line.job, line.part)
      /\ \A i, p : Reads(ok[f], i, p) =>
           Reads(new, i, p) \/ <<i, p>> = <<Last(ok[f]).job, Last(ok[f]).part>>
  <2> HIDE DEF line
  <2> QED BY <1>1, <1>2, AppendedKeeps
<1> HIDE DEF new, line
<1>6. OpenFiles' = IF end = "whole" THEN OpenFiles \ {f} ELSE OpenFiles \cup {f}
  <2>1. \A g : g \in OpenFiles' <=> g \in Files /\ Open(ok'[g])
    BY DEF OpenFiles, Open
  <2>2. \A g : g \in OpenFiles <=> g \in Files /\ Open(ok[g])
    BY DEF OpenFiles
  <2> HIDE DEF f
  <2>3. \A g : g \in OpenFiles' <=>
          g \in IF end = "whole" THEN OpenFiles \ {f} ELSE OpenFiles \cup {f}
    BY <1>1, <1>3, <1>4, <2>1, <2>2
  <2> QED BY <2>3
<1>7. \A i, p : Written(i, p)' <=> Reads(ok'[FileOf(p)], i, p)
  BY DEF Written, Reads, Readable
<1>8. \A p : FileOf(p) \in Files
  BY DEF FileOf, Files
<1>9. f \in OpenFiles <=> Open(ok[f])
  BY <1>1 DEF OpenFiles
<1>10. \E u : \A i, p : Written(i, p) => Written(i, p)' \/ (f \in OpenFiles /\ <<i, p>> = u)
  <2> WITNESS <<Last(ok[f]).job, Last(ok[f]).part>>
  <2> TAKE i, p
  <2> HIDE DEF f
  <2>1. CASE FileOf(p) = f
    <3>1. Reads(ok[f], i, p) => Reads(new, i, p) \/ (f \in OpenFiles /\ <<i, p>> = <<Last(ok[f]).job, Last(ok[f]).part>>)
      BY <1>5, <1>9
    <3>2. Written(i, p) <=> Reads(ok[f], i, p)
      BY <2>1, WrittenIs
    <3>3. Written(i, p)' <=> Reads(new, i, p)
      BY <1>1, <1>3, <1>7, <2>1
    <3> QED BY <3>1, <3>2, <3>3
  <2>2. CASE FileOf(p) # f
    <3>1. Written(i, p)' <=> Reads(ok[FileOf(p)], i, p)
      BY <1>3, <1>7, <1>8, <2>2
    <3> QED BY <3>1, WrittenIs
  <2> QED BY <2>1, <2>2
<1>11. end = "whole" /\ f \notin OpenFiles => Written(j, part)'
  <2>1. Readable(line) <=> end # "cut"
    BY <1>1 DEF Readable
  <2>2. Written(j, part)' <=> Reads(new, j, part)
    BY <1>1, <1>3, <1>7
  <2> QED BY <1>1, <1>5, <1>9, <2>1, <2>2
<1> QED BY <1>1, <1>6, <1>10, <1>11

LEMMA AtMost ==
  ASSUME NEW S, IsFiniteSet(S), NEW T
  PROVE  /\ T \subseteq S => IsFiniteSet(T) /\ Cardinality(T) <= Cardinality(S)
         /\ \A u : T \subseteq S \cup {u} => IsFiniteSet(T) /\ Cardinality(T) <= Cardinality(S) + 1
         /\ \A u, v : T \subseteq S \cup {u, v} => IsFiniteSet(T) /\ Cardinality(T) <= Cardinality(S) + 2
         /\ Cardinality(S) \in Nat /\ (IsFiniteSet(T) => Cardinality(T) \in Nat)
<1>1. Cardinality(S) \in Nat /\ (IsFiniteSet(T) => Cardinality(T) \in Nat)
  BY FS_CardinalityType
<1>2. T \subseteq S => IsFiniteSet(T) /\ Cardinality(T) <= Cardinality(S)
  BY FS_Subset
<1>3. ASSUME NEW u, T \subseteq S \cup {u} PROVE IsFiniteSet(T) /\ Cardinality(T) <= Cardinality(S) + 1
  <2>1. IsFiniteSet(S \cup {u}) /\ Cardinality(S \cup {u}) <= Cardinality(S) + 1
    BY <1>1, FS_AddElement
  <2>2. IsFiniteSet(T) /\ Cardinality(T) <= Cardinality(S \cup {u})
    BY <1>3, <2>1, FS_Subset
  <2> QED BY <1>1, <2>1, <2>2, FS_CardinalityType
<1>4. ASSUME NEW u, NEW v, T \subseteq S \cup {u, v} PROVE IsFiniteSet(T) /\ Cardinality(T) <= Cardinality(S) + 2
  <2> DEFINE V == S \cup {u}
  <2>1. IsFiniteSet(V) /\ Cardinality(V) <= Cardinality(S) + 1
    BY <1>1, FS_AddElement
  <2>2. T \subseteq V \cup {v}
    BY <1>4
  <2> HIDE DEF V
  <2>3. IsFiniteSet(V \cup {v}) /\ Cardinality(V \cup {v}) <= Cardinality(V) + 1 /\ Cardinality(V) \in Nat
    BY <2>1, FS_AddElement, FS_CardinalityType
  <2>4. IsFiniteSet(T) /\ Cardinality(T) <= Cardinality(V \cup {v})
    BY <2>2, <2>3, FS_Subset
  <2> QED BY <1>1, <2>1, <2>3, <2>4, FS_CardinalityType
<1> QED BY <1>1, <1>2, <1>3, <1>4

LEMMA LossTypes ==
  ASSUME PagedInv, LossInv, script # "ticks"
  PROVE  /\ breaks \in Nat /\ Cardinality(OpenFiles) \in Nat /\ Cardinality(OpenFiles) <= breaks
         /\ pc \in {"fetching", "done"} =>
              /\ IsFiniteSet(Adrift) /\ Cardinality(Adrift) \in Nat
              /\ Cardinality(Adrift) + 2 * Cardinality(OpenFiles) <= 2 * breaks
BY OpenFilesIs, FS_CardinalityType DEF PagedInv, TypeOK, LossInv

\* A step that leaves the files alone and drops nothing unwritten.
LEMMA LossKeep ==
  ASSUME PagedInv, LossInv, script' = script, failed \subseteq failed', ok' = ok,
         breaks' = breaks \/ breaks' = breaks + 1,
         pc' \in {"fetching", "done"} => pc \in {"fetching", "done"},
         pc' \in {"fetching", "done"} => \A j \in Jobs : \A part \in ToSet(Parts[script][j]) :
           Carried(j, part) => Carried(j, part)' \/ <<j, part>> \in failed'
  PROVE  LossInv'
<1> SUFFICES ASSUME script # "ticks"
             PROVE  /\ Cardinality(OpenFiles)' <= breaks'
                    /\ pc' \in {"fetching", "done"} =>
                         IsFiniteSet(Adrift') /\ Cardinality(Adrift') + 2 * Cardinality(OpenFiles') <= 2 * breaks'
  BY DEF LossInv
<1>1. OpenFiles' = OpenFiles
  BY DEF OpenFiles, Open
<1>2. /\ breaks \in Nat /\ Cardinality(OpenFiles) \in Nat /\ Cardinality(OpenFiles) <= breaks
      /\ pc \in {"fetching", "done"} =>
           /\ IsFiniteSet(Adrift) /\ Cardinality(Adrift) \in Nat
           /\ Cardinality(Adrift) + 2 * Cardinality(OpenFiles) <= 2 * breaks
  BY LossTypes
<1>3. ASSUME pc' \in {"fetching", "done"} PROVE Adrift' \subseteq Adrift
  <2>1. \A j, part : Written(j, part) => Written(j, part)'
    BY DEF Written, Readable
  <2>2. Adrift' \subseteq Adrift \cup {}
    BY <1>3, <2>1, AdriftStep
  <2> QED BY <2>2
<1>4. ASSUME pc' \in {"fetching", "done"}
      PROVE  IsFiniteSet(Adrift') /\ Cardinality(Adrift') <= Cardinality(Adrift) /\ Cardinality(Adrift') \in Nat
  BY <1>2, <1>3, <1>4, AtMost
<1> QED BY <1>1, <1>2, <1>4

\* A step in which a job appends a line.
LEMMA LossAppend ==
  ASSUME PagedInv, LossInv, script' = script, failed \subseteq failed', NEW j \in Jobs, phase[j] = "storing",
         NEW end \in {"whole", "unended", "cut"}, AppendTo(j, end), NEW part, part = Head(left[j]),
         breaks' = breaks + IF end = "whole" THEN 0 ELSE 1,
         pc' \in {"fetching", "done"} => pc \in {"fetching", "done"},
         pc' \in {"fetching", "done"} => \A i \in Jobs : \A p \in ToSet(Parts[script][i]) :
           Carried(i, p) => Carried(i, p)' \/ (end = "whole" /\ i = j /\ p = part)
  PROVE  LossInv'
<1> SUFFICES ASSUME script # "ticks"
             PROVE  /\ Cardinality(OpenFiles)' <= breaks'
                    /\ pc' \in {"fetching", "done"} =>
                         IsFiniteSet(Adrift') /\ Cardinality(Adrift') + 2 * Cardinality(OpenFiles') <= 2 * breaks'
  BY DEF LossInv
<1> DEFINE f == FileOf(part)
<1>1. /\ f \in Files
      /\ OpenFiles' = IF end = "whole" THEN OpenFiles \ {f} ELSE OpenFiles \cup {f}
      /\ \E u : \A i, p : Written(i, p) => Written(i, p)' \/ (f \in OpenFiles /\ <<i, p>> = u)
      /\ end = "whole" /\ f \notin OpenFiles => Written(j, part)'
  BY AppendSpoils
<1> HIDE DEF f
<1>2. PICK u : \A i, p : Written(i, p) => Written(i, p)' \/ (f \in OpenFiles /\ <<i, p>> = u)
  BY <1>1
<1>3. /\ breaks \in Nat /\ Cardinality(OpenFiles) \in Nat /\ Cardinality(OpenFiles) <= breaks
      /\ pc \in {"fetching", "done"} =>
           /\ IsFiniteSet(Adrift) /\ Cardinality(Adrift) \in Nat
           /\ Cardinality(Adrift) + 2 * Cardinality(OpenFiles) <= 2 * breaks
  BY LossTypes
<1>4. Cardinality(OpenFiles') =
        IF end = "whole" THEN IF f \in OpenFiles THEN Cardinality(OpenFiles) - 1 ELSE Cardinality(OpenFiles)
        ELSE IF f \in OpenFiles THEN Cardinality(OpenFiles) ELSE Cardinality(OpenFiles) + 1
  BY <1>1, OpenFilesIs, FS_AddElement, FS_RemoveElement
<1>5. ASSUME pc' \in {"fetching", "done"}
      PROVE  Adrift' \subseteq Adrift \cup (IF f \notin OpenFiles THEN {}
                                            ELSE IF end = "whole" THEN {u, <<j, part>>} ELSE {u})
  <2> DEFINE U == IF f \notin OpenFiles THEN {} ELSE IF end = "whole" THEN {u, <<j, part>>} ELSE {u}
  <2>1. \A i, p : Written(i, p) => Written(i, p)' \/ <<i, p>> \in U
    BY <1>2
  <2>2. \A i \in Jobs : \A p \in ToSet(Parts[script][i]) :
          Carried(i, p) => Carried(i, p)' \/ Written(i, p)' \/ <<i, p>> \in U
    BY <1>1, <1>5
  <2> HIDE DEF U
  <2>3. Adrift' \subseteq Adrift \cup U
    BY <2>1, <2>2, AdriftStep
  <2> QED BY <2>3 DEF U
<1>6. ASSUME pc' \in {"fetching", "done"}
      PROVE  /\ IsFiniteSet(Adrift') /\ Cardinality(Adrift') \in Nat
             /\ Cardinality(Adrift') <= Cardinality(Adrift) +
                  IF f \notin OpenFiles THEN 0 ELSE IF end = "whole" THEN 2 ELSE 1
  <2>1. IsFiniteSet(Adrift) /\ Cardinality(Adrift) \in Nat
    BY <1>3, <1>6
  <2>2. CASE f \notin OpenFiles
    <3>1. Adrift' \subseteq Adrift
      BY <1>5, <1>6, <2>2
    <3> QED BY <2>1, <2>2, <3>1, AtMost
  <2>3. CASE f \in OpenFiles /\ end = "whole"
    <3>1. Adrift' \subseteq Adrift \cup {u, <<j, part>>}
      BY <1>5, <1>6, <2>3
    <3> QED BY <2>1, <2>3, <3>1, AtMost
  <2>4. CASE f \in OpenFiles /\ end # "whole"
    <3>1. Adrift' \subseteq Adrift \cup {u}
      BY <1>5, <1>6, <2>4
    <3> QED BY <2>1, <2>4, <3>1, AtMost
  <2> QED BY <2>2, <2>3, <2>4
<1>7. ASSUME f \in OpenFiles PROVE Cardinality(OpenFiles) > 0
  BY <1>7, OpenFilesIs, FS_EmptySet
<1> QED BY <1>3, <1>4, <1>6, <1>7

LEMMA LossStart ==
  ASSUME PagedInv, LossInv, Start
  PROVE  LossInv'
<1> SUFFICES ASSUME script # "ticks"
             PROVE  /\ Cardinality(OpenFiles)' <= breaks'
                    /\ IsFiniteSet(Adrift') /\ Cardinality(Adrift') + 2 * Cardinality(OpenFiles') <= 2 * breaks'
  BY DEF LossInv, Start
<1>1. script' = script /\ breaks' = breaks /\ script \in Scripts
  BY DEF Start, history, PagedInv, TypeOK
<1>2. ASSUME NEW j \in Jobs, NEW part \in ToSet(Parts[script][j]), Owed(j, part)' PROVE Carried(j, part)'
  <2>1. part \in ToSet(Due(j))
    <3>1. CASE script = "prebook"
      <4>1. Due(j) = Parts[script][j]
        BY <1>1, <3>1, DueType
      <4> QED BY <4>1
    <3>2. CASE script # "prebook"
      <4>1. ok' = ok
        BY <3>2 DEF Start
      <4>2. ~Written(j, part)
        BY <1>2, <4>1 DEF Owed, Written, Readable
      <4> QED BY <1>1, <4>2, DueType
    <3> QED BY <3>1, <3>2
  <2>2. left'[j] = Due(j)
    BY DEF Start
  <2>3. Due(j) # <<>>
    BY <2>1 DEF ToSet
  <2>4. phase'[j] \in Working
    BY <2>3 DEF Start, Working
  <2> QED BY <2>1, <2>2, <2>4 DEF Carried
<1>3. Adrift' = {}
  BY <1>1, <1>2, AdriftIsNext DEF Owed
<1>4. IsFiniteSet(Adrift') /\ Cardinality(Adrift') = 0
  BY <1>3, FS_EmptySet
<1>5. /\ breaks \in Nat /\ Cardinality(OpenFiles) \in Nat /\ Cardinality(OpenFiles) <= breaks
  BY LossTypes
<1>6. OpenFiles' = OpenFiles \/ OpenFiles' = {}
  BY DEF Start, OpenFiles, Open, Files
<1>7. Cardinality(OpenFiles') \in Nat /\ Cardinality(OpenFiles') <= breaks
  BY <1>5, <1>6, FS_EmptySet
<1> QED BY <1>1, <1>4, <1>5, <1>7

LEMMA LossStore ==
  ASSUME PagedInv, LossInv, NEW j \in Jobs, Store(j)
  PROVE  LossInv'
<1> DEFINE part == Head(left[j])
<1>1. /\ script' = script /\ failed' = failed /\ breaks' = breaks /\ pc' = pc
      /\ left' = [left EXCEPT ![j] = Tail(@)] /\ phase[j] = "storing" /\ AppendTo(j, "whole")
      /\ (IF Len(left[j]) = 1 THEN phase' = [phase EXCEPT ![j] = "finished"] ELSE phase' = phase)
  BY DEF Store, history, Becomes
<1>2. /\ phase \in [Jobs -> Phases] /\ left \in [Jobs -> Seq(AllParts)] /\ left[j] \in Seq(AllParts)
      /\ left[j] # <<>> /\ breaks \in Nat
  BY <1>1 DEF PagedInv, TypeOK, StateTypes, JobInv, Working
<1>3. ASSUME NEW p \in ToSet(left[j]), p # part PROVE p \in ToSet(Tail(left[j])) /\ Len(left[j]) # 1
  <2> DEFINE s == left[j]
             t == Tail(s)
  <2>1. Len(s) \in Nat /\ DOMAIN s = 1 .. Len(s) /\ Len(s) > 0
    BY <1>2
  <2>2. Len(t) = Len(s) - 1 /\ DOMAIN t = 1 .. Len(s) - 1 /\ \A k \in 1 .. Len(s) - 1 : t[k] = s[k + 1]
    BY <1>2
  <2>3. Head(s) = s[1]
    BY <1>2
  <2>4. PICK k \in 1 .. Len(s) : s[k] = p
    BY <2>1 DEF ToSet
  <2> HIDE DEF s, t
  <2>5. k # 1
    BY <1>3, <2>3, <2>4 DEF s
  <2>6. k - 1 \in DOMAIN t /\ t[k - 1] = p /\ Len(s) # 1
    BY <2>1, <2>2, <2>4, <2>5
  <2> QED BY <2>6 DEF ToSet, s, t
<1>4. \A i \in Jobs : /\ i # j => left'[i] = left[i] /\ phase'[i] = phase[i]
                      /\ i = j => /\ left'[i] = Tail(left[j])
                                  /\ Len(left[j]) # 1 => phase'[i] = "storing"
  BY <1>1, <1>2
<1> HIDE DEF part
<1>5. ASSUME NEW i \in Jobs, NEW p, Carried(i, p) PROVE Carried(i, p)' \/ (i = j /\ p = part)
  BY <1>3, <1>4, <1>5 DEF Carried, Working
<1>6. part = Head(left[j]) /\ breaks' = breaks + 0
  BY <1>1, <1>2 DEF part
<1> QED BY <1>1, <1>5, <1>6, LossAppend

LEMMA LossStoreFails ==
  ASSUME PagedInv, LossInv, NEW j \in Jobs, StoreFails(j)
  PROVE  LossInv'
<1>1. /\ script' = script /\ failed' = failed /\ pc' = pc
      /\ left' = [left EXCEPT ![j] = parts[j]] /\ phase[j] = "storing"
  BY DEF StoreFails
<1>2. /\ phase \in [Jobs -> Phases] /\ left \in [Jobs -> Seq(AllParts)]
      /\ ToSet(left[j]) \subseteq ToSet(parts[j])
  BY DEF PagedInv, TypeOK, StateTypes, JobInv
<1>3. PICK q \in {"calling", "reporting"} : phase' = [phase EXCEPT ![j] = q]
  <2>1. CASE script = "prebook"
    BY <2>1 DEF StoreFails, Becomes
  <2>2. CASE script # "prebook"
    <3>1. Fails(j) /\ script # "ticks"
      BY <1>1, <2>2 DEF StoreFails, PagedInv, PoolInv
    <3> QED BY <3>1, FailsIs
  <2> QED BY <2>1, <2>2
<1>4. \A i \in Jobs : IF i = j THEN left'[i] = parts[j] /\ phase'[i] = q
                      ELSE left'[i] = left[i] /\ phase'[i] = phase[i]
  BY <1>1, <1>2, <1>3
<1>5. ASSUME NEW i \in Jobs, NEW p, Carried(i, p) PROVE Carried(i, p)'
  BY <1>2, <1>4, <1>5 DEF Carried, Working
<1>6. \/ ok' = ok /\ (breaks' = breaks \/ breaks' = breaks + 1)
      \/ \E end \in {"unended", "cut"} : AppendTo(j, end) /\ breaks' = breaks + 1
  BY DEF StoreFails
<1>7. CASE ok' = ok /\ (breaks' = breaks \/ breaks' = breaks + 1)
  BY <1>1, <1>5, <1>7, LossKeep
<1>8. ASSUME NEW end \in {"unended", "cut"}, AppendTo(j, end), breaks' = breaks + 1 PROVE LossInv'
  <2>1. PICK part : part = Head(left[j])
    OBVIOUS
  <2>2. end # "whole" /\ end \in {"whole", "unended", "cut"}
    OBVIOUS
  <2>3. breaks' = breaks + IF end = "whole" THEN 0 ELSE 1
    BY <1>8, <2>2
  <2> QED BY <1>1, <1>5, <1>8, <2>1, <2>2, <2>3, LossAppend
<1> QED BY <1>6, <1>7, <1>8

LEMMA LossCrash ==
  ASSUME PagedInv, LossInv, Crash
  PROVE  LossInv'
<1>1. script' = script /\ failed' = failed /\ pc' = "off"
  BY DEF Crash
<1>2. \/ ok' = ok /\ (breaks' = breaks \/ breaks' = breaks + 1)
      \/ \E j \in In({"storing"}), end \in {"unended", "cut"} : AppendTo(j, end) /\ breaks' = breaks + 1
  BY DEF Crash
<1>3. CASE ok' = ok /\ (breaks' = breaks \/ breaks' = breaks + 1)
  BY <1>1, <1>3, LossKeep
<1>4. ASSUME NEW j \in In({"storing"}), NEW end \in {"unended", "cut"}, AppendTo(j, end), breaks' = breaks + 1
      PROVE  LossInv'
  <2>1. PICK part : part = Head(left[j])
    OBVIOUS
  <2>2. end # "whole" /\ end \in {"whole", "unended", "cut"} /\ j \in Jobs /\ phase[j] = "storing"
    BY DEF In
  <2>3. breaks' = breaks + IF end = "whole" THEN 0 ELSE 1
    BY <1>4, <2>2
  <2> QED BY <1>1, <1>4, <2>1, <2>2, <2>3, LossAppend
<1> QED BY <1>2, <1>3, <1>4

LEMMA LossStep == PagedInv /\ LossInv /\ [Next]_vars => LossInv'
<1> SUFFICES ASSUME PagedInv, LossInv, [Next]_vars PROVE LossInv'
  OBVIOUS
<1>1. phase \in [Jobs -> Phases] /\ left \in [Jobs -> Seq(AllParts)]
  BY DEF PagedInv, TypeOK, StateTypes
<1>2. CASE UNCHANGED vars
  BY <1>2, LossKeep DEF vars, files, threads, history, Carried
<1>3. CASE Collect
  <2>1. /\ script' = script /\ failed' = failed /\ ok' = ok /\ breaks' = breaks /\ pc' = pc
    BY <1>3 DEF Collect, files, history
  <2>2. ASSUME NEW j \in Jobs, NEW part, Carried(j, part) PROVE Carried(j, part)'
    <3>1. phase[j] # "finished"
      BY <2>2 DEF Carried, Working
    <3>2. left'[j] = left[j]
      BY <1>3, <3>1 DEF Collect, Ended, In
    <3>3. phase'[j] = phase[j] \/ phase'[j] = "queued"
      BY <1>3, <3>1 DEF Collect, In
    <3> QED BY <2>2, <3>2, <3>3 DEF Carried, Working
  <2> QED BY <2>1, <2>2, LossKeep
<1>4. CASE FinishRun
  <2>1. /\ script' = script /\ failed' = failed /\ ok' = ok /\ breaks' = breaks /\ pc = "fetching"
        /\ phase' = phase /\ left' = left
    BY <1>4 DEF FinishRun, files, threads, history
  <2> QED BY <2>1, LossKeep DEF Carried
<1>5. CASE WriteTicks
  <2>1. script = "ticks" /\ script' = script
    BY <1>5 DEF WriteTicks, PagedInv, PoolInv
  <2> QED BY <2>1 DEF LossInv
<1>6. ASSUME NEW j \in Jobs, Take(j) PROVE LossInv'
  <2>1. /\ script' = script /\ failed' = failed /\ ok' = ok /\ breaks' = breaks /\ pc' = pc
        /\ left' = left /\ phase' = [phase EXCEPT ![j] = "calling"]
    BY <1>6 DEF Take, Becomes, files, history
  <2>2. ASSUME NEW i \in Jobs, NEW part, Carried(i, part) PROVE Carried(i, part)'
    BY <1>1, <2>1, <2>2 DEF Carried, Working
  <2> QED BY <2>1, <2>2, LossKeep
<1>7. ASSUME NEW j \in Jobs, CallFails(j) \/ CallReturns(j) PROVE LossInv'
  <2>1. /\ script' = script /\ failed' = failed /\ ok' = ok /\ breaks' = breaks /\ pc' = pc
        /\ left' = left
    BY <1>7 DEF CallFails, CallReturns, files, history
  <2>2. CASE script = "ticks"
    BY <2>1, <2>2 DEF LossInv
  <2>3. CASE script # "ticks"
    <3>1. phase' = phase \/ \E p \in Working : phase' = [phase EXCEPT ![j] = p]
      <4>1. CASE CallFails(j)
        BY <2>3, <4>1 DEF CallFails, Fails, Becomes, Working
      <4>2. CASE CallReturns(j)
        BY <2>3, <4>2 DEF CallReturns, Becomes, Working
      <4> QED BY <1>7, <4>1, <4>2
    <3>2. ASSUME NEW i \in Jobs, NEW part, Carried(i, part) PROVE Carried(i, part)'
      BY <1>1, <2>1, <3>1, <3>2 DEF Carried
    <3> QED BY <2>1, <3>2, LossKeep
  <2> QED BY <2>2, <2>3
<1>8. ASSUME NEW j \in Jobs, Report(j) PROVE LossInv'
  <2>1. /\ script' = script /\ failed' = failed \cup Named(j) /\ ok' = ok /\ breaks' = breaks /\ pc' = pc
        /\ left' = left /\ phase' = [phase EXCEPT ![j] = "finished"]
    BY <1>8 DEF Report, Becomes, history
  <2>2. ASSUME NEW i \in Jobs, NEW part, Carried(i, part) PROVE Carried(i, part)' \/ <<i, part>> \in failed'
    <3>1. CASE i = j
      <4>1. part \in ToSet(parts[j]) /\ Named(j) = {<<j, p>> : p \in ToSet(parts[j])}
        BY <2>2, <3>1, NamedIs DEF Carried, PagedInv, JobInv
      <4> QED BY <2>1, <3>1, <4>1
    <3>2. CASE i # j
      BY <1>1, <2>1, <2>2, <3>2 DEF Carried
    <3> QED BY <3>1, <3>2
  <2> QED BY <2>1, <2>2, LossKeep
<1>9. ASSUME NEW j \in Jobs, Take(j) \/ Fetch(j) PROVE LossInv'
  BY <1>6, <1>7, <1>8, <1>9, LossStore, LossStoreFails DEF Fetch
<1> QED BY <1>2, <1>3, <1>4, <1>5, <1>9, LossStart, LossCrash DEF Next, Main

LEMMA LossInit == Init => DamageInv /\ LossInv
<1> SUFFICES ASSUME Init PROVE DamageInv /\ LossInv
  OBVIOUS
<1>1. DamageInv
  BY DamageStart DEF Init, DamageInv, Files
<1>2. OpenFiles = {}
  BY DEF Init, OpenFiles, Open
<1>3. Cardinality(OpenFiles) = 0
  BY <1>2, FS_EmptySet
<1>4. LossInv
  BY <1>3 DEF Init, LossInv
<1> QED BY <1>1, <1>4

LEMMA LossImplies == PagedInv /\ DamageInv /\ LossInv => LossIsBounded
<1> SUFFICES ASSUME PagedInv, DamageInv, LossInv PROVE LossIsBounded
  OBVIOUS
<1>1. breaks \in Nat /\ ok["ok"] \in Seq(Line) /\ ok["second"] \in Seq(Line)
  BY DEF PagedInv, TypeOK, StateTypes, Files
<1>2. /\ Cardinality(Lost(ok["ok"])) \in Nat /\ Cardinality(Lost(ok["ok"])) <= Damage(ok["ok"])
      /\ Cardinality(Lost(ok["second"])) \in Nat /\ Cardinality(Lost(ok["second"])) <= Damage(ok["second"])
      /\ Damage(ok["ok"]) \in Nat /\ Damage(ok["second"]) \in Nat
  BY <1>1, LostIs DEF Damage
<1>3. Cardinality(Lost(ok["ok"])) + Cardinality(Lost(ok["second"])) <= breaks
  BY <1>1, <1>2 DEF DamageInv
<1>4. ASSUME pc = "done", script # "ticks" PROVE Cardinality(Missing) <= 2 * breaks
  <2>1. \A j \in Jobs : phase[j] = "idle"
    BY <1>4 DEF PagedInv, PoolInv
  <2>2. \A t \in Missing : ~Carried(t[1], t[2])
    <3>1. \A t \in Missing : t[1] \in Jobs
      BY MissingIs
    <3> QED BY <2>1, <3>1 DEF Carried, Working
  <2>3. Missing = Adrift
    BY <2>2 DEF Adrift
  <2> QED BY <1>4, <2>3, LossTypes
<1> QED BY <1>3, <1>4 DEF LossIsBounded

\* However often the program dies or a write is cut, no more lines are lost than
\* writes were cut, and a run that ends has no more than two parts missing for
\* each of them, counting those of all runs before.
THEOREM LossesAreBounded == Spec => []LossIsBounded
<1>1. PagedInv /\ DamageInv /\ LossInv /\ [Next]_vars => (PagedInv /\ DamageInv /\ LossInv)'
  BY PagedStep, DamageStep, LossStep
<1> QED BY <1>1, PagedInit, LossInit, LossImplies, PTL DEF Spec
=============================================================================
