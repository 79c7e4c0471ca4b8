--------------------------- MODULE Crossing_proofs ---------------------------
(***************************************************************************)
(* Proofs about Crossing, for every book, pool, transaction and fee: types,*)
(* the budget, that the pool never loses and that it keeps its rank.       *)
(***************************************************************************)
EXTENDS Crossing, BookOffers_proofs

-----------------------------------------------------------------------------
(* The pool: whatever it offers, at whatever fee and however it is rounded,   *)
(* pays it: the product of its sides does not fall.                          *)

Pool == [x : Nat \ {0}, y : Nat \ {0}]

\* Taking in and giving out so much leaves a pool with no smaller product.
Pays(p, in, out) ==
  /\ in \in Nat /\ out \in Nat /\ out < p.y
  /\ p.x * p.y <= (p.x + in) * (p.y - out)

PaidSlice(p, s) == s # NoSlice => Pays(p, s.in, s.out) /\ s.in > 0 /\ s.out > 0

LEMMA PoolParts ==
  ASSUME NEW p \in Pool PROVE p.x \in Nat \ {0} /\ p.y \in Nat \ {0} /\ p.x * p.y \in Nat
BY ProductType DEF Pool

LEMMA KeepParts == Keep[1] \in Nat \ {0} /\ Keep[2] \in Nat \ {0} /\ Keep[1] <= Keep[2]
BY PoolAssumption, RateParts

-----------------------------------------------------------------------------
(* Swaps *)

\* Products of numbers compare as their factors do.
LEMMA Scale ==
  ASSUME NEW a \in Nat, NEW b \in Nat, NEW c \in Nat, a <= b
  PROVE  a * c <= b * c
BY SMT

\* What is asked for an output pays for it.
LEMMA SwapInPays ==
  ASSUME NEW p \in Pool, NEW dy
  PROVE  /\ SwapIn(p, dy) \in Nat
         /\ SwapIn(p, dy) > 0 => dy \in 1 .. p.y - 1 /\ Pays(p, SwapIn(p, dy), dy)
<1>1. CASE dy \notin 1 .. p.y - 1
  BY <1>1 DEF SwapIn
<1>2. CASE dy \in 1 .. p.y - 1
  <2> DEFINE rest == p.y - dy
             in == SwapIn(p, dy)
             asked == p.x * dy
  <2>1. /\ p.x \in Nat \ {0} /\ p.y \in Nat \ {0} /\ dy \in Nat /\ rest \in Nat \ {0}
        /\ dy < p.y /\ p.y = rest + dy
    BY <1>2, PoolParts
  <2>2. asked \in Nat /\ rest * Keep[1] \in Nat
    BY <2>1, KeepParts, ProductType
  <2>3. rest * Keep[1] \in Nat \ {0}
    BY <2>1, <2>2, KeepParts, SMT
  <2>4. in = RoundUp(asked, <<Keep[2], rest * Keep[1]>>)
    BY <1>2 DEF SwapIn
  <2>5. in \in Nat /\ asked * Keep[2] <= in * (rest * Keep[1])
    <3> HIDE DEF asked, rest, in
    <3> QED BY <2>2, <2>3, <2>4, KeepParts, RoundUpIsLeast
  <2> HIDE DEF rest, in
  <2>6. asked <= in * rest
    <3>1. in * rest \in Nat
      BY <2>1, <2>5, ProductType
    <3>2. in * (rest * Keep[1]) = (in * rest) * Keep[1]
      BY <2>1, <2>5, KeepParts, SMT
    <3>3. (in * rest) * Keep[1] <= (in * rest) * Keep[2]
      <4> DEFINE t == in * rest
      <4> SUFFICES t * Keep[1] <= t * Keep[2]
        OBVIOUS
      <4>1. t \in Nat
        BY <3>1
      <4> HIDE DEF t
      <4> QED BY <4>1, KeepParts, SMT
    <3>4. asked * Keep[2] <= (in * rest) * Keep[2]
      <4> DEFINE t == in * rest
      <4>1. t \in Nat /\ asked * Keep[2] \in Nat /\ t * Keep[1] \in Nat /\ t * Keep[2] \in Nat
        <5>1. t \in Nat
          BY <3>1
        <5> HIDE DEF t
        <5> QED BY <2>2, <5>1, KeepParts, ProductType
      <4> QED BY <2>5, <3>2, <3>3, <4>1
    <3> HIDE DEF asked
    <3> QED BY <2>2, <3>1, <3>4, KeepParts, Cancel
  <2>7. Pays(p, in, dy)
    <3>1. p.x * p.y = p.x * rest + asked
      BY <2>1, SMT
    <3>2. (p.x + in) * rest = p.x * rest + in * rest
      BY <2>1, <2>5, SMT
    <3>3. p.x * rest \in Nat /\ in * rest \in Nat
      BY <2>1, <2>5, ProductType
    <3>4. p.y - dy = rest
      BY DEF rest
    <3> HIDE DEF asked
    <3>5. p.x * p.y <= (p.x + in) * rest
      BY <2>2, <2>6, <3>1, <3>2, <3>3
    <3> QED BY <2>1, <2>5, <3>4, <3>5 DEF Pays
  <2> QED BY <1>2, <2>5, <2>7 DEF in
<1> QED BY <1>1, <1>2

\* What is given for an input is paid for by it.
LEMMA SwapOutPays ==
  ASSUME NEW p \in Pool, NEW dx \in Nat
  PROVE  SwapOut(p, dx) \in Nat /\ Pays(p, dx, SwapOut(p, dx))
<1> DEFINE x == p.x
           y == p.y
           all == x * y
           kept == x * Keep[2] + dx * Keep[1]
           left == RoundUp(all, <<Keep[2], kept>>)
<1>1. x \in Nat \ {0} /\ y \in Nat \ {0} /\ all \in Nat
  BY PoolParts
<1>2. x * Keep[2] \in Nat \ {0} /\ dx * Keep[1] \in Nat
  <2>1. x * Keep[2] \in Nat /\ dx * Keep[1] \in Nat
    BY <1>1, KeepParts, ProductType
  <2> QED BY <1>1, <2>1, KeepParts, SMT
<1>3. kept \in Nat \ {0}
  BY <1>2
<1>4. /\ left \in Nat /\ all * Keep[2] <= left * kept
      /\ \A q \in Nat : all * Keep[2] <= q * kept => left <= q
  <2> HIDE DEF all, kept
  <2> QED BY <1>1, <1>3, KeepParts, RoundUpIsLeast
<1>5. SwapOut(p, dx) = y - left
  BY DEF SwapOut
<1>6. left <= y
  <2>1. all * Keep[2] = y * (x * Keep[2])
    BY <1>1, KeepParts, SMT
  <2>2. y * kept = y * (x * Keep[2]) + y * (dx * Keep[1])
    <3> DEFINE a == x * Keep[2]
               b == dx * Keep[1]
    <3>1. a \in Nat /\ b \in Nat
      BY <1>2
    <3> SUFFICES y * (a + b) = y * a + y * b
      OBVIOUS
    <3> HIDE DEF a, b
    <3> QED BY <1>1, <3>1, SMT
  <2>3. y * (x * Keep[2]) \in Nat /\ y * (dx * Keep[1]) \in Nat
    BY <1>1, <1>2, ProductType
  <2>4. all * Keep[2] <= y * kept
    BY <2>1, <2>2, <2>3
  <2> QED BY <1>1, <1>4, <2>4
<1>7. left # 0
  <2>1. all \in Nat \ {0}
    BY <1>1, SMT
  <2>2. all * Keep[2] \in Nat \ {0}
    <3> HIDE DEF all
    <3>1. all * Keep[2] \in Nat
      BY <2>1, KeepParts, ProductType
    <3> QED BY <2>1, <3>1, KeepParts, SMT
  <2>3. 0 * kept = 0
    BY <1>3
  <2> HIDE DEF left, all
  <2> QED BY <1>4, <2>2, <2>3
<1>8. all <= (x + dx) * left
  <2>1. left * kept <= left * ((x + dx) * Keep[2])
    <3>1. dx * Keep[1] <= dx * Keep[2]
      BY KeepParts, SMT
    <3>2. (x + dx) * Keep[2] = x * Keep[2] + dx * Keep[2] /\ dx * Keep[2] \in Nat
      BY <1>1, KeepParts, SMT
    <3>3. kept <= (x + dx) * Keep[2] /\ (x + dx) * Keep[2] \in Nat
      BY <1>2, <3>1, <3>2
    <3> DEFINE b == (x + dx) * Keep[2]
    <3>4. b \in Nat /\ kept <= b
      BY <3>3
    <3> SUFFICES left * kept <= left * b
      OBVIOUS
    <3> HIDE DEF b, kept, left
    <3> QED BY <1>3, <1>4, <3>4, SMT
  <2>2. left * ((x + dx) * Keep[2]) = ((x + dx) * left) * Keep[2]
    <3> HIDE DEF left
    <3> QED BY <1>1, <1>4, KeepParts, SMT
  <2> DEFINE t == (x + dx) * left
  <2>3. t \in Nat
    <3> HIDE DEF left
    <3> QED BY <1>1, <1>4, ProductType
  <2>4. all * Keep[2] <= t * Keep[2]
    <3>1. all * Keep[2] \in Nat
      <4> HIDE DEF all
      <4> QED BY <1>1, KeepParts, ProductType
    <3>2. left * kept \in Nat
      <4> HIDE DEF left, kept
      <4> QED BY <1>3, <1>4, ProductType
    <3>3. t * Keep[2] \in Nat
      <4> HIDE DEF t
      <4> QED BY <2>3, KeepParts, ProductType
    <3> QED BY <1>4, <2>1, <2>2, <3>1, <3>2, <3>3
  <2> HIDE DEF t, all
  <2>5. all <= t
    BY <1>1, <2>3, <2>4, KeepParts, Cancel
  <2> QED BY <2>5 DEF t
<1>9. y - left \in Nat /\ y - left < y /\ y - (y - left) = left
  <2> HIDE DEF left
  <2> QED BY <1>1, <1>4, <1>6, <1>7
<1> QED BY <1>5, <1>8, <1>9 DEF Pays

-----------------------------------------------------------------------------
(* Slices *)

\* The largest of a bounded set of amounts is an amount.
LEMMA LargestType ==
  ASSUME NEW n \in Nat, NEW S \in SUBSET (1 .. n)
  PROVE  LargestOr0(S) \in Nat
<1>1. CASE S # {}
  <2> DEFINE gaps == {g \in Nat : n - g \in S}
  <2>1. gaps # {}
    <3>1. PICK m \in S : TRUE
      BY <1>1
    <3>2. n - m \in gaps
      BY <3>1
    <3> QED BY <3>2
  <2>2. PICK g \in gaps : \A h \in gaps : g <= h
    <3>1. gaps \subseteq Nat
      OBVIOUS
    <3> HIDE DEF gaps
    <3> QED BY <2>1, <3>1, LeastNumber
  <2>3. n - g \in S /\ \A m \in S : n - g >= m
    <3>1. n - g \in S /\ g \in Nat
      OBVIOUS
    <3>2. ASSUME NEW m \in S PROVE n - g >= m
      <4>1. n - m \in gaps /\ m \in Nat
        BY <3>2
      <4> HIDE DEF gaps
      <4> QED BY <2>2, <3>1, <4>1
    <3> QED BY <3>1, <3>2
  <2>4. Max(S) \in S
    BY <2>3 DEF Max
  <2>5. Max(S) \in Nat
    <3>1. \A m \in S : m \in Nat
      OBVIOUS
    <3> HIDE DEF gaps
    <3> QED BY <2>4, <3>1
  <2> QED BY <1>1, <2>5 DEF LargestOr0
<1> QED BY <1>1 DEF LargestOr0

\* A slice at its own rate, paid for as the pool asks.
LEMMA BoughtSlice ==
  ASSUME NEW p \in Pool, NEW out, NEW r
  PROVE  PaidSlice(p, Slice(out, SwapIn(p, out), r))
<1> DEFINE in == SwapIn(p, out)
<1>1. in \in Nat /\ (in > 0 => out \in 1 .. p.y - 1 /\ Pays(p, in, out))
  BY SwapInPays
<1> HIDE DEF in
<1>2. PaidSlice(p, Slice(out, in, r))
  <2>1. CASE out > 0 /\ in > 0
    BY <1>1, <2>1 DEF PaidSlice, Slice
  <2> QED BY <2>1 DEF PaidSlice, Slice
<1> QED BY <1>2 DEF in

LEMMA SoldSlice ==
  ASSUME NEW p \in Pool, NEW in \in Nat, NEW r
  PROVE  PaidSlice(p, Slice(SwapOut(p, in), in, r))
<1> DEFINE out == SwapOut(p, in)
<1>1. out \in Nat /\ Pays(p, in, out)
  BY SwapOutPays
<1> HIDE DEF out
<1>2. PaidSlice(p, Slice(out, in, r))
  <2>1. CASE out > 0 /\ in > 0
    BY <1>1, <2>1 DEF PaidSlice, Slice
  <2> QED BY <2>1 DEF PaidSlice, Slice
<1> QED BY <1>2 DEF out

LEMMA MaxSlicePaid ==
  ASSUME NEW p \in Pool, NEW cap PROVE PaidSlice(p, MaxSlice(p, cap))
BY BoughtSlice DEF MaxSlice

LEMMA BuiltPaid ==
  ASSUME NEW p \in Pool, NEW start \in Nat PROVE PaidSlice(p, Built(p, start))
BY BoughtSlice, SoldSlice DEF Built, AtItsRate

LEMMA StartType ==
  ASSUME NEW p \in Pool, NEW r \in Rates
  PROVE  Start(p, r) \in Nat /\ Reduced(Start(p, r)) \in Nat
<1>1. LargestOr0({out \in 1 .. p.y - 1 : OutFits(p, r, out)}) \in Nat
  <2> DEFINE n == p.y - 1
  <2>1. n \in Nat
    BY PoolParts
  <2> HIDE DEF n
  <2>2. LargestOr0({out \in 1 .. n : OutFits(p, r, out)}) \in Nat
    BY <2>1, LargestType
  <2> QED BY <2>2 DEF n
<1>2. LargestOr0({in \in 1 .. RoundDown(p.y, r) : InFits(p, r, in)}) \in Nat
  <2> DEFINE n == RoundDown(p.y, r)
  <2>1. n \in Nat
    BY PoolParts, RoundDownRate
  <2> HIDE DEF n
  <2>2. LargestOr0({in \in 1 .. n : InFits(p, r, in)}) \in Nat
    BY <2>1, LargestType
  <2> QED BY <2>2 DEF n
<1>3. Start(p, r) \in Nat
  BY <1>1, <1>2 DEF Start
<1>4. ASSUME NEW n \in Nat PROVE Reduced(n) \in Nat
  <2>1. 9999 * n \in Nat /\ 10000 \in Nat \ {0}
    BY SMT
  <2> QED BY <2>1, Quotient DEF Reduced
<1> QED BY <1>3, <1>4

LEMMA SliceForPaid ==
  ASSUME NEW p \in Pool, NEW r \in Rates, NEW cap PROVE PaidSlice(p, SliceFor(p, r, cap))
<1> DEFINE built == BuiltFor(p, r, Start(p, r))
           cut == CutTo(p, built, cap)
<1>1. PaidSlice(p, built)
  BY StartType, BuiltPaid DEF BuiltFor
<1> HIDE DEF built
<1>2. PaidSlice(p, cut)
  BY <1>1, BoughtSlice DEF CutTo, AtItsRate
<1> HIDE DEF cut
<1>3. PaidSlice(p, Kept(p, r, cut)) /\ PaidSlice(p, NoSlice)
  BY <1>2 DEF Kept, PaidSlice
<1>4. SliceFor(p, r, cap) \in {Kept(p, r, cut), NoSlice}
  BY DEF SliceFor, cut, built
<1> QED BY <1>3, <1>4

LEMMA SliceAgainstPaid ==
  ASSUME NEW p \in Pool, NEW r \in Rates, NEW cap PROVE PaidSlice(p, SliceAgainst(p, r, cap))
<1>1. SliceAgainst(p, r, cap) \in {SliceFor(p, r, cap), MaxSlice(p, cap), NoSlice}
  BY DEF SliceAgainst, OrLargest
<1>2. PaidSlice(p, NoSlice)
  BY DEF PaidSlice
<1> QED BY <1>1, <1>2, SliceForPaid, MaxSlicePaid

-----------------------------------------------------------------------------
(* The transaction *)

LEMMA AtMostBounds ==
  ASSUME NEW x \in Nat, NEW y \in Nat
  PROVE  AtMost(x, y) \in Nat /\ AtMost(x, y) <= x /\ AtMost(x, y) <= y
BY AtMostType, UnknownAssumption

LEMMA IntentType ==
  ASSUME TypeOK
  PROVE  /\ intent \in Intent /\ intent.send \in Nat \ {0} /\ intent.deliver \in Nat \ {0}
         /\ intent.cap \in Nat \cup {Unknown} /\ intent.limit \in Rates \cup {Unknown}
         /\ intent.kind \in {"payment", "sell", "buy"}
<1>1. intent \in Intent
  BY CrossingAssumption DEF TypeOK
<1> QED BY <1>1 DEF Intent

LEMMA FeesType ==
  ASSUME TypeOK
  PROVE  /\ InFee \in Rates /\ Parity \in Rates /\ Fee \in Rates
         /\ \A o \in Offers : InFeeOf(o) \in Rates
<1>1. Parity \in Rates
  BY SMT DEF Parity, Rates
<1>2. InFee \in Rates
  BY CrossingAssumption
<1> QED BY <1>1, <1>2, FeeType DEF TypeOK, InFeeOf

LEMMA BudgetType ==
  ASSUME TypeOK
  PROVE  SendMax \in Nat \ {0} /\ Budget \in Nat /\ Target \in Nat
         /\ (LimitRate # Unknown => LimitRate \in Rates)
         /\ (OfferCrossing => LimitRate \in Rates)
<1>1. RoundUp(intent.send, InFee) \in Nat \ {0}
  <2> DEFINE u == RoundUp(intent.send, InFee)
  <2>1. u \in Nat /\ intent.send * InFee[1] <= u * InFee[2]
    BY IntentType, FeesType, RoundUpRate
  <2>2. intent.send \in Nat \ {0} /\ InFee[1] \in Nat \ {0} /\ InFee[2] \in Nat \ {0}
    BY IntentType, FeesType, RateParts
  <2> HIDE DEF u
  <2>3. intent.send * InFee[1] > 0
    BY <2>2, SMT
  <2>4. u # 0
    BY <2>1, <2>2, <2>3, SMT
  <2> QED BY <2>1, <2>4 DEF u
<1>2. SendMax \in Nat \ {0}
  BY <1>1, IntentType DEF SendMax
<1>3. Budget \in Nat
  BY <1>2, IntentType, AtMostType DEF Budget
<1>4. Target \in Nat
  BY IntentType, CrossingAssumption DEF Target
<1>5. <<SendMax, intent.deliver>> \in Rates
  BY <1>2, IntentType DEF Rates
<1> QED BY <1>2, <1>3, <1>4, <1>5, IntentType DEF LimitRate

-----------------------------------------------------------------------------
(* Rows *)

LEMMA RowType ==
  ASSUME TypeOK, NEW o \in Offers
  PROVE  /\ tiers[o].out \in Nat /\ tiers[o].in \in Nat /\ tiers[o].funds \in Nat \cup {Unknown}
         /\ Rate(o) \in Rates
<1>1. tiers[o] \in Row
  BY DEF TypeOK
<1>2. Rate(o) \in Rates
  BY OfferType DEF Rate, TypeOK
<1> QED BY <1>1, <1>2 DEF Row

LEMMA PreparedType ==
  ASSUME TypeOK, NEW o \in Offers
  PROVE  Prepared(o) \in Take /\ Prepared(o).in <= tiers[o].in
<1> DEFINE t == tiers[o]
           short == t.funds # Unknown /\ t.funds < Gives(t.out)
           out == IF short THEN RoundDown(t.funds, Flip(Fee)) ELSE t.out
           in == IF short THEN AtMost(RoundDown(out, Rate(o)), t.in) ELSE t.in
<1>1. t.out \in Nat /\ t.in \in Nat /\ t.funds \in Nat \cup {Unknown}
  BY RowType
<1>2. out \in Nat
  <2>1. CASE short
    <3>1. t.funds \in Nat
      BY <1>1, <2>1
    <3> QED BY <1>1, <2>1, <3>1, FeesType, FlipType, RoundDownType
  <2> QED BY <1>1, <2>1
<1>3. in \in Nat /\ in <= t.in
  <2>1. RoundDown(out, Rate(o)) \in Nat
    <3> HIDE DEF out
    <3> QED BY <1>2, RowType, RoundDownType
  <2> HIDE DEF out, short
  <2> QED BY <1>1, <2>1, AtMostBounds
<1>4. RoundUp(in, InFeeOf(o)) \in Nat
  <2> HIDE DEF in
  <2> QED BY <1>3, FeesType, RoundUpRate
<1>5. (IF short THEN t.funds ELSE Gives(out)) \in Nat
  <2>1. Gives(out) \in Nat
    <3> HIDE DEF out
    <3> QED BY <1>2, FeesType, RoundDownType DEF Gives
  <2>2. short => t.funds \in Nat
    BY <1>1
  <2> HIDE DEF out, short
  <2> QED BY <2>1, <2>2
<1>6. Prepared(o) = [out |-> out, in |-> in, gross |-> RoundUp(in, InFeeOf(o)),
                     gives |-> IF short THEN t.funds ELSE Gives(out)]
  BY DEF Prepared
<1> HIDE DEF out, in, short
<1> QED BY <1>2, <1>3, <1>4, <1>5, <1>6 DEF Take

LEMMA LimitedOutType ==
  ASSUME TypeOK, NEW o \in Offers, NEW limit \in Nat
  PROVE  /\ LimitedOut(o, limit) \in Take
         /\ LimitedOut(o, limit).out = AtMost(Prepared(o).out, limit)
<1> DEFINE p == Prepared(o)
           in == AtMost(RoundUp(limit, Rate(o)), p.in)
<1>1. p \in Take /\ p.out \in Nat /\ p.in \in Nat
  BY PreparedType DEF Take
<1>2. CASE limit >= p.out
  <2>1. LimitedOut(o, limit) = p
    BY <1>2 DEF LimitedOut
  <2> HIDE DEF p
  <2>2. AtMost(p.out, limit) = p.out
    BY <1>1, <1>2, UnknownAssumption DEF AtMost
  <2> QED BY <1>1, <2>1, <2>2 DEF p
<1>3. CASE ~(limit >= p.out)
  <2>1. LimitedOut(o, limit) = [out |-> limit, in |-> in, gross |-> RoundUp(in, InFeeOf(o)),
                                gives |-> Gives(limit)]
    BY <1>3 DEF LimitedOut
  <2>2. in \in Nat
    BY <1>1, RowType, RoundUpRate, AtMostBounds
  <2> HIDE DEF p, in
  <2>3. RoundUp(in, InFeeOf(o)) \in Nat /\ Gives(limit) \in Nat
    BY <2>2, FeesType, RoundUpRate, RoundDownType DEF Gives
  <2>4. AtMost(p.out, limit) = limit
    BY <1>1, <1>3, UnknownAssumption DEF AtMost
  <2> QED BY <2>1, <2>2, <2>3, <2>4 DEF Take, p
<1> QED BY <1>2, <1>3

LEMMA LimitedInType ==
  ASSUME TypeOK, NEW o \in Offers, NEW limit \in Nat, NEW up
  PROVE  LET take == LimitedIn(o, limit, up)
         IN  /\ take \in Take /\ take.out <= Prepared(o).out /\ take.in <= Prepared(o).in
             /\ take.gross <= limit
<1> DEFINE p == Prepared(o)
           raw == AtMost(RoundDown(limit, Flip(InFeeOf(o))), p.in)
           bought == IF up THEN RoundUp(raw, Flip(Rate(o))) ELSE RoundDown(raw, Flip(Rate(o)))
           out == AtMost(bought, p.out)
<1>1. p \in Take /\ p.out \in Nat /\ p.in \in Nat
  BY PreparedType DEF Take
<1>2. RoundDown(limit, Flip(InFeeOf(o))) \in Nat
  BY FeesType, FlipType, RoundDownType
<1>3. raw \in Nat /\ raw <= p.in /\ raw <= RoundDown(limit, Flip(InFeeOf(o)))
  <2> HIDE DEF p
  <2> QED BY <1>1, <1>2, AtMostBounds
<1>4. bought \in Nat
  <2> HIDE DEF raw
  <2> QED BY <1>3, RowType, FlipType, RoundUpRate, RoundDownType
<1>5. out \in Nat /\ out <= p.out
  <2> HIDE DEF p, bought
  <2> QED BY <1>1, <1>4, AtMostBounds
<1>6. RoundUp(raw, InFeeOf(o)) \in Nat /\ RoundUp(raw, InFeeOf(o)) <= limit
  <2> DEFINE most == RoundDown(limit, Flip(InFeeOf(o)))
  <2>1. RoundUp(most, InFeeOf(o)) <= limit
    BY FeesType, UpOfDown
  <2>2. RoundUp(raw, InFeeOf(o)) <= RoundUp(most, InFeeOf(o))
    <3> HIDE DEF raw, most
    <3> QED BY <1>2, <1>3, FeesType, RoundUpMonotone DEF most
  <2>3. RoundUp(raw, InFeeOf(o)) \in Nat /\ RoundUp(most, InFeeOf(o)) \in Nat
    <3> HIDE DEF raw, most
    <3> QED BY <1>2, <1>3, FeesType, RoundUpRate DEF most
  <2> QED BY <2>1, <2>2, <2>3
<1>7. Gives(out) \in Nat
  <2> HIDE DEF out
  <2> QED BY <1>5, FeesType, RoundDownType DEF Gives
<1>8. LimitedIn(o, limit, up) =
        IF raw = 0 \/ out = 0 THEN NoTake
        ELSE [out |-> out, in |-> raw, gross |-> RoundUp(raw, InFeeOf(o)), gives |-> Gives(out)]
  BY DEF LimitedIn
<1> HIDE DEF p, raw, out
<1>9. CASE raw = 0 \/ out = 0
  BY <1>1, <1>8, <1>9 DEF NoTake, Take, p
<1>10. CASE ~(raw = 0 \/ out = 0)
  BY <1>3, <1>5, <1>6, <1>7, <1>8, <1>10 DEF Take, p
<1> QED BY <1>9, <1>10

\* A whole row gives no more than it has.
LEMMA PreparedFits ==
  ASSUME TypeOK, NEW o \in Offers
  PROVE  Prepared(o).out <= tiers[o].out
<1> DEFINE f == tiers[o].funds
           size == tiers[o].out
<1>1. size \in Nat /\ f \in Nat \cup {Unknown} /\ Fee \in Rates
  BY RowType, FeesType
<1>2. CASE f # Unknown /\ f < Gives(size)
  <2>1. f \in Nat /\ Gives(size) \in Nat /\ Gives(size) * Fee[2] <= size * Fee[1]
    BY <1>1, <1>2, RoundDownRate DEF Gives
  <2>2. Prepared(o).out = RoundDown(f, Flip(Fee))
    BY <1>2 DEF Prepared
  <2> DEFINE q == RoundDown(f, Flip(Fee))
             g == Gives(size)
  <2>3. q \in Nat /\ q * Fee[1] <= f * Fee[2]
    BY <1>1, <2>1, FlipType, RoundDownRate DEF Flip
  <2>4. Fee[1] \in Nat \ {0} /\ Fee[2] \in Nat \ {0}
    BY <1>1, RateParts
  <2> HIDE DEF f, size, q, g
  <2>5. f * Fee[2] <= g * Fee[2]
    BY <1>2, <2>1, <2>4, SMT DEF g
  <2>6. q * Fee[1] <= size * Fee[1]
    <3>1. q * Fee[1] \in Nat /\ f * Fee[2] \in Nat /\ g * Fee[2] \in Nat /\ size * Fee[1] \in Nat
      BY <1>1, <2>1, <2>3, <2>4, ProductType DEF g
    <3> QED BY <2>1, <2>3, <2>5, <3>1 DEF g
  <2>7. q <= size
    BY <1>1, <2>3, <2>4, <2>6, Cancel
  <2> QED BY <2>2, <2>7 DEF q, size
<1>3. CASE ~(f # Unknown /\ f < Gives(size))
  <2>1. Prepared(o).out = size
    BY <1>3 DEF Prepared
  <2> QED BY <1>1, <2>1
<1> QED BY <1>2, <1>3

-----------------------------------------------------------------------------
(* The pool *)

\* The best of some offers is one of them.
LEMMA BestIsOne ==
  ASSUME TypeOK, NEW S \in SUBSET Offers, S # {}
  PROVE  Best(S) \in S
BY LeaderExists DEF Best, TypeOK

LEMMA PoolType == ASSUME TypeOK, pool # Unknown PROVE pool \in Pool
BY DEF TypeOK, Pool

\* What an amount is cut to is an amount.
LEMMA LimitOutType ==
  ASSUME TypeOK, NEW tip \in BOOLEAN, tip => pool # Unknown, NEW fee \in Rates, NEW out \in Nat
  PROVE  LimitOut(tip, fee, out) \in Nat /\ LimitOut(tip, fee, out) <= out
<1> DEFINE over == fee[2] * Keep[1] * LimitRate[1]
           cost == pool.x * fee[1] * Keep[2] * LimitRate[2]
<1>1. CASE OfferCrossing /\ tip /\ pool.y * over > cost
  <2>1. /\ pool.x \in Nat \ {0} /\ pool.y \in Nat \ {0} /\ fee[1] \in Nat \ {0} /\ fee[2] \in Nat \ {0}
        /\ LimitRate[1] \in Nat \ {0} /\ LimitRate[2] \in Nat \ {0}
    BY <1>1, PoolType, PoolParts, BudgetType, RateParts
  <2>2. over \in Nat \ {0}
    <3>1. fee[2] * Keep[1] \in Nat \ {0}
      BY <2>1, KeepParts, SMT
    <3> DEFINE a == fee[2] * Keep[1]
    <3>2. a \in Nat \ {0} /\ over = a * LimitRate[1]
      BY <3>1
    <3> HIDE DEF a
    <3> QED BY <2>1, <3>2, SMT
  <2>3. cost \in Nat
    BY <2>1, KeepParts, ProductType
  <2>4. pool.y * over \in Nat
    <3> HIDE DEF over
    <3> QED BY <2>1, <2>2, ProductType
  <2> DEFINE all == pool.y * over - cost
  <2>5. all \in Nat
    <3> HIDE DEF over, cost
    <3> QED BY <1>1, <2>3, <2>4
  <2>6. all \div over \in Nat
    <3> HIDE DEF all, over
    <3> QED BY <2>2, <2>5, Quotient
  <2>7. OutputAt(LimitRate, fee) \in {all \div over, (all \div over) + 1}
    <3>1. OutputAt(LimitRate, fee) = all \div over
             + (IF 2 * (all % over) > over \/ (2 * (all % over) = over /\ (all \div over) % 2 = 1) THEN 1 ELSE 0)
      BY DEF OutputAt
    <3> HIDE DEF all, over
    <3> QED BY <2>6, <3>1
  <2>8. OutputAt(LimitRate, fee) \in Nat
    <3> HIDE DEF all, over
    <3> QED BY <2>6, <2>7
  <2>9. LimitOut(tip, fee, out) = AtMost(out, OutputAt(LimitRate, fee))
    BY <1>1 DEF LimitOut
  <2> QED BY <2>8, <2>9, AtMostBounds
<1>2. CASE ~(OfferCrossing /\ tip /\ pool.y * over > cost)
  <2>1. LimitOut(tip, fee, out) = out
    BY <1>2 DEF LimitOut
  <2> QED BY <2>1
<1> QED BY <1>1, <1>2

\* Whatever slice a pass gets from the pool pays the pool.
LEMMA PoolSlicePaid ==
  ASSUME TypeOK, NEW cap \in Nat
  PROVE  /\ PoolSlice(cap) # NoSlice => PoolActive
         /\ PoolActive => PaidSlice(pool, PoolSlice(cap))
<1>1. PoolSlice(cap) # NoSlice => PoolActive
  BY DEF PoolSlice
<1>2. ASSUME PoolActive PROVE PaidSlice(pool, PoolSlice(cap))
  <2>1. pool \in Pool
    BY <1>2, PoolType DEF PoolActive
  <2>2. PaidSlice(pool, NoSlice)
    BY DEF PaidSlice
  <2>3. CASE Tips = {}
    <3>1. SliceAlone(cap) = NoSlice \/ (\E c : SliceAlone(cap) = MaxSlice(pool, c))
          \/ (LimitRate # Unknown /\ SliceAlone(cap) = SliceFor(pool, LimitRate, cap))
      BY DEF SliceAlone
    <3>2. PaidSlice(pool, SliceAlone(cap))
      BY <2>1, <2>2, <3>1, MaxSlicePaid, SliceForPaid, BudgetType
    <3> QED BY <1>2, <2>3, <3>2 DEF PoolSlice
  <2>4. CASE Tips # {}
    <3> DEFINE r == Rate(Best(Tips))
    <3>1. r \in Rates
      <4>1. Tips \in SUBSET Offers
        BY DEF Tips
      <4> QED BY <2>4, <4>1, BestIsOne, RowType
    <3> HIDE DEF r
    <3>2. SliceBeside(r, cap) \in {NoSlice, MaxSlice(pool, cap), SliceAgainst(pool, r, Unknown)}
      BY DEF SliceBeside, IfNoDearer
    <3>3. PaidSlice(pool, SliceBeside(r, cap))
      BY <2>1, <2>2, <3>1, <3>2, MaxSlicePaid, SliceAgainstPaid
    <3> QED BY <1>2, <2>4, <3>3 DEF PoolSlice, r
  <2> QED BY <2>3, <2>4
<1> QED BY <1>1, <1>2

\* A take from the pool that the pool is paid for.
PaidTake(take) ==
  /\ take \in PoolTake
  /\ take.out > 0 /\ take.in > 0 => PoolActive /\ Pays(pool, take.in, take.out)

LEMMA NoPoolTakeType == NoPoolTake \in PoolTake /\ NoPoolTake.out = 0 /\ NoPoolTake.in = 0 /\ NoPoolTake.gross = 0
BY DEF NoPoolTake, PoolTake

LEMMA ExactOutPaid ==
  ASSUME TypeOK, PoolActive, NEW slice, slice # NoSlice, PaidSlice(pool, slice), NEW cap \in Nat
  PROVE  PaidTake(ExactOut(slice, cap))
<1> DEFINE out == AtMost(slice.out, cap)
           whole == ~OfferCrossing /\ Tips = {}
           in == IF out = slice.out /\ ~whole THEN slice.in ELSE SwapIn(pool, out)
           given == IF whole THEN SwapOut(pool, in) ELSE out
<1>1. pool \in Pool
  BY PoolType DEF PoolActive
<1>2. slice.out \in Nat /\ slice.in \in Nat /\ Pays(pool, slice.in, slice.out)
  BY DEF PaidSlice, Pays
<1>3. out \in Nat
  BY <1>2, AtMostBounds
<1>4. SwapIn(pool, out) \in Nat /\ (SwapIn(pool, out) > 0 => Pays(pool, SwapIn(pool, out), out))
  BY <1>1, SwapInPays
<1> HIDE DEF out
<1>5. in \in Nat
  BY <1>2, <1>4
<1>6. given \in Nat /\ (in > 0 => Pays(pool, in, given))
  <2>1. CASE whole
    <3>1. given = SwapOut(pool, in)
      BY <2>1
    <3> HIDE DEF in, given, whole
    <3> QED BY <1>1, <1>5, <3>1, SwapOutPays
  <2>2. CASE ~whole
    <3>1. given = out
      BY <2>2
    <3>2. in > 0 => Pays(pool, in, out)
      BY <1>2, <1>4
    <3> HIDE DEF in, given, whole
    <3> QED BY <1>3, <3>1, <3>2
  <2> QED BY <2>1, <2>2
<1>7. RoundUp(in, InFee) \in Nat
  <2> HIDE DEF in
  <2> QED BY <1>5, FeesType, RoundUpRate
<1>8. ExactOut(slice, cap) = [out |-> given, in |-> in, gross |-> RoundUp(in, InFee)]
  BY DEF ExactOut, out
<1> HIDE DEF in, given
<1> QED BY <1>5, <1>6, <1>7, <1>8 DEF PaidTake, PoolTake

LEMMA UnderBudgetPaid ==
  ASSUME TypeOK, PoolActive, NEW slice, slice # NoSlice, PaidSlice(pool, slice), NEW cap \in Nat
  PROVE  PaidTake(UnderBudget(slice, cap)) /\ UnderBudget(slice, cap).gross <= remainingIn
<1> DEFINE out == AtMost(slice.out, cap)
           need == SwapIn(pool, out)
           raw == RoundDown(remainingIn, Flip(InFee))
           take == UnderBudget(slice, cap)
<1>1. pool \in Pool /\ remainingIn \in Nat
  BY PoolType DEF PoolActive, TypeOK
<1>2. out \in Nat
  <2>1. slice.out \in Nat
    BY DEF PaidSlice, Pays
  <2> QED BY <2>1, AtMostBounds
<1>3. need \in Nat /\ (need > 0 => Pays(pool, need, out))
  BY <1>1, SwapInPays
<1>4. raw \in Nat
  BY <1>1, FeesType, FlipType, RoundDownType
<1>5. RoundUp(raw, InFee) <= remainingIn /\ RoundUp(raw, InFee) \in Nat
  <2>1. RoundUp(raw, InFee) <= remainingIn
    BY <1>1, FeesType, UpOfDown
  <2> HIDE DEF raw
  <2> QED BY <1>4, <2>1, FeesType, RoundUpRate
<1>6. take = IF raw = 0 \/ need = 0 THEN NoPoolTake
             ELSE IF raw >= need THEN [out |-> out, in |-> need, gross |-> RoundUp(need, InFee)]
             ELSE [out |-> SwapOut(pool, raw), in |-> raw, gross |-> remainingIn]
  BY DEF UnderBudget
<1> SUFFICES PaidTake(take) /\ take.gross <= remainingIn
  OBVIOUS
<1> HIDE DEF take, raw, need, out
<1>7. CASE raw = 0 \/ need = 0
  BY <1>1, <1>6, <1>7, NoPoolTakeType DEF PaidTake
<1>8. CASE ~(raw = 0 \/ need = 0) /\ raw >= need
  <2>1. take = [out |-> out, in |-> need, gross |-> RoundUp(need, InFee)]
    BY <1>6, <1>8
  <2>2. RoundUp(need, InFee) \in Nat /\ RoundUp(need, InFee) <= RoundUp(raw, InFee)
    BY <1>3, <1>4, <1>8, FeesType, RoundUpRate, RoundUpMonotone
  <2>3. RoundUp(need, InFee) <= remainingIn
    BY <1>1, <1>5, <2>2
  <2> QED BY <1>2, <1>3, <1>8, <2>1, <2>2, <2>3 DEF PaidTake, PoolTake
<1>9. CASE ~(raw = 0 \/ need = 0) /\ ~(raw >= need)
  <2>1. take = [out |-> SwapOut(pool, raw), in |-> raw, gross |-> remainingIn]
    BY <1>6, <1>9
  <2>2. SwapOut(pool, raw) \in Nat /\ Pays(pool, raw, SwapOut(pool, raw))
    BY <1>1, <1>4, SwapOutPays
  <2> QED BY <1>1, <1>4, <2>1, <2>2 DEF PaidTake, PoolTake
<1> QED BY <1>7, <1>8, <1>9

\* ... so what a pass takes from the pool pays it, and a forward pass pays it
\* no more than is left of the budget.
LEMMA PoolTakeOfPaid ==
  ASSUME TypeOK, NEW cap \in Nat, NEW direction
  PROVE  LET take == PoolTakeOf(PoolSlice(cap), direction, cap)
         IN  PaidTake(take) /\ (direction # "reverse" => take.gross <= remainingIn)
<1> DEFINE slice == PoolSlice(cap)
<1>1. slice # NoSlice => PoolActive /\ PaidSlice(pool, slice)
  BY PoolSlicePaid
<1>2. remainingIn \in Nat /\ PaidTake(NoPoolTake)
  BY NoPoolTakeType DEF PaidTake, TypeOK
<1> HIDE DEF slice
<1>3. LET take == PoolTakeOf(slice, direction, cap)
      IN  PaidTake(take) /\ (direction # "reverse" => take.gross <= remainingIn)
  <2>1. CASE slice = NoSlice
    BY <1>2, <2>1, NoPoolTakeType DEF PoolTakeOf
  <2>2. CASE slice # NoSlice /\ direction = "reverse"
    BY <1>1, <2>2, ExactOutPaid DEF PoolTakeOf
  <2>3. CASE slice # NoSlice /\ direction # "reverse"
    BY <1>1, <2>3, UnderBudgetPaid DEF PoolTakeOf
  <2> QED BY <2>1, <2>2, <2>3
<1> QED BY <1>3 DEF slice

-----------------------------------------------------------------------------
(* Sums over the rows *)

Outs(t) == [o \in Offers |-> t[o].out]

Costs(t) == [o \in Offers |-> t[o].gross]

\* The offers of one owner, and what they give.
GivesOf(t, a) == [o \in Offers |-> IF book[o].owner = a THEN t[o].gives ELSE 0]

LEMMA TakeParts ==
  ASSUME NEW t \in [Offers -> Take], NEW o \in Offers
  PROVE  t[o].out \in Nat /\ t[o].in \in Nat /\ t[o].gross \in Nat /\ t[o].gives \in Nat
BY DEF Take

LEMMA SumsType ==
  ASSUME NEW t \in [Offers -> Take]
  PROVE  Sum(Outs(t), Offers) \in Nat /\ Sum(Costs(t), Offers) \in Nat
<1>1. \A o \in Offers : Outs(t)[o] \in Nat /\ Costs(t)[o] \in Nat
  BY TakeParts DEF Outs, Costs
<1> QED BY <1>1, OffersFinite, SumType

\* Taking from nothing adds nothing.
LEMMA NoTakesSums == Sum(Outs(NoTakes), Offers) = 0 /\ Sum(Costs(NoTakes), Offers) = 0
<1>1. \A o \in Offers : Outs(NoTakes)[o] = 0 /\ Costs(NoTakes)[o] = 0
  BY DEF Outs, Costs, NoTakes, NoTake
<1> QED BY <1>1, OffersFinite, SumZero

\* Taking from one more row adds what it takes.
LEMMA TakeAdds ==
  ASSUME NEW t \in [Offers -> Take], NEW o \in Offers, t[o] = NoTake, NEW take \in Take
  PROVE  LET u == [t EXCEPT ![o] = take]
         IN  /\ u \in [Offers -> Take]
             /\ Sum(Outs(u), Offers) = Sum(Outs(t), Offers) + take.out
             /\ Sum(Costs(u), Offers) = Sum(Costs(t), Offers) + take.gross
<1> DEFINE u == [t EXCEPT ![o] = take]
<1>1. u \in [Offers -> Take] /\ u[o] = take /\ \A p \in Offers \ {o} : u[p] = t[p]
  OBVIOUS
<1> HIDE DEF u
<1>2. \A p \in Offers : /\ Outs(t)[p] \in Nat /\ Outs(u)[p] \in Nat
                        /\ Costs(t)[p] \in Nat /\ Costs(u)[p] \in Nat
  BY <1>1, TakeParts DEF Outs, Costs
<1>3. \A p \in Offers \ {o} : Outs(u)[p] = Outs(t)[p] /\ Costs(u)[p] = Costs(t)[p]
  BY <1>1 DEF Outs, Costs
<1>4. Sum(Outs(u), Offers) + Outs(t)[o] = Sum(Outs(t), Offers) + Outs(u)[o]
  BY <1>2, <1>3, OffersFinite, SumChange
<1>5. Sum(Costs(u), Offers) + Costs(t)[o] = Sum(Costs(t), Offers) + Costs(u)[o]
  BY <1>2, <1>3, OffersFinite, SumChange
<1>6. Outs(t)[o] = 0 /\ Costs(t)[o] = 0 /\ Outs(u)[o] = take.out /\ Costs(u)[o] = take.gross
  BY <1>1 DEF Outs, Costs, NoTake
<1>7. /\ Sum(Outs(u), Offers) \in Nat /\ Sum(Outs(t), Offers) \in Nat
      /\ Sum(Costs(u), Offers) \in Nat /\ Sum(Costs(t), Offers) \in Nat
  BY <1>1, SumsType
<1> QED BY <1>1, <1>4, <1>5, <1>6, <1>7 DEF u, Take

\* Committing a pass adds what it took to the trace.
LEMMA CommitAdds ==
  ASSUME TypeOK
  PROVE  LET u == [o \in Offers |-> RoundTakes(o)]
         IN  /\ u \in [Offers -> Take]
             /\ Sum(Outs(u), Offers) = Sum(Outs(trace), Offers) + Sum(Outs(takes), Offers)
             /\ Sum(Costs(u), Offers) = Sum(Costs(trace), Offers) + Sum(Costs(takes), Offers)
<1> DEFINE u == [o \in Offers |-> RoundTakes(o)]
<1>1. trace \in [Offers -> Take] /\ takes \in [Offers -> Take]
  BY DEF TypeOK
<1>2. ASSUME NEW o \in Offers
      PROVE  /\ u[o] \in Take /\ u[o].out = trace[o].out + takes[o].out
             /\ u[o].gross = trace[o].gross + takes[o].gross
  <2>1. /\ trace[o].out \in Nat /\ trace[o].in \in Nat /\ trace[o].gross \in Nat /\ trace[o].gives \in Nat
        /\ takes[o].out \in Nat /\ takes[o].in \in Nat /\ takes[o].gross \in Nat /\ takes[o].gives \in Nat
    BY <1>1, TakeParts
  <2> QED BY <2>1 DEF RoundTakes, Take
<1>3. u \in [Offers -> Take]
  BY <1>2
<1> HIDE DEF u
<1>4. \A o \in Offers : /\ Outs(trace)[o] \in Nat /\ Outs(takes)[o] \in Nat
                        /\ Outs(u)[o] = Outs(trace)[o] + Outs(takes)[o]
                        /\ Costs(trace)[o] \in Nat /\ Costs(takes)[o] \in Nat
                        /\ Costs(u)[o] = Costs(trace)[o] + Costs(takes)[o]
  BY <1>1, <1>2, TakeParts DEF Outs, Costs
<1>5. Sum(Outs(u), Offers) = Sum(Outs(trace), Offers) + Sum(Outs(takes), Offers)
  BY <1>4, OffersFinite, SumAdd
<1>6. Sum(Costs(u), Offers) = Sum(Costs(trace), Offers) + Sum(Costs(takes), Offers)
  BY <1>4, OffersFinite, SumAdd
<1> QED BY <1>3, <1>5, <1>6 DEF u

LEMMA CapacityType == ASSUME TypeOK PROVE Capacity \in Nat
<1> DEFINE f == [o \in Offers |-> IF o \in Live /\ ~TooDear(Rate(o)) THEN tiers[o].out ELSE 0]
           drawn == IF PoolActive THEN SwapOut(pool, remainingIn) ELSE 0
<1>1. \A o \in Offers : f[o] \in Nat
  BY RowType
<1> HIDE DEF f
<1>2. Sum(f, Offers) \in Nat
  BY <1>1, OffersFinite, SumType
<1>3. drawn \in Nat
  BY PoolType, SwapOutPays DEF PoolActive, TypeOK
<1> QED BY <1>2, <1>3 DEF Capacity, f

-----------------------------------------------------------------------------
(* The invariant *)

\* What a pass has found so far can be committed.
PassInv ==
  phase \in Passes =>
    /\ rounds < MaxRounds
    /\ \A o \in ahead : tiers[o].out > 0 /\ takes[o] = NoTake
    /\ \A o \in Offers : takes[o].out <= tiers[o].out /\ takes[o].gives <= Gives(takes[o].out)
    /\ Sum(Outs(takes), Offers) + poolTake.out = filled.out
    /\ Sum(Costs(takes), Offers) + poolTake.gross <= filled.in
    /\ poolTake # NoPoolTake => PoolActive /\ Pays(pool, poolTake.in, poolTake.out)
    /\ phase # "reverse" => filled.in <= remainingIn

\* What is committed adds up, and is backed by the rows and their funds.
TraceInv ==
  /\ Sum(Outs(trace), Offers) + poolTrace.out = total.out
  /\ Sum(Costs(trace), Offers) + poolTrace.gross <= total.in
  /\ \A o \in Offers : trace[o].gives <= Gives(trace[o].out)
  /\ phase = "allocate" => trace = NoTakes /\ total.in = 0
  /\ phase # "allocate" =>
       /\ \A o \in Offers : tiers[o].out + trace[o].out <= rows[o].out
       /\ \A o \in Offers \ removed : tiers[o].out + trace[o].out = rows[o].out

\* What is left of the budget is what was not spent.
BudgetInv ==
  /\ total.in <= Budget
  /\ phase # "allocate" => remainingIn = Budget - total.in

CrossingInv ==
  /\ TypeOK /\ AllocationInv /\ PurseCovers
  /\ PassInv /\ TraceInv /\ BudgetInv /\ StaysFunded /\ PoolPaid

\* What offers give, in all, in parts and of nothing.
LEMMA GivesFacts ==
  ASSUME TypeOK, NEW x \in Nat, NEW y \in Nat
  PROVE  /\ Gives(x) \in Nat /\ Gives(0) = 0
         /\ Gives(x) + Gives(y) <= Gives(x + y)
         /\ x <= y => Gives(x) <= Gives(y)
<1>1. Fee \in Rates /\ Fee[1] \in Nat \ {0} /\ Fee[2] \in Nat \ {0}
  BY FeesType, RateParts
<1>2. Gives(0) = 0
  <2>1. Gives(0) = (0 * Fee[1]) \div Fee[2] /\ 0 * Fee[1] = 0
    BY <1>1, SMT DEF Gives, RoundDown
  <2> QED BY <1>1, <2>1, SMT
<1>3. Gives(x) \in Nat /\ Gives(x) + Gives(y) <= Gives(x + y)
  BY <1>1, RoundDownType, RoundDownParts DEF Gives
<1>4. x <= y => Gives(x) <= Gives(y)
  BY <1>1, RoundDownMonotone DEF Gives
<1> QED BY <1>2, <1>3, <1>4

\* The transaction and the snapshot stay as they are.
LEMMA Fixed ==
  ASSUME UNCHANGED <<book, ownerPays, intent>>
  PROVE  /\ Budget' = Budget
         /\ \A x : Gives(x)' = Gives(x')
BY DEF Budget, SendMax, OfferCrossing, AtMost, RoundUp, Gives, RoundDown, Fee, Parity

\* Within a round nothing is committed.
LEMMA FlowKept ==
  ASSUME CrossingInv, phase # "allocate", phase' # "allocate",
         UNCHANGED <<bookVars, intent, flowVars>>
  PROVE  /\ AllocationInv' /\ PurseCovers' /\ TraceInv' /\ BudgetInv' /\ StaysFunded' /\ PoolPaid'
         /\ \A x : Gives(x)' = Gives(x')
<1>1. /\ UNCHANGED <<book, ownerPays, intent, rows>>
      /\ UNCHANGED <<tiers, pool, remainingOut, remainingIn, rounds, poolRounds, total, trace,
                     poolTrace, removed>>
  BY DEF bookVars, flowVars
<1>2. Budget' = Budget /\ \A x : Gives(x)' = Gives(x')
  BY <1>1, Fixed
<1>3. AllocationInv' /\ PurseCovers'
  BY BookKept DEF CrossingInv
<1>4. TraceInv'
  BY <1>1, <1>2 DEF CrossingInv, TraceInv, Outs, Costs
<1>5. BudgetInv'
  BY <1>1, <1>2 DEF CrossingInv, BudgetInv
<1>6. StaysFunded'
  BY <1>1, <1>2 DEF CrossingInv, StaysFunded
<1>7. PoolPaid'
  BY <1>1 DEF CrossingInv, PoolPaid
<1> QED BY <1>2, <1>3, <1>4, <1>5, <1>6, <1>7

-----------------------------------------------------------------------------
(* Passes *)

LEMMA StartPassInv ==
  ASSUME CrossingInv, phase # "allocate", rounds < MaxRounds,
         NEW direction \in Passes, NEW cap \in Nat, StartPass(direction, cap),
         adjusted' \in BOOLEAN, UNCHANGED <<bookVars, intent, flowVars, outcome>>
  PROVE  CrossingInv'
<1> DEFINE take == PoolTakeOf(PoolSlice(cap), direction, cap)
<1>1. /\ phase' = direction /\ want' = cap /\ takes' = NoTakes /\ deleted' = {}
      /\ PassWith(PoolSlice(cap), take)
  BY DEF StartPass
<1>2. PaidTake(take) /\ (direction # "reverse" => take.gross <= remainingIn)
  BY PoolTakeOfPaid DEF CrossingInv
<1> HIDE DEF take
<1>3. direction # "allocate"
  BY DEF Passes
<1>4. /\ AllocationInv' /\ PurseCovers' /\ TraceInv' /\ BudgetInv' /\ StaysFunded' /\ PoolPaid'
      /\ \A x : Gives(x)' = Gives(x')
  BY <1>1, <1>3, FlowKept
<1>5. ahead' \subseteq Candidates /\ Candidates \subseteq Offers
  BY <1>1 DEF PassWith, Candidates
<1>6. \/ poolTake' = take /\ take.out > 0 /\ take.in > 0 /\ filled' = [out |-> take.out, in |-> take.gross]
      \/ poolTake' = NoPoolTake /\ filled' = Nothing
  BY <1>1 DEF PassWith
<1>7. take.out \in Nat /\ take.in \in Nat /\ take.gross \in Nat
  BY <1>2 DEF PaidTake, PoolTake
<1>8. /\ poolTake' \in PoolTake /\ filled' \in Amount
      /\ filled'.out = poolTake'.out /\ filled'.in = poolTake'.gross
      /\ poolTake' # NoPoolTake => PoolActive /\ Pays(pool, poolTake'.in, poolTake'.out)
      /\ direction # "reverse" => filled'.in <= remainingIn
  <2>1. remainingIn \in Nat
    BY DEF CrossingInv, TypeOK
  <2>2. CASE poolTake' = take /\ take.out > 0 /\ take.in > 0 /\ filled' = [out |-> take.out, in |-> take.gross]
    BY <1>2, <1>7, <2>2 DEF PaidTake, Amount
  <2>3. CASE poolTake' = NoPoolTake /\ filled' = Nothing
    BY <2>1, <2>3, NoPoolTakeType DEF Amount, Nothing
  <2> QED BY <1>6, <2>2, <2>3
<1>9. NoTakes \in [Offers -> Take] /\ \A o \in Offers : NoTakes[o] = NoTake
  BY DEF NoTakes, NoTake, Take
<1>10. TypeOK'
  <2>1. UNCHANGED <<intent, outcome, tiers, removed, trace, total, pool, poolTrace, remainingOut,
                    remainingIn, rounds, poolRounds>>
    BY DEF flowVars
  <2>2. BookTypeOK' /\ direction \in Phases
    BY <1>4 DEF AllocationInv, Phases
  <2>3. ahead' \subseteq Offers /\ deleted' \subseteq Offers
    BY <1>1, <1>5
  <2> QED BY <1>1, <1>8, <1>9, <2>1, <2>2, <2>3 DEF CrossingInv, TypeOK
<1>11. PassInv'
  <2>1. UNCHANGED <<tiers, rounds, pool, poolRounds, remainingIn>>
    BY DEF flowVars
  <2>2. \A o \in ahead' : tiers'[o].out > 0 /\ takes'[o] = NoTake
    BY <1>1, <1>5, <1>9, <2>1 DEF Candidates, Executable
  <2>3. \A o \in Offers : takes'[o].out <= tiers'[o].out /\ takes'[o].gives <= Gives(takes[o].out)'
    <3> TAKE o \in Offers
    <3>1. tiers[o].out \in Nat /\ Gives(0) = 0
      BY RowType, GivesFacts DEF CrossingInv
    <3>2. takes'[o] = NoTake
      BY <1>1, <1>9
    <3>3. Gives(takes[o].out)' = Gives(takes'[o].out)
      BY <1>4
    <3> QED BY <2>1, <3>1, <3>2, <3>3 DEF NoTake
  <2>4. Sum(Outs(takes'), Offers) + poolTake'.out = filled'.out
    BY <1>1, <1>8, NoTakesSums DEF PoolTake
  <2>5. Sum(Costs(takes'), Offers) + poolTake'.gross <= filled'.in
    BY <1>1, <1>8, NoTakesSums DEF PoolTake
  <2>6. poolTake' # NoPoolTake => PoolActive' /\ Pays(pool', poolTake'.in, poolTake'.out)
    BY <1>8, <2>1 DEF PoolActive
  <2>7. phase' # "reverse" => filled'.in <= remainingIn'
    BY <1>1, <1>8, <2>1
  <2>8. rounds' < MaxRounds
    BY <2>1
  <2> QED BY <2>2, <2>3, <2>4, <2>5, <2>6, <2>7, <2>8 DEF PassInv, Outs, Costs, Pays
<1> QED BY <1>4, <1>10, <1>11 DEF CrossingInv

\* A row with funds for all it has gives what its output asks.
LEMMA WholeRowGives ==
  ASSUME CrossingInv, phase # "allocate", NEW o \in Offers, tiers[o].out > 0
  PROVE  Prepared(o).gives = Gives(Prepared(o).out)
<1>1. TypeOK /\ StaysFunded
  BY DEF CrossingInv
<1>2. tiers[o].funds # Unknown => Gives(tiers[o].out) <= tiers[o].funds
  BY <1>1 DEF StaysFunded
<1>3. Gives(tiers[o].out) \in Nat /\ tiers[o].funds \in Nat \cup {Unknown}
  BY <1>1, RowType, GivesFacts
<1>4. ~(tiers[o].funds # Unknown /\ tiers[o].funds < Gives(tiers[o].out))
  BY <1>2, <1>3
<1> QED BY <1>4 DEF Prepared

LEMMA LimitedOutGives ==
  ASSUME CrossingInv, phase # "allocate", NEW o \in Offers, tiers[o].out > 0, NEW limit \in Nat
  PROVE  LimitedOut(o, limit).gives = Gives(LimitedOut(o, limit).out)
<1>1. CASE limit >= Prepared(o).out
  BY <1>1, WholeRowGives DEF LimitedOut
<1>2. CASE ~(limit >= Prepared(o).out)
  BY <1>2 DEF LimitedOut
<1> QED BY <1>1, <1>2

LEMMA LimitedInGives ==
  ASSUME NEW o \in Offers, NEW limit \in Nat, NEW up, LimitedIn(o, limit, up) # NoTake
  PROVE  LimitedIn(o, limit, up).gives = Gives(LimitedIn(o, limit, up).out)
BY DEF LimitedIn

\* A pass goes on to the next row, and may take from it what it has.
LEMMA RowStep ==
  ASSUME CrossingInv, phase \in Passes, NEW o \in ahead, NEW take \in Take,
         ahead' = ahead \ {o}, takes' = [takes EXCEPT ![o] = take],
         take.out <= tiers[o].out, take.gives <= Gives(take.out),
         filled' \in Amount, filled'.out = filled.out + take.out,
         filled.in + take.gross <= filled'.in, phase # "reverse" => filled'.in <= remainingIn,
         deleted' \subseteq Offers,
         UNCHANGED <<bookVars, intent, phase, want, adjusted, poolTake, flowVars, outcome>>
  PROVE  CrossingInv'
<1>1. phase # "allocate" /\ phase' # "allocate" /\ TypeOK /\ PassInv
  BY DEF Passes, CrossingInv
<1>2. /\ AllocationInv' /\ PurseCovers' /\ TraceInv' /\ BudgetInv' /\ StaysFunded' /\ PoolPaid'
      /\ \A x : Gives(x)' = Gives(x')
  BY <1>1, FlowKept
<1>3. UNCHANGED <<intent, phase, want, adjusted, poolTake, outcome, tiers, removed, trace, total,
                  pool, poolTrace, remainingOut, remainingIn, rounds, poolRounds>>
  BY DEF flowVars
<1>4. o \in Offers /\ takes \in [Offers -> Take] /\ takes[o] = NoTake /\ ahead \subseteq Offers
  BY <1>1 DEF TypeOK, PassInv
<1>5. /\ takes' \in [Offers -> Take]
      /\ Sum(Outs(takes'), Offers) = Sum(Outs(takes), Offers) + take.out
      /\ Sum(Costs(takes'), Offers) = Sum(Costs(takes), Offers) + take.gross
  BY <1>4, TakeAdds
<1>6. TypeOK'
  <2>1. BookTypeOK' /\ ahead' \subseteq Offers
    BY <1>2, <1>4 DEF AllocationInv
  <2> QED BY <1>1, <1>3, <1>5, <2>1 DEF TypeOK
<1>7. PassInv'
  <2>1. /\ take.out \in Nat /\ take.gross \in Nat /\ filled.out \in Nat /\ filled.in \in Nat /\ filled'.in \in Nat
        /\ poolTake.out \in Nat /\ poolTake.gross \in Nat
        /\ Sum(Outs(takes), Offers) \in Nat /\ Sum(Costs(takes), Offers) \in Nat
    BY <1>1, <1>4, SumsType DEF TypeOK, Take, Amount, PoolTake
  <2>2. rounds' < MaxRounds
    BY <1>1, <1>3 DEF PassInv
  <2>3. \A p \in ahead' : tiers'[p].out > 0 /\ takes'[p] = NoTake
    BY <1>1, <1>3, <1>4 DEF PassInv
  <2>4. \A p \in Offers : takes'[p].out <= tiers'[p].out /\ takes'[p].gives <= Gives(takes[p].out)'
    <3> TAKE p \in Offers
    <3>1. Gives(takes[p].out)' = Gives(takes'[p].out)
      BY <1>2
    <3>2. CASE p = o
      <4>1. takes'[p] = take
        BY <1>4, <3>2
      <4> QED BY <1>3, <3>1, <3>2, <4>1
    <3>3. CASE p # o
      <4>1. takes'[p] = takes[p]
        BY <1>4, <3>3
      <4> QED BY <1>1, <1>3, <3>1, <4>1 DEF PassInv
    <3> QED BY <3>2, <3>3
  <2>5. Sum(Outs(takes'), Offers) + poolTake'.out = filled'.out
    BY <1>1, <1>3, <1>5, <2>1 DEF PassInv
  <2>6. Sum(Costs(takes'), Offers) + poolTake'.gross <= filled'.in
    <3>1. Sum(Costs(takes), Offers) + poolTake.gross <= filled.in
      BY <1>1 DEF PassInv
    <3> QED BY <1>3, <1>5, <2>1, <3>1
  <2>7. poolTake' # NoPoolTake => PoolActive' /\ Pays(pool', poolTake'.in, poolTake'.out)
    BY <1>1, <1>3 DEF PassInv, PoolActive
  <2>8. phase' # "reverse" => filled'.in <= remainingIn'
    BY <1>3
  <2> QED BY <2>2, <2>3, <2>4, <2>5, <2>6, <2>7, <2>8 DEF PassInv, Outs, Costs, Pays
<1> QED BY <1>2, <1>6, <1>7 DEF CrossingInv

\* The row a pass visits, and how much it may still take.
LEMMA Visited ==
  ASSUME CrossingInv, Visit
  PROVE  /\ phase \in Passes /\ TypeOK /\ Left \in Nat /\ Left > 0
         /\ Best(ahead) \in ahead /\ Best(ahead) \in Offers /\ tiers[Best(ahead)].out > 0
         /\ takes[Best(ahead)] = NoTake
<1>1. phase \in Passes /\ ahead # {} /\ Left > 0 /\ TypeOK /\ PassInv
  BY DEF Visit, PassOpen, CrossingInv
<1>2. want \in Nat /\ remainingIn \in Nat /\ filled.out \in Nat /\ filled.in \in Nat /\ ahead \in SUBSET Offers
  BY <1>1 DEF TypeOK, Amount
<1>3. Left \in Nat
  BY <1>1, <1>2 DEF Left
<1>4. Best(ahead) \in ahead
  BY <1>1, <1>2, BestIsOne
<1> QED BY <1>1, <1>2, <1>3, <1>4 DEF PassInv

LEMMA NoTakeStep ==
  ASSUME CrossingInv, phase \in Passes, NEW o \in ahead,
         ahead' = ahead \ {o}, UNCHANGED <<takes, filled>>, deleted' \subseteq Offers,
         UNCHANGED <<bookVars, intent, phase, want, adjusted, poolTake, flowVars, outcome>>
  PROVE  CrossingInv'
<1>1. /\ TypeOK /\ PassInv /\ o \in Offers /\ takes[o] = NoTake /\ takes \in [Offers -> Take]
      /\ filled \in Amount /\ filled.in \in Nat /\ filled.out \in Nat
  BY DEF CrossingInv, PassInv, TypeOK, Amount
<1>2. takes' = [takes EXCEPT ![o] = NoTake]
  BY <1>1
<1>3. NoTake \in Take /\ NoTake.out = 0 /\ NoTake.gross = 0 /\ NoTake.gives = 0
  BY DEF NoTake, Take
<1>4. tiers[o].out \in Nat /\ Gives(0) = 0
  BY <1>1, RowType, GivesFacts
<1>5. phase # "reverse" => filled.in <= remainingIn
  BY <1>1 DEF PassInv
<1>6. /\ NoTake.out <= tiers[o].out /\ NoTake.gives <= Gives(NoTake.out)
      /\ filled' \in Amount /\ filled'.out = filled.out + NoTake.out
      /\ filled.in + NoTake.gross <= filled'.in /\ (phase # "reverse" => filled'.in <= remainingIn)
  BY <1>1, <1>3, <1>4, <1>5
<1> QED BY <1>2, <1>3, <1>6, RowStep

LEMMA DeleteOwnInv == ASSUME CrossingInv, DeleteOwn PROVE CrossingInv'
<1>1. /\ phase \in Passes /\ Best(ahead) \in ahead /\ Best(ahead) \in Offers /\ deleted \subseteq Offers
  BY Visited DEF DeleteOwn, TypeOK
<1>2. /\ ahead' = ahead \ {Best(ahead)} /\ deleted' \subseteq Offers /\ UNCHANGED <<takes, filled>>
      /\ UNCHANGED <<bookVars, intent, phase, want, adjusted, poolTake, flowVars, outcome>>
  BY <1>1 DEF DeleteOwn
<1> QED BY <1>1, <1>2, NoTakeStep

LEMMA TakeReverseInv == ASSUME CrossingInv, TakeReverse PROVE CrossingInv'
<1> DEFINE o == Best(ahead)
           take == LimitedOut(o, Left)
<1>1. /\ Visit /\ phase = "reverse" /\ takes' = [takes EXCEPT ![o] = take]
      /\ filled' = [out |-> filled.out + take.out, in |-> filled.in + take.gross]
      /\ ahead' = ahead \ {o} /\ deleted' = deleted
      /\ UNCHANGED <<bookVars, intent, phase, want, adjusted, poolTake, flowVars, outcome>>
  BY DEF TakeReverse
<1>2. /\ phase \in Passes /\ phase # "allocate" /\ TypeOK /\ Left \in Nat
      /\ o \in ahead /\ o \in Offers /\ tiers[o].out > 0
  BY <1>1, Visited DEF Passes
<1> HIDE DEF o
<1>3. take \in Take /\ take.out = AtMost(Prepared(o).out, Left) /\ take.gives = Gives(take.out)
  BY <1>2, LimitedOutType, LimitedOutGives
<1>4. /\ Prepared(o).out \in Nat /\ Prepared(o).out <= tiers[o].out /\ tiers[o].out \in Nat
  BY <1>2, PreparedType, PreparedFits, RowType DEF Take
<1>5. take.out <= tiers[o].out
  <2> HIDE DEF take
  <2>1. AtMost(Prepared(o).out, Left) <= Prepared(o).out /\ AtMost(Prepared(o).out, Left) \in Nat
    BY <1>2, <1>4, AtMostBounds
  <2> QED BY <1>3, <1>4, <2>1
<1> HIDE DEF take
<1>6. take.out \in Nat /\ take.gross \in Nat /\ filled.out \in Nat /\ filled.in \in Nat /\ deleted \subseteq Offers
  BY <1>2, <1>3 DEF Take, TypeOK, Amount
<1>7. filled' \in Amount /\ filled'.out = filled.out + take.out /\ filled'.in = filled.in + take.gross
  BY <1>1, <1>6 DEF Amount
<1>8. take.gives <= Gives(take.out)
  <2>1. take.gives \in Nat
    BY <1>3 DEF Take
  <2> QED BY <1>3, <2>1
<1>9. filled.in + take.gross <= filled'.in
  BY <1>6, <1>7
<1> QED BY <1>1, <1>2, <1>3, <1>5, <1>6, <1>7, <1>8, <1>9, RowStep

LEMMA TakeForwardInv == ASSUME CrossingInv, TakeForward PROVE CrossingInv'
<1> DEFINE o == Best(ahead)
           bound == Left < Prepared(o).gross
           take == IF bound THEN LimitedIn(o, Left, RoundsUp) ELSE Prepared(o)
           wanted == want - filled.out
           cutBack == LimitedOut(o, wanted)
           cut == 0 < wanted /\ wanted < take.out /\ cutBack.gross = Left
<1>1. /\ Visit /\ phase \in {"forward", "fallback"}
      /\ ahead' = ahead \ {o} /\ deleted' = deleted
      /\ UNCHANGED <<bookVars, intent, phase, want, adjusted, poolTake, flowVars, outcome>>
      /\ \/ take = NoTake /\ UNCHANGED <<takes, filled>>
         \/ take # NoTake /\ cut /\ takes' = [takes EXCEPT ![o] = cutBack]
            /\ filled' = [out |-> want, in |-> remainingIn]
         \/ take # NoTake /\ ~cut /\ takes' = [takes EXCEPT ![o] = take]
            /\ filled' = [out |-> filled.out + take.out,
                          in  |-> IF bound THEN remainingIn ELSE filled.in + take.gross]
  BY DEF TakeForward
<1>2. /\ phase \in Passes /\ phase # "allocate" /\ TypeOK /\ Left \in Nat
      /\ o \in ahead /\ o \in Offers /\ tiers[o].out > 0
  BY <1>1, Visited DEF Passes
<1>3. /\ filled.out \in Nat /\ filled.in \in Nat /\ remainingIn \in Nat /\ want \in Nat /\ deleted \subseteq Offers
      /\ Left = remainingIn - filled.in
  BY <1>1, <1>2 DEF TypeOK, Amount, Left
<1> HIDE DEF o
<1>4. /\ Prepared(o) \in Take /\ Prepared(o).out \in Nat /\ Prepared(o).gross \in Nat
      /\ Prepared(o).out <= tiers[o].out /\ tiers[o].out \in Nat
      /\ Prepared(o).gives = Gives(Prepared(o).out)
  BY <1>2, PreparedType, PreparedFits, RowType, WholeRowGives DEF Take
<1>5. /\ LimitedIn(o, Left, RoundsUp) \in Take /\ LimitedIn(o, Left, RoundsUp).out <= Prepared(o).out
      /\ LimitedIn(o, Left, RoundsUp).gross <= Left
      /\ LimitedIn(o, Left, RoundsUp) # NoTake =>
           LimitedIn(o, Left, RoundsUp).gives = Gives(LimitedIn(o, Left, RoundsUp).out)
  BY <1>2, LimitedInType, LimitedInGives
<1>6. /\ take \in Take /\ take.out <= Prepared(o).out /\ take.gross <= Left
      /\ take # NoTake => take.gives = Gives(take.out)
  <2>1. CASE bound
    BY <1>5, <2>1
  <2>2. CASE ~bound
    <3>1. take = Prepared(o)
      BY <2>2
    <3>2. Prepared(o).gross <= Left
      BY <1>2, <1>4, <2>2
    <3> HIDE DEF take, bound
    <3> QED BY <1>4, <3>1, <3>2
  <2> QED BY <2>1, <2>2
<1> HIDE DEF take, bound, cut
<1>7. take.out \in Nat /\ take.gross \in Nat /\ take.gives \in Nat
  BY <1>6 DEF Take
<1>8. CASE take = NoTake /\ UNCHANGED <<takes, filled>>
  BY <1>1, <1>2, <1>3, <1>8, NoTakeStep
<1>9. CASE take # NoTake /\ ~cut /\ takes' = [takes EXCEPT ![o] = take]
           /\ filled' = [out |-> filled.out + take.out,
                         in  |-> IF bound THEN remainingIn ELSE filled.in + take.gross]
  <2>1. /\ filled' \in Amount /\ filled'.out = filled.out + take.out
        /\ filled.in + take.gross <= filled'.in /\ filled'.in <= remainingIn
    BY <1>3, <1>6, <1>7, <1>9 DEF Amount
  <2>2. take.out <= tiers[o].out /\ take.gives <= Gives(take.out)
    <3>1. take.out <= tiers[o].out
      BY <1>4, <1>6, <1>7
    <3> QED BY <1>6, <1>7, <1>9, <3>1
  <2> QED BY <1>1, <1>2, <1>3, <1>6, <1>9, <2>1, <2>2, RowStep
<1>10. CASE take # NoTake /\ cut /\ takes' = [takes EXCEPT ![o] = cutBack]
            /\ filled' = [out |-> want, in |-> remainingIn]
  <2>1. wanted \in Nat /\ wanted < Prepared(o).out /\ cutBack.gross = Left
    BY <1>3, <1>4, <1>6, <1>7, <1>10 DEF cut
  <2> HIDE DEF wanted
  <2>2. /\ cutBack \in Take /\ cutBack.out = AtMost(Prepared(o).out, wanted)
        /\ cutBack.gives = Gives(cutBack.out)
    BY <1>2, <2>1, LimitedOutType, LimitedOutGives
  <2>3. AtMost(Prepared(o).out, wanted) = wanted
    BY <1>4, <2>1, UnknownAssumption DEF AtMost
  <2> HIDE DEF cutBack
  <2>4. /\ filled' \in Amount /\ filled'.out = filled.out + cutBack.out
        /\ filled.in + cutBack.gross <= filled'.in /\ filled'.in <= remainingIn
    BY <1>3, <1>10, <2>1, <2>2, <2>3 DEF Amount, wanted
  <2>5. cutBack.out <= tiers[o].out /\ cutBack.gives <= Gives(cutBack.out)
    <3>1. cutBack.gives \in Nat
      BY <2>2 DEF Take
    <3>2. cutBack.out <= tiers[o].out
      BY <1>4, <2>1, <2>2, <2>3
    <3> QED BY <2>2, <3>1, <3>2
  <2> QED BY <1>1, <1>2, <1>3, <1>10, <2>2, <2>4, <2>5, RowStep
<1> QED BY <1>1, <1>8, <1>9, <1>10

-----------------------------------------------------------------------------
(* The end of a pass *)

\* What a round leaves of a row is the row less what it took, and still has
\* funds for all of it.
LEMMA ReplacedRow ==
  ASSUME CrossingInv, phase \in Passes, NEW o \in Offers
  PROVE  LET row == Replaced(o)
         IN  /\ row \in Row
             /\ row.out + takes[o].out <= tiers[o].out
             /\ o \notin deleted => row.out + takes[o].out = tiers[o].out
             /\ row.out > 0 /\ row.funds # Unknown => Gives(row.out) <= row.funds
<1> DEFINE t == tiers[o]
           k == takes[o].out
<1>1. /\ TypeOK /\ t \in Row /\ t.out \in Nat /\ t.in \in Nat /\ t.funds \in Nat \cup {Unknown}
      /\ k \in Nat /\ k <= t.out
  BY RowType, TakeParts DEF CrossingInv, PassInv, TypeOK
<1>2. t.out > 0 /\ t.funds # Unknown => Gives(t.out) <= t.funds
  BY DEF CrossingInv, StaysFunded, Passes
<1>3. CASE o \in deleted
  <2>1. Replaced(o) = [t EXCEPT !.out = 0, !.in = 0]
    BY <1>3 DEF Replaced
  <2>2. Replaced(o) \in Row /\ Replaced(o).out = 0
    <3>1. t = [out |-> t.out, in |-> t.in, funds |-> t.funds]
      BY <1>1 DEF Row
    <3>2. Replaced(o) = [out |-> 0, in |-> 0, funds |-> t.funds]
      <4> HIDE DEF t
      <4> QED BY <2>1, <3>1
    <3> QED BY <1>1, <3>2 DEF Row
  <2> HIDE DEF t, k
  <2> QED BY <1>1, <1>3, <2>2 DEF t, k
<1>4. CASE o \notin deleted /\ ~(k > 0)
  <2>1. Replaced(o) = t
    BY <1>4 DEF Replaced
  <2>2. k = 0
    BY <1>1, <1>4
  <2> QED BY <1>1, <1>2, <2>1, <2>2
<1>5. CASE o \notin deleted /\ k > 0
  <2> DEFINE out == t.out - k
             paid == IF Fee # Parity THEN Remaining(t.funds, k) ELSE t.funds
             in == RoundUp(out, <<t.in, t.out>>)
  <2>1. out \in Nat /\ out <= t.out /\ t.out \in Nat \ {0} /\ out + k = t.out
    <3> HIDE DEF t, k
    <3> QED BY <1>1, <1>5
  <2>2. Replaced(o) = [out |-> out, in |-> in, funds |-> paid]
    <3>1. Replaced(o) = Consumed(o)
      BY <1>5 DEF Replaced
    <3>2. (IF k < t.out THEN t.out - k ELSE 0) = out
      <4> HIDE DEF t, k
      <4> QED BY <1>1
    <3> QED BY <3>1, <3>2 DEF Consumed
  <2> HIDE DEF out
  <2>3. in \in Nat
    BY <1>1, <2>1, RoundUpIsLeast
  <2>4. /\ Gives(k) \in Nat /\ Gives(out) \in Nat /\ Gives(t.out) \in Nat
        /\ Gives(out) + Gives(k) <= Gives(t.out) /\ Gives(out) <= Gives(t.out)
    BY <1>1, <2>1, GivesFacts
  <2> DEFINE gk == Gives(k)
             gout == Gives(out)
             all == Gives(t.out)
             f == t.funds
  <2>5. Remaining(f, k) = IF f = Unknown THEN Unknown ELSE IF gk < f THEN f - gk ELSE 0
    BY DEF Remaining
  <2>6. gk \in Nat /\ gout \in Nat /\ all \in Nat /\ gout + gk <= all /\ gout <= all
        /\ f \in Nat \cup {Unknown} /\ (f # Unknown => all <= f)
    BY <1>1, <1>2, <2>1, <2>4
  <2>7. paid = IF Fee # Parity THEN Remaining(f, k) ELSE f
    OBVIOUS
  <2> HIDE DEF gk, gout, all, f, paid, in
  <2>8. paid \in Nat \cup {Unknown} /\ (paid # Unknown => gout <= paid)
    <3>1. CASE f = Unknown
      BY <2>5, <2>7, <3>1
    <3>2. CASE f # Unknown
      <4>1. f \in Nat /\ all <= f
        BY <2>6, <3>2
      <4>2. (IF gk < f THEN f - gk ELSE 0) \in Nat /\ gout <= (IF gk < f THEN f - gk ELSE 0)
        BY <2>6, <4>1
      <4>3. paid \in {IF gk < f THEN f - gk ELSE 0, f} /\ gout <= f
        BY <2>5, <2>6, <2>7, <3>2, <4>1
      <4> QED BY <4>1, <4>2, <4>3
    <3> QED BY <3>1, <3>2
  <2>9. Replaced(o) \in Row
    BY <2>1, <2>2, <2>3, <2>8 DEF Row
  <2> QED BY <1>1, <2>1, <2>2, <2>8, <2>9 DEF gout
<1> QED BY <1>3, <1>4, <1>5

LEMMA CommitRoundInv == ASSUME CrossingInv, CommitRound PROVE CrossingInv'
<1> DEFINE out == total.out + filled.out
           in == total.in + filled.in
<1>1. /\ phase \in Passes /\ phase # "allocate" /\ TypeOK /\ PassInv /\ TraceInv /\ BudgetInv /\ PoolPaid
      /\ (phase = "reverse" => ~(remainingIn < filled.in))
  BY DEF CommitRound, EndPass, Passes, CrossingInv, Commits, BindsBudget
<1>2. /\ total' = [out |-> out, in |-> in] /\ trace' = [o \in Offers |-> RoundTakes(o)]
      /\ poolTrace' = [k \in DOMAIN poolTrace |-> poolTrace[k] + poolTake[k]]
      /\ removed' = removed \cup deleted /\ tiers' = [o \in Offers |-> Replaced(o)]
      /\ remainingOut' = (IF Reached(out, Target) THEN 0 ELSE Target - out)
      /\ remainingIn' = (IF in >= Budget THEN 0 ELSE Budget - in)
      /\ rounds' = rounds + 1 /\ phase' = "round"
      /\ UNCHANGED <<bookVars, intent, passVars, outcome>>
  BY DEF CommitRound, Commit
<1>3. \/ /\ poolTake # NoPoolTake /\ pool' = Filled(pool, poolTake.in, poolTake.out)
         /\ poolRounds' = poolRounds + 1
      \/ poolTake = NoPoolTake /\ UNCHANGED <<pool, poolRounds>>
  BY DEF CommitRound, Commit
<1>4. /\ total.out \in Nat /\ total.in \in Nat /\ filled.out \in Nat /\ filled.in \in Nat /\ remainingIn \in Nat
      /\ trace \in [Offers -> Take] /\ takes \in [Offers -> Take]
      /\ poolTake.out \in Nat /\ poolTake.in \in Nat /\ poolTake.gross \in Nat
      /\ poolTrace.out \in Nat /\ poolTrace.in \in Nat /\ poolTrace.gross \in Nat
      /\ poolTrace = [out |-> poolTrace.out, in |-> poolTrace.in, gross |-> poolTrace.gross]
      /\ rounds \in Nat /\ MaxRounds \in Nat /\ poolRounds \in Nat /\ MaxPoolRounds \in Nat
  BY <1>1, CrossingAssumption DEF TypeOK, Amount, PoolTake
<1>5. Budget \in Nat /\ Target \in Nat
  BY <1>1, BudgetType
<1>6. filled.in <= remainingIn
  BY <1>1, <1>4 DEF PassInv
<1>7. poolTrace' = [out |-> poolTrace.out + poolTake.out, in |-> poolTrace.in + poolTake.in,
                    gross |-> poolTrace.gross + poolTake.gross]
  <2>1. DOMAIN poolTrace = {"out", "in", "gross"}
    BY <1>4
  <2> QED BY <1>2, <2>1
<1>8. UNCHANGED <<book, ownerPays, intent, rows, outcome, ahead, takes, deleted, filled, want, adjusted, poolTake>>
  BY <1>2 DEF bookVars, passVars
<1>9. Budget' = Budget /\ \A x : Gives(x)' = Gives(x')
  BY <1>8, Fixed
<1>10. AllocationInv' /\ PurseCovers'
  BY <1>2, BookKept DEF CrossingInv
<1>11. /\ trace' \in [Offers -> Take]
       /\ Sum(Outs(trace'), Offers) = Sum(Outs(trace), Offers) + Sum(Outs(takes), Offers)
       /\ Sum(Costs(trace'), Offers) = Sum(Costs(trace), Offers) + Sum(Costs(takes), Offers)
  BY <1>1, <1>2, CommitAdds
<1>12. \A o \in Offers :
         /\ tiers'[o] \in Row /\ tiers'[o].out \in Nat
         /\ tiers'[o].out + takes[o].out <= tiers[o].out
         /\ o \notin deleted => tiers'[o].out + takes[o].out = tiers[o].out
         /\ tiers'[o].out > 0 /\ tiers'[o].funds # Unknown => Gives(tiers'[o].out) <= tiers'[o].funds
  BY <1>1, <1>2, ReplacedRow DEF Row
<1>13. total' \in Amount /\ poolTrace' \in PoolTake
  BY <1>2, <1>4, <1>7 DEF Amount, PoolTake
<1>14. poolTake # NoPoolTake => /\ pool \in Pool /\ pool' \in Pool /\ poolRounds < MaxPoolRounds
                                /\ Pays(pool, poolTake.in, poolTake.out)
                                /\ pool'.x = pool.x + poolTake.in /\ pool'.y = pool.y - poolTake.out
  <2> SUFFICES ASSUME poolTake # NoPoolTake
               PROVE  /\ pool \in Pool /\ pool' \in Pool /\ poolRounds < MaxPoolRounds
                      /\ Pays(pool, poolTake.in, poolTake.out)
                      /\ pool'.x = pool.x + poolTake.in /\ pool'.y = pool.y - poolTake.out
    OBVIOUS
  <2>1. /\ pool # Unknown /\ poolRounds < MaxPoolRounds /\ Pays(pool, poolTake.in, poolTake.out)
    BY <1>1 DEF PassInv, PoolActive
  <2>2. pool \in Pool /\ pool.x \in Nat \ {0} /\ pool.y \in Nat \ {0}
    BY <1>1, <2>1, PoolType, PoolParts
  <2>3. pool' = [x |-> pool.x + poolTake.in, y |-> pool.y - poolTake.out] /\ poolTake.out < pool.y
    BY <1>3, <2>1 DEF Filled, Pays
  <2>4. pool.x + poolTake.in \in Nat \ {0} /\ pool.y - poolTake.out \in Nat \ {0}
    BY <1>4, <2>2, <2>3
  <2> QED BY <2>1, <2>2, <2>3, <2>4 DEF Pool
<1>15. TypeOK'
  <2>1. remainingOut' \in Nat /\ remainingIn' \in Nat
    <3> HIDE DEF out, in
    <3>1. out \in Nat /\ in \in Nat
      BY <1>4 DEF out, in
    <3> QED BY <1>2, <1>5, <3>1 DEF Reached
  <2>2. rounds' \in 0 .. MaxRounds
    BY <1>1, <1>2, <1>4 DEF PassInv
  <2>3. poolRounds' \in 0 .. MaxPoolRounds /\ pool' \in [x : Nat \ {0}, y : Nat \ {0}] \cup {Unknown}
    BY <1>1, <1>3, <1>4, <1>14 DEF TypeOK, Pool
  <2>4. tiers' \in [Offers -> Row] /\ removed' \subseteq Offers /\ phase' \in Phases
    BY <1>1, <1>2, <1>12 DEF TypeOK, Phases
  <2>5. BookTypeOK'
    BY <1>10 DEF AllocationInv
  <2> QED BY <1>1, <1>8, <1>11, <1>13, <2>1, <2>2, <2>3, <2>4, <2>5 DEF TypeOK
<1>16. PassInv'
  BY <1>2 DEF PassInv, Passes
<1>17. TraceInv'
  <2>1. /\ Sum(Outs(trace), Offers) \in Nat /\ Sum(Outs(takes), Offers) \in Nat
        /\ Sum(Costs(trace), Offers) \in Nat /\ Sum(Costs(takes), Offers) \in Nat
    BY <1>4, SumsType
  <2>2. Sum(Outs(trace'), Offers) + poolTrace'.out = total'.out
    BY <1>1, <1>2, <1>4, <1>7, <1>11, <2>1 DEF TraceInv, PassInv
  <2>3. Sum(Costs(trace'), Offers) + poolTrace'.gross <= total'.in
    <3>1. /\ Sum(Costs(trace), Offers) + poolTrace.gross <= total.in
          /\ Sum(Costs(takes), Offers) + poolTake.gross <= filled.in
      BY <1>1 DEF TraceInv, PassInv
    <3>2. poolTrace'.gross = poolTrace.gross + poolTake.gross /\ total'.in = total.in + filled.in
      BY <1>2, <1>7
    <3> QED BY <1>4, <1>11, <2>1, <3>1, <3>2
  <2>4. ASSUME NEW o \in Offers
        PROVE  /\ trace'[o].gives <= Gives(trace[o].out)'
               /\ tiers'[o].out + trace'[o].out <= rows'[o].out
               /\ o \notin removed' => tiers'[o].out + trace'[o].out = rows'[o].out
    <3>1. /\ trace[o].out \in Nat /\ trace[o].gives \in Nat /\ takes[o].out \in Nat /\ takes[o].gives \in Nat
      BY <1>4, TakeParts
    <3>2. trace'[o].out = trace[o].out + takes[o].out /\ trace'[o].gives = trace[o].gives + takes[o].gives
      BY <1>2 DEF RoundTakes
    <3>3. trace[o].gives <= Gives(trace[o].out) /\ takes[o].gives <= Gives(takes[o].out)
      BY <1>1 DEF TraceInv, PassInv
    <3>4. /\ Gives(trace[o].out) \in Nat /\ Gives(takes[o].out) \in Nat /\ Gives(trace[o].out + takes[o].out) \in Nat
          /\ Gives(trace[o].out) + Gives(takes[o].out) <= Gives(trace[o].out + takes[o].out)
      <4>1. trace[o].out + takes[o].out \in Nat
        BY <3>1
      <4> QED BY <1>1, <3>1, <4>1, GivesFacts
    <3>5. trace'[o].gives <= Gives(trace'[o].out)
      BY <3>1, <3>2, <3>3, <3>4
    <3>6. Gives(trace[o].out)' = Gives(trace'[o].out)
      BY <1>9
    <3>7. tiers[o].out \in Nat /\ rows[o].out \in Nat
      BY <1>1, RowType DEF TypeOK, BookTypeOK, Row
    <3>8. /\ tiers[o].out + trace[o].out <= rows[o].out
          /\ o \notin removed => tiers[o].out + trace[o].out = rows[o].out
      BY <1>1 DEF TraceInv
    <3>9. rows' = rows /\ (o \notin removed' => o \notin removed /\ o \notin deleted)
      BY <1>2, <1>8
    <3> QED BY <1>12, <3>1, <3>2, <3>5, <3>6, <3>7, <3>8, <3>9
  <2> QED BY <1>2, <2>2, <2>3, <2>4 DEF TraceInv, Outs, Costs
<1>18. BudgetInv'
  <2>1. total.in <= Budget /\ remainingIn = Budget - total.in /\ total'.in = total.in + filled.in
    BY <1>1, <1>2 DEF BudgetInv
  <2>2. in = total'.in
    BY <2>1
  <2> HIDE DEF in, out
  <2>3. total'.in <= Budget /\ remainingIn' = Budget - total'.in
    BY <1>2, <1>4, <1>5, <1>6, <2>1, <2>2
  <2> QED BY <1>9, <2>3 DEF BudgetInv
<1>19. StaysFunded'
  <2>1. \A o \in Offers : Gives(tiers[o].out)' = Gives(tiers'[o].out)
    BY <1>9
  <2> QED BY <1>12, <2>1 DEF StaysFunded
<1>20. PoolPaid'
  <2>1. CASE poolTake = NoPoolTake
    <3>1. poolTrace'.in = poolTrace.in /\ poolTrace'.out = poolTrace.out /\ pool' = pool
      BY <1>3, <1>4, <1>7, <2>1, NoPoolTakeType
    <3> QED BY <1>1, <3>1 DEF PoolPaid
  <2>2. CASE poolTake # NoPoolTake
    <3> DEFINE x == pool.x - poolTrace.in
               y == pool.y + poolTrace.out
               before == pool.x * pool.y
               after == (pool.x + poolTake.in) * (pool.y - poolTake.out)
    <3>1. pool.x \in Nat /\ pool.y \in Nat /\ poolTake.out < pool.y
      BY <1>14, <2>2, PoolParts DEF Pays
    <3>2. x * y <= before /\ before <= after
      BY <1>1, <1>14, <2>2, UnknownAssumption DEF PoolPaid, Pays, TypeOK, PassInv, PoolActive
    <3>3. pool'.x - poolTrace'.in = x /\ pool'.y + poolTrace'.out = y
      BY <1>4, <1>7, <1>14, <2>2, <3>1
    <3>4. pool'.x * pool'.y = after
      BY <1>14, <2>2
    <3>5. x \in Int /\ y \in Int /\ pool.x + poolTake.in \in Int /\ pool.y - poolTake.out \in Int
      BY <1>4, <3>1
    <3>6. x * y \in Int /\ before \in Int /\ after \in Int
      <4> DEFINE u == pool.x + poolTake.in
                 v == pool.y - poolTake.out
      <4>1. u * v \in Int
        <5>1. u \in Int /\ v \in Int
          BY <3>5
        <5> HIDE DEF u, v
        <5> QED BY <5>1, SMT
      <4>2. x * y \in Int
        <5> HIDE DEF x, y
        <5> QED BY <3>5, SMT
      <4> QED BY <3>1, <4>1, <4>2, SMT
    <3> HIDE DEF x, y, before, after
    <3>7. x * y <= after
      <4> DEFINE z == x * y
      <4>1. z \in Int /\ z <= before
        BY <3>2, <3>6
      <4> HIDE DEF z
      <4>2. z <= after
        BY <3>2, <3>6, <4>1
      <4> QED BY <4>2 DEF z
    <3> QED BY <3>3, <3>4, <3>7 DEF PoolPaid
  <2> QED BY <2>1, <2>2
<1> QED BY <1>10, <1>15, <1>16, <1>17, <1>18, <1>19, <1>20 DEF CrossingInv

-----------------------------------------------------------------------------
(* The other steps *)

LEMMA AllocateInv == ASSUME CrossingInv, Allocate PROVE CrossingInv'
<1>1. /\ phase = "allocate" /\ AllocateRow
      /\ UNCHANGED <<intent, phase, passVars, flowVars, outcome>>
  BY DEF Allocate
<1>2. PICK o \in unsorted : Leads(o, unsorted) /\ RowOf(o)
  BY <1>1, AllocatesOneRow
<1>3. AllocationInv' /\ PurseCovers'
  BY <1>2, InvStep, PurseStep DEF CrossingInv
<1>4. /\ UNCHANGED <<book, ownerPays, intent, outcome, phase, ahead, takes, deleted, filled, want, adjusted,
                     poolTake, tiers, pool, remainingOut, remainingIn, rounds, poolRounds, total, trace,
                     poolTrace, removed>>
  BY <1>1 DEF AllocateRow, passVars, flowVars
<1>5. Budget' = Budget /\ \A x : Gives(x)' = Gives(x')
  BY <1>4, Fixed
<1>6. TypeOK'
  BY <1>3, <1>4 DEF CrossingInv, TypeOK, AllocationInv
<1>7. PassInv' /\ StaysFunded'
  BY <1>1, <1>4 DEF PassInv, StaysFunded, Passes
<1>8. TraceInv'
  BY <1>1, <1>4, <1>5 DEF CrossingInv, TraceInv, Outs, Costs
<1>9. BudgetInv' /\ PoolPaid'
  BY <1>1, <1>4, <1>5 DEF CrossingInv, BudgetInv, PoolPaid
<1> QED BY <1>3, <1>6, <1>7, <1>8, <1>9 DEF CrossingInv

LEMMA BeginFlowInv == ASSUME CrossingInv, BeginFlow PROVE CrossingInv'
<1>1. /\ phase = "allocate" /\ phase' = "round" /\ tiers' = rows
      /\ remainingOut' = Target /\ remainingIn' = Budget
      /\ UNCHANGED <<bookVars, intent, passVars, pool, rounds, poolRounds, total, trace, poolTrace,
                     removed, outcome>>
  BY DEF BeginFlow
<1>2. AllocationInv' /\ PurseCovers'
  BY <1>1, BookKept DEF CrossingInv
<1>3. UNCHANGED <<book, ownerPays, rows, intent, ahead, takes, deleted, filled, want, adjusted, poolTake>>
  BY <1>1 DEF bookVars, passVars
<1>4. Budget' = Budget /\ \A x : Gives(x)' = Gives(x')
  BY <1>3, Fixed
<1>5. TypeOK /\ TraceInv /\ SharesDisjoint /\ Budget \in Nat /\ Target \in Nat /\ rows \in [Offers -> Row]
  BY BudgetType DEF CrossingInv, AllocationInv, TypeOK, BookTypeOK
<1>6. TypeOK'
  <2>1. BookTypeOK' /\ phase' \in Phases
    BY <1>1, <1>2 DEF AllocationInv, Phases
  <2> QED BY <1>1, <1>3, <1>5, <2>1 DEF TypeOK
<1>7. PassInv'
  BY <1>1 DEF PassInv, Passes
<1>8. TraceInv'
  <2>1. ASSUME NEW o \in Offers PROVE tiers'[o].out + trace'[o].out = rows'[o].out /\ rows'[o].out \in Nat
    <3>1. trace'[o].out = 0
      BY <1>1, <1>5 DEF TraceInv, NoTakes, NoTake
    <3>2. rows[o].out \in Nat
      BY <1>5 DEF Row
    <3> QED BY <1>1, <1>3, <3>1, <3>2
  <2> QED BY <1>1, <1>4, <1>5, <2>1 DEF TraceInv, Outs, Costs
<1>9. BudgetInv'
  BY <1>1, <1>4, <1>5 DEF BudgetInv, TraceInv
<1>10. StaysFunded'
  <2>1. \A o \in Offers : Gives(tiers[o].out)' = Gives(tiers'[o].out)
    BY <1>4
  <2> QED BY <1>1, <1>5, <2>1 DEF StaysFunded, SharesDisjoint
<1>11. PoolPaid'
  BY <1>1 DEF CrossingInv, PoolPaid
<1> QED BY <1>2, <1>6, <1>7, <1>8, <1>9, <1>10, <1>11 DEF CrossingInv

LEMMA BeginRoundInv == ASSUME CrossingInv, BeginRound PROVE CrossingInv'
<1> DEFINE cap == LimitOut(PoolIsTip, InFee, remainingOut)
<1>1. /\ phase = "round" /\ rounds < MaxRounds /\ StartPass("reverse", cap)
      /\ adjusted' \in BOOLEAN /\ UNCHANGED <<bookVars, intent, flowVars, outcome>>
  BY DEF BeginRound, GoesOn
<1>2. TypeOK /\ remainingOut \in Nat /\ PoolIsTip \in BOOLEAN /\ (PoolIsTip => pool # Unknown)
  BY DEF CrossingInv, TypeOK, PoolIsTip, PoolActive
<1>3. cap \in Nat
  BY <1>2, FeesType, LimitOutType
<1> HIDE DEF cap
<1> QED BY <1>1, <1>3, StartPassInv DEF Passes

LEMMA RunForwardInv == ASSUME CrossingInv, RunForward PROVE CrossingInv'
<1>1. /\ phase \in Passes /\ StartPass("forward", filled.out)
      /\ UNCHANGED <<bookVars, intent, adjusted, flowVars, outcome>>
  BY DEF RunForward, EndPass
<1>2. rounds < MaxRounds /\ filled.out \in Nat /\ adjusted' \in BOOLEAN /\ phase # "allocate"
  BY <1>1 DEF CrossingInv, PassInv, TypeOK, Amount, Passes
<1> QED BY <1>1, <1>2, StartPassInv DEF Passes

LEMMA RunFallbackInv == ASSUME CrossingInv, RunFallback PROVE CrossingInv'
<1>1. /\ phase = "reverse" /\ StartPass("fallback", Capacity)
      /\ UNCHANGED <<bookVars, intent, adjusted, flowVars, outcome>>
  BY DEF RunFallback
<1>2. rounds < MaxRounds /\ Capacity \in Nat /\ adjusted' \in BOOLEAN
  BY <1>1, CapacityType DEF CrossingInv, PassInv, TypeOK, Passes
<1> QED BY <1>1, <1>2, StartPassInv DEF Passes

\* The flow stops, or the verdict falls.
LEMMA StopInv ==
  ASSUME CrossingInv, phase # "allocate", phase' \in {"settle", "done"}, outcome' \in Outcomes,
         UNCHANGED <<bookVars, intent, passVars, flowVars>>
  PROVE  CrossingInv'
<1>1. AllocationInv' /\ PurseCovers' /\ TraceInv' /\ BudgetInv' /\ StaysFunded' /\ PoolPaid'
  BY FlowKept
<1>2. PassInv'
  BY DEF PassInv, Passes
<1>3. TypeOK'
  <2>1. UNCHANGED <<ahead, takes, deleted, filled, want, adjusted, poolTake, tiers, pool, remainingOut,
                    remainingIn, rounds, poolRounds, total, trace, poolTrace, removed>>
    BY DEF passVars, flowVars
  <2>2. BookTypeOK' /\ phase' \in Phases
    BY <1>1 DEF AllocationInv, Phases
  <2> QED BY <2>1, <2>2 DEF CrossingInv, TypeOK
<1> QED BY <1>1, <1>2, <1>3 DEF CrossingInv

LEMMA StopsInv == ASSUME CrossingInv, StopFlow \/ EndFlow \/ Settle PROVE CrossingInv'
<1>1. outcome \in Outcomes
  BY DEF CrossingInv, TypeOK
<1>2. CASE StopFlow
  BY <1>1, <1>2, StopInv DEF StopFlow
<1>3. CASE EndFlow
  BY <1>1, <1>3, StopInv DEF EndFlow, EndPass, Passes
<1>4. CASE Settle
  <2>1. PaymentOutcome \in Outcomes /\ OfferOutcome \in Outcomes
    BY DEF PaymentOutcome, OfferOutcome, Outcomes
  <2> QED BY <1>4, <2>1, StopInv DEF Settle
<1> QED BY <1>2, <1>3, <1>4

LEMMA StutterInv == ASSUME CrossingInv, UNCHANGED vars PROVE CrossingInv'
<1>1. AllocationInv' /\ PurseCovers'
  BY BookKept DEF CrossingInv, vars
<1>2. UNCHANGED <<book, ownerPays, rows, intent, outcome, phase, ahead, takes, deleted, filled, want, adjusted,
                  poolTake, tiers, pool, remainingOut, remainingIn, rounds, poolRounds, total, trace,
                  poolTrace, removed>>
  BY DEF vars, bookVars, passVars, flowVars
<1>3. Budget' = Budget /\ \A x : Gives(x)' = Gives(x')
  BY <1>2, Fixed
<1>4. TypeOK'
  BY <1>1, <1>2 DEF CrossingInv, TypeOK, AllocationInv
<1>5. PassInv'
  BY <1>2, <1>3 DEF CrossingInv, PassInv, PoolActive, Outs, Costs, Pays
<1>6. TraceInv'
  BY <1>2, <1>3 DEF CrossingInv, TraceInv, Outs, Costs
<1>7. BudgetInv' /\ StaysFunded' /\ PoolPaid'
  BY <1>2, <1>3 DEF CrossingInv, BudgetInv, StaysFunded, PoolPaid
<1> QED BY <1>1, <1>4, <1>5, <1>6, <1>7 DEF CrossingInv

\* A transaction, any one there is, before its first step.
Ready ==
  /\ book \in SnapshotBook /\ funds \in [Accounts -> Nat \cup {Unknown}] /\ ownerPays = OfferCrossing
  /\ intent \in Intent /\ pool \in Pool \cup {Unknown} /\ Begins

LEMMA InitReady == Init => Ready
BY BookInitReady, CrossingAssumption DEF Init, BookReady, Ready, Pool

LEMMA CrossingInit == Ready => CrossingInv
<1> SUFFICES ASSUME Ready PROVE CrossingInv
  OBVIOUS
<1>1. /\ BookReady /\ intent \in Intent /\ phase = "allocate" /\ tiers = rows /\ pool \in Pool \cup {Unknown}
      /\ ahead = {} /\ takes = NoTakes /\ deleted = {}
      /\ filled = Nothing /\ want = 0 /\ adjusted = FALSE /\ poolTake = NoPoolTake
      /\ remainingOut = 0 /\ remainingIn = 0 /\ rounds = 0 /\ poolRounds = 0
      /\ total = Nothing /\ trace = NoTakes /\ poolTrace = NoPoolTake /\ removed = {}
      /\ outcome = "none"
  BY DEF Ready, Begins, BookReady, OfferCrossing
<1>2. AllocationInv /\ BookTypeOK
  BY <1>1, InvInit DEF AllocationInv
<1>3. TypeOK
  <2>1. NoTakes \in [Offers -> Take] /\ Nothing \in Amount /\ NoPoolTake \in PoolTake
    BY DEF NoTakes, NoTake, Take, Nothing, Amount, NoPoolTake, PoolTake
  <2>2. rounds \in 0 .. MaxRounds /\ poolRounds \in 0 .. MaxPoolRounds
    BY <1>1, CrossingAssumption
  <2>3. pool \in [x : Nat \ {0}, y : Nat \ {0}] \cup {Unknown}
    BY <1>1 DEF Pool
  <2>4. phase \in Phases /\ outcome \in Outcomes
    BY <1>1 DEF Phases, Outcomes
  <2> QED BY <1>1, <1>2, <2>1, <2>2, <2>3, <2>4 DEF TypeOK, BookTypeOK
<1>4. Gives(0) = 0
  BY <1>3, GivesFacts
<1>5. PurseCovers
  BY <1>1, PurseInit
<1>6. PassInv /\ StaysFunded
  BY <1>1 DEF PassInv, StaysFunded, Passes
<1>7. TraceInv
  <2>1. \A o \in Offers : trace[o].gives <= Gives(trace[o].out)
    BY <1>1, <1>4 DEF NoTakes, NoTake
  <2> QED BY <1>1, <2>1, NoTakesSums, NoPoolTakeType DEF TraceInv, Nothing
<1>8. BudgetInv
  BY <1>1, <1>3, BudgetType DEF BudgetInv, Nothing
<1>9. PoolPaid
  <2> SUFFICES ASSUME pool # Unknown
               PROVE (pool.x - poolTrace.in) * (pool.y + poolTrace.out) <= pool.x * pool.y
    BY DEF PoolPaid
  <2>1. pool.x \in Nat /\ pool.y \in Nat /\ pool.x * pool.y \in Nat
    BY <1>3, PoolType, PoolParts
  <2>2. pool.x - poolTrace.in = pool.x /\ pool.y + poolTrace.out = pool.y
    BY <1>1, <2>1, NoPoolTakeType
  <2> QED BY <2>1, <2>2
<1> QED BY <1>2, <1>3, <1>5, <1>6, <1>7, <1>8, <1>9 DEF CrossingInv

LEMMA CrossingStep == CrossingInv /\ [Next]_vars => CrossingInv'
<1> SUFFICES ASSUME CrossingInv, [Next]_vars PROVE CrossingInv'
  OBVIOUS
<1>1. CASE Allocate
  BY <1>1, AllocateInv
<1>2. CASE BeginFlow
  BY <1>2, BeginFlowInv
<1>3. CASE BeginRound
  BY <1>3, BeginRoundInv
<1>4. CASE StopFlow \/ EndFlow \/ Settle
  BY <1>4, StopsInv
<1>5. CASE DeleteOwn
  BY <1>5, DeleteOwnInv
<1>6. CASE TakeReverse
  BY <1>6, TakeReverseInv
<1>7. CASE TakeForward
  BY <1>7, TakeForwardInv
<1>8. CASE RunForward
  BY <1>8, RunForwardInv
<1>9. CASE RunFallback
  BY <1>9, RunFallbackInv
<1>10. CASE CommitRound
  BY <1>10, CommitRoundInv
<1>11. CASE UNCHANGED vars
  BY <1>11, StutterInv
<1> QED BY <1>1, <1>2, <1>3, <1>4, <1>5, <1>6, <1>7, <1>8, <1>9, <1>10, <1>11 DEF Next, Pass

LEMMA CrossingInvariant == Spec => []CrossingInv
BY InitReady, CrossingInit, CrossingStep, PTL DEF Spec

-----------------------------------------------------------------------------
(* What follows *)

\* A flow holds only whole, non-negative amounts, and stays within its limits
\* on rounds: no subtraction of a book step, of its fallback or of what is
\* committed goes below zero, whatever book, pool, fees and transaction.
THEOREM CrossingTypeCorrect == Spec => []TypeOK
<1>1. CrossingInv => TypeOK
  BY DEF CrossingInv
<1> QED BY <1>1, CrossingInvariant, PTL

\* However many rounds execute_single_path_intent takes, in reverse or forward
\* and fees included, the source never pays more than SendMax and its funds.
THEOREM NeverOverspends == Spec => [](total.in <= Budget)
<1>1. CrossingInv => total.in <= Budget
  BY DEF CrossingInv, BudgetInv
<1> QED BY <1>1, CrossingInvariant, PTL

\* What a flow reports is what it did: all_trace is missing from the rows of the
\* offers, adds up to the output, and nobody got more input than was spent.
THEOREM TraceAddsUp == Spec => []TraceAccounts
<1>1. CrossingInv => TraceAccounts
  BY DEF CrossingInv, TraceInv, TraceAccounts, Outs, Costs
<1> QED BY <1>1, CrossingInvariant, PTL

\* The product of the sides of the pool never falls, at any trading fee and with
\* any mix of slices: found in output or in input, cut or rounded.
THEOREM PoolNeverLoses == Spec => []PoolPaid
<1>1. CrossingInv => PoolPaid
  BY DEF CrossingInv
<1> QED BY <1>1, CrossingInvariant, PTL

\* Funds allocated to a row by book_offers stay enough for what is left of it,
\* after any number of partial takes and at any transfer fee.
THEOREM RowsStayFunded == Spec => []StaysFunded
<1>1. CrossingInv => StaysFunded
  BY DEF CrossingInv
<1> QED BY <1>1, CrossingInvariant, PTL

\* Crossing a book implements its allocation: whatever the flow does, the book
\* side of a run is a run of build_clob_segments_from_offers ...
THEOREM CrossingRefinesAllocation == Spec => BookSpec
<1>1. Init => BookInit
  BY DEF Init
<1>2. [Next]_vars => [AllocateRow]_bookVars
  <2> SUFFICES ASSUME [Next]_vars PROVE AllocateRow \/ UNCHANGED bookVars
    OBVIOUS
  <2>1. CASE Allocate
    BY <2>1 DEF Allocate
  <2>2. CASE BeginFlow \/ BeginRound \/ StopFlow \/ Settle
    BY <2>2 DEF BeginFlow, BeginRound, StopFlow, Settle
  <2>3. CASE Pass
    BY <2>3 DEF Pass, DeleteOwn, TakeReverse, TakeForward, RunForward, RunFallback, CommitRound, Commit, EndFlow
  <2>4. CASE UNCHANGED vars
    BY <2>4 DEF vars
  <2> QED BY <2>1, <2>2, <2>3, <2>4 DEF Next
<1> QED BY <1>1, <1>2, PTL DEF Spec, BookSpec

\* ... so while it is crossed, too, no quantum of funds is promised to two rows,
\* and an offer is cut only by better ones of its owner.
THEOREM CrossedSharesDisjoint == Spec => []SharesDisjoint /\ []CutOnlyByBetter
BY CrossingRefinesAllocation, SharesAreDisjoint, CutsAreByBetter, PTL

\* What the offers of an owner give is covered by what they were allocated.
LEMMA OwnersPay == CrossingInv => FundsKept
<1> SUFFICES ASSUME CrossingInv, NEW a \in Accounts, funds[a] # Unknown
             PROVE  Sum(GivesOf(trace, a), Offers) <= funds[a]
  BY DEF FundsKept, GivesOf
<1> DEFINE given == GivesOf(trace, a)
           granted == [o \in Offers |-> IF book[o].owner = a THEN Gives(rows[o].out) ELSE 0]
<1>1. /\ TypeOK /\ TraceInv /\ trace \in [Offers -> Take] /\ rows \in [Offers -> Row]
      /\ tiers \in [Offers -> Row] /\ purse[a] \in Nat \cup {Unknown} /\ funds[a] \in Nat \cup {Unknown}
  BY BookAssumption DEF CrossingInv, TypeOK, BookTypeOK
<1>2. purse[a] # Unknown /\ purse[a] + Sum(granted, Offers) = funds[a]
  BY DEF CrossingInv, PurseCovers
<1>3. ASSUME NEW o \in Offers
      PROVE  trace[o].gives \in Nat /\ Gives(rows[o].out) \in Nat /\ trace[o].gives <= Gives(rows[o].out)
  <2>1. /\ trace[o].gives \in Nat /\ trace[o].out \in Nat /\ rows[o].out \in Nat /\ tiers[o].out \in Nat
    BY <1>1, TakeParts DEF Row
  <2>2. trace[o].out <= rows[o].out
    <3>1. CASE phase = "allocate"
      BY <1>1, <2>1, <3>1 DEF TraceInv, NoTakes, NoTake
    <3>2. CASE phase # "allocate"
      BY <1>1, <2>1, <3>2 DEF TraceInv
    <3> QED BY <3>1, <3>2
  <2>3. trace[o].gives <= Gives(trace[o].out)
    BY <1>1 DEF TraceInv
  <2>4. /\ Gives(trace[o].out) \in Nat /\ Gives(rows[o].out) \in Nat
        /\ Gives(trace[o].out) <= Gives(rows[o].out)
    BY <1>1, <2>1, <2>2, GivesFacts
  <2> QED BY <2>1, <2>3, <2>4
<1>4. \A o \in Offers : given[o] \in Nat /\ granted[o] \in Nat /\ given[o] <= granted[o]
  BY <1>3 DEF GivesOf
<1> HIDE DEF given, granted
<1>5. /\ Sum(given, Offers) <= Sum(granted, Offers)
      /\ Sum(given, Offers) \in Nat /\ Sum(granted, Offers) \in Nat
  BY <1>4, OffersFinite, SumMonotone, SumType
<1>6. purse[a] \in Nat /\ funds[a] \in Nat
  BY <1>1, <1>2
<1> QED BY <1>2, <1>5, <1>6 DEF given

\* No owner pays more than its funds for all its offers together, whatever the
\* transfer fee and the number of rounds: rounding a share down in parts never
\* takes more than rounding it down as a whole.
THEOREM OwnersNeverOverpay == Spec => []FundsKept
BY OwnersPay, CrossingInvariant, PTL

-----------------------------------------------------------------------------
(* The limit of the whole, without a pool *)

\* What a pass may visit depends on the book, the rows and the transaction.
LEMMA RowsStable ==
  ASSUME UNCHANGED <<book, ownerPays, intent, tiers>>
  PROVE  /\ LimitRate' = LimitRate
         /\ \A r : TooDear(r)' <=> TooDear(r')
         /\ Candidates' = Candidates
         /\ \A o \in Offers : OwnCross(o)' <=> OwnCross(o)
         /\ Blocked' <=> Blocked
<1>1. UNCHANGED book /\ UNCHANGED ownerPays /\ UNCHANGED intent /\ UNCHANGED tiers
  OBVIOUS
<1>2. SendMax' = SendMax /\ OfferCrossing' = OfferCrossing
  BY <1>1 DEF SendMax, OfferCrossing, RoundUp
<1>3. LimitRate' = LimitRate
  BY <1>1, <1>2 DEF LimitRate
<1>4. \A r : TooDear(r)' <=> TooDear(r')
  BY <1>1, <1>3 DEF TooDear, Cheaper
<1>5. \A o \in Offers : Rate(o)' = Rate(o) /\ InFeeOf(o)' = InFeeOf(o)
  BY <1>1, <1>2 DEF Rate, InFeeOf, Parity
<1>6. Fee' = Fee
  BY <1>1 DEF Fee, Parity
<1>7. \A o \in Offers : Executable(o)' <=> Executable(o)
  BY <1>1, <1>5, <1>6 DEF Executable, Prepared, Gives, AtMost, RoundDown, RoundUp, Flip
<1>8. Candidates' = Candidates
  BY <1>2, <1>3, <1>5, <1>7 DEF Candidates, Cheaper
<1>9. \A o \in Offers : TooDear(Rate(o))' <=> TooDear(Rate(o))
  BY <1>4, <1>5
<1>10. \A o \in Offers : OwnCross(o)' <=> OwnCross(o)
  BY <1>1, <1>2, <1>9 DEF OwnCross
<1>11. \A o, p \in Offers : Before(o, p)' <=> Before(o, p)
  BY <1>1 DEF Before, Cheaper
<1>12. Candidates \subseteq Offers
  BY DEF Candidates
<1>13. Best(Candidates)' = Best(Candidates)
  BY <1>1, <1>8 DEF Best, Leads, Before, Cheaper
<1>14. LeadingOwn' = LeadingOwn
  <2>1. \A o \in Candidates : Cheaper(Rate(Best(Candidates)), Rate(o))' <=> Cheaper(Rate(Best(Candidates)), Rate(o))
    BY <1>1, <1>13 DEF Rate, Cheaper
  <2> QED BY <1>8, <1>10, <1>11, <1>12, <2>1 DEF LeadingOwn
<1>15. Best(Candidates \ LeadingOwn)' = Best(Candidates \ LeadingOwn)
  BY <1>1, <1>8, <1>14 DEF Best, Leads, Before, Cheaper
<1>16. TooDear(Rate(Best(Candidates \ LeadingOwn)))' <=> TooDear(Rate(Best(Candidates \ LeadingOwn)))
  BY <1>1, <1>3, <1>15 DEF TooDear, Cheaper, Rate
<1>17. Blocked' <=> Blocked
  BY <1>8, <1>14, <1>16 DEF Blocked
<1> QED BY <1>3, <1>4, <1>8, <1>10, <1>17
\* Without a pool a round that is dry in reverse is dry in its fallback too,
\* which therefore commits nothing that was not held against the limit.
LimitInv ==
  /\ pool = Unknown /\ ~adjusted
  /\ total = Nothing \/ ~TooDear(<<total.in, total.out>>)
  /\ phase = "reverse" => ahead \subseteq Candidates
  /\ phase = "reverse" /\ filled.out = 0 =>
       /\ want > 0 /\ \A o \in Offers : takes[o].out = 0
       /\ \A o \in Candidates \ ahead : OwnCross(o)
  /\ phase = "fallback" =>
       filled.out = 0 /\ (Blocked \/ \A o \in ahead : OwnCross(o))

\* Two amounts within the limit are within it together.
LEMMA WithinTogether ==
  ASSUME TypeOK, NEW a \in Amount, NEW b \in Amount,
         ~TooDear(<<a.in, a.out>>), ~TooDear(<<b.in, b.out>>)
  PROVE  ~TooDear(<<a.in + b.in, a.out + b.out>>)
<1>1. CASE LimitRate = Unknown
  BY <1>1 DEF TooDear
<1>2. CASE LimitRate # Unknown
  <2> DEFINE n == LimitRate[1]
             d == LimitRate[2]
  <2>1. n \in Nat /\ d \in Nat
    BY <1>2, BudgetType, RateParts
  <2>2. a.in \in Nat /\ a.out \in Nat /\ b.in \in Nat /\ b.out \in Nat
    BY DEF Amount
  <2> HIDE DEF n, d
  <2>3. /\ (a.in + b.in) * d = a.in * d + b.in * d /\ n * (a.out + b.out) = n * a.out + n * b.out
        /\ a.in * d \in Nat /\ b.in * d \in Nat /\ n * a.out \in Nat /\ n * b.out \in Nat
    BY <2>1, <2>2, SMT
  <2>4. CASE intent.passive
    <3>1. a.in * d < n * a.out /\ b.in * d < n * b.out
      BY <1>2, <2>4 DEF TooDear, Cheaper, n, d
    <3>2. (a.in + b.in) * d < n * (a.out + b.out)
      BY <2>3, <3>1
    <3> QED BY <1>2, <2>4, <3>2 DEF TooDear, Cheaper, n, d
  <2>5. CASE ~intent.passive
    <3>1. ~(n * a.out < a.in * d) /\ ~(n * b.out < b.in * d)
      BY <1>2, <2>5 DEF TooDear, Cheaper, n, d
    <3>2. ~(n * (a.out + b.out) < (a.in + b.in) * d)
      BY <2>3, <3>1
    <3> QED BY <1>2, <2>5, <3>2 DEF TooDear, Cheaper, n, d
  <2> QED BY <2>4, <2>5
<1> QED BY <1>1, <1>2

\* Without a pool a pass goes straight to the book.
LEMMA PassOfBook ==
  ASSUME pool = Unknown, NEW direction, NEW cap, StartPass(direction, cap)
  PROVE  /\ phase' = direction /\ want' = cap /\ takes' = NoTakes
         /\ ahead' = Candidates /\ filled' = Nothing
<1>1. PoolSlice(cap) = NoSlice
  BY DEF PoolSlice, PoolActive
<1>2. PoolTakeOf(NoSlice, direction, cap) = NoPoolTake
  BY DEF PoolTakeOf
<1>3. PassWith(NoSlice, NoPoolTake)
  BY <1>1, <1>2 DEF StartPass
<1> QED BY <1>3, NoPoolTakeType DEF StartPass, PassWith

LEMMA LimitInit == ASSUME Pools = {Unknown}, Init PROVE LimitInv
BY CrossingAssumption DEF Init, Begins, LimitInv

\* Steps that leave pool, total and passes as they are.
LEMMA LimitFrame ==
  ASSUME LimitInv, phase' \notin {"reverse", "fallback"}, UNCHANGED <<intent, pool, total, adjusted>>
  PROVE  LimitInv'
<1>1. SendMax' = SendMax /\ OfferCrossing' = OfferCrossing
  BY DEF SendMax, OfferCrossing, RoundUp
<1>2. LimitRate' = LimitRate
  BY <1>1 DEF LimitRate
<1> QED BY <1>2 DEF LimitInv, TooDear, Cheaper

LEMMA LimitBegin == ASSUME CrossingInv, LimitInv, BeginRound PROVE LimitInv'
<1> DEFINE cap == LimitOut(PoolIsTip, InFee, remainingOut)
<1>1. /\ StartPass("reverse", cap) /\ remainingOut > 0 /\ adjusted' = (want' < remainingOut)
      /\ UNCHANGED <<bookVars, intent, flowVars>>
  BY DEF BeginRound, GoesOn
<1>2. cap = remainingOut /\ remainingOut \in Nat
  BY DEF LimitInv, LimitOut, PoolIsTip, PoolActive, CrossingInv, TypeOK
<1>3. UNCHANGED <<book, ownerPays, intent, tiers>> /\ UNCHANGED <<pool, total>>
  BY <1>1 DEF bookVars, flowVars
<1> HIDE DEF cap
<1>4. /\ phase' = "reverse" /\ want' = cap /\ takes' = NoTakes /\ ahead' = Candidates
      /\ filled' = Nothing
  BY <1>1, PassOfBook DEF LimitInv
<1>5. /\ Candidates' = Candidates /\ \A r : TooDear(r)' <=> TooDear(r')
  BY <1>3, RowsStable
<1>6. ~adjusted' /\ want' > 0
  <2>1. want' = remainingOut /\ want' > 0 /\ ~(want' < remainingOut)
    BY <1>1, <1>2, <1>4
  <2> QED BY <1>1, <2>1, Zenon
<1>7. total' = Nothing \/ ~TooDear(<<total.in, total.out>>)'
  BY <1>3, <1>5 DEF LimitInv
<1>8. \A o \in Offers : takes'[o].out = 0
  BY <1>4 DEF NoTakes, NoTake
<1> QED BY <1>3, <1>4, <1>5, <1>6, <1>7, <1>8 DEF LimitInv

LEMMA LimitFallback == ASSUME CrossingInv, LimitInv, RunFallback PROVE LimitInv'
<1>1. /\ phase = "reverse" /\ ~PassOpen /\ filled.out = 0
      /\ StartPass("fallback", Capacity)
      /\ UNCHANGED <<bookVars, intent, adjusted, flowVars>>
  BY DEF RunFallback, EndPass
<1>2. UNCHANGED <<book, ownerPays, intent, tiers>> /\ UNCHANGED <<pool, total>>
  BY <1>1 DEF bookVars, flowVars
<1>3. phase' = "fallback" /\ ahead' = Candidates /\ filled' = Nothing
  BY <1>1, PassOfBook DEF LimitInv
<1>4. /\ Candidates' = Candidates /\ \A r : TooDear(r)' <=> TooDear(r')
      /\ \A o \in Offers : OwnCross(o)' <=> OwnCross(o)
      /\ Blocked' <=> Blocked
  BY <1>2, RowsStable
<1>5. Blocked \/ ahead = {}
  <2>1. want > 0 /\ \A o \in Offers : takes[o].out = 0
    BY <1>1 DEF LimitInv
  <2>2. Left > 0
    BY <1>1, <2>1 DEF Left, CrossingInv, TypeOK
  <2>3. SameQuality(Best(ahead))
    BY <2>1 DEF SameQuality
  <2> QED BY <1>1, <2>2, <2>3 DEF PassOpen
<1>6. Blocked' \/ \A o \in ahead' : OwnCross(o)'
  BY <1>1, <1>3, <1>4, <1>5 DEF LimitInv, Candidates
<1>7. total' = Nothing \/ ~TooDear(<<total.in, total.out>>)'
  BY <1>2, <1>4 DEF LimitInv
<1>8. filled'.out = 0
  BY <1>3 DEF Nothing
<1> QED BY <1>1, <1>2, <1>3, <1>6, <1>7, <1>8 DEF LimitInv

\* A pass over the rows of the book.
LEMMA LimitRows ==
  ASSUME CrossingInv, LimitInv, DeleteOwn \/ TakeReverse \/ TakeForward PROVE LimitInv'
<1>1. /\ Visit /\ UNCHANGED <<bookVars, intent, phase, adjusted, flowVars>> /\ UNCHANGED want
      /\ ahead' = ahead \ {Best(ahead)}
  BY DEF DeleteOwn, TakeReverse, TakeForward
<1>2. UNCHANGED <<book, ownerPays, intent, tiers>> /\ UNCHANGED <<pool, total>>
  BY <1>1 DEF bookVars, flowVars
<1>3. /\ Candidates' = Candidates /\ \A r : TooDear(r)' <=> TooDear(r')
      /\ \A o \in Offers : OwnCross(o)' <=> OwnCross(o)
      /\ Blocked' <=> Blocked
  BY <1>2, RowsStable
<1>4. Best(ahead) \in ahead /\ Best(ahead) \in Offers /\ ahead \subseteq Offers /\ Left \in Nat /\ Left > 0
  BY <1>1, Visited DEF TypeOK
<1>5. total' = Nothing \/ ~TooDear(<<total.in, total.out>>)'
  BY <1>2, <1>3 DEF LimitInv
<1>6. CASE DeleteOwn
  <2>1. OwnCross(Best(ahead)) /\ UNCHANGED <<takes, filled>>
    BY <1>6 DEF DeleteOwn
  <2>2. Candidates \subseteq Offers
    BY DEF Candidates
  <2>3. \A o \in Candidates' \ ahead' : o \in Candidates \ ahead \/ o = Best(ahead)
    BY <1>1, <1>3
  <2>4. phase' = "reverse" /\ filled'.out = 0 => \A o \in Candidates' \ ahead' : OwnCross(o)'
    BY <1>1, <1>3, <2>1, <2>2, <2>3 DEF LimitInv
  <2>5. phase' = "fallback" => Blocked' \/ \A o \in ahead' : OwnCross(o)'
    BY <1>1, <1>3, <1>4 DEF LimitInv
  <2> QED BY <1>1, <1>2, <1>3, <1>5, <2>1, <2>4, <2>5 DEF LimitInv
<1>7. CASE TakeReverse
  <2> DEFINE o == Best(ahead)
  <2>1. /\ phase = "reverse" /\ filled'.out = filled.out + LimitedOut(o, Left).out
    BY <1>7 DEF TakeReverse
  <2>2. o \in Candidates /\ o \in Offers /\ filled.out \in Nat
    BY <1>4, <2>1 DEF LimitInv, CrossingInv, TypeOK, Amount
  <2> HIDE DEF o
  <2>3. Prepared(o).out > 0 /\ Prepared(o).out \in Nat
    BY <2>2, PreparedType DEF Candidates, Executable, CrossingInv, Take
  <2>4. LimitedOut(o, Left).out \in Nat \ {0}
    BY <1>4, <2>3 DEF LimitedOut
  <2>5. filled'.out # 0
    BY <2>1, <2>2, <2>4
  <2>6. ahead' \subseteq Candidates'
    BY <1>1, <1>3, <2>1 DEF LimitInv
  <2> QED BY <1>1, <1>2, <1>5, <2>1, <2>5, <2>6 DEF LimitInv
<1>8. CASE TakeForward
  <2>1. phase \in {"forward", "fallback"} /\ ~OwnCross(Best(ahead)) /\ ~Blocked
    BY <1>1, <1>8 DEF TakeForward, Visit, PassOpen
  <2>2. phase = "forward"
    BY <1>4, <2>1 DEF LimitInv
  <2> QED BY <1>1, <1>2, <2>2, LimitFrame
<1> QED BY <1>6, <1>7, <1>8

LEMMA LimitCommit == ASSUME CrossingInv, LimitInv, CommitRound PROVE LimitInv'
<1>1. /\ phase \in Passes /\ filled.out > 0 /\ (phase # "fallback" => KeepsLimit)
      /\ phase' = "round" /\ total' = [out |-> total.out + filled.out, in |-> total.in + filled.in]
      /\ UNCHANGED <<bookVars, intent, passVars>>
  BY DEF CommitRound, EndPass, Commits, Commit
<1>2. phase # "fallback"
  BY <1>1 DEF LimitInv
<1>3. TypeOK /\ PassInv /\ total \in Amount /\ filled \in Amount /\ ~adjusted
  BY DEF CrossingInv, LimitInv, TypeOK
<1>4. ~TooDear(<<filled.in, filled.out>>)
  BY <1>1, <1>2, <1>3 DEF KeepsLimit
<1>5. ~TooDear(<<total'.in, total'.out>>)
  <2>1. CASE total = Nothing
    <3>1. total'.out = filled.out /\ total'.in = filled.in
      BY <1>1, <1>3, <2>1 DEF Nothing, Amount
    <3> QED BY <1>4, <3>1
  <2>2. CASE ~TooDear(<<total.in, total.out>>)
    <3>1. ~TooDear(<<total.in + filled.in, total.out + filled.out>>)
      BY <1>3, <1>4, <2>2, WithinTogether
    <3> QED BY <1>1, <3>1
  <2> QED BY <2>1, <2>2 DEF LimitInv
<1>6. pool' = pool
  <2>1. poolTake = NoPoolTake
    BY <1>1, <1>3 DEF PassInv, PoolActive, LimitInv
  <2> QED BY <2>1 DEF CommitRound, Commit
<1>7. UNCHANGED intent /\ UNCHANGED adjusted
  BY <1>1 DEF passVars
<1>8. SendMax' = SendMax /\ OfferCrossing' = OfferCrossing
  BY <1>7 DEF SendMax, OfferCrossing, RoundUp
<1>9. LimitRate' = LimitRate
  BY <1>7, <1>8 DEF LimitRate
<1>10. ~TooDear(<<total.in, total.out>>)'
  BY <1>5, <1>7, <1>9 DEF TooDear, Cheaper
<1> QED BY <1>1, <1>3, <1>6, <1>7, <1>10 DEF LimitInv

LEMMA LimitStep == CrossingInv /\ LimitInv /\ [Next]_vars => LimitInv'
<1> SUFFICES ASSUME CrossingInv, LimitInv, [Next]_vars PROVE LimitInv'
  OBVIOUS
<1>1. CASE Allocate
  BY <1>1, LimitFrame DEF Allocate, passVars, flowVars
<1>2. CASE BeginFlow
  BY <1>2, LimitFrame DEF BeginFlow, passVars
<1>3. CASE StopFlow \/ EndFlow \/ Settle
  BY <1>3, LimitFrame DEF StopFlow, EndFlow, Settle, passVars, flowVars
<1>4. CASE RunForward
  BY <1>4, LimitFrame DEF RunForward, StartPass, flowVars
<1>5. CASE BeginRound \/ RunFallback \/ CommitRound
  BY <1>5, LimitBegin, LimitFallback, LimitCommit
<1>6. CASE DeleteOwn \/ TakeReverse \/ TakeForward
  BY <1>6, LimitRows
<1>7. CASE UNCHANGED vars
  <2>1. UNCHANGED <<book, ownerPays, intent, tiers>> /\ UNCHANGED <<pool, total, adjusted, phase, ahead, filled, want, takes>>
    BY <1>7 DEF vars, bookVars, passVars, flowVars
  <2>2. /\ Candidates' = Candidates /\ \A r : TooDear(r)' <=> TooDear(r')
        /\ \A o \in Offers : OwnCross(o)' <=> OwnCross(o)
        /\ Blocked' <=> Blocked
    BY <2>1, RowsStable
  <2>3. ahead \subseteq Offers /\ Candidates \subseteq Offers
    BY DEF CrossingInv, TypeOK, Candidates
  <2>4. total' = Nothing \/ ~TooDear(<<total.in, total.out>>)'
    BY <2>1, <2>2 DEF LimitInv
  <2> QED BY <2>1, <2>2, <2>3, <2>4 DEF LimitInv
<1> QED BY <1>1, <1>2, <1>3, <1>4, <1>5, <1>6, <1>7 DEF Next, Pass

\* Without a pool, whatever was crossed in all rounds together is within the
\* limit of the transaction.  With one it need not be: see RunFallback.
THEOREM LimitNeverExceeded == ASSUME Pools = {Unknown} PROVE Spec => []LimitKept
<1>1. Init => LimitInv
  BY LimitInit
<1>2. CrossingInv /\ LimitInv /\ [Next]_vars => LimitInv'
  BY LimitStep
<1>3. LimitInv => LimitKept
  BY DEF LimitInv, LimitKept, Nothing
<1> QED BY <1>1, <1>2, <1>3, CrossingInvariant, PTL DEF Spec

-----------------------------------------------------------------------------
(* What the pool asks, its fee included                                      *)

\* The input covers what the pool asks for the output.
Fair(p, in, out) ==
  /\ in \in Nat /\ out \in Nat /\ out < p.y
  /\ (p.x * out) * Keep[2] <= in * ((p.y - out) * Keep[1])

FairSlice(p, s) == s # NoSlice => Fair(p, s.in, s.out) /\ s.in > 0 /\ s.out > 0

\* A swap asks the least input that covers the output ...
LEMMA SwapInLeast ==
  ASSUME NEW p \in Pool, NEW d \in 1 .. p.y - 1
  PROVE  /\ SwapIn(p, d) \in Nat \ {0} /\ Fair(p, SwapIn(p, d), d)
         /\ \A q \in Nat : Fair(p, q, d) => SwapIn(p, d) <= q
<1> DEFINE rest == p.y - d
           in == SwapIn(p, d)
           asked == p.x * d
<1>1. /\ p.x \in Nat \ {0} /\ p.y \in Nat \ {0} /\ d \in Nat \ {0} /\ rest \in Nat \ {0} /\ d < p.y
  BY PoolParts
<1>2. asked \in Nat \ {0} /\ rest * Keep[1] \in Nat \ {0}
  <2>1. asked \in Nat /\ rest * Keep[1] \in Nat
    BY <1>1, KeepParts, ProductType
  <2> QED BY <1>1, <2>1, KeepParts, SMT
<1>3. in = RoundUp(asked, <<Keep[2], rest * Keep[1]>>)
  BY DEF SwapIn
<1>4. /\ in \in Nat /\ asked * Keep[2] <= in * (rest * Keep[1])
      /\ \A q \in Nat : asked * Keep[2] <= q * (rest * Keep[1]) => in <= q
  <2> HIDE DEF asked, rest, in
  <2> QED BY <1>2, <1>3, KeepParts, RoundUpIsLeast
<1>5. in # 0
  <2>1. asked * Keep[2] \in Nat \ {0}
    <3> HIDE DEF asked
    <3>1. asked * Keep[2] \in Nat
      BY <1>2, KeepParts, ProductType
    <3> QED BY <1>2, <3>1, KeepParts, SMT
  <2>2. 0 * (rest * Keep[1]) = 0
    BY <1>2
  <2> HIDE DEF in, asked
  <2> QED BY <1>4, <2>1, <2>2
<1> QED BY <1>1, <1>4, <1>5 DEF Fair

\* Giving out leaves the rest: fair if the rest, at the new input, holds the product.
LEMMA FairRest ==
  ASSUME NEW p \in Pool, NEW in \in Nat, NEW out \in Nat, NEW rest \in Nat \ {0}, p.y = rest + out
  PROVE  Fair(p, in, out) <=> (p.x * p.y) * Keep[2] <= rest * (p.x * Keep[2] + in * Keep[1])
<1> DEFINE a == p.x * Keep[2]
           b == in * Keep[1]
<1>1. p.x \in Nat /\ a \in Nat /\ b \in Nat
  BY PoolParts, KeepParts, ProductType
<1>2. (p.x * p.y) * Keep[2] = rest * a + out * a
  BY <1>1, KeepParts, SMT
<1>3. (p.x * out) * Keep[2] = out * a
  BY <1>1, KeepParts, SMT
<1>4. in * ((p.y - out) * Keep[1]) = rest * b
  <2>1. p.y - out = rest
    OBVIOUS
  <2>2. in * (rest * Keep[1]) = rest * (in * Keep[1])
    BY KeepParts, SMT
  <2> QED BY <2>1, <2>2
<1>5. rest * (a + b) = rest * a + rest * b
  <2> HIDE DEF a, b
  <2> QED BY <1>1, SMT
<1>6. rest * a \in Nat /\ rest * b \in Nat /\ out * a \in Nat
  <2> HIDE DEF a, b
  <2> QED BY <1>1, ProductType
<1>7. out < p.y
  OBVIOUS
<1> QED BY <1>2, <1>3, <1>4, <1>5, <1>6, <1>7 DEF Fair

\* ... and gives the largest output that the input covers.
LEMMA SwapOutLargest ==
  ASSUME NEW p \in Pool, NEW dx \in Nat
  PROVE  /\ SwapOut(p, dx) \in Nat /\ Fair(p, dx, SwapOut(p, dx))
         /\ \A out \in Nat : Fair(p, dx, out) => out <= SwapOut(p, dx)
<1> DEFINE all == p.x * p.y
           kept == p.x * Keep[2] + dx * Keep[1]
           left == RoundUp(all, <<Keep[2], kept>>)
<1>1. p.x \in Nat \ {0} /\ p.y \in Nat \ {0} /\ all \in Nat
  BY PoolParts
<1>2. p.x * Keep[2] \in Nat \ {0} /\ dx * Keep[1] \in Nat
  <2>1. p.x * Keep[2] \in Nat /\ dx * Keep[1] \in Nat
    BY <1>1, KeepParts, ProductType
  <2> QED BY <1>1, <2>1, KeepParts, SMT
<1>3. kept \in Nat \ {0}
  BY <1>2
<1>4. /\ left \in Nat /\ all * Keep[2] <= left * kept
      /\ \A q \in Nat : all * Keep[2] <= q * kept => left <= q
  <2> HIDE DEF all, kept
  <2> QED BY <1>1, <1>3, KeepParts, RoundUpIsLeast
<1>5. SwapOut(p, dx) = p.y - left
  BY DEF SwapOut
<1>6. SwapOut(p, dx) \in Nat /\ SwapOut(p, dx) < p.y
  BY SwapOutPays DEF Pays
<1> HIDE DEF left
<1>7. left \in Nat \ {0} /\ p.y = left + SwapOut(p, dx)
  BY <1>1, <1>4, <1>5, <1>6
<1>8. Fair(p, dx, SwapOut(p, dx))
  BY <1>4, <1>6, <1>7, FairRest
<1>9. ASSUME NEW out \in Nat, Fair(p, dx, out) PROVE out <= SwapOut(p, dx)
  <2> DEFINE rest == p.y - out
  <2>1. rest \in Nat \ {0} /\ p.y = rest + out
    BY <1>1, <1>9 DEF Fair
  <2> HIDE DEF rest
  <2>2. left <= rest
    BY <1>4, <1>9, <2>1, FairRest
  <2> QED BY <1>1, <1>6, <1>7, <2>1, <2>2
<1> QED BY <1>6, <1>8, <1>9

\* What covers an output covers less of it.
LEMMA FairLess ==
  ASSUME NEW p \in Pool, NEW in, NEW out, Fair(p, in, out), NEW d \in 0 .. out
  PROVE  Fair(p, in, d)
<1> DEFINE wide == p.y - d
           rest == p.y - out
<1>1. /\ p.x \in Nat /\ in \in Nat /\ out \in Nat /\ d \in Nat /\ d <= out /\ d < p.y
      /\ wide \in Nat /\ rest \in Nat /\ rest <= wide
  BY PoolParts DEF Fair
<1>2. (p.x * d) * Keep[2] <= (p.x * out) * Keep[2]
  <2>1. p.x * d <= p.x * out /\ p.x * d \in Nat /\ p.x * out \in Nat
    BY <1>1, SMT
  <2> DEFINE s == p.x * d
             t == p.x * out
  <2>2. s \in Nat /\ t \in Nat /\ s <= t
    BY <2>1
  <2> HIDE DEF s, t
  <2>3. s * Keep[2] <= t * Keep[2]
    BY <2>2, KeepParts, Scale
  <2> QED BY <2>3 DEF s, t
<1>3. in * (rest * Keep[1]) <= in * (wide * Keep[1])
  <2> HIDE DEF wide, rest
  <2> DEFINE s == rest * Keep[1]
             t == wide * Keep[1]
  <2>1. s <= t /\ s \in Nat /\ t \in Nat
    BY <1>1, KeepParts, Scale, ProductType
  <2> HIDE DEF s, t
  <2>2. in * s <= in * t
    BY <1>1, <2>1, SMT
  <2> QED BY <2>2 DEF s, t
<1>4. (p.x * out) * Keep[2] <= in * (rest * Keep[1])
  BY DEF Fair
<1>5. /\ (p.x * d) * Keep[2] \in Nat /\ (p.x * out) * Keep[2] \in Nat
      /\ in * (rest * Keep[1]) \in Nat /\ in * (wide * Keep[1]) \in Nat
  <2> HIDE DEF wide, rest
  <2> QED BY <1>1, KeepParts, ProductType
<1>6. (p.x * d) * Keep[2] <= in * (wide * Keep[1])
  BY <1>2, <1>3, <1>4, <1>5
<1> QED BY <1>1, <1>6 DEF Fair

\* ... and more input covers it too.
LEMMA FairMore ==
  ASSUME NEW p \in Pool, NEW in, NEW out, Fair(p, in, out), NEW more \in Nat, in <= more
  PROVE  Fair(p, more, out)
<1> DEFINE b == (p.y - out) * Keep[1]
           a == (p.x * out) * Keep[2]
<1>1. in \in Nat /\ out \in Nat /\ out < p.y /\ a <= in * b
  BY DEF Fair
<1>2. a \in Nat /\ b \in Nat
  <2>1. p.y - out \in Nat
    BY <1>1, PoolParts
  <2> QED BY <1>1, <2>1, PoolParts, KeepParts, ProductType
<1> HIDE DEF a, b
<1>3. in * b <= more * b /\ in * b \in Nat /\ more * b \in Nat
  BY <1>1, <1>2, Scale, ProductType
<1>4. a <= more * b
  BY <1>1, <1>2, <1>3
<1> QED BY <1>1, <1>4 DEF Fair, a, b

\* A swap for part of a covered output asks no more.
LEMMA SwapInLess ==
  ASSUME NEW p \in Pool, NEW in, NEW out, Fair(p, in, out), NEW d \in 1 .. out
  PROVE  SwapIn(p, d) \in Nat \ {0} /\ SwapIn(p, d) <= in
<1>1. in \in Nat /\ out \in Nat /\ out < p.y /\ p.y \in Nat /\ d \in 1 .. p.y - 1 /\ d \in 0 .. out
  BY PoolParts DEF Fair
<1>2. Fair(p, in, d)
  BY <1>1, FairLess
<1> QED BY <1>1, <1>2, SwapInLeast

\* Input short of what an output costs buys less than that ...
LEMMA SwapShort ==
  ASSUME NEW p \in Pool, NEW d \in 1 .. p.y - 1, NEW raw \in Nat, raw < SwapIn(p, d)
  PROVE  SwapOut(p, raw) \in Nat /\ SwapOut(p, raw) < d
<1>1. SwapOut(p, raw) \in Nat /\ Fair(p, raw, SwapOut(p, raw)) /\ SwapIn(p, d) \in Nat /\ d \in Nat
  BY SwapOutLargest, SwapInLeast
<1>2. ASSUME d <= SwapOut(p, raw) PROVE FALSE
  <2>1. d \in 1 .. SwapOut(p, raw)
    BY <1>1, <1>2
  <2>2. SwapIn(p, d) <= raw
    BY <1>1, <2>1, SwapInLess
  <2> QED BY <1>1, <2>2
<1> QED BY <1>1, <1>2

\* ... and input that is not buys it.
LEMMA SwapEnough ==
  ASSUME NEW p \in Pool, NEW d \in 1 .. p.y - 1, NEW raw \in Nat, SwapIn(p, d) <= raw
  PROVE  d <= SwapOut(p, raw)
<1>1. Fair(p, raw, d)
  BY SwapInLeast, FairMore
<1> QED BY <1>1, SwapOutLargest

\* Every slice covers what the pool asks for it.
LEMMA BoughtFair ==
  ASSUME NEW p \in Pool, NEW out, NEW r
  PROVE  FairSlice(p, Slice(out, SwapIn(p, out), r))
<1>1. CASE out \in 1 .. p.y - 1
  <2> DEFINE in == SwapIn(p, out)
  <2>1. in \in Nat \ {0} /\ Fair(p, in, out)
    BY <1>1, SwapInLeast
  <2> HIDE DEF in
  <2>2. FairSlice(p, Slice(out, in, r))
    BY <1>1, <2>1 DEF FairSlice, Slice
  <2> QED BY <2>2 DEF in
<1>2. CASE out \notin 1 .. p.y - 1
  <2>1. SwapIn(p, out) = 0
    BY <1>2 DEF SwapIn
  <2> QED BY <2>1 DEF FairSlice, Slice
<1> QED BY <1>1, <1>2

LEMMA SoldFair ==
  ASSUME NEW p \in Pool, NEW in \in Nat, NEW r
  PROVE  FairSlice(p, Slice(SwapOut(p, in), in, r))
<1> DEFINE out == SwapOut(p, in)
<1>1. out \in Nat /\ Fair(p, in, out)
  BY SwapOutLargest
<1> HIDE DEF out
<1>2. FairSlice(p, Slice(out, in, r))
  BY <1>1 DEF FairSlice, Slice
<1> QED BY <1>2 DEF out

LEMMA MaxSliceFair ==
  ASSUME NEW p \in Pool, NEW cap PROVE FairSlice(p, MaxSlice(p, cap))
BY BoughtFair DEF MaxSlice

LEMMA SliceForFair ==
  ASSUME NEW p \in Pool, NEW r \in Rates, NEW cap PROVE FairSlice(p, SliceFor(p, r, cap))
<1> DEFINE built == BuiltFor(p, r, Start(p, r))
           cut == CutTo(p, built, cap)
<1>1. \A start \in Nat : FairSlice(p, Built(p, start))
  BY BoughtFair, SoldFair DEF Built, AtItsRate
<1>2. FairSlice(p, built)
  BY <1>1, StartType DEF BuiltFor
<1> HIDE DEF built
<1>3. FairSlice(p, cut)
  BY <1>2, BoughtFair DEF CutTo, AtItsRate
<1> HIDE DEF cut
<1>4. FairSlice(p, Kept(p, r, cut)) /\ FairSlice(p, NoSlice)
  BY <1>3 DEF Kept, FairSlice
<1>5. SliceFor(p, r, cap) \in {Kept(p, r, cut), NoSlice}
  BY DEF SliceFor, cut, built
<1> QED BY <1>4, <1>5

LEMMA SliceAgainstFair ==
  ASSUME NEW p \in Pool, NEW r \in Rates, NEW cap PROVE FairSlice(p, SliceAgainst(p, r, cap))
<1>1. SliceAgainst(p, r, cap) \in {SliceFor(p, r, cap), MaxSlice(p, cap), NoSlice}
  BY DEF SliceAgainst, OrLargest
<1>2. FairSlice(p, NoSlice)
  BY DEF FairSlice
<1> QED BY <1>1, <1>2, SliceForFair, MaxSliceFair

-----------------------------------------------------------------------------
(* The pool keeps its rank *)

\* All the pool has to give, taken as a whole, is better than r.
WholeBetter(p, r) ==
  LET largest == MaxSlice(p, Unknown)
  IN  largest # NoSlice /\ Cheaper(<<largest.in, largest.out>>, r)

\* A fill leaves the pool no dearer than r.
KeepsRank(p, in, out, r) == ~Cheaper(r, Spot(Filled(p, in, out)))

\* A slice against r leaves it no dearer than r, or is all the pool has to give.
LEMMA SliceRank ==
  ASSUME NEW p \in Pool, NEW r \in Rates, SliceAgainst(p, r, Unknown) # NoSlice
  PROVE  LET s == SliceAgainst(p, r, Unknown) IN KeepsRank(p, s.in, s.out, r) \/ WholeBetter(p, r)
<1> DEFINE s == SliceFor(p, r, Unknown)
<1>1. CASE s # NoSlice
  <2>1. PICK cut : s = Kept(p, r, cut)
    BY <1>1 DEF SliceFor
  <2>2. StaysWithin(p, r, cut) /\ s = cut
    BY <1>1, <2>1 DEF Kept
  <2>3. SliceAgainst(p, r, Unknown) = s
    BY <1>1 DEF SliceAgainst, OrLargest
  <2> HIDE DEF s
  <2> QED BY <2>2, <2>3 DEF StaysWithin, KeepsRank
<1>2. CASE s = NoSlice
  <2>1. WholeBetter(p, r)
    BY <1>2 DEF SliceAgainst, OrLargest, WholeBetter
  <2> QED BY <2>1
<1> QED BY <1>1, <1>2

\* Less of a fill keeps the rank too.
LEMMA RankOfPart ==
  ASSUME NEW p \in Pool, NEW r \in Rates, NEW in \in Nat, NEW out \in Nat, out < p.y,
         KeepsRank(p, in, out, r), NEW less \in 0 .. in, NEW part \in 0 .. out
  PROVE  KeepsRank(p, less, part, r)
<1> DEFINE a == p.y - out
           b == p.y - part
           c == p.x + in
           d == p.x + less
<1>1. /\ a \in Nat /\ b \in Nat /\ a <= b /\ c \in Nat /\ d \in Nat /\ d <= c
      /\ r[1] \in Nat /\ r[2] \in Nat
  BY PoolParts, RateParts
<1>2. ~(r[1] * a < c * r[2])
  BY DEF KeepsRank, Cheaper, Spot, Filled
<1> SUFFICES ~(r[1] * b < d * r[2])
  BY DEF KeepsRank, Cheaper, Spot, Filled
<1> HIDE DEF a, b, c, d
<1>3. r[1] * a <= r[1] * b /\ r[1] * a \in Nat /\ r[1] * b \in Nat
  BY <1>1, SMT
<1>4. d * r[2] <= c * r[2] /\ d * r[2] \in Nat /\ c * r[2] \in Nat
  BY <1>1, SMT
<1> QED BY <1>2, <1>3, <1>4

\* What keeps the rank of an offer keeps that of a dearer one.
LEMMA RankOfDearer ==
  ASSUME NEW p \in Pool, NEW in \in Nat, NEW out \in Nat, out < p.y,
         NEW r \in Rates, NEW s \in Rates, ~Cheaper(s, r)
  PROVE  /\ KeepsRank(p, in, out, r) => KeepsRank(p, in, out, s)
         /\ WholeBetter(p, r) => WholeBetter(p, s)
<1>1. Spot(Filled(p, in, out)) \in Rates
  BY PoolParts DEF Spot, Filled, Rates
<1>2. KeepsRank(p, in, out, r) => KeepsRank(p, in, out, s)
  BY <1>1, NoDearerTransitive DEF KeepsRank
<1>3. ASSUME WholeBetter(p, r) PROVE WholeBetter(p, s)
  <2> DEFINE l == MaxSlice(p, Unknown)
  <2>1. l # NoSlice /\ Cheaper(<<l.in, l.out>>, r)
    BY <1>3 DEF WholeBetter
  <2>2. l.in \in Nat /\ l.out \in Nat /\ l.in > 0 /\ l.out > 0
    BY <2>1, MaxSliceFair DEF FairSlice, Fair
  <2> HIDE DEF l
  <2>3. <<l.in, l.out>> \in Rates
    BY <2>2 DEF Rates
  <2>4. r[1] \in Nat /\ r[2] \in Nat \ {0} /\ s[1] \in Nat /\ s[2] \in Nat \ {0}
    BY RateParts
  <2>5. l.in * r[2] < r[1] * l.out /\ r[1] * s[2] <= s[1] * r[2]
    <3>1. r[1] * s[2] \in Nat /\ s[1] * r[2] \in Nat
      BY <2>4, ProductType
    <3> QED BY <2>1, <3>1 DEF Cheaper
  <2>6. (l.in * r[2]) * s[2] < (r[1] * l.out) * s[2]
    <3> DEFINE u == l.in * r[2]
               v == r[1] * l.out
    <3>1. u \in Nat /\ v \in Nat /\ u < v
      BY <2>2, <2>4, <2>5, ProductType
    <3> HIDE DEF u, v
    <3>2. u * s[2] < v * s[2]
      <4> DEFINE w == u + 1
                 k == s[2]
      <4>1. w \in Nat /\ k \in Nat \ {0} /\ w <= v
        BY <2>4, <3>1
      <4>2. w * k <= v * k /\ w * k = u * k + k /\ u * k \in Nat /\ v * k \in Nat
        <5> HIDE DEF k
        <5> QED BY <3>1, <4>1, SMT
      <4> QED BY <4>1, <4>2
    <3> QED BY <3>2 DEF u, v
  <2>7. (r[1] * s[2]) * l.out <= (s[1] * r[2]) * l.out
    <3>1. r[1] * s[2] \in Nat /\ s[1] * r[2] \in Nat
      BY <2>4, ProductType
    <3> QED BY <2>2, <2>5, <3>1, Scale
  <2>8. (l.in * s[2]) * r[2] < (s[1] * l.out) * r[2]
    <3>1. (l.in * r[2]) * s[2] = (l.in * s[2]) * r[2] /\ (r[1] * l.out) * s[2] = (r[1] * s[2]) * l.out
          /\ (s[1] * r[2]) * l.out = (s[1] * l.out) * r[2]
      BY <2>2, <2>4, SMT
    <3>2. /\ (l.in * s[2]) * r[2] \in Nat /\ (s[1] * l.out) * r[2] \in Nat /\ (r[1] * s[2]) * l.out \in Nat
      BY <2>2, <2>4, ProductType
    <3> QED BY <2>6, <2>7, <3>1, <3>2
  <2>9. l.in * s[2] < s[1] * l.out
    <3> DEFINE u == l.in * s[2]
               v == s[1] * l.out
    <3>1. u \in Nat /\ v \in Nat /\ u * r[2] < v * r[2]
      BY <2>2, <2>4, <2>8, ProductType
    <3> HIDE DEF u, v
    <3>2. u < v
      BY <2>4, <3>1, SMT
    <3> QED BY <3>2 DEF u, v
  <2> QED BY <2>1, <2>9 DEF WholeBetter, Cheaper, l
<1> QED BY <1>2, <1>3

\* Limits are monotone: what is dearer than a rate beyond the limit is too.
LEMMA DearerIsTooDear ==
  ASSUME TypeOK, NEW r \in Rates, NEW s \in Rates, ~Cheaper(s, r), TooDear(r)
  PROVE  TooDear(s)
<1>1. LimitRate \in Rates /\ LimitRate # Unknown
  BY BudgetType DEF TooDear
<1>2. LimitRate[1] \in Nat \ {0} /\ LimitRate[2] \in Nat \ {0} /\ r[1] \in Nat \ {0} /\ r[2] \in Nat \ {0}
      /\ s[1] \in Nat \ {0} /\ s[2] \in Nat \ {0}
  BY <1>1, RateParts
<1>3. CASE intent.passive
  <2>1. ~Cheaper(r, LimitRate)
    BY <1>1, <1>3 DEF TooDear
  <2>2. ~Cheaper(s, LimitRate)
    BY <1>1, <2>1, NoDearerTransitive
  <2> QED BY <1>1, <1>3, <2>2 DEF TooDear
<1>4. CASE ~intent.passive
  <2>1. Cheaper(LimitRate, r)
    BY <1>1, <1>4 DEF TooDear
  <2>2. Cheaper(LimitRate, s)
    <3> SUFFICES ASSUME ~Cheaper(LimitRate, s) PROVE FALSE
      OBVIOUS
    <3>1. ~Cheaper(LimitRate, r)
      BY <1>1, NoDearerTransitive
    <3> QED BY <2>1, <3>1
  <2> QED BY <1>1, <1>4, <2>2 DEF TooDear
<1> QED BY <1>3, <1>4

\* What a pass takes from the pool is within the slice that it was offered.
LEMMA TakeWithin ==
  ASSUME TypeOK, pool \in Pool, NEW slice, slice # NoSlice, FairSlice(pool, slice), NEW cap \in Nat,
         NEW direction, direction = "reverse" => OfferCrossing \/ Tips # {},
         PoolTakeOf(slice, direction, cap).out > 0
  PROVE  LET take == PoolTakeOf(slice, direction, cap)
         IN  take.in \in 0 .. slice.in /\ take.out \in 0 .. slice.out /\ take.out <= cap
<1> DEFINE take == PoolTakeOf(slice, direction, cap)
           out == AtMost(slice.out, cap)
           need == SwapIn(pool, out)
<1>1. /\ slice.in \in Nat \ {0} /\ slice.out \in Nat \ {0} /\ slice.out < pool.y /\ pool.y \in Nat
      /\ Fair(pool, slice.in, slice.out)
  BY PoolParts DEF FairSlice, Fair
<1>2. out \in Nat /\ out <= slice.out /\ out <= cap
  BY <1>1, AtMostBounds
<1> HIDE DEF out
<1>3. out > 0 => need \in Nat \ {0} /\ need <= slice.in /\ out \in 1 .. pool.y - 1
  BY <1>1, <1>2, SwapInLess
<1>4. out = 0 => need = 0
  BY DEF SwapIn
<1> HIDE DEF need
<1>5. CASE direction = "reverse"
  <2>1. take.out = out /\ take.in \in {slice.in, need}
    BY <1>5 DEF PoolTakeOf, ExactOut, out, need
  <2>2. out > 0
    BY <2>1
  <2> QED BY <1>1, <1>2, <1>3, <2>1, <2>2
<1>6. CASE direction # "reverse"
  <2> DEFINE raw == RoundDown(remainingIn, Flip(InFee))
  <2>1. raw \in Nat
    BY FeesType, FlipType, RoundDownType DEF TypeOK
  <2>2. take = UnderBudget(slice, cap)
    BY <1>6 DEF PoolTakeOf
  <2>3. take = IF raw = 0 \/ need = 0 THEN NoPoolTake
               ELSE IF raw >= need THEN [out |-> out, in |-> need, gross |-> RoundUp(need, InFee)]
               ELSE [out |-> SwapOut(pool, raw), in |-> raw, gross |-> remainingIn]
    BY <2>2 DEF UnderBudget, out, need
  <2> HIDE DEF raw, take
  <2>4. take.out > 0
    BY DEF take
  <2>5. ~(raw = 0 \/ need = 0)
    BY <2>3, <2>4, NoPoolTakeType
  <2>6. out > 0
    BY <1>2, <1>4, <2>5
  <2>7. take.in \in 0 .. slice.in /\ take.out \in 0 .. slice.out /\ take.out <= cap
    <3>1. CASE raw >= need
      BY <1>1, <1>2, <1>3, <2>3, <2>5, <2>6, <3>1
    <3>2. CASE ~(raw >= need)
      <4>1. SwapOut(pool, raw) \in Nat /\ SwapOut(pool, raw) < out
        BY <1>3, <2>1, <2>6, <3>2, SwapShort DEF need
      <4> QED BY <1>1, <1>2, <1>3, <2>1, <2>3, <2>5, <2>6, <3>2, <4>1
    <3> QED BY <3>1, <3>2
  <2> QED BY <2>7 DEF take
<1> QED BY <1>5, <1>6

\* What a pass has from the pool keeps the pool no dearer than any offer, save
\* for one beyond the limit or dearer than all that the pool has.
Ranked ==
  \A o \in Tips :
    \/ KeepsRank(pool, poolTake.in, poolTake.out, Rate(o)) \/ TooDear(Rate(o))
    \/ WholeBetter(pool, Rate(o))

\* A pass that draws on the pool does nothing else.
RankInv ==
  /\ phase = "allocate" => poolTake = NoPoolTake
  /\ poolTake # NoPoolTake => poolTake.out > 0
  /\ phase \in Passes /\ poolTake # NoPoolTake =>
       ahead = {} /\ takes = NoTakes /\ deleted = {} /\ Ranked
  /\ PoolKeepsRank

LEMMA TipsStable ==
  ASSUME UNCHANGED <<book, ownerPays, intent, tiers>>
  PROVE  /\ Tips' = Tips /\ \A o \in Offers : Rate(o)' = Rate(o)
         /\ \A r : TooDear(r)' <=> TooDear(r')
<1>1. UNCHANGED book /\ UNCHANGED ownerPays /\ UNCHANGED intent /\ UNCHANGED tiers
  OBVIOUS
<1>2. OfferCrossing' = OfferCrossing /\ Fee' = Fee
  BY <1>1 DEF OfferCrossing, Fee, Parity
<1>3. \A o \in Offers : Rate(o)' = Rate(o) /\ InFeeOf(o)' = InFeeOf(o)
  BY <1>1, <1>2 DEF Rate, InFeeOf, Parity
<1>4. \A o \in Offers : Executable(o)' <=> Executable(o)
  BY <1>1, <1>2, <1>3 DEF Executable, Prepared, Gives, AtMost, RoundDown, RoundUp, Flip
<1> QED BY <1>3, <1>4, RowsStable DEF Tips

\* The best offer is no dearer than any other.
LEMMA BestIsCheapest ==
  ASSUME TypeOK, NEW S \in SUBSET Offers, NEW o \in S
  PROVE  Best(S) \in Offers /\ Rate(Best(S)) \in Rates /\ ~Cheaper(Rate(o), Rate(Best(S)))
<1>1. PICK b : b = Best(S)
  OBVIOUS
<1>2. b \in S /\ Leads(b, S)
  BY <1>1, LeaderExists DEF Best, TypeOK
<1>3. Rate(b) \in Rates /\ Rate(o) \in Rates
  BY <1>2, RowType
<1>4. ~Cheaper(Rate(o), Rate(b))
  <2>1. CASE o = b
    BY <1>3, <2>1, NoDearerTotal
  <2>2. CASE o # b
    <3>1. Before(b, o)
      BY <1>2, <2>2 DEF Leads
    <3> QED BY <1>3, <3>1, NoDearerTotal DEF Before, Rate
  <2> QED BY <2>1, <2>2
<1> QED BY <1>1, <1>2, <1>3, <1>4

\* The slice of a pass, beside an offer that is within the limit, was asked
\* for against the best one.
LEMMA BesideBest ==
  ASSUME TypeOK, NEW cap \in Nat, PoolSlice(cap) # NoSlice, Tips # {},
         NEW o \in Tips, ~TooDear(Rate(o))
  PROVE  PoolSlice(cap) = SliceAgainst(pool, Rate(Best(Tips)), Unknown)
<1>1. PICK r : r = Rate(Best(Tips))
  OBVIOUS
<1>2. PoolSlice(cap) = SliceBeside(r, cap)
  BY <1>1 DEF PoolSlice
<1>3. o \in Offers /\ Tips \in SUBSET Offers
  BY DEF Tips
<1>4. ~TooDear(r)
  <2>1. r \in Rates /\ Rate(o) \in Rates /\ ~Cheaper(Rate(o), r)
    BY <1>1, <1>3, BestIsCheapest, RowType
  <2> QED BY <2>1, DearerIsTooDear
<1> QED BY <1>1, <1>2, <1>4 DEF SliceBeside, IfNoDearer

LEMMA RankedPass ==
  ASSUME CrossingInv, NEW cap \in Nat, NEW direction, StartPass(direction, cap), poolTake' # NoPoolTake,
         UNCHANGED <<bookVars, intent, flowVars>>
  PROVE  Ranked' /\ ahead' = {} /\ poolTake'.out > 0
<1>1. PICK slice : slice = PoolSlice(cap)
  OBVIOUS
<1> DEFINE take == PoolTakeOf(slice, direction, cap)
<1>2. PassWith(slice, take)
  BY <1>1 DEF StartPass
<1> HIDE DEF take
<1>3. poolTake' = take /\ take.out > 0 /\ ahead' = {}
  BY <1>2 DEF PassWith
<1>4. slice # NoSlice
  BY <1>3, NoPoolTakeType DEF PoolTakeOf, take
<1>5. TypeOK /\ PoolActive
  BY <1>1, <1>4, PoolSlicePaid DEF CrossingInv
<1>6. pool \in Pool
  BY <1>5, PoolType DEF PoolActive
<1>7. UNCHANGED <<book, ownerPays, intent, tiers>> /\ UNCHANGED pool
  BY DEF bookVars, flowVars
<1>8. /\ Tips' = Tips /\ Tips \in SUBSET Offers /\ \A o \in Offers : Rate(o)' = Rate(o)
      /\ \A o \in Offers : TooDear(Rate(o))' <=> TooDear(Rate(o))
  BY <1>7, TipsStable DEF Tips
<1>9. ASSUME NEW o \in Tips
      PROVE  \/ KeepsRank(pool, take.in, take.out, Rate(o)) \/ TooDear(Rate(o))
             \/ WholeBetter(pool, Rate(o))
  <2> SUFFICES ASSUME ~TooDear(Rate(o))
               PROVE  KeepsRank(pool, take.in, take.out, Rate(o)) \/ WholeBetter(pool, Rate(o))
    OBVIOUS
  <2>1. PICK r : r = Rate(Best(Tips))
    OBVIOUS
  <2>2. r \in Rates /\ Rate(o) \in Rates /\ ~Cheaper(Rate(o), r)
    BY <1>5, <1>8, <2>1, BestIsCheapest, RowType
  <2>3. slice = SliceAgainst(pool, r, Unknown)
    BY <1>1, <1>4, <1>5, <2>1, BesideBest
  <2>4. FairSlice(pool, slice) /\ (KeepsRank(pool, slice.in, slice.out, r) \/ WholeBetter(pool, r))
    BY <1>4, <1>6, <2>2, <2>3, SliceAgainstFair, SliceRank
  <2>5. slice.in \in Nat /\ slice.out \in Nat /\ slice.out < pool.y /\ pool.y \in Nat
    BY <1>4, <1>6, <2>4, PoolParts DEF FairSlice, Fair
  <2>6. take.in \in 0 .. slice.in /\ take.out \in 0 .. slice.out
    BY <1>3, <1>4, <1>5, <1>6, <2>4, TakeWithin DEF take
  <2>7. take.in \in Nat /\ take.out \in Nat /\ take.out < pool.y
    BY <2>5, <2>6
  <2>8. KeepsRank(pool, take.in, take.out, r) \/ WholeBetter(pool, r)
    BY <1>6, <2>2, <2>4, <2>5, <2>6, RankOfPart
  <2> QED BY <1>6, <2>2, <2>7, <2>8, RankOfDearer
<1>10. Ranked'
  <2> SUFFICES ASSUME NEW o \in Tips'
               PROVE  \/ KeepsRank(pool', poolTake'.in, poolTake'.out, Rate(o)') \/ TooDear(Rate(o))'
                      \/ WholeBetter(pool', Rate(o)')
    BY DEF Ranked, KeepsRank, WholeBetter, Spot, Filled, Cheaper, MaxSlice, LargestOut, Slice, SwapIn, AtMost, RoundUp, NoSlice
  <2> QED BY <1>3, <1>7, <1>8, <1>9
<1> QED BY <1>3, <1>10

\* Steps that keep the take of the pool, outside of a round.
LEMMA RankFrame ==
  ASSUME RankInv, phase' \notin Passes \cup {"round"}, phase' = "allocate" => phase = "allocate",
         UNCHANGED poolTake
  PROVE  RankInv'
<1>1. (NoPoolTake)' = NoPoolTake
  BY DEF NoPoolTake
<1>2. PoolKeepsRank'
  BY DEF PoolKeepsRank
<1> QED BY <1>1, <1>2 DEF RankInv, Passes

\* Starting a pass, and going on with one.
LEMMA RankStart ==
  ASSUME CrossingInv, NEW cap \in Nat, NEW direction \in Passes, StartPass(direction, cap),
         UNCHANGED <<bookVars, intent, flowVars>>
  PROVE  RankInv'
<1>1. (NoPoolTake)' = NoPoolTake /\ phase' = direction /\ takes' = NoTakes /\ deleted' = {}
      /\ (NoTakes)' = NoTakes
  BY DEF NoPoolTake, StartPass, NoTakes, NoTake
<1>2. direction # "round" /\ direction # "allocate"
  BY DEF Passes
<1>3. PoolKeepsRank'
  BY <1>1, <1>2 DEF PoolKeepsRank
<1> QED BY <1>1, <1>2, <1>3, RankedPass DEF RankInv

LEMMA RankRows ==
  ASSUME RankInv, DeleteOwn \/ TakeReverse \/ TakeForward PROVE RankInv'
<1>1. Visit /\ UNCHANGED <<phase, poolTake>>
  BY DEF DeleteOwn, TakeReverse, TakeForward
<1>2. phase \in Passes /\ ahead # {}
  BY <1>1 DEF Visit, PassOpen
<1>3. poolTake = NoPoolTake
  BY <1>2 DEF RankInv
<1>4. (NoPoolTake)' = NoPoolTake
  BY DEF NoPoolTake
<1>5. PoolKeepsRank'
  BY <1>1, <1>2 DEF PoolKeepsRank, Passes
<1> QED BY <1>1, <1>2, <1>3, <1>4, <1>5 DEF RankInv, Passes

LEMMA RankCommit ==
  ASSUME CrossingInv, RankInv, CommitRound PROVE RankInv'
<1>1. /\ phase \in Passes /\ phase' = "round" /\ UNCHANGED <<bookVars, intent, passVars>>
      /\ tiers' = [o \in Offers |-> Replaced(o)]
      /\ poolTake # NoPoolTake => pool' = Filled(pool, poolTake.in, poolTake.out)
  BY DEF CommitRound, Commit, EndPass
<1>2. UNCHANGED poolTake /\ (NoPoolTake)' = NoPoolTake /\ UNCHANGED <<book, ownerPays, intent>>
  BY <1>1 DEF passVars, NoPoolTake, bookVars
<1>3. CASE poolTake = NoPoolTake
  <2>1. PoolKeepsRank'
    BY <1>2, <1>3, NoPoolTakeType DEF PoolKeepsRank
  <2> QED BY <1>1, <1>2, <1>3, <2>1 DEF RankInv, Passes
<1>4. CASE poolTake # NoPoolTake
  <2>1. takes = NoTakes /\ deleted = {} /\ Ranked /\ pool' = Filled(pool, poolTake.in, poolTake.out)
    BY <1>1, <1>4 DEF RankInv
  <2>2. tiers' = tiers
    <3>1. \A o \in Offers : Replaced(o) = tiers[o]
      BY <2>1 DEF Replaced, NoTakes, NoTake
    <3>2. tiers \in [Offers -> Row]
      BY DEF CrossingInv, TypeOK
    <3> QED BY <1>1, <3>1, <3>2
  <2>3. /\ Tips' = Tips /\ Tips \in SUBSET Offers /\ \A o \in Offers : Rate(o)' = Rate(o)
        /\ \A o \in Offers : TooDear(Rate(o))' <=> TooDear(Rate(o))
    BY <1>2, <2>2, TipsStable DEF Tips
  <2>4. pool \in Pool /\ poolTake.in \in Nat /\ poolTake.out \in Nat
    <3>1. PoolActive /\ TypeOK
      BY <1>1, <1>4 DEF CrossingInv, PassInv
    <3> QED BY <3>1, PoolType DEF PoolActive, TypeOK, PoolTake
  <2>5. PoolBefore' = pool
    <3>1. PoolBefore' = [x |-> pool'.x - poolTake.in, y |-> pool'.y + poolTake.out]
      BY <1>2 DEF PoolBefore
    <3>2. pool'.x = pool.x + poolTake.in /\ pool'.y = pool.y - poolTake.out
      BY <2>1 DEF Filled
    <3>3. pool.x \in Nat /\ pool.y \in Nat
      BY <2>4 DEF Pool
    <3>4. pool'.x - poolTake.in = pool.x /\ pool'.y + poolTake.out = pool.y
      BY <2>4, <3>2, <3>3
    <3>5. pool = [x |-> pool.x, y |-> pool.y]
      BY <2>4 DEF Pool
    <3> QED BY <3>1, <3>4, <3>5
  <2>6. MaxSlice(PoolBefore, Unknown)' = MaxSlice(pool, Unknown)
    BY <2>5 DEF MaxSlice, LargestOut, Slice, SwapIn, AtMost, RoundUp, NoSlice, Spot
  <2>7. Spot(pool)' = Spot(Filled(pool, poolTake.in, poolTake.out)) /\ (NoSlice)' = NoSlice
    BY <2>1 DEF Spot, NoSlice
  <2>8. PoolKeepsRank'
    <3> SUFFICES ASSUME NEW o \in Tips'
                 PROVE  LET largest == MaxSlice(PoolBefore, Unknown)'
                        IN  \/ ~Cheaper(Rate(o)', Spot(pool)') \/ TooDear(Rate(o))'
                            \/ largest # NoSlice /\ Cheaper(<<largest.in, largest.out>>, Rate(o)')
      BY <2>7 DEF PoolKeepsRank, Cheaper
    <3>1. \/ KeepsRank(pool, poolTake.in, poolTake.out, Rate(o)) \/ TooDear(Rate(o))
          \/ WholeBetter(pool, Rate(o))
      BY <2>1, <2>3 DEF Ranked
    <3> QED BY <2>3, <2>6, <2>7, <3>1 DEF KeepsRank, WholeBetter
  <2> QED BY <1>1, <1>2, <1>4, <2>8 DEF RankInv, Passes
<1> QED BY <1>3, <1>4

LEMMA RankStep == CrossingInv /\ RankInv /\ [Next]_vars => RankInv'
<1> SUFFICES ASSUME CrossingInv, RankInv, [Next]_vars PROVE RankInv'
  OBVIOUS
<1>1. TypeOK /\ remainingOut \in Nat
  BY DEF CrossingInv, TypeOK
<1>2. CASE Allocate \/ StopFlow \/ EndFlow \/ Settle
  BY <1>2, RankFrame DEF Allocate, StopFlow, EndFlow, Settle, passVars, Passes
<1>3. CASE BeginFlow
  <2>1. poolTake' = poolTake /\ phase = "allocate" /\ phase' = "round"
    BY <1>3 DEF BeginFlow, passVars
  <2>2. poolTake = NoPoolTake /\ (NoPoolTake)' = NoPoolTake
    BY <2>1 DEF RankInv, NoPoolTake
  <2>3. PoolKeepsRank'
    BY <2>1, <2>2, NoPoolTakeType DEF PoolKeepsRank
  <2> QED BY <2>1, <2>2, <2>3 DEF RankInv, Passes
<1>4. CASE BeginRound
  <2>1. PICK cap : cap = LimitOut(PoolIsTip, InFee, remainingOut)
    OBVIOUS
  <2>2. cap \in Nat
    BY <1>1, <2>1, FeesType, LimitOutType DEF PoolIsTip, PoolActive
  <2>3. StartPass("reverse", cap) /\ UNCHANGED <<bookVars, intent, flowVars>>
    BY <1>4, <2>1 DEF BeginRound
  <2> QED BY <2>2, <2>3, RankStart DEF Passes
<1>5. CASE RunForward
  <2>1. filled.out \in Nat /\ StartPass("forward", filled.out) /\ UNCHANGED <<bookVars, intent, flowVars>>
    BY <1>1, <1>5 DEF RunForward, TypeOK, Amount
  <2> QED BY <2>1, RankStart DEF Passes
<1>6. CASE RunFallback
  <2>1. Capacity \in Nat /\ StartPass("fallback", Capacity) /\ UNCHANGED <<bookVars, intent, flowVars>>
    BY <1>1, <1>6, CapacityType DEF RunFallback
  <2> QED BY <2>1, RankStart DEF Passes
<1>7. CASE DeleteOwn \/ TakeReverse \/ TakeForward
  BY <1>7, RankRows
<1>8. CASE CommitRound
  BY <1>8, RankCommit
<1>9. CASE UNCHANGED vars
  <2>1. /\ UNCHANGED <<book, ownerPays, intent, tiers>> /\ UNCHANGED <<phase, ahead, takes, deleted, poolTake, pool>>
    BY <1>9 DEF vars, bookVars, flowVars, passVars
  <2>2. /\ Tips' = Tips /\ Tips \in SUBSET Offers /\ \A o \in Offers : Rate(o)' = Rate(o)
        /\ \A o \in Offers : TooDear(Rate(o))' <=> TooDear(Rate(o))
    BY <2>1, TipsStable DEF Tips
  <2>3. PoolBefore' = PoolBefore /\ (NoPoolTake)' = NoPoolTake /\ (NoTakes)' = NoTakes /\ (NoSlice)' = NoSlice
    BY <2>1 DEF PoolBefore, NoPoolTake, NoTakes, NoTake, NoSlice
  <2>4. PoolKeepsRank => PoolKeepsRank'
    <3>1. MaxSlice(PoolBefore, Unknown)' = MaxSlice(PoolBefore, Unknown) /\ Spot(pool)' = Spot(pool)
      BY <2>1, <2>3 DEF MaxSlice, LargestOut, Slice, SwapIn, AtMost, RoundUp, NoSlice, Spot
    <3> QED BY <2>1, <2>2, <2>3, <3>1 DEF PoolKeepsRank, Cheaper
  <2>5. Ranked => Ranked'
    BY <2>1, <2>2 DEF Ranked, KeepsRank, WholeBetter, Spot, Filled, Cheaper, MaxSlice, LargestOut, Slice, SwapIn, AtMost, RoundUp, NoSlice
  <2> QED BY <2>1, <2>3, <2>4, <2>5 DEF RankInv
<1> QED BY <1>2, <1>3, <1>4, <1>5, <1>6, <1>7, <1>8, <1>9 DEF Next, Pass

LEMMA RankInit == ASSUME Init PROVE RankInv
BY NoPoolTakeType DEF Init, Begins, RankInv, PoolKeepsRank, Passes

\* However a slice was found, from the input or from the output, cut, reduced or
\* bound by the budget, and whichever way its amounts were rounded: the pool is
\* never drawn on beyond the offer it was preferred to.
THEOREM PoolNotOverdrawn == Spec => []PoolKeepsRank
<1>1. Init => RankInv
  BY RankInit
<1>2. CrossingInv /\ RankInv /\ [Next]_vars => RankInv'
  BY RankStep
<1>3. RankInv => PoolKeepsRank
  BY DEF RankInv
<1> QED BY <1>1, <1>2, <1>3, CrossingInvariant, PTL DEF Spec
=============================================================================
