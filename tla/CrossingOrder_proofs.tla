------------------------- MODULE CrossingOrder_proofs -------------------------
(***************************************************************************)
(* Proofs about a flow as a whole: the better offers are taken first, one  *)
(* quality a round and each offer once, owners are paid what they ask, a   *)
(* complete sell has bought all there was for it, and no more is delivered *)
(* than is wanted.                                                         *)
(***************************************************************************)
EXTENDS Crossing_proofs

-----------------------------------------------------------------------------
(* What the next quantum of a row costs *)

\* What is rounded down is the largest amount that fits.
LEMMA RoundDownIsLargest ==
  ASSUME NEW x \in Nat, NEW r \in Rates, NEW q \in Nat, q * r[2] <= x * r[1]
  PROVE  q <= RoundDown(x, r)
<1> DEFINE v == RoundDown(x, r)
           a == x * r[1]
           d == r[2]
<1>1. a \in Nat /\ d \in Nat \ {0}
  BY RateParts, ProductType
<1>2. v \in Nat /\ a < v * d + d
  BY <1>1, Quotient DEF RoundDown
<1>3. q * d <= a
  OBVIOUS
<1> HIDE DEF v, a, d
<1>4. q * d < (v + 1) * d
  BY <1>1, <1>2, <1>3, SMT
<1>5. q < v + 1
  BY <1>1, <1>2, <1>4, SMT
<1> QED BY <1>2, <1>5 DEF v

\* Something costs something.
LEMMA RoundUpPositive ==
  ASSUME NEW x \in Nat \ {0}, NEW r \in Rates PROVE RoundUp(x, r) \in Nat \ {0}
<1>1. RoundUp(x, r) \in Nat /\ x * r[1] <= RoundUp(x, r) * r[2] /\ r[1] \in Nat \ {0} /\ r[2] \in Nat \ {0}
  BY RoundUpRate, RateParts
<1> DEFINE u == RoundUp(x, r)
<1> HIDE DEF u
<1>2. x * r[1] > 0
  BY <1>1, SMT
<1>3. u # 0
  BY <1>1, <1>2, SMT DEF u
<1> QED BY <1>1, <1>3 DEF u

\* The input, before the fee, of a part of a row.
PartIn(o, limit) ==
  IF limit >= Prepared(o).out THEN Prepared(o).in ELSE AtMost(RoundUp(limit, Rate(o)), Prepared(o).in)

LEMMA PartCost ==
  ASSUME TypeOK, NEW o \in Offers, Executable(o), NEW limit \in Nat \ {0}
  PROVE  /\ PartIn(o, limit) \in Nat \ {0} /\ PartIn(o, limit) <= Prepared(o).in
         /\ LimitedOut(o, limit).gross = RoundUp(PartIn(o, limit), InFeeOf(o))
         /\ Prepared(o).gross = RoundUp(Prepared(o).in, InFeeOf(o))
         /\ Prepared(o).in \in Nat \ {0} /\ Prepared(o).out \in Nat \ {0}
<1>1. Prepared(o) \in Take /\ Prepared(o).in \in Nat \ {0} /\ Prepared(o).out \in Nat \ {0}
  BY PreparedType DEF Executable, Take
<1>2. Prepared(o).gross = RoundUp(Prepared(o).in, InFeeOf(o))
  BY DEF Prepared
<1>3. LimitedOut(o, limit).gross = RoundUp(PartIn(o, limit), InFeeOf(o))
  BY <1>2 DEF LimitedOut, PartIn
<1>4. RoundUp(limit, Rate(o)) \in Nat \ {0}
  BY RowType, RoundUpPositive
<1>5. AtMost(RoundUp(limit, Rate(o)), Prepared(o).in) \in {RoundUp(limit, Rate(o)), Prepared(o).in}
      /\ AtMost(RoundUp(limit, Rate(o)), Prepared(o).in) <= Prepared(o).in
  BY <1>1, <1>4, UnknownAssumption DEF AtMost
<1>6. PartIn(o, limit) \in Nat \ {0} /\ PartIn(o, limit) <= Prepared(o).in
  BY <1>1, <1>4, <1>5 DEF PartIn
<1> QED BY <1>1, <1>2, <1>3, <1>6

\* The first quantum costs no more than any part of the row, and more than
\* nothing.
LEMMA FirstQuantum ==
  ASSUME TypeOK, NEW o \in Offers, Executable(o), NEW limit \in Nat \ {0}
  PROVE  /\ LimitedOut(o, 1).gross \in Nat \ {0}
         /\ LimitedOut(o, 1).gross <= LimitedOut(o, limit).gross
         /\ LimitedOut(o, 1).gross <= Prepared(o).gross
<1> DEFINE p == Prepared(o)
           one == PartIn(o, 1)
           part == PartIn(o, limit)
<1>1. /\ one \in Nat \ {0} /\ one <= p.in /\ part \in Nat \ {0} /\ part <= p.in /\ p.in \in Nat \ {0} /\ p.out \in Nat \ {0}
      /\ LimitedOut(o, 1).gross = RoundUp(one, InFeeOf(o)) /\ p.gross = RoundUp(p.in, InFeeOf(o))
      /\ LimitedOut(o, limit).gross = RoundUp(part, InFeeOf(o))
  <2>1. 1 \in Nat \ {0}
    OBVIOUS
  <2> QED BY <2>1, PartCost
<1>2. one <= part
  <2>1. CASE limit >= p.out
    BY <1>1, <2>1 DEF PartIn
  <2>2. CASE ~(limit >= p.out)
    <3>1. ~(1 >= p.out)
      BY <1>1, <2>2
    <3>2. one = AtMost(RoundUp(1, Rate(o)), p.in) /\ part = AtMost(RoundUp(limit, Rate(o)), p.in)
      BY <2>2, <3>1 DEF PartIn
    <3>3. RoundUp(1, Rate(o)) <= RoundUp(limit, Rate(o))
      BY RowType, RoundUpMonotone
    <3>4. RoundUp(1, Rate(o)) \in Nat /\ RoundUp(limit, Rate(o)) \in Nat
      BY RowType, RoundUpRate
    <3> QED BY <1>1, <3>2, <3>3, <3>4 DEF AtMost
  <2> QED BY <2>1, <2>2
<1> HIDE DEF one, part, p
<1>3. RoundUp(one, InFeeOf(o)) <= RoundUp(part, InFeeOf(o)) /\ RoundUp(one, InFeeOf(o)) <= RoundUp(p.in, InFeeOf(o))
  BY <1>1, <1>2, FeesType, RoundUpMonotone
<1>4. RoundUp(one, InFeeOf(o)) \in Nat \ {0}
  BY <1>1, FeesType, RoundUpPositive
<1> QED BY <1>1, <1>3, <1>4 DEF p

\* An input of l is short of the row and buys nothing of it.
Unsold(o, l) == l < Prepared(o).gross /\ LimitedIn(o, l, FALSE) = NoTake

\* The amounts of LimitedIn.
RawIn(o, l) == AtMost(RoundDown(l, Flip(InFeeOf(o))), Prepared(o).in)

BoughtOut(o, l, up) ==
  AtMost(IF up THEN RoundUp(RawIn(o, l), Flip(Rate(o))) ELSE RoundDown(RawIn(o, l), Flip(Rate(o))),
         Prepared(o).out)

LEMMA InCost ==
  ASSUME TypeOK, NEW o \in Offers, Executable(o), NEW l \in Nat, NEW up
  PROVE  /\ RawIn(o, l) \in Nat /\ BoughtOut(o, l, up) \in Nat
         /\ LimitedIn(o, l, up) = NoTake <=> RawIn(o, l) = 0 \/ BoughtOut(o, l, up) = 0
         /\ LimitedIn(o, l, up) # NoTake =>
              LimitedIn(o, l, up).out = BoughtOut(o, l, up) /\ LimitedIn(o, l, up).out > 0
<1>1. Prepared(o).in \in Nat \ {0} /\ Prepared(o).out \in Nat \ {0}
  BY PreparedType DEF Executable, Take
<1>2. RawIn(o, l) \in Nat
  BY <1>1, FeesType, FlipType, RoundDownType, AtMostBounds DEF RawIn
<1>3. BoughtOut(o, l, up) \in Nat
  <2>1. RoundUp(RawIn(o, l), Flip(Rate(o))) \in Nat /\ RoundDown(RawIn(o, l), Flip(Rate(o))) \in Nat
    BY <1>2, RowType, FlipType, RoundUpRate, RoundDownType
  <2> QED BY <1>1, <2>1, AtMostBounds DEF BoughtOut
<1>4. LimitedIn(o, l, up) =
        IF RawIn(o, l) = 0 \/ BoughtOut(o, l, up) = 0 THEN NoTake
        ELSE [out |-> BoughtOut(o, l, up), in |-> RawIn(o, l), gross |-> RoundUp(RawIn(o, l), InFeeOf(o)),
              gives |-> Gives(BoughtOut(o, l, up))]
  BY DEF LimitedIn, RawIn, BoughtOut
<1>5. NoTake.out = 0
  BY DEF NoTake
<1> QED BY <1>2, <1>3, <1>4, <1>5

\* An input that buys nothing of a row is less than its first quantum costs.
LEMMA SkipIsDear ==
  ASSUME TypeOK, NEW o \in Offers, Executable(o), NEW l \in Nat, Unsold(o, l)
  PROVE  l < LimitedOut(o, 1).gross
<1> DEFINE p == Prepared(o)
           one == PartIn(o, 1)
           fee == InFeeOf(o)
           r == Rate(o)
           raw == RoundDown(l, Flip(fee))
           bought == RoundDown(RawIn(o, l), Flip(r))
<1>1. /\ one \in Nat \ {0} /\ one <= p.in /\ p.in \in Nat \ {0} /\ p.out \in Nat \ {0}
      /\ LimitedOut(o, 1).gross = RoundUp(one, fee) /\ p.gross = RoundUp(p.in, fee)
  <2>1. 1 \in Nat \ {0}
    OBVIOUS
  <2> QED BY <2>1, PartCost
<1>2. fee \in Rates /\ r \in Rates /\ fee[1] \in Nat \ {0} /\ fee[2] \in Nat \ {0}
      /\ r[1] \in Nat \ {0} /\ r[2] \in Nat \ {0}
  BY RowType, FeesType, RateParts
<1>3. RawIn(o, l) = 0 \/ AtMost(bought, p.out) = 0
  BY InCost DEF Unsold, BoughtOut
<1>4. raw \in Nat /\ RoundUp(raw, fee) <= l
  BY <1>2, UpOfDown, RoundDownType, FlipType
<1>5. RawIn(o, l) = AtMost(raw, p.in) /\ RawIn(o, l) \in Nat
  BY InCost DEF RawIn
<1> HIDE DEF p, one, raw
<1>6. SUFFICES ASSUME LimitedOut(o, 1).gross <= l PROVE FALSE
  <2>1. RoundUp(one, fee) \in Nat
    BY <1>1, <1>2, RoundUpRate
  <2> QED BY <1>1, <2>1
<1>7. one <= raw
  <2>1. RoundUp(one, fee) \in Nat /\ one * fee[1] <= RoundUp(one, fee) * fee[2]
    BY <1>1, <1>2, RoundUpRate
  <2> DEFINE v == RoundUp(one, fee)
             a == fee[1]
             b == fee[2]
  <2>2. v \in Nat /\ v <= l /\ one * a <= v * b /\ a \in Nat \ {0} /\ b \in Nat \ {0}
    BY <1>1, <1>2, <1>6, <2>1
  <2> HIDE DEF v, a, b
  <2>3. one * a <= l * b
    BY <1>1, <2>2, SMT
  <2>4. one * Flip(fee)[2] <= l * Flip(fee)[1]
    BY <2>3 DEF Flip, a, b
  <2> QED BY <1>1, <1>2, <2>4, FlipType, RoundDownIsLargest DEF raw
<1>8. RawIn(o, l) \in Nat \ {0} /\ one <= RawIn(o, l) /\ RawIn(o, l) <= p.in
      /\ (RawIn(o, l) = raw \/ RawIn(o, l) = p.in)
  BY <1>1, <1>4, <1>5, <1>7, UnknownAssumption DEF AtMost
<1>9. RawIn(o, l) < p.in
  <2>1. CASE RawIn(o, l) = p.in
    <3>1. p.in <= raw
      BY <1>1, <1>4, <1>5, <2>1, UnknownAssumption DEF AtMost
    <3>2. RoundUp(p.in, fee) <= RoundUp(raw, fee)
      BY <1>1, <1>2, <1>4, <3>1, RoundUpMonotone
    <3>3. RoundUp(p.in, fee) \in Nat /\ RoundUp(raw, fee) \in Nat
      BY <1>1, <1>2, <1>4, RoundUpRate
    <3> QED BY <1>1, <1>4, <3>2, <3>3 DEF Unsold, p
  <2> QED BY <1>1, <1>8, <2>1
<1>10. one = RoundUp(1, r)
  <2>1. one # p.in
    BY <1>1, <1>8, <1>9
  <2>2. one = p.in \/ one = RoundUp(1, r)
    BY DEF one, PartIn, AtMost, p
  <2> QED BY <2>1, <2>2
<1>11. bought \in Nat /\ 1 <= bought
  <2>1. 1 * r[1] <= one * r[2]
    BY <1>2, <1>10, RoundUpRate
  <2> DEFINE a == r[1]
             b == r[2]
             w == RawIn(o, l)
  <2>2. a <= one * b /\ one <= w /\ a \in Nat \ {0} /\ b \in Nat \ {0} /\ w \in Nat
    BY <1>2, <1>8, <2>1
  <2> HIDE DEF a, b, w
  <2>3. 1 * a <= w * b
    BY <1>1, <2>2, SMT
  <2>4. 1 * Flip(r)[2] <= RawIn(o, l) * Flip(r)[1]
    BY <2>3 DEF Flip, a, b, w
  <2> QED BY <1>2, <1>8, <2>4, FlipType, RoundDownIsLargest, RoundDownType
<1> HIDE DEF bought
<1>12. AtMost(bought, p.out) # 0
  BY <1>1, <1>11, UnknownAssumption DEF AtMost
<1> QED BY <1>3, <1>8, <1>12

\* What buys nothing buys nothing with less, however it is rounded.
LEMMA SkipMonotone ==
  ASSUME TypeOK, NEW o \in Offers, Executable(o), NEW l \in Nat, NEW m \in Nat, m <= l,
         NEW up \in BOOLEAN, LimitedIn(o, l, up) = NoTake
  PROVE  LimitedIn(o, m, FALSE) = NoTake
<1> DEFINE p == Prepared(o)
           r == Flip(Rate(o))
           fee == Flip(InFeeOf(o))
           u == RawIn(o, l)
           v == RawIn(o, m)
<1>1. /\ u \in Nat /\ v \in Nat /\ p.in \in Nat \ {0} /\ p.out \in Nat \ {0} /\ r \in Rates /\ fee \in Rates
  BY InCost, PreparedType, RowType, FeesType, FlipType DEF Executable, Take
<1>2. v <= u
  <2>1. RoundDown(m, fee) <= RoundDown(l, fee) /\ RoundDown(m, fee) \in Nat /\ RoundDown(l, fee) \in Nat
    BY <1>1, RoundDownMonotone, RoundDownType
  <2>2. u = AtMost(RoundDown(l, fee), p.in) /\ v = AtMost(RoundDown(m, fee), p.in)
    BY DEF RawIn
  <2> HIDE DEF u, v, p, fee
  <2> QED BY <1>1, <2>1, <2>2, UnknownAssumption DEF AtMost
<1>3. u = 0 \/ BoughtOut(o, l, up) = 0
  BY InCost
<1>4. SUFFICES v = 0 \/ BoughtOut(o, m, FALSE) = 0
  BY InCost
<1>5. CASE u = 0
  <2>1. v = 0
    <3> HIDE DEF u, v
    <3> QED BY <1>1, <1>2, <1>5
  <2> QED BY <2>1
<1>6. CASE BoughtOut(o, l, up) = 0
  <2>1. RoundDown(u, r) \in Nat /\ RoundDown(v, r) \in Nat /\ RoundUp(u, r) \in Nat
        /\ RoundDown(v, r) <= RoundDown(u, r) /\ RoundDown(u, r) * r[2] <= u * r[1]
        /\ u * r[1] <= RoundUp(u, r) * r[2] /\ r[2] \in Nat \ {0} /\ r[1] \in Nat
    BY <1>1, <1>2, RoundDownMonotone, RoundDownType, RoundUpRate, RoundDownRate, RateParts
  <2>2. RoundDown(u, r) <= RoundUp(u, r)
    <3> DEFINE x == RoundDown(u, r)
               y == RoundUp(u, r)
               d == r[2]
               n == u * r[1]
    <3>1. n \in Nat
      BY <1>1, <2>1, ProductType
    <3>2. x \in Nat /\ y \in Nat /\ x * d <= n /\ n <= y * d /\ d \in Nat \ {0}
      BY <2>1
    <3> HIDE DEF x, y, d, n
    <3>3. x * d \in Nat /\ y * d \in Nat
      BY <3>2, ProductType
    <3>4. x * d <= y * d
      BY <3>1, <3>2, <3>3
    <3>5. x <= y
      BY <3>2, <3>4, Cancel
    <3> QED BY <3>5 DEF x, y
  <2>3. BoughtOut(o, l, up) \in {AtMost(RoundUp(u, r), p.out), AtMost(RoundDown(u, r), p.out)}
        /\ BoughtOut(o, m, FALSE) = AtMost(RoundDown(v, r), p.out)
    BY DEF BoughtOut
  <2> HIDE DEF u, v, p, r
  <2>4. RoundUp(u, r) = 0 \/ RoundDown(u, r) = 0
    BY <1>1, <1>6, <2>1, <2>3, UnknownAssumption DEF AtMost
  <2>5. RoundDown(v, r) = 0
    BY <2>1, <2>2, <2>4
  <2>6. AtMost(RoundDown(v, r), p.out) = 0
    BY <1>1, <2>5, UnknownAssumption DEF AtMost
  <2> QED BY <2>3, <2>6
<1> QED BY <1>3, <1>5, <1>6

LEMMA UnsoldMonotone ==
  ASSUME TypeOK, NEW o \in Offers, Executable(o), NEW l \in Nat, NEW m \in Nat, m <= l, Unsold(o, l)
  PROVE  Unsold(o, m)
<1>1. LimitedIn(o, m, FALSE) = NoTake
  BY SkipMonotone DEF Unsold
<1>2. Prepared(o).gross \in Nat
  BY PreparedType DEF Take
<1>3. l < Prepared(o).gross
  BY DEF Unsold
<1>4. m < Prepared(o).gross
  BY <1>2, <1>3
<1> QED BY <1>1, <1>4 DEF Unsold
-----------------------------------------------------------------------------
(* What a pass has visited *)

\* What a pass makes of a row depends on the book, the rows and the transaction.
LEMMA PricesStable ==
  ASSUME UNCHANGED <<book, ownerPays, intent, tiers>>
  PROVE  /\ Candidates' = Candidates
         /\ \A o \in Offers : OwnCross(o)' <=> OwnCross(o)
         /\ Blocked' <=> Blocked
         /\ \A o, p \in Offers : Before(o, p)' <=> Before(o, p)
         /\ \A o \in Offers : Rate(o)' = Rate(o) /\ Prepared(o)' = Prepared(o)
         /\ \A o \in Offers : \A l : LimitedOut(o, l)' = LimitedOut(o, l')
         /\ \A o \in Offers : \A l : Unsold(o, l)' <=> Unsold(o, l')
         /\ \A o, p \in Offers : Cheaper(Rate(o), Rate(p))' <=> Cheaper(Rate(o), Rate(p))
<1>1. UNCHANGED book /\ UNCHANGED ownerPays /\ UNCHANGED intent /\ UNCHANGED tiers
  OBVIOUS
<1>2. Fee' = Fee /\ OfferCrossing' = OfferCrossing
  BY <1>1 DEF Fee, Parity, OfferCrossing
<1>3. \A o \in Offers : Rate(o)' = Rate(o) /\ InFeeOf(o)' = InFeeOf(o)
  BY <1>1, <1>2 DEF Rate, InFeeOf, Parity
<1>4. \A o \in Offers : Prepared(o)' = Prepared(o)
  BY <1>1, <1>2, <1>3 DEF Prepared, Gives, AtMost, RoundDown, RoundUp, Flip
<1>5. \A o \in Offers : \A l : LimitedOut(o, l)' = LimitedOut(o, l')
  BY <1>2, <1>3, <1>4 DEF LimitedOut, Gives, AtMost, RoundUp, RoundDown
<1>6. \A o \in Offers : \A l : LimitedIn(o, l, FALSE)' = LimitedIn(o, l', FALSE)
  BY <1>2, <1>3, <1>4 DEF LimitedIn, Gives, AtMost, RoundUp, RoundDown, Flip, NoTake
<1>7. \A o \in Offers : \A l : Unsold(o, l)' <=> Unsold(o, l')
  BY <1>4, <1>6 DEF Unsold, NoTake
<1>8. \A o, p \in Offers : Before(o, p)' <=> Before(o, p)
  BY <1>1 DEF Before, Cheaper
<1>9. \A o, p \in Offers : Cheaper(Rate(o), Rate(p))' <=> Cheaper(Rate(o), Rate(p))
  BY <1>3 DEF Cheaper
<1> QED BY <1>1, <1>3, <1>4, <1>5, <1>7, <1>8, <1>9, RowsStable

LEMMA LeadingStable ==
  ASSUME UNCHANGED <<book, ownerPays, intent, tiers>>
  PROVE  LeadingOwn' = LeadingOwn
<1>1. UNCHANGED book /\ UNCHANGED ownerPays /\ UNCHANGED intent /\ UNCHANGED tiers
  OBVIOUS
<1>2. /\ Candidates' = Candidates /\ Candidates \subseteq Offers
      /\ \A o \in Offers : OwnCross(o)' <=> OwnCross(o)
      /\ \A o, p \in Offers : Before(o, p)' <=> Before(o, p)
  BY PricesStable DEF Candidates
<1>3. Best(Candidates)' = Best(Candidates)
  BY <1>1, <1>2 DEF Best, Leads, Before, Cheaper
<1>4. \A o \in Candidates : Cheaper(Rate(Best(Candidates)), Rate(o))' <=> Cheaper(Rate(Best(Candidates)), Rate(o))
  BY <1>1, <1>3 DEF Rate, Cheaper
<1> QED BY <1>2, <1>4 DEF LeadingOwn

\* A row is funded in full, so a pass offers all of it.
LEMMA WholeRow ==
  ASSUME CrossingInv, phase # "allocate", NEW o \in Offers, tiers[o].out > 0
  PROVE  Prepared(o).out = tiers[o].out
<1>1. TypeOK /\ (tiers[o].funds # Unknown => Gives(tiers[o].out) <= tiers[o].funds)
  BY DEF CrossingInv, StaysFunded
<1>2. tiers[o].out \in Nat /\ tiers[o].funds \in Nat \cup {Unknown} /\ Gives(tiers[o].out) \in Nat
  BY <1>1, RowType, GivesFacts
<1>3. ~(tiers[o].funds # Unknown /\ tiers[o].funds < Gives(tiers[o].out))
  BY <1>1, <1>2
<1> QED BY <1>3 DEF Prepared

\* The pass is done with a row: it is deleted, taken whole, or skipped.
Passed(o) ==
  IF OwnCross(o) THEN o \in deleted
  ELSE \/ takes[o] = Prepared(o)
       \/ phase # "reverse" /\ takes[o] = NoTake /\ Unsold(o, remainingIn - filled.in)

\* What is taken from a row pays for its first quantum, unless the pass spent
\* all it had.
Priced(o) ==
  \/ LimitedOut(o, 1).gross <= takes[o].gross
  \/ phase # "reverse" /\ filled.in = remainingIn /\ (RoundsUp \/ ~Unsold(o, remainingIn))

Taken == {o \in Offers : takes[o].out > 0}

\* A pass goes through the candidates in order and leaves none behind before it
\* has found or spent all it may.  It takes from one quality.
VisitInv ==
  phase \in Passes =>
    /\ ahead \subseteq Candidates
    /\ \A o \in Offers : takes[o] # NoTake =>
         o \in Taken /\ o \in Candidates \ ahead /\ ~OwnCross(o) /\ Priced(o)
    /\ Taken # {} => ~Blocked
    /\ ahead # {} \/ Taken # {} =>
         \A o \in Candidates \ ahead : (\A q \in ahead : Before(o, q)) /\ (Left = 0 \/ Passed(o))
    /\ \A o \in Candidates, p \in Taken : Before(o, p) => o \notin ahead /\ Passed(o)
    /\ \A o, p \in Taken : ~Cheaper(Rate(o), Rate(p))

\* A pass begins with all candidates ahead, or, content with the pool, with none.
LEMMA VisitStart ==
  ASSUME CrossingInv, NEW direction \in Passes, NEW cap, StartPass(direction, cap),
         UNCHANGED <<bookVars, intent, flowVars>>
  PROVE  VisitInv'
<1>1. takes' = NoTakes /\ (ahead' = {} \/ ahead' = Candidates)
  BY DEF StartPass, PassWith
<1>2. UNCHANGED <<book, ownerPays, intent, tiers>>
  BY DEF bookVars, flowVars
<1>3. Candidates' = Candidates
  BY <1>2, PricesStable
<1>4. Taken' = {} /\ \A o \in Offers : takes'[o] = NoTake
  BY <1>1 DEF Taken, NoTakes, NoTake
<1>5. (NoTake)' = NoTake
  BY DEF NoTake
<1> QED BY <1>1, <1>3, <1>4, <1>5 DEF VisitInv

\* Steps that are not of a pass.
LEMMA VisitEnds == ASSUME phase' \notin Passes PROVE VisitInv'
BY DEF VisitInv, Passes

\* A pass goes on to the next row.
LEMMA VisitRow ==
  ASSUME CrossingInv, VisitInv, CrossingInv', Visit, NEW o, o = Best(ahead), ahead' = ahead \ {o},
         UNCHANGED <<bookVars, intent, phase, flowVars>>, UNCHANGED want,
         deleted \subseteq deleted', NEW take \in Take, takes' = [takes EXCEPT ![o] = take],
         filled.in <= filled'.in, phase # "reverse" => filled'.in <= remainingIn,
         \/ take = NoTake /\ Passed(o)'
         \/ take.out > 0 /\ ~OwnCross(o) /\ Priced(o)' /\ (Passed(o)' \/ Left' = 0)
  PROVE  VisitInv'
<1>1. /\ phase \in Passes /\ TypeOK /\ Left > 0 /\ o \in ahead /\ o \in Offers /\ takes[o] = NoTake
      /\ SameQuality(o) /\ ~Blocked /\ takes \in [Offers -> Take] /\ ahead \subseteq Offers
  BY Visited DEF Visit, PassOpen, TypeOK
<1>2. UNCHANGED <<book, ownerPays, intent, tiers>> /\ UNCHANGED <<phase, remainingIn>>
  BY DEF bookVars, flowVars
<1>3. /\ Candidates' = Candidates /\ (Blocked' <=> Blocked)
      /\ \A x \in Offers : OwnCross(x)' <=> OwnCross(x)
      /\ \A x, p \in Offers : Before(x, p)' <=> Before(x, p)
      /\ \A x \in Offers : Rate(x)' = Rate(x) /\ Prepared(x)' = Prepared(x)
      /\ \A x \in Offers : \A l : LimitedOut(x, l)' = LimitedOut(x, l')
      /\ \A x \in Offers : \A l : Unsold(x, l)' <=> Unsold(x, l')
      /\ \A x, p \in Offers : Cheaper(Rate(x), Rate(p))' <=> Cheaper(Rate(x), Rate(p))
  BY <1>2, PricesStable
<1>4. /\ ahead \subseteq Candidates /\ Candidates \subseteq Offers
      /\ \A x \in Offers : takes[x] # NoTake =>
           x \in Taken /\ x \in Candidates \ ahead /\ ~OwnCross(x) /\ Priced(x)
      /\ \A x \in Candidates \ ahead : (\A q \in ahead : Before(x, q)) /\ (Left = 0 \/ Passed(x))
      /\ \A x \in Candidates, p \in Taken : Before(x, p) => x \notin ahead /\ Passed(x)
      /\ \A x, p \in Taken : ~Cheaper(Rate(x), Rate(p))
  BY <1>1 DEF VisitInv, Candidates
<1>5. Leads(o, ahead) /\ BookTypeOK
  BY <1>1, LeaderExists DEF Best, TypeOK
<1>6. \A x \in Offers : x # o => takes'[x] = takes[x]
  BY <1>1
<1>7. takes'[o] = take
  BY <1>1
<1>8. filled.in \in Nat /\ filled'.in \in Nat /\ remainingIn \in Nat
  BY DEF CrossingInv, TypeOK, Amount
<1>9. \A x \in Candidates \ {o} : Passed(x) => Passed(x)'
  <2> SUFFICES ASSUME NEW x \in Candidates \ {o}, Passed(x) PROVE Passed(x)'
    OBVIOUS
  <2>1. x \in Offers /\ Executable(x) /\ takes'[x] = takes[x]
    BY <1>6 DEF Candidates
  <2>2. CASE OwnCross(x)
    BY <1>3, <2>1, <2>2 DEF Passed
  <2>3. CASE ~OwnCross(x) /\ takes[x] = Prepared(x)
    BY <1>3, <2>1, <2>3 DEF Passed
  <2>4. CASE ~OwnCross(x) /\ phase # "reverse" /\ takes[x] = NoTake /\ Unsold(x, remainingIn - filled.in)
    <3>1. remainingIn - filled.in \in Nat /\ remainingIn - filled'.in \in Nat
          /\ remainingIn - filled'.in <= remainingIn - filled.in
      BY <1>8, <2>4
    <3>2. Unsold(x, remainingIn - filled'.in)
      BY <1>1, <2>1, <2>4, <3>1, UnsoldMonotone
    <3>3. Unsold(x, remainingIn - filled.in)'
      BY <1>2, <1>3, <2>1, <3>2
    <3>4. phase' # "reverse" /\ (NoTake)' = NoTake
      BY <1>2, <2>4 DEF NoTake
    <3> QED BY <1>3, <2>1, <2>4, <3>3, <3>4 DEF Passed
  <2> QED BY <2>2, <2>3, <2>4 DEF Passed
<1>10. \A x \in Candidates \ ahead : Passed(x) /\ Passed(x)'
  BY <1>1, <1>4, <1>9
<1>11. Taken' \subseteq Taken \cup {o} /\ (o \in Taken' => take.out > 0) /\ Taken \subseteq Offers /\ o \notin Taken
  BY <1>1, <1>6, <1>7 DEF Taken, NoTake
<1>12. ahead' \subseteq Candidates'
  BY <1>3, <1>4
<1>13. ASSUME NEW x \in Offers, takes'[x] # NoTake
       PROVE  x \in Taken' /\ x \in Candidates' \ ahead' /\ ~OwnCross(x)' /\ Priced(x)'
  <2>1. CASE x = o
    BY <1>1, <1>3, <1>4, <1>7, <1>13, <2>1 DEF Taken, NoTake
  <2>2. CASE x # o
    <3>1. takes'[x] = takes[x] /\ x \in Taken /\ x \in Candidates \ ahead /\ ~OwnCross(x) /\ Priced(x)
      BY <1>4, <1>6, <1>13, <2>2
    <3>2. LimitedOut(x, 1).gross <= takes[x].gross
      BY <1>1, <1>8, <3>1 DEF Priced, Left
    <3>3. Priced(x)'
      BY <1>3, <3>1, <3>2 DEF Priced
    <3> QED BY <1>3, <3>1, <3>3 DEF Taken
  <2> QED BY <2>1, <2>2
<1>14. ASSUME NEW x \in Candidates' \ ahead'
       PROVE  (\A q \in ahead' : Before(x, q)') /\ (Left' = 0 \/ Passed(x)')
  <2>1. CASE x = o
    <3>1. \A q \in ahead' : Before(x, q)'
      BY <1>1, <1>3, <1>5, <2>1 DEF Leads
    <3> QED BY <2>1, <3>1
  <2>2. CASE x # o
    <3>1. x \in Candidates \ ahead
      BY <1>3, <1>14, <2>2
    <3>2. \A q \in ahead' : Before(x, q)'
      BY <1>1, <1>3, <1>4, <3>1
    <3> QED BY <1>10, <3>1, <3>2
  <2> QED BY <2>1, <2>2
<1>15. ASSUME NEW x \in Candidates', NEW p \in Taken', Before(x, p)'
       PROVE  x \notin ahead' /\ Passed(x)'
  <2>1. x \in Candidates /\ x \in Offers /\ p \in Offers /\ Before(x, p)
    BY <1>1, <1>3, <1>4, <1>11, <1>15
  <2>2. CASE p \in Taken
    <3>1. x \notin ahead
      BY <1>4, <2>1, <2>2
    <3> QED BY <1>10, <2>1, <3>1
  <2>3. CASE p = o
    <3>1. ~Before(o, x)
      BY <1>5, <2>1, <2>3, BeforeStrict
    <3>2. x # o
      BY <2>1, <2>3, <3>1
    <3>3. x \notin ahead
      BY <1>5, <3>1, <3>2 DEF Leads
    <3> QED BY <1>10, <2>1, <3>3
  <2> QED BY <1>11, <2>2, <2>3
<1>16. ASSUME NEW x \in Taken', NEW p \in Taken' PROVE ~Cheaper(Rate(x), Rate(p))'
  <2>1. x \in Offers /\ p \in Offers /\ Rate(x) \in Rates /\ Rate(p) \in Rates
    BY <1>1, <1>11, RowType
  <2>2. SUFFICES ~Cheaper(Rate(x), Rate(p))
    BY <1>3, <2>1
  <2>3. CASE x \in Taken /\ p \in Taken
    BY <1>4, <2>3
  <2>4. CASE x \in Taken /\ p = o
    BY <1>1, <2>1, <2>4 DEF SameQuality, Taken
  <2>5. CASE x = o /\ p \in Taken
    <3>1. ~Before(o, p)
      BY <1>1, <1>4, <2>5
    <3> QED BY <2>5, <3>1 DEF Before, Rate
  <2>6. CASE x = o /\ p = o
    BY <2>1, <2>6, NoDearerTotal
  <2> QED BY <1>11, <2>3, <2>4, <2>5, <2>6
<1>17. Taken' # {} => ~Blocked'
  BY <1>1, <1>3
<1>18. (NoTake)' = NoTake
  BY DEF NoTake
<1> QED BY <1>12, <1>13, <1>14, <1>15, <1>16, <1>17, <1>18 DEF VisitInv
LEMMA VisitDelete ==
  ASSUME CrossingInv, VisitInv, CrossingInv', DeleteOwn PROVE VisitInv'
<1>1. PICK o : o = Best(ahead)
  OBVIOUS
<1>2. /\ Visit /\ OwnCross(o) /\ deleted' = deleted \cup {o} /\ ahead' = ahead \ {o}
      /\ UNCHANGED <<bookVars, intent, phase, flowVars>> /\ UNCHANGED want /\ UNCHANGED takes /\ UNCHANGED filled
  BY <1>1 DEF DeleteOwn
<1>3. TypeOK /\ phase \in Passes /\ o \in Offers /\ takes[o] = NoTake /\ takes \in [Offers -> Take]
  BY <1>1, <1>2, Visited DEF TypeOK
<1>4. takes' = [takes EXCEPT ![o] = NoTake] /\ NoTake \in Take
  BY <1>2, <1>3 DEF NoTake, Take
<1>5. filled.in <= filled'.in /\ (phase # "reverse" => filled'.in <= remainingIn)
  BY <1>2, <1>3 DEF TypeOK, Amount, CrossingInv, PassInv
<1>6. UNCHANGED <<book, ownerPays, intent, tiers>> /\ UNCHANGED o
  BY <1>2 DEF bookVars, flowVars
<1>7. OwnCross(o)' <=> OwnCross(o)
  BY <1>3, <1>6, PricesStable
<1>8. Passed(o)'
  BY <1>2, <1>7 DEF Passed
<1> QED BY <1>1, <1>2, <1>4, <1>5, <1>8, VisitRow

LEMMA VisitReverse ==
  ASSUME CrossingInv, VisitInv, CrossingInv', TakeReverse PROVE VisitInv'
<1>1. PICK o : o = Best(ahead)
  OBVIOUS
<1> DEFINE take == LimitedOut(o, Left)
<1>2. /\ Visit /\ phase = "reverse" /\ takes' = [takes EXCEPT ![o] = take] /\ ~OwnCross(o)
      /\ filled' = [out |-> filled.out + take.out, in |-> filled.in + take.gross]
      /\ ahead' = ahead \ {o} /\ deleted' = deleted
      /\ UNCHANGED <<bookVars, intent, phase, flowVars>> /\ UNCHANGED want
  BY <1>1 DEF TakeReverse
<1>3. /\ TypeOK /\ phase \in Passes /\ o \in Offers /\ o \in ahead /\ Left \in Nat \ {0}
  BY <1>1, <1>2, Visited
<1>4. o \in Candidates /\ Executable(o)
  BY <1>3 DEF VisitInv, Candidates
<1>5. /\ take \in Take /\ take.out = AtMost(Prepared(o).out, Left)
      /\ LimitedOut(o, 1).gross <= take.gross /\ Prepared(o).out \in Nat \ {0}
  BY <1>3, <1>4, LimitedOutType, FirstQuantum, PartCost
<1>6. take.out > 0 /\ (take.out = Left \/ take = Prepared(o))
  BY <1>3, <1>5, UnknownAssumption DEF AtMost, LimitedOut
<1> HIDE DEF take
<1>7. take.gross \in Nat /\ filled.in \in Nat /\ filled.out \in Nat /\ want \in Nat /\ take.out \in Nat
  BY <1>3, <1>5 DEF Take, TypeOK, Amount
<1>8. filled.in <= filled'.in
  BY <1>2, <1>7
<1>9. UNCHANGED <<book, ownerPays, intent, tiers>> /\ UNCHANGED o
  BY <1>2 DEF bookVars, flowVars
<1>10. Prepared(o)' = Prepared(o) /\ LimitedOut(o, 1)' = LimitedOut(o, 1) /\ (OwnCross(o)' <=> OwnCross(o))
  BY <1>3, <1>9, PricesStable
<1>11. takes'[o] = take
  BY <1>2, <1>3 DEF TypeOK
<1>12. Priced(o)'
  BY <1>5, <1>10, <1>11 DEF Priced
<1>13. Passed(o)' \/ Left' = 0
  <2>1. CASE take = Prepared(o)
    BY <1>2, <1>10, <1>11, <2>1 DEF Passed
  <2>2. CASE take.out = Left
    <3>1. Left = want - filled.out
      BY <1>2 DEF Left
    <3>2. want' = want /\ filled'.out = filled.out + take.out /\ phase' = "reverse"
      BY <1>2
    <3>3. Left' = want' - filled'.out
      BY <3>2 DEF Left
    <3> QED BY <1>7, <2>2, <3>1, <3>2, <3>3
  <2> QED BY <1>6, <2>1, <2>2
<1> QED BY <1>1, <1>2, <1>5, <1>6, <1>8, <1>12, <1>13, VisitRow

LEMMA VisitForward ==
  ASSUME CrossingInv, VisitInv, CrossingInv', TakeForward PROVE VisitInv'
<1>1. PICK o : o = Best(ahead)
  OBVIOUS
<1> DEFINE bound == Left < Prepared(o).gross
           take == IF bound THEN LimitedIn(o, Left, RoundsUp) ELSE Prepared(o)
           wanted == want - filled.out
           cutBack == LimitedOut(o, wanted)
           cut == 0 < wanted /\ wanted < take.out /\ cutBack.gross = Left
<1>2. /\ Visit /\ phase \in {"forward", "fallback"} /\ ~OwnCross(o)
      /\ ahead' = ahead \ {o} /\ deleted' = deleted
      /\ UNCHANGED <<bookVars, intent, phase, flowVars>> /\ UNCHANGED want
      /\ \/ take = NoTake /\ UNCHANGED <<takes, filled>>
         \/ take # NoTake /\ cut /\ takes' = [takes EXCEPT ![o] = cutBack]
            /\ filled' = [out |-> want, in |-> remainingIn]
         \/ take # NoTake /\ ~cut /\ takes' = [takes EXCEPT ![o] = take]
            /\ filled' = [out |-> filled.out + take.out,
                          in  |-> IF bound THEN remainingIn ELSE filled.in + take.gross]
  BY <1>1 DEF TakeForward
<1>3. /\ TypeOK /\ phase \in Passes /\ o \in Offers /\ o \in ahead /\ Left \in Nat \ {0} /\ takes[o] = NoTake
      /\ PassInv /\ takes \in [Offers -> Take]
  BY <1>1, <1>2, Visited DEF CrossingInv, TypeOK
<1>4. o \in Candidates /\ Executable(o)
  BY <1>3 DEF VisitInv, Candidates
<1>5. /\ filled.out \in Nat /\ filled.in \in Nat /\ remainingIn \in Nat /\ want \in Nat
      /\ Left = remainingIn - filled.in /\ filled.in <= remainingIn
  BY <1>2, <1>3 DEF TypeOK, Amount, Left, PassInv
<1>6. UNCHANGED <<book, ownerPays, intent, tiers>> /\ UNCHANGED o /\ UNCHANGED <<phase, remainingIn>>
  BY <1>2 DEF bookVars, flowVars
<1>7. /\ Prepared(o)' = Prepared(o) /\ LimitedOut(o, 1)' = LimitedOut(o, 1) /\ (OwnCross(o)' <=> OwnCross(o))
      /\ \A l : Unsold(o, l)' <=> Unsold(o, l')
  BY <1>3, <1>6, PricesStable
<1>8. Prepared(o) \in Take /\ Prepared(o).out \in Nat \ {0} /\ Prepared(o).gross \in Nat
      /\ LimitedOut(o, 1).gross <= Prepared(o).gross
  BY <1>3, <1>4, PreparedType, PartCost, FirstQuantum DEF Take
<1>9. RoundsUp \in BOOLEAN
  BY DEF RoundsUp
<1>10. LimitedIn(o, Left, RoundsUp) \in Take
       /\ (LimitedIn(o, Left, RoundsUp) # NoTake => LimitedIn(o, Left, RoundsUp).out > 0)
  BY <1>3, <1>4, LimitedInType, InCost
<1>11. NoTake.out = 0 /\ NoTake \in Take /\ (NoTake)' = NoTake
  BY DEF NoTake, Take
<1>12. take \in Take /\ (take # NoTake => take.out > 0)
  <2>1. CASE bound
    BY <1>10, <2>1
  <2>2. CASE ~bound
    BY <1>8, <2>2
  <2> QED BY <2>1, <2>2
<1>13. CASE take = NoTake /\ UNCHANGED <<takes, filled>>
  <2>1. bound /\ LimitedIn(o, Left, RoundsUp) = NoTake
    BY <1>8, <1>11, <1>13
  <2>2. LimitedIn(o, Left, FALSE) = NoTake
    <3>1. Left \in Nat /\ Left <= Left
      BY <1>3
    <3> HIDE DEF bound
    <3> QED BY <1>3, <1>4, <1>9, <2>1, <3>1, SkipMonotone
  <2>3. Unsold(o, remainingIn - filled.in)
    BY <1>5, <2>1, <2>2 DEF Unsold
  <2>4. Unsold(o, remainingIn - filled.in)'
    BY <1>6, <1>7, <1>13, <2>3
  <2>5. Passed(o)'
    BY <1>2, <1>3, <1>6, <1>7, <1>11, <1>13, <2>4 DEF Passed
  <2>6. takes' = [takes EXCEPT ![o] = NoTake]
    BY <1>3, <1>13
  <2>7. filled.in <= filled'.in /\ (phase # "reverse" => filled'.in <= remainingIn)
    BY <1>5, <1>13
  <2> HIDE DEF take, cut, cutBack
  <2> QED BY <1>1, <1>2, <1>11, <2>5, <2>6, <2>7, VisitRow
<1>14. CASE take # NoTake /\ cut /\ takes' = [takes EXCEPT ![o] = cutBack]
            /\ filled' = [out |-> want, in |-> remainingIn]
  <2>1. wanted \in Nat \ {0} /\ cut
    BY <1>5, <1>14
  <2> HIDE DEF wanted
  <2>2. /\ cutBack \in Take /\ LimitedOut(o, 1).gross <= cutBack.gross
        /\ cutBack.out = AtMost(Prepared(o).out, wanted)
    BY <1>3, <1>4, <2>1, LimitedOutType, FirstQuantum
  <2>3. cutBack.out > 0
    <3> HIDE DEF cutBack
    <3> QED BY <1>8, <2>1, <2>2, UnknownAssumption DEF AtMost
  <2> HIDE DEF cutBack, take, cut
  <2>4. takes'[o] = cutBack /\ filled'.in = remainingIn
    BY <1>3, <1>14
  <2>5. Priced(o)'
    BY <1>7, <2>2, <2>4 DEF Priced
  <2>6. Left' = 0
    BY <1>2, <1>5, <1>6, <2>4 DEF Left
  <2>7. filled.in <= filled'.in /\ (phase # "reverse" => filled'.in <= remainingIn)
    BY <1>5, <2>4
  <2> QED BY <1>1, <1>2, <1>14, <2>2, <2>3, <2>5, <2>6, <2>7, VisitRow
<1>15. CASE take # NoTake /\ ~cut /\ takes' = [takes EXCEPT ![o] = take]
            /\ filled' = [out |-> filled.out + take.out,
                          in  |-> IF bound THEN remainingIn ELSE filled.in + take.gross]
  <2>1. takes'[o] = take
    BY <1>3, <1>15
  <2>2. filled'.in = IF bound THEN remainingIn ELSE filled.in + take.gross
    BY <1>15
  <2>3. CASE bound
    <3>1. take = LimitedIn(o, Left, RoundsUp)
      BY <2>3
    <3>2. filled'.in = remainingIn
      BY <2>2, <2>3
    <3> HIDE DEF take, cut, bound
    <3>3. Left' = 0
      BY <1>2, <1>5, <1>6, <3>2 DEF Left
    <3>4. RoundsUp \/ ~Unsold(o, remainingIn)
      <4> SUFFICES ASSUME ~RoundsUp, Unsold(o, remainingIn) PROVE FALSE
        OBVIOUS
      <4>1. LimitedIn(o, remainingIn, FALSE) = NoTake
        BY DEF Unsold
      <4>2. Left <= remainingIn
        BY <1>5
      <4>3. LimitedIn(o, Left, FALSE) = NoTake
        BY <1>3, <1>4, <1>5, <4>1, <4>2, SkipMonotone
      <4>4. RoundsUp = FALSE
        BY <1>9
      <4> QED BY <1>15, <3>1, <4>3, <4>4
    <3>5. RoundsUp' <=> RoundsUp
      <4>1. LeadingOwn' = LeadingOwn
        BY <1>6, LeadingStable
      <4> QED BY <4>1 DEF RoundsUp
    <3>6. Priced(o)'
      BY <1>2, <1>6, <1>7, <3>2, <3>4, <3>5 DEF Priced
    <3>7. filled.in <= filled'.in /\ (phase # "reverse" => filled'.in <= remainingIn)
      BY <1>5, <3>2
    <3> QED BY <1>1, <1>2, <1>12, <1>15, <3>3, <3>6, <3>7, VisitRow
  <2>4. CASE ~bound
    <3>1. take = Prepared(o)
      BY <2>4
    <3>2. filled'.in = filled.in + take.gross /\ ~(Left < Prepared(o).gross)
      BY <2>2, <2>4
    <3> HIDE DEF take, cut, bound
    <3>3. Passed(o)'
      BY <1>2, <1>7, <2>1, <3>1 DEF Passed
    <3>4. Priced(o)'
      BY <1>7, <1>8, <2>1, <3>1 DEF Priced
    <3>5. filled.in <= filled'.in /\ (phase # "reverse" => filled'.in <= remainingIn)
      BY <1>5, <1>8, <3>1, <3>2
    <3> QED BY <1>1, <1>2, <1>12, <1>15, <3>3, <3>4, <3>5, VisitRow
  <2> QED BY <2>3, <2>4
<1> QED BY <1>2, <1>13, <1>14, <1>15

LEMMA VisitStep == CrossingInv /\ VisitInv /\ [Next]_vars => VisitInv'
<1> SUFFICES ASSUME CrossingInv, VisitInv, [Next]_vars PROVE VisitInv'
  OBVIOUS
<1>1. CrossingInv'
  BY CrossingStep
<1>2. CASE Allocate \/ BeginFlow \/ StopFlow \/ EndFlow \/ Settle \/ CommitRound
  <2>1. phase' \notin Passes
    BY <1>2 DEF Allocate, BeginFlow, StopFlow, EndFlow, Settle, CommitRound, Commit, Passes
  <2> QED BY <2>1, VisitEnds
<1>3. CASE BeginRound
  BY <1>3, VisitStart DEF BeginRound, Passes
<1>4. CASE RunForward
  BY <1>4, VisitStart DEF RunForward, Passes
<1>5. CASE RunFallback
  BY <1>5, VisitStart DEF RunFallback, Passes
<1>6. CASE DeleteOwn \/ TakeReverse \/ TakeForward
  BY <1>1, <1>6, VisitDelete, VisitReverse, VisitForward
<1>7. CASE UNCHANGED vars
  <2>1. /\ UNCHANGED <<book, ownerPays, intent, tiers>>
        /\ UNCHANGED <<phase, remainingIn, ahead, takes, deleted, filled, want>>
    BY <1>7 DEF vars, bookVars, passVars, flowVars
  <2>2. /\ Candidates' = Candidates /\ (Blocked' <=> Blocked)
        /\ \A x \in Offers : OwnCross(x)' <=> OwnCross(x)
        /\ \A x, p \in Offers : Before(x, p)' <=> Before(x, p)
        /\ \A x \in Offers : Prepared(x)' = Prepared(x)
        /\ \A x \in Offers : \A l : LimitedOut(x, l)' = LimitedOut(x, l')
        /\ \A x \in Offers : \A l : Unsold(x, l)' <=> Unsold(x, l')
        /\ \A x, p \in Offers : Cheaper(Rate(x), Rate(p))' <=> Cheaper(Rate(x), Rate(p))
    BY <2>1, PricesStable
  <2>3. LeadingOwn' = LeadingOwn /\ (NoTake)' = NoTake /\ Taken' = Taken /\ Left' = Left
    BY <2>1, LeadingStable DEF NoTake, Taken, Left
  <2>4. Taken \subseteq Offers /\ Candidates \subseteq Offers /\ ahead \subseteq Offers
    BY DEF Taken, Candidates, CrossingInv, TypeOK
  <2>5. \A x \in Offers : (Passed(x)' <=> Passed(x)) /\ (Priced(x)' <=> Priced(x))
    BY <2>1, <2>2, <2>3 DEF Passed, Priced, RoundsUp
  <2> QED BY <2>1, <2>2, <2>3, <2>4, <2>5 DEF VisitInv
<1> QED BY <1>2, <1>3, <1>4, <1>5, <1>6, <1>7 DEF Next, Pass
-----------------------------------------------------------------------------
(* The better offer first *)

\* A row that stays as it is costs what it did.
LEMMA RowStable ==
  ASSUME UNCHANGED <<book, ownerPays, intent>>, NEW o \in Offers, tiers'[o] = tiers[o]
  PROVE  /\ Prepared(o)' = Prepared(o) /\ (o \in Candidates' <=> o \in Candidates)
         /\ \A l : LimitedOut(o, l)' = LimitedOut(o, l')
         /\ \A l : Unsold(o, l)' <=> Unsold(o, l')
<1>1. UNCHANGED book /\ UNCHANGED ownerPays /\ UNCHANGED intent
  OBVIOUS
<1>2. Fee' = Fee /\ OfferCrossing' = OfferCrossing /\ SendMax' = SendMax
  BY <1>1 DEF Fee, Parity, OfferCrossing, SendMax, RoundUp
<1>3. Rate(o)' = Rate(o) /\ InFeeOf(o)' = InFeeOf(o) /\ LimitRate' = LimitRate
  BY <1>1, <1>2 DEF Rate, InFeeOf, Parity, LimitRate
<1>4. Prepared(o)' = Prepared(o)
  BY <1>2, <1>3 DEF Prepared, Gives, AtMost, RoundDown, RoundUp, Flip
<1>5. \A l : LimitedOut(o, l)' = LimitedOut(o, l')
  BY <1>2, <1>3, <1>4 DEF LimitedOut, Gives, AtMost, RoundUp, RoundDown
<1>6. \A l : LimitedIn(o, l, FALSE)' = LimitedIn(o, l', FALSE)
  BY <1>2, <1>3, <1>4 DEF LimitedIn, Gives, AtMost, RoundUp, RoundDown, Flip, NoTake
<1>7. \A l : Unsold(o, l)' <=> Unsold(o, l')
  BY <1>4, <1>6 DEF Unsold, NoTake
<1>8. o \in Candidates' <=> o \in Candidates
  BY <1>2, <1>3, <1>4 DEF Candidates, Executable, Cheaper
<1> QED BY <1>4, <1>5, <1>7, <1>8

\* Which offers are own and which come first does not change.
LEMMA OrderStable ==
  ASSUME UNCHANGED <<book, ownerPays, intent>>
  PROVE  /\ \A o \in Offers : OwnCross(o)' <=> OwnCross(o)
         /\ \A o, p \in Offers : Before(o, p)' <=> Before(o, p)
         /\ \A o, p \in Offers : Cheaper(Rate(o), Rate(p))' <=> Cheaper(Rate(o), Rate(p))
         /\ Budget' = Budget /\ Target' = Target
<1>1. UNCHANGED book /\ UNCHANGED ownerPays /\ UNCHANGED intent
  OBVIOUS
<1>2. OfferCrossing' = OfferCrossing /\ SendMax' = SendMax
  BY <1>1 DEF OfferCrossing, SendMax, RoundUp
<1>3. LimitRate' = LimitRate /\ \A o \in Offers : Rate(o)' = Rate(o)
  BY <1>1, <1>2 DEF Rate, LimitRate
<1>4. \A o \in Offers : OwnCross(o)' <=> OwnCross(o)
  BY <1>1, <1>2, <1>3 DEF OwnCross, TooDear, Cheaper
<1>5. \A o, p \in Offers : Before(o, p)' <=> Before(o, p)
  BY <1>1 DEF Before, Cheaper
<1>6. \A o, p \in Offers : Cheaper(Rate(o), Rate(p))' <=> Cheaper(Rate(o), Rate(p))
  BY <1>3 DEF Cheaper
<1>7. Budget' = Budget /\ Target' = Target
  BY <1>1, <1>2 DEF Budget, Target, AtMost
<1> QED BY <1>4, <1>5, <1>6, <1>7

\* What a round leaves to cross it did not delete or take whole, and what it
\* did not take from it left alone.
LEMMA CandidateAfter ==
  ASSUME CrossingInv, VisitInv, CommitRound, NEW o \in Candidates'
  PROVE  /\ o \in Offers /\ o \in Candidates /\ o \notin deleted /\ takes[o] # Prepared(o)
         /\ takes[o].out = 0 => tiers'[o] = tiers[o]
<1>1. /\ phase \in Passes /\ phase # "allocate" /\ TypeOK /\ UNCHANGED <<book, ownerPays, intent>>
      /\ tiers' = [x \in Offers |-> Replaced(x)]
  BY DEF CommitRound, Commit, EndPass, Passes, CrossingInv, bookVars
<1>2. o \in Offers /\ tiers'[o].out > 0
  BY DEF Candidates, Executable
<1>3. tiers'[o] = Replaced(o)
  BY <1>1, <1>2
<1>4. tiers[o] \in Row /\ tiers[o].out \in Nat /\ takes[o].out \in Nat /\ takes[o] \in Take
  BY <1>1, <1>2, RowType DEF TypeOK, Take
<1>5. o \notin deleted
  <2> SUFFICES ASSUME o \in deleted PROVE FALSE
    OBVIOUS
  <2>1. tiers[o] = [out |-> tiers[o].out, in |-> tiers[o].in, funds |-> tiers[o].funds]
    BY <1>4 DEF Row
  <2>2. Replaced(o) = [tiers[o] EXCEPT !.out = 0, !.in = 0]
    BY DEF Replaced
  <2>3. Replaced(o).out = 0
    BY <2>1, <2>2
  <2> QED BY <1>2, <1>3, <2>3
<1>6. CASE takes[o].out > 0
  <2>1. takes[o] # NoTake
    BY <1>6 DEF NoTake
  <2>2. o \in Candidates
    BY <1>1, <1>2, <2>1 DEF VisitInv
  <2>3. takes[o] # Prepared(o)
    <3> SUFFICES ASSUME takes[o] = Prepared(o) PROVE FALSE
      OBVIOUS
    <3>1. tiers[o].out > 0
      BY <2>2 DEF Candidates, Executable
    <3>2. takes[o].out = tiers[o].out
      BY <1>1, <1>2, <3>1, WholeRow
    <3>3. Replaced(o) = Consumed(o)
      BY <1>5, <1>6 DEF Replaced
    <3>4. Consumed(o).out = 0
      BY <1>4, <3>2 DEF Consumed
    <3> QED BY <1>2, <1>3, <3>3, <3>4
  <2> QED BY <1>2, <1>5, <1>6, <2>2, <2>3
<1>7. CASE ~(takes[o].out > 0)
  <2>1. tiers'[o] = tiers[o]
    BY <1>3, <1>5, <1>7 DEF Replaced
  <2>2. o \in Candidates
    BY <1>1, <1>2, <2>1, RowStable
  <2>3. Prepared(o).out > 0
    BY <2>2 DEF Candidates, Executable
  <2> QED BY <1>2, <1>5, <1>7, <2>1, <2>2, <2>3
<1> QED BY <1>6, <1>7

\* What is taken from one row is part of what is paid.
LEMMA OnePays ==
  ASSUME CrossingInv, phase \in Passes, NEW o \in Offers
  PROVE  takes[o].gross \in Nat /\ takes[o].gross <= filled.in
<1>1. takes \in [Offers -> Take] /\ filled.in \in Nat /\ poolTake.gross \in Nat
      /\ Sum(Costs(takes), Offers) + poolTake.gross <= filled.in
  BY DEF CrossingInv, TypeOK, Amount, PoolTake, PassInv
<1>2. \A x \in Offers : Costs(takes)[x] \in Nat
  BY <1>1, TakeParts DEF Costs
<1>3. IsFiniteSet(Offers \ {o})
  BY OffersFinite, FS_Subset
<1>4. Sum(Costs(takes), Offers) = Costs(takes)[o] + Sum(Costs(takes), Offers \ {o})
  BY <1>2, OffersFinite, SumRemove
<1>5. Sum(Costs(takes), Offers \ {o}) \in Nat
  BY <1>2, <1>3, SumType
<1>6. Costs(takes)[o] = takes[o].gross /\ takes[o].gross \in Nat
  BY <1>2 DEF Costs
<1> QED BY <1>1, <1>4, <1>5, <1>6

\* What a quantum costs, in the state after a step.
QuantumCosts == \A o \in Offers : Executable(o) => LimitedOut(o, 1).gross \in Nat \ {0}

LEMMA QuantumCostsNow == TypeOK => QuantumCosts
<1>1. 1 \in Nat \ {0}
  OBVIOUS
<1> QED BY <1>1, FirstQuantum DEF QuantumCosts

LEMMA QuantumCostsNext == TypeOK' => QuantumCosts'
BY QuantumCostsNow, PTL

LEMMA FirstQuantumNext ==
  ASSUME TypeOK', NEW o \in Offers, Executable(o)'
  PROVE  LimitedOut(o, 1)'.gross \in Nat \ {0}
BY QuantumCostsNext DEF QuantumCosts

LEMMA BetterCommit ==
  ASSUME CrossingInv, VisitInv, BetterOfferFirst, CommitRound PROVE BetterOfferFirst'
<1> SUFFICES ASSUME NEW o \in Offers, NEW p \in Offers, trace'[p].out > 0, Before(o, p)',
                    o \in Candidates', ~OwnCross(o)'
             PROVE  total'.in + LimitedOut(o, 1)'.gross > Budget'
  BY DEF BetterOfferFirst
<1>1. /\ phase \in Passes /\ TypeOK /\ UNCHANGED <<book, ownerPays, intent>>
      /\ total' = [out |-> total.out + filled.out, in |-> total.in + filled.in]
      /\ trace' = [x \in Offers |-> RoundTakes(x)] /\ (phase = "reverse" => ~(remainingIn < filled.in))
  BY DEF CommitRound, Commit, Commits, EndPass, CrossingInv, bookVars, BindsBudget
<1>2. /\ o \in Candidates /\ o \notin deleted /\ takes[o] # Prepared(o) /\ Executable(o)
      /\ (takes[o].out = 0 => tiers'[o] = tiers[o])
  BY CandidateAfter DEF Candidates
<1>3. ~OwnCross(o) /\ Before(o, p) /\ Budget' = Budget
  BY <1>1, OrderStable
<1>4. /\ total.in \in Nat /\ filled.in \in Nat /\ remainingIn \in Nat /\ Budget \in Nat
      /\ remainingIn = Budget - total.in /\ filled.in <= remainingIn
      /\ takes \in [Offers -> Take] /\ trace \in [Offers -> Take]
  BY <1>1, BudgetType DEF CrossingInv, TypeOK, Amount, BudgetInv, PassInv, Passes
<1>5. total'.in = total.in + filled.in
  BY <1>1
<1>6. LimitedOut(o, 1).gross \in Nat \ {0}
  <2>1. 1 \in Nat \ {0}
    OBVIOUS
  <2> QED BY <1>1, <1>2, <2>1, FirstQuantum
<1>7. LimitedOut(o, 1)'.gross \in Nat \ {0}
  <2>1. TypeOK' /\ Executable(o)'
    BY CommitRoundInv DEF CrossingInv, Candidates
  <2>2. 1 \in Nat \ {0}
    OBVIOUS
  <2> QED BY <2>1, <2>2, FirstQuantumNext
<1>8. takes[o].out = 0 => LimitedOut(o, 1)' = LimitedOut(o, 1)
  BY <1>1, <1>2, RowStable
<1>9. takes[p].out \in Nat /\ trace[p].out \in Nat /\ takes[o].out \in Nat
      /\ trace'[p].out = trace[p].out + takes[p].out
  BY <1>1, <1>4, TakeParts DEF RoundTakes
<1>10. CASE takes[p].out > 0
  <2>1. Passed(o)
    BY <1>1, <1>2, <1>3, <1>10 DEF VisitInv, Taken
  <2>2. takes[o] = NoTake /\ Unsold(o, remainingIn - filled.in)
    BY <1>2, <1>3, <2>1 DEF Passed
  <2>3. remainingIn - filled.in \in Nat
    BY <1>4
  <2>4. remainingIn - filled.in < LimitedOut(o, 1).gross
    BY <1>1, <1>2, <2>2, <2>3, SkipIsDear
  <2>5. LimitedOut(o, 1)' = LimitedOut(o, 1)
    BY <1>8, <2>2 DEF NoTake
  <2> QED BY <1>3, <1>4, <1>5, <1>6, <2>4, <2>5
<1>11. CASE ~(takes[p].out > 0)
  <2>1. trace[p].out > 0
    BY <1>9, <1>11
  <2>2. total.in + LimitedOut(o, 1).gross > Budget
    BY <1>2, <1>3, <2>1 DEF BetterOfferFirst
  <2>3. CASE takes[o].out = 0
    BY <1>3, <1>4, <1>5, <1>6, <1>8, <2>2, <2>3
  <2>4. CASE takes[o].out > 0
    <3>1. Priced(o)
      BY <1>1, <2>4 DEF VisitInv, NoTake
    <3>2. takes[o].gross \in Nat /\ takes[o].gross <= filled.in
      BY <1>1, OnePays
    <3>3. ~(LimitedOut(o, 1).gross <= takes[o].gross)
      BY <1>4, <1>6, <2>2, <3>2
    <3>4. filled.in = remainingIn
      BY <3>1, <3>3 DEF Priced
    <3> QED BY <1>3, <1>4, <1>5, <1>7, <3>4
  <2> QED BY <1>9, <2>3, <2>4
<1> QED BY <1>10, <1>11

\* Whatever leaves the rows, the trace and the total as they are.
LEMMA BetterFrame ==
  ASSUME BetterOfferFirst, UNCHANGED <<book, ownerPays, intent, tiers>>, UNCHANGED <<trace, total>>
  PROVE  BetterOfferFirst'
<1>1. /\ Candidates' = Candidates
      /\ \A o \in Offers : OwnCross(o)' <=> OwnCross(o)
      /\ \A o, p \in Offers : Before(o, p)' <=> Before(o, p)
      /\ \A o \in Offers : \A l : LimitedOut(o, l)' = LimitedOut(o, l')
  BY PricesStable
<1>2. Budget' = Budget
  BY OrderStable
<1>3. \A o \in Offers : LimitedOut(o, 1)' = LimitedOut(o, 1)
  BY <1>1
<1> QED BY <1>1, <1>2, <1>3 DEF BetterOfferFirst

\* Before the flow nothing is taken.
LEMMA BetterBegin == ASSUME trace' = NoTakes PROVE BetterOfferFirst'
<1>1. \A p \in Offers : trace'[p].out = 0
  BY DEF NoTakes, NoTake
<1> QED BY <1>1 DEF BetterOfferFirst

LEMMA BetterStep == CrossingInv /\ VisitInv /\ BetterOfferFirst /\ [Next]_vars => BetterOfferFirst'
<1> SUFFICES ASSUME CrossingInv, VisitInv, BetterOfferFirst, [Next]_vars PROVE BetterOfferFirst'
  OBVIOUS
<1>1. CASE Allocate \/ BeginFlow
  <2>1. trace' = trace /\ trace = NoTakes
    BY <1>1 DEF Allocate, BeginFlow, flowVars, CrossingInv, TraceInv
  <2> QED BY <2>1, BetterBegin
<1>2. CASE CommitRound
  BY <1>2, BetterCommit
<1>3. CASE \/ BeginRound \/ StopFlow \/ DeleteOwn \/ TakeReverse \/ TakeForward \/ RunForward
           \/ RunFallback \/ EndFlow \/ Settle \/ UNCHANGED vars
  <2>1. UNCHANGED <<bookVars, intent, flowVars>>
    BY <1>3 DEF BeginRound, StopFlow, DeleteOwn, TakeReverse, TakeForward, RunForward, RunFallback,
                EndFlow, Settle, vars
  <2>2. UNCHANGED <<book, ownerPays, intent, tiers>> /\ UNCHANGED <<trace, total>>
    BY <2>1 DEF bookVars, flowVars
  <2> QED BY <2>2, BetterFrame
<1> QED BY <1>1, <1>2, <1>3 DEF Next, Pass

LEMMA BetterInit == Ready => BetterOfferFirst
<1> SUFFICES ASSUME Ready PROVE BetterOfferFirst
  OBVIOUS
<1>1. \A p \in Offers : trace[p].out = 0
  BY DEF Ready, Begins, NoTakes, NoTake
<1> QED BY <1>1 DEF BetterOfferFirst

LEMMA VisitInit == Ready => VisitInv
BY DEF Ready, Begins, VisitInv, Passes

\* In any book, over any number of rounds in reverse and forward and with
\* whatever rounding and transfer fees: an offer is bought from only when the
\* source can no longer afford a quantum of any better one.
THEOREM BetterOffersFirst == Spec => []BetterOfferFirst
<1>1. Init => VisitInv /\ BetterOfferFirst
  BY InitReady, BetterInit, VisitInit
<1>2. CrossingInv /\ VisitInv /\ BetterOfferFirst /\ [Next]_vars => VisitInv' /\ BetterOfferFirst'
  BY VisitStep, BetterStep
<1> QED BY <1>1, <1>2, CrossingInvariant, PTL DEF Spec

-----------------------------------------------------------------------------
(* What is considered *)

\* The transaction, its book and its pool are among those considered.
Given == book \in Books /\ intent \in Intents /\ (Pools = {Unknown} => pool = Unknown)

LEMMA NoPoolStays == ASSUME CrossingInv, [Next]_vars, pool = Unknown PROVE pool' = Unknown
<1>1. CASE CommitRound
  <2>1. poolTake = NoPoolTake => pool' = pool
    BY <1>1 DEF CommitRound, Commit
  <2>2. phase \in Passes
    BY <1>1 DEF CommitRound, EndPass
  <2>3. poolTake = NoPoolTake
    BY <2>2 DEF CrossingInv, PassInv, PoolActive
  <2> QED BY <2>1, <2>3
<1>2. CASE ~CommitRound
  BY <1>2 DEF Next, Pass, Allocate, BeginFlow, BeginRound, StopFlow, DeleteOwn, TakeReverse, TakeForward,
              RunForward, RunFallback, EndFlow, Settle, flowVars, vars
<1> QED BY <1>1, <1>2

LEMMA InputsStay == ASSUME [Next]_vars PROVE UNCHANGED <<book, funds, ownerPays, intent>>
BY DEF Next, Pass, Allocate, AllocateRow, BeginFlow, BeginRound, StopFlow, DeleteOwn, TakeReverse, TakeForward,
       RunForward, RunFallback, EndFlow, Settle, CommitRound, EndPass, Commit, bookVars, vars

LEMMA GivenStep == CrossingInv /\ Given /\ [Next]_vars => Given'
BY InputsStay, NoPoolStays DEF Given

LEMMA GivenInit == Init => Given
BY DEF Init, BookInit, Given

-----------------------------------------------------------------------------
(* What is still wanted *)

\* In the rounds of a flow its remainder is what was not delivered, and a round
\* wants it all, but that an offer crossing may want less beside a pool.
WantedInv ==
  /\ phase = "allocate" => total = Nothing
  /\ phase \in Passes => remainingOut > 0 /\ remainingIn > 0
  /\ phase \in Passes \cup {"round"} /\ remainingOut > 0 => remainingOut = Target - total.out
  /\ phase = "reverse" => want <= remainingOut
  /\ phase = "reverse" /\ (~OfferCrossing \/ pool = Unknown) => want = remainingOut

\* Steps that leave the flow as it is.
LEMMA WantedFrame ==
  ASSUME WantedInv, UNCHANGED intent, UNCHANGED <<total, remainingOut, remainingIn, pool>>,
         phase' = "allocate" => phase = "allocate",
         phase' \in Passes \cup {"round"} => phase \in Passes \cup {"round"},
         phase' \in Passes => phase \in Passes \/ (remainingOut > 0 /\ remainingIn > 0),
         phase' = "reverse" => want' <= remainingOut,
         phase' = "reverse" /\ (~OfferCrossing \/ pool = Unknown) => want' = remainingOut
  PROVE  WantedInv'
<1>1. Target' = Target /\ (OfferCrossing' <=> OfferCrossing) /\ (Nothing)' = Nothing
  BY DEF Target, OfferCrossing, Nothing
<1> QED BY <1>1 DEF WantedInv, Passes

LEMMA WantedStep == CrossingInv /\ WantedInv /\ [Next]_vars => WantedInv'
<1> SUFFICES ASSUME CrossingInv, WantedInv, [Next]_vars PROVE WantedInv'
  OBVIOUS
<1>1. TypeOK /\ remainingOut \in Nat
  BY DEF CrossingInv, TypeOK
<1>2. CASE Allocate \/ StopFlow \/ EndFlow \/ Settle
  <2>1. /\ (phase' = "allocate" /\ phase = "allocate") \/ phase' \in {"settle", "done"}
        /\ UNCHANGED intent /\ UNCHANGED <<total, remainingOut, remainingIn, pool>>
    BY <1>2 DEF Allocate, StopFlow, EndFlow, Settle, flowVars
  <2> QED BY <2>1, WantedFrame DEF Passes
<1>3. CASE BeginFlow
  <2>1. /\ phase = "allocate" /\ phase' = "round" /\ UNCHANGED intent /\ UNCHANGED <<total, pool>>
        /\ remainingOut' = Target
    BY <1>3 DEF BeginFlow
  <2>2. Target' = Target /\ (OfferCrossing' <=> OfferCrossing) /\ total.out = 0 /\ Target \in Nat
    BY <1>1, <2>1, BudgetType DEF Target, OfferCrossing, WantedInv, Nothing
  <2>3. remainingOut' = Target' - total'.out
    BY <2>1, <2>2
  <2> QED BY <2>1, <2>2, <2>3 DEF WantedInv, Passes
<1>4. CASE BeginRound
  <2>1. PICK cap : cap = LimitOut(PoolIsTip, InFee, remainingOut)
    OBVIOUS
  <2>2. /\ phase = "round" /\ phase' = "reverse" /\ want' = cap /\ remainingOut > 0 /\ remainingIn > 0
        /\ UNCHANGED intent /\ UNCHANGED <<total, remainingOut, remainingIn, pool>>
    BY <1>4, <2>1 DEF BeginRound, StartPass, GoesOn, flowVars
  <2>3. cap <= remainingOut
    BY <1>1, <2>1, FeesType, LimitOutType DEF PoolIsTip, PoolActive
  <2>4. ~OfferCrossing \/ pool = Unknown => cap = remainingOut
    BY <2>1 DEF LimitOut, PoolIsTip, PoolActive
  <2> QED BY <2>2, <2>3, <2>4, WantedFrame DEF Passes
<1>5. CASE RunForward \/ RunFallback
  <2>1. /\ phase \in Passes /\ phase' \in {"forward", "fallback"}
        /\ UNCHANGED intent /\ UNCHANGED <<total, remainingOut, remainingIn, pool>>
    BY <1>5 DEF RunForward, RunFallback, EndPass, StartPass, flowVars
  <2> QED BY <2>1, WantedFrame DEF Passes
<1>6. CASE DeleteOwn \/ TakeReverse \/ TakeForward
  <2>1. /\ phase \in Passes /\ phase' = phase /\ want' = want /\ UNCHANGED intent
        /\ UNCHANGED <<total, remainingOut, remainingIn, pool>>
    BY <1>6 DEF DeleteOwn, TakeReverse, TakeForward, Visit, flowVars
  <2>2. /\ phase = "reverse" => want <= remainingOut
        /\ phase = "reverse" /\ (~OfferCrossing \/ pool = Unknown) => want = remainingOut
    BY DEF WantedInv
  <2> QED BY <2>1, <2>2, WantedFrame DEF Passes
<1>7. CASE CommitRound
  <2>1. /\ phase \in Passes /\ phase' = "round" /\ UNCHANGED intent
        /\ total' = [out |-> total.out + filled.out, in |-> total.in + filled.in]
        /\ remainingOut' = (IF Reached(total.out + filled.out, Target) THEN 0 ELSE Target - (total.out + filled.out))
    BY <1>7 DEF CommitRound, Commit, EndPass
  <2>2. Target' = Target
    BY <2>1 DEF Target
  <2> QED BY <2>1, <2>2 DEF WantedInv, Passes
<1>8. CASE UNCHANGED vars
  <2>1. UNCHANGED intent /\ UNCHANGED <<total, remainingOut, remainingIn, pool>> /\ UNCHANGED <<phase, want>>
    BY <1>8 DEF vars, flowVars, passVars
  <2>2. /\ phase = "reverse" => want <= remainingOut
        /\ phase = "reverse" /\ (~OfferCrossing \/ pool = Unknown) => want = remainingOut
        /\ phase \in Passes => remainingOut > 0 /\ remainingIn > 0
    BY DEF WantedInv
  <2> QED BY <2>1, <2>2, WantedFrame
<1> QED BY <1>2, <1>3, <1>4, <1>5, <1>6, <1>7, <1>8 DEF Next, Pass

LEMMA WantedInit == ASSUME Ready PROVE WantedInv
BY DEF Ready, Begins, WantedInv, Passes

\* Nothing makes a round want less than the remainder.
WantsAll == ~OfferCrossing \/ pool = Unknown

LEMMA WantsAllStep == CrossingInv /\ WantsAll /\ [Next]_vars => WantsAll'
BY InputsStay, NoPoolStays DEF WantsAll, OfferCrossing

Unadjusted == Pools = {Unknown} \/ \A i \in Intents : i.kind = "payment"

-----------------------------------------------------------------------------
(* One quality, or a slice of the pool, a round *)

SameRate(o, p) == ~Cheaper(Rate(o), Rate(p)) /\ ~Cheaper(Rate(p), Rate(o))

\* The offers taken from so far, the first offer of each quality, and the
\* qualities that were taken from.
Served == {o \in Offers : trace[o].out > 0}

Heads == {o \in Offers : \A p \in Offers : Before(p, o) => Cheaper(Rate(p), Rate(o))}

Used == {h \in Heads : \E r \in Served : SameRate(h, r)}

\* What is left of a quality that was taken from cannot be bought: it is own, or
\* the input left buys nothing of it and no own offer before it can make the
\* step round its output up.
UsedUp ==
  \A r \in Served, p \in Candidates : SameRate(p, r) =>
    \/ OwnCross(p)
    \/ Unsold(p, remainingIn) /\ \A o \in Candidates : OwnCross(o) => ~Before(o, p)

RoundInv ==
  /\ rounds <= poolRounds + Cardinality(Used)
  /\ phase \in Passes \cup {"round"} => remainingOut = 0 \/ remainingIn = 0 \/ UsedUp

LEMMA SameRateTransitive ==
  ASSUME TypeOK, NEW o \in Offers, NEW p \in Offers, NEW q \in Offers, SameRate(o, p), SameRate(p, q)
  PROVE  SameRate(o, q)
<1>1. Rate(o) \in Rates /\ Rate(p) \in Rates /\ Rate(q) \in Rates
  BY RowType
<1> QED BY <1>1, NoDearerTransitive DEF SameRate

LEMMA SameRateSymmetric ==
  ASSUME NEW o, NEW p, SameRate(o, p) PROVE SameRate(p, o)
BY DEF SameRate

LEMMA RateOrder ==
  ASSUME NEW o, NEW p
  PROVE  Before(o, p) <=> Cheaper(Rate(o), Rate(p)) \/ (~Cheaper(Rate(p), Rate(o)) /\ o < p)
BY DEF Before, Rate

\* Every offer has the quality of a head.
LEMMA HeadOf ==
  ASSUME TypeOK, NEW p \in Offers PROVE \E h \in Heads : SameRate(h, p)
<1> DEFINE S == {o \in Offers : SameRate(o, p)}
<1>1. p \in S
  BY RowType, NoDearerTotal DEF SameRate
<1>2. PICK h \in S : Leads(h, S)
  BY <1>1, LeaderExists DEF TypeOK
<1>3. SameRate(h, p) /\ h \in Offers
  BY <1>2
<1>4. ASSUME NEW q \in Offers, Before(q, h), ~Cheaper(Rate(q), Rate(h)) PROVE FALSE
  <2>1. SameRate(q, h)
    <3>1. ~Cheaper(Rate(h), Rate(q))
      BY <1>4, RateOrder
    <3> QED BY <1>4, <3>1 DEF SameRate
  <2>2. q \in S
    BY <1>3, <2>1, SameRateTransitive
  <2>3. q # h
    BY <1>3, <1>4, BeforeStrict DEF TypeOK
  <2>4. Before(h, q)
    BY <1>2, <2>2, <2>3 DEF Leads
  <2> QED BY <1>3, <1>4, <2>4, BeforeStrict DEF TypeOK
<1>5. h \in Heads
  BY <1>3, <1>4 DEF Heads
<1> QED BY <1>3, <1>5

LEMMA UsedFinite == IsFiniteSet(Used) /\ IsFiniteSet(Heads) /\ Cardinality(Used) <= Cardinality(Heads)
                    /\ Cardinality(Used) \in Nat /\ Cardinality(Heads) \in Nat
<1>1. Heads \subseteq Offers /\ Used \subseteq Heads
  BY DEF Heads, Used
<1>2. IsFiniteSet(Heads)
  BY <1>1, OffersFinite, FS_Subset
<1> QED BY <1>1, <1>2, FS_Subset, FS_CardinalityType

LEMMA FirstQuantumNow ==
  ASSUME TypeOK, NEW o \in Offers, Executable(o) PROVE LimitedOut(o, 1).gross \in Nat \ {0}
BY QuantumCostsNow DEF QuantumCosts

\* A committed round takes from no offer of a quality that was taken from
\* before.
LEMMA TakesNew ==
  ASSUME CrossingInv, VisitInv, WantedInv, RoundInv, CommitRound, NEW p \in Taken, NEW r \in Served
  PROVE  ~SameRate(p, r)
<1>1. /\ phase \in Passes /\ TypeOK /\ (phase = "reverse" => ~(remainingIn < filled.in))
      /\ remainingIn \in Nat /\ filled.in \in Nat /\ PassInv
  BY DEF CommitRound, Commits, BindsBudget, EndPass, CrossingInv, TypeOK, Amount
<1>2. filled.in <= remainingIn /\ remainingOut > 0 /\ remainingIn > 0 /\ UsedUp
  BY <1>1 DEF PassInv, RoundInv, WantedInv, Passes
<1>3. p \in Offers /\ takes[p] # NoTake /\ p \in Candidates /\ ~OwnCross(p) /\ Priced(p) /\ Executable(p)
  <2>1. p \in Offers /\ takes[p] # NoTake
    BY DEF Taken, NoTake
  <2> QED BY <1>1, <2>1 DEF VisitInv, Candidates
<1> SUFFICES ASSUME SameRate(p, r) PROVE FALSE
  OBVIOUS
<1>4. Unsold(p, remainingIn) /\ \A o \in Candidates : OwnCross(o) => ~Before(o, p)
  BY <1>2, <1>3 DEF UsedUp
<1>5. remainingIn < LimitedOut(p, 1).gross
  BY <1>1, <1>3, <1>4, SkipIsDear
<1>6. takes[p].gross \in Nat /\ takes[p].gross <= filled.in
  BY <1>1, <1>3, OnePays
<1>7. LimitedOut(p, 1).gross \in Nat
  BY <1>1, <1>3, FirstQuantumNow
<1>8. ~(LimitedOut(p, 1).gross <= takes[p].gross)
  BY <1>1, <1>2, <1>5, <1>6, <1>7
<1>9. RoundsUp
  BY <1>3, <1>4, <1>8 DEF Priced
<1>10. PICK o \in LeadingOwn : TRUE
  BY <1>9 DEF RoundsUp
<1>11. o \in Candidates /\ o \in Offers /\ OwnCross(o) /\ \A q \in Candidates : Before(q, o) => OwnCross(q)
  BY <1>10 DEF LeadingOwn, Candidates
<1>12. ~Before(o, p) /\ ~Before(p, o) /\ o # p
  BY <1>3, <1>4, <1>11
<1> QED BY <1>1, <1>3, <1>11, <1>12, BeforeTotal DEF TypeOK

\* A committed round of the book took from some offer.
LEMMA NewQuality ==
  ASSUME CrossingInv, VisitInv, WantedInv, RoundInv, poolTake = NoPoolTake, CommitRound
  PROVE  \E p \in Taken : \A r \in Served : ~SameRate(p, r)
<1>1. phase \in Passes /\ TypeOK /\ filled.out > 0 /\ takes \in [Offers -> Take] /\ PassInv
  BY DEF CommitRound, Commits, EndPass, CrossingInv, TypeOK
<1>2. Taken # {}
  <2> SUFFICES ASSUME Taken = {} PROVE FALSE
    OBVIOUS
  <2>1. poolTake.out = 0
    BY NoPoolTakeType
  <2>2. \A o \in Offers : Outs(takes)[o] = 0
    BY <1>1, TakeParts DEF Taken, Outs
  <2>3. Sum(Outs(takes), Offers) = 0
    BY <2>2, OffersFinite, SumZero
  <2> QED BY <1>1, <2>1, <2>3 DEF PassInv
<1> QED BY <1>2, TakesNew

\* Of a quality that a round took from, nothing is left that can be bought.
LEMMA NothingLeft ==
  ASSUME WantsAll, CrossingInv, VisitInv, WantedInv, RoundInv, CommitRound, CrossingInv',
         remainingOut' # 0, remainingIn' # 0
  PROVE  UsedUp'
<1>1. /\ phase \in Passes /\ phase # "allocate" /\ TypeOK /\ ~PassOpen /\ PassInv
      /\ UNCHANGED <<book, ownerPays, intent>>
      /\ (phase = "reverse" => ~(remainingIn < filled.in))
      /\ total' = [out |-> total.out + filled.out, in |-> total.in + filled.in]
      /\ trace' = [x \in Offers |-> RoundTakes(x)]
      /\ remainingOut' = (IF Reached(total.out + filled.out, Target) THEN 0 ELSE Target - (total.out + filled.out))
      /\ phase' # "allocate" /\ UNCHANGED <<takes, filled>>
  BY DEF CommitRound, Commit, Commits, BindsBudget, EndPass, CrossingInv, bookVars, passVars, Passes
<1>2. /\ remainingIn \in Nat /\ filled.in \in Nat /\ total.in \in Nat /\ filled.out \in Nat /\ total.out \in Nat
      /\ remainingOut \in Nat /\ Target \in Nat /\ Budget \in Nat /\ want \in Nat
      /\ takes \in [Offers -> Take] /\ trace \in [Offers -> Take] /\ ahead \in SUBSET Offers /\ BookTypeOK
  BY <1>1, BudgetType DEF TypeOK, Amount
<1>3. /\ remainingIn = Budget - total.in /\ remainingIn' = remainingIn - filled.in /\ filled.in <= remainingIn
      /\ remainingIn' \in Nat /\ remainingIn' <= remainingIn
  <2>1. remainingIn = Budget - total.in /\ remainingIn' = Budget' - total'.in /\ Budget' = Budget
    BY <1>1, OrderStable DEF CrossingInv, BudgetInv
  <2>2. filled.in <= remainingIn
    BY <1>1, <1>2 DEF PassInv
  <2> QED BY <1>1, <1>2, <2>1, <2>2
<1>4. remainingOut > 0 /\ remainingIn > 0 /\ UsedUp /\ remainingOut = Target - total.out
      /\ (phase = "reverse" => want = remainingOut)
  BY <1>1 DEF RoundInv, WantedInv, WantsAll
<1>5. Left > 0
  <2>1. CASE phase = "reverse"
    <3> SUFFICES ASSUME ~(want - filled.out > 0) PROVE FALSE
      BY <2>1 DEF Left
    <3>1. Reached(total.out + filled.out, Target)
      BY <1>2, <1>4, <2>1 DEF Reached
    <3> QED BY <1>1, <3>1
  <2>2. CASE phase # "reverse"
    BY <1>2, <1>3, <2>2 DEF Left
  <2> QED BY <2>1, <2>2
<1>6. Taken # {} => ahead = {} \/ ~SameQuality(Best(ahead))
  BY <1>1, <1>5 DEF PassOpen, VisitInv
<1>7. /\ \A o \in Offers : OwnCross(o)' <=> OwnCross(o)
      /\ \A o, p \in Offers : Before(o, p)' <=> Before(o, p)
      /\ \A o, p \in Offers : Cheaper(Rate(o), Rate(p))' <=> Cheaper(Rate(o), Rate(p))
  BY <1>1, OrderStable
<1>8. \A o \in Candidates' :
        /\ o \in Offers /\ o \in Candidates /\ o \notin deleted /\ takes[o] # Prepared(o) /\ Executable(o)
        /\ takes[o].out = 0 => tiers'[o] = tiers[o]
  BY CandidateAfter DEF Candidates
<1> SUFFICES ASSUME NEW r \in Served', NEW p \in Candidates', SameRate(p, r)', ~OwnCross(p)'
             PROVE  /\ Unsold(p, remainingIn)'
                    /\ \A o \in Candidates' : OwnCross(o)' => ~Before(o, p)'
  BY DEF UsedUp
<1>9. /\ r \in Offers /\ p \in Offers /\ p \in Candidates /\ ~OwnCross(p) /\ SameRate(p, r) /\ Executable(p)
      /\ takes[p] # Prepared(p) /\ (takes[p].out = 0 => tiers'[p] = tiers[p])
  BY <1>7, <1>8 DEF Served, SameRate
<1>10. r \in Taken \/ r \in Served
  <2>1. takes[r].out \in Nat /\ trace[r].out \in Nat
    BY <1>2, <1>9, TakeParts
  <2>2. trace[r].out + takes[r].out > 0
    BY <1>1, <1>9 DEF Served, RoundTakes
  <2> QED BY <1>9, <2>1, <2>2 DEF Taken, Served
<1>11. SUFFICES /\ takes[p].out = 0 /\ Unsold(p, remainingIn - filled.in)
                /\ \A o \in Candidates : OwnCross(o) /\ o \notin deleted => ~Before(o, p)
  <2>1. takes[p].out = 0 => (Unsold(p, remainingIn)' <=> Unsold(p, remainingIn'))
    BY <1>1, <1>9, RowStable
  <2> QED BY <1>3, <1>7, <1>8, <1>9, <2>1
<1>12. CASE \E t \in Taken : SameRate(p, t)
  <2>1. PICK t \in Taken : SameRate(p, t)
    BY <1>12
  <2>2. t \in Offers
    BY DEF Taken
  <2>3. p \notin ahead
    <3> SUFFICES ASSUME p \in ahead PROVE FALSE
      OBVIOUS
    <3>1. ~SameQuality(Best(ahead)) /\ Best(ahead) \in ahead /\ Leads(Best(ahead), ahead)
      BY <1>2, <1>6, <2>1, LeaderExists DEF Best
    <3>2. PICK b : b = Best(ahead)
      OBVIOUS
    <3>3. PICK s \in Offers : takes[s].out > 0 /\ Cheaper(Rate(s), Rate(b))
      BY <3>1, <3>2 DEF SameQuality
    <3>4. s \in Taken /\ b \in Offers
      BY <1>2, <3>1, <3>2, <3>3 DEF Taken
    <3>5. ~Cheaper(Rate(t), Rate(s))
      BY <1>1, <2>1, <3>4 DEF VisitInv
    <3>6. ~Cheaper(Rate(p), Rate(b))
      <4>1. p = b \/ Before(b, p)
        BY <3>1, <3>2 DEF Leads
      <4>2. CASE p = b
        BY <1>1, <1>9, <4>2, RowType, NoDearerTotal
      <4>3. CASE Before(b, p)
        <5>1. Rate(b) \in Rates /\ Rate(p) \in Rates
          BY <1>1, <1>9, <3>4, RowType
        <5> QED BY <4>3, <5>1, RateOrder, NoDearerTotal
      <4> QED BY <4>1, <4>2, <4>3
    <3>7. ~Cheaper(Rate(t), Rate(p))
      BY <2>1 DEF SameRate
    <3>8. Rate(t) \in Rates /\ Rate(s) \in Rates /\ Rate(p) \in Rates /\ Rate(b) \in Rates
      BY <1>1, <1>9, <2>2, <3>3, <3>4, RowType
    <3>9. ~Cheaper(Rate(p), Rate(t))
      BY <2>1 DEF SameRate
    <3>10. ~Cheaper(Rate(t), Rate(b))
      BY <3>6, <3>7, <3>8, NoDearerTransitive
    <3>11. ~Cheaper(Rate(s), Rate(t))
      BY <1>1, <2>1, <3>4 DEF VisitInv
    <3>12. ~Cheaper(Rate(s), Rate(b))
      BY <3>8, <3>10, <3>11, NoDearerTransitive
    <3> QED BY <3>3, <3>12
  <2>4. \A o \in Candidates \ ahead : (\A q \in ahead : Before(o, q)) /\ Passed(o)
    BY <1>1, <1>5, <2>1 DEF VisitInv
  <2>5. Passed(p)
    BY <1>9, <2>3, <2>4
  <2>6. takes[p] = NoTake /\ Unsold(p, remainingIn - filled.in)
    BY <1>9, <2>5 DEF Passed
  <2>7. ASSUME NEW o \in Candidates, OwnCross(o), o \notin deleted, Before(o, p) PROVE FALSE
    <3>1. o \in ahead
      BY <2>4, <2>7 DEF Passed
    <3>2. Before(p, o)
      BY <1>9, <2>3, <2>4, <3>1
    <3> QED BY <1>2, <1>9, <2>7, <3>1, <3>2, BeforeStrict
  <2> QED BY <2>6, <2>7 DEF NoTake
<1>13. CASE ~\E t \in Taken : SameRate(p, t)
  <2>1. r \in Served
    BY <1>9, <1>10, <1>13
  <2>2. Unsold(p, remainingIn) /\ \A o \in Candidates : OwnCross(o) => ~Before(o, p)
    BY <1>4, <1>9, <2>1 DEF UsedUp
  <2>3. Unsold(p, remainingIn - filled.in)
    BY <1>1, <1>2, <1>3, <1>9, <2>2, UnsoldMonotone
  <2>4. p \notin Taken
    BY <1>1, <1>9, <1>13, RowType, NoDearerTotal DEF SameRate
  <2>5. takes[p].out = 0
    BY <1>2, <1>9, <2>4, TakeParts DEF Taken
  <2> QED BY <2>2, <2>3, <2>5
<1> QED BY <1>12, <1>13
\* What was taken from stays taken from.
LEMMA UsedSame ==
  ASSUME UNCHANGED <<book, ownerPays, intent>>, UNCHANGED trace PROVE Used' = Used
<1>1. /\ \A o, p \in Offers : Before(o, p)' <=> Before(o, p)
      /\ \A o, p \in Offers : Cheaper(Rate(o), Rate(p))' <=> Cheaper(Rate(o), Rate(p))
  BY OrderStable
<1>2. Heads' = Heads /\ Served' = Served /\ Heads \subseteq Offers /\ Served \subseteq Offers
  BY <1>1 DEF Heads, Served
<1>3. \A o, p \in Offers : SameRate(o, p)' <=> SameRate(o, p)
  BY <1>1 DEF SameRate
<1> QED BY <1>2, <1>3 DEF Used

LEMMA UsedUpSame ==
  ASSUME UNCHANGED <<book, ownerPays, intent, tiers>>, UNCHANGED <<trace, remainingIn>>, UsedUp PROVE UsedUp'
<1>1. /\ Candidates' = Candidates
      /\ \A o \in Offers : OwnCross(o)' <=> OwnCross(o)
      /\ \A o, p \in Offers : Before(o, p)' <=> Before(o, p)
      /\ \A o \in Offers : \A l : Unsold(o, l)' <=> Unsold(o, l')
      /\ \A o, p \in Offers : Cheaper(Rate(o), Rate(p))' <=> Cheaper(Rate(o), Rate(p))
  BY PricesStable
<1>2. Served' = Served /\ Served \subseteq Offers /\ Candidates \subseteq Offers
  BY DEF Served, Candidates
<1>3. \A o, p \in Offers : SameRate(o, p)' <=> SameRate(o, p)
  BY <1>1 DEF SameRate
<1>4. \A o \in Offers : Unsold(o, remainingIn)' <=> Unsold(o, remainingIn)
  BY <1>1
<1> QED BY <1>1, <1>2, <1>3, <1>4 DEF UsedUp

\* Steps that commit nothing.
LEMMA RoundFrame ==
  ASSUME RoundInv, phase # "allocate", UNCHANGED <<bookVars, intent, flowVars>>,
         phase' \in Passes \cup {"round"} => phase \in Passes \cup {"round"}
  PROVE  RoundInv'
<1>1. /\ UNCHANGED <<book, ownerPays, intent, tiers>> /\ UNCHANGED <<trace, remainingIn>>
      /\ UNCHANGED <<rounds, poolRounds, remainingOut>>
  BY DEF bookVars, flowVars
<1>2. Used' = Used
  BY <1>1, UsedSame
<1>3. UsedUp => UsedUp'
  BY <1>1, UsedUpSame
<1>4. rounds' <= poolRounds' + Cardinality(Used')
  BY <1>1, <1>2 DEF RoundInv
<1>5. phase' \in Passes \cup {"round"} => remainingOut' = 0 \/ remainingIn' = 0 \/ UsedUp'
  BY <1>1, <1>3 DEF RoundInv
<1> QED BY <1>4, <1>5 DEF RoundInv

LEMMA RoundCommit ==
  ASSUME WantsAll, CrossingInv, VisitInv, WantedInv, RoundInv, CommitRound, CrossingInv'
  PROVE  RoundInv'
<1>1. /\ rounds' = rounds + 1 /\ TypeOK /\ UNCHANGED <<book, ownerPays, intent>>
      /\ trace' = [x \in Offers |-> RoundTakes(x)]
      /\ IF poolTake # NoPoolTake THEN poolRounds' = poolRounds + 1 ELSE poolRounds' = poolRounds
  BY DEF CommitRound, Commit, CrossingInv, bookVars
<1>2. rounds \in Nat /\ poolRounds \in Nat /\ trace \in [Offers -> Take] /\ takes \in [Offers -> Take]
  BY <1>1, CrossingAssumption DEF TypeOK
<1>3. /\ \A o, p \in Offers : Before(o, p)' <=> Before(o, p)
      /\ \A o, p \in Offers : Cheaper(Rate(o), Rate(p))' <=> Cheaper(Rate(o), Rate(p))
  BY <1>1, OrderStable
<1>4. Heads' = Heads /\ Heads \subseteq Offers /\ (\A o, p \in Offers : SameRate(o, p)' <=> SameRate(o, p))
  BY <1>3 DEF Heads, SameRate
<1>5. Served' \subseteq Offers /\ Served \subseteq Served' /\ Taken \subseteq Served'
  <2>1. \A o \in Offers : trace'[o].out = trace[o].out + takes[o].out /\ trace[o].out \in Nat /\ takes[o].out \in Nat
    BY <1>1, <1>2, TakeParts DEF RoundTakes
  <2> QED BY <2>1 DEF Served, Taken
<1>6. Used \subseteq Used' /\ IsFiniteSet(Used') /\ Cardinality(Used') \in Nat
  <2>1. Used \subseteq Used'
    BY <1>4, <1>5 DEF Used, Served
  <2>2. Used' \subseteq Offers
    BY <1>4 DEF Used
  <2> QED BY <2>1, <2>2, OffersFinite, FS_Subset, FS_CardinalityType
<1>7. rounds <= poolRounds + Cardinality(Used) /\ Cardinality(Used) \in Nat
  BY UsedFinite DEF RoundInv
<1>8. rounds' <= poolRounds' + Cardinality(Used')
  <2>1. CASE poolTake # NoPoolTake
    <3>1. Cardinality(Used) <= Cardinality(Used')
      BY <1>6, FS_Subset
    <3> QED BY <1>1, <1>2, <1>6, <1>7, <2>1, <3>1
  <2>2. CASE poolTake = NoPoolTake
    <3>1. PICK p \in Taken : \A r \in Served : ~SameRate(p, r)
      BY <2>2, NewQuality
    <3>2. PICK h \in Heads : SameRate(h, p)
      BY <1>1, HeadOf DEF Taken
    <3>3. h \in Used' /\ h \notin Used
      <4>1. h \in Offers /\ p \in Offers /\ Served \subseteq Offers
        BY <1>4 DEF Taken, Served
      <4>2. h \in Used'
        BY <1>4, <1>5, <3>2, <4>1 DEF Used
      <4>3. ASSUME NEW r \in Served, SameRate(h, r) PROVE FALSE
        <5>1. SameRate(p, h) /\ r \in Offers
          BY <3>2, <4>1, SameRateSymmetric
        <5>2. SameRate(p, r)
          BY <1>1, <4>1, <4>3, <5>1, SameRateTransitive
        <5> QED BY <3>1, <5>2
      <4> QED BY <4>2, <4>3 DEF Used
    <3>4. Cardinality(Used \cup {h}) = Cardinality(Used) + 1
      BY <3>3, UsedFinite, FS_AddElement
    <3>5. Cardinality(Used \cup {h}) <= Cardinality(Used')
      BY <1>6, <3>3, FS_Subset
    <3> QED BY <1>1, <1>2, <1>6, <1>7, <2>2, <3>4, <3>5
  <2> QED BY <2>1, <2>2
<1>9. remainingOut' = 0 \/ remainingIn' = 0 \/ UsedUp'
  BY NothingLeft
<1> QED BY <1>8, <1>9 DEF RoundInv

LEMMA RoundStep == CrossingInv /\ VisitInv /\ WantedInv /\ WantsAll /\ RoundInv /\ [Next]_vars => RoundInv'
<1> SUFFICES ASSUME CrossingInv, VisitInv, WantedInv, WantsAll, RoundInv, [Next]_vars PROVE RoundInv'
  OBVIOUS
<1>1. CrossingInv'
  BY CrossingStep
<1>2. CASE Allocate
  <2>1. phase = "allocate" /\ phase' = "allocate" /\ UNCHANGED <<book, ownerPays, intent>>
        /\ UNCHANGED <<rounds, poolRounds, trace>>
    BY <1>2 DEF Allocate, AllocateRow, flowVars
  <2>2. Used' = Used
    BY <2>1, UsedSame
  <2> QED BY <2>1, <2>2 DEF RoundInv, Passes
<1>3. CASE BeginFlow
  <2>1. /\ phase = "allocate" /\ UNCHANGED <<book, ownerPays, intent>>
        /\ UNCHANGED <<rounds, poolRounds, trace>>
    BY <1>3 DEF BeginFlow, bookVars
  <2>2. Used' = Used
    BY <2>1, UsedSame
  <2>3. trace = NoTakes
    BY <2>1 DEF CrossingInv, TraceInv
  <2>4. Served' = {}
    BY <2>1, <2>3 DEF Served, NoTakes, NoTake
  <2>5. UsedUp'
    BY <2>4 DEF UsedUp
  <2> QED BY <2>1, <2>2, <2>5 DEF RoundInv
<1>4. CASE BeginRound \/ RunForward \/ RunFallback \/ DeleteOwn \/ TakeReverse \/ TakeForward
  <2>1. /\ phase \in Passes \cup {"round"} /\ phase # "allocate" /\ UNCHANGED <<bookVars, intent, flowVars>>
    BY <1>4 DEF BeginRound, RunForward, RunFallback, DeleteOwn, TakeReverse, TakeForward, EndPass, Visit, Passes
  <2> QED BY <2>1, RoundFrame
<1>5. CASE StopFlow \/ EndFlow \/ Settle
  <2>1. /\ phase # "allocate" /\ phase' \in {"settle", "done"} /\ UNCHANGED <<bookVars, intent, flowVars>>
    BY <1>5 DEF StopFlow, EndFlow, EndPass, Settle, Passes
  <2> QED BY <2>1, RoundFrame DEF Passes
<1>6. CASE CommitRound
  BY <1>1, <1>6, RoundCommit
<1>7. CASE UNCHANGED vars
  <2>1. UNCHANGED <<bookVars, intent, flowVars>> /\ UNCHANGED phase
    BY <1>7 DEF vars
  <2>2. CASE phase = "allocate"
    <3>1. UNCHANGED <<book, ownerPays, intent>> /\ UNCHANGED <<rounds, poolRounds, trace>>
      BY <2>1 DEF bookVars, flowVars
    <3>2. Used' = Used
      BY <3>1, UsedSame
    <3> QED BY <2>1, <2>2, <3>1, <3>2 DEF RoundInv, Passes
  <2>3. CASE phase # "allocate"
    BY <2>1, <2>3, RoundFrame
  <2> QED BY <2>2, <2>3
<1> QED BY <1>2, <1>3, <1>4, <1>5, <1>6, <1>7 DEF Next, Pass

LEMMA RoundInit == ASSUME Ready PROVE RoundInv
<1>1. rounds = 0 /\ poolRounds = 0 /\ phase = "allocate"
  BY DEF Ready, Begins
<1> QED BY <1>1, UsedFinite DEF RoundInv, Passes

\* No round of a flow comes back to a quality that an earlier one took from,
\* whatever rounding left of it: apart from those that drew on the pool the
\* rounds are at most as many as the book has qualities.  That is for payments,
\* beside any pool, and without a pool for every transaction.
THEOREM RoundsBounded == ASSUME Unadjusted PROVE Spec => []RoundsSuffice
<1>1. Init => VisitInv /\ WantedInv /\ WantsAll /\ RoundInv
  BY InitReady, VisitInit, WantedInit, RoundInit DEF Init, Unadjusted, WantsAll, OfferCrossing
<1>2. CrossingInv /\ VisitInv /\ WantedInv /\ WantsAll /\ RoundInv /\ [Next]_vars
        => VisitInv' /\ WantedInv' /\ WantsAll' /\ RoundInv'
  BY VisitStep, WantedStep, WantsAllStep, RoundStep
<1>3. CrossingInv /\ RoundInv => RoundsSuffice
  <2> SUFFICES ASSUME CrossingInv, RoundInv PROVE RoundsSuffice
    OBVIOUS
  <2>1. rounds \in Nat /\ poolRounds \in Nat /\ rounds <= poolRounds + Cardinality(Used)
    BY CrossingAssumption DEF CrossingInv, TypeOK, RoundInv
  <2>2. rounds <= poolRounds + Cardinality(Heads)
    BY <2>1, UsedFinite
  <2> QED BY <2>2 DEF RoundsSuffice, Heads
<1> QED BY <1>1, <1>2, <1>3, CrossingInvariant, PTL DEF Spec
-----------------------------------------------------------------------------
(* Each offer is taken from once *)

\* A take that gives what its output asks, of an offer that asks no less than
\* it was paid.
Single(t, in) == t.in <= in /\ t.gives = Gives(t.out)

OnceInv ==
  /\ \A o \in Offers : /\ rows[o].out <= book[o].gets /\ rows[o].in <= book[o].pays
                       /\ Single(trace[o], rows[o].in)
                       /\ trace[o].out = 0 => trace[o] = NoTake
  /\ phase # "allocate" => \A o \in Offers : trace[o].out = 0 => tiers[o].in <= rows[o].in
  /\ phase \in Passes => \A o \in Offers : Single(takes[o], tiers[o].in)

LEMMA SingleNothing == ASSUME TypeOK, NEW in \in Nat PROVE Single(NoTake, in)
<1>1. Gives(0) = 0
  BY GivesFacts
<1> QED BY <1>1 DEF Single, NoTake

LEMMA SingleStable ==
  ASSUME UNCHANGED <<book, ownerPays, intent>>, NEW t, NEW in
  PROVE  Single(t, in)' <=> Single(t', in')
BY Fixed DEF Single

\* Whatever a pass takes from a row.
LEMMA SingleTakes ==
  ASSUME CrossingInv, phase # "allocate", NEW o \in Offers, tiers[o].out > 0, NEW l \in Nat, NEW up
  PROVE  /\ Single(Prepared(o), tiers[o].in) /\ Single(LimitedOut(o, l), tiers[o].in)
         /\ Single(LimitedIn(o, l, up), tiers[o].in)
<1>1. /\ TypeOK /\ Prepared(o) \in Take /\ Prepared(o).in \in Nat /\ Prepared(o).in <= tiers[o].in
      /\ tiers[o].in \in Nat
  BY PreparedType, RowType DEF CrossingInv, Take
<1>2. Single(Prepared(o), tiers[o].in)
  BY <1>1, WholeRowGives DEF Single
<1>3. Single(LimitedOut(o, l), tiers[o].in)
  <2>1. LimitedOut(o, l).gives = Gives(LimitedOut(o, l).out)
    BY LimitedOutGives
  <2>2. LimitedOut(o, l).in <= tiers[o].in
    <3>1. CASE l >= Prepared(o).out
      BY <1>1, <3>1 DEF LimitedOut
    <3>2. CASE ~(l >= Prepared(o).out)
      <4>1. LimitedOut(o, l).in = AtMost(RoundUp(l, Rate(o)), Prepared(o).in)
        BY <3>2 DEF LimitedOut
      <4>2. RoundUp(l, Rate(o)) \in Nat
        BY <1>1, RowType, RoundUpRate
      <4>3. /\ AtMost(RoundUp(l, Rate(o)), Prepared(o).in) \in Nat
            /\ AtMost(RoundUp(l, Rate(o)), Prepared(o).in) <= Prepared(o).in
        BY <1>1, <4>2, AtMostBounds
      <4> QED BY <1>1, <4>1, <4>3
    <3> QED BY <3>1, <3>2
  <2> QED BY <2>1, <2>2 DEF Single
<1>4. Single(LimitedIn(o, l, up), tiers[o].in)
  <2>1. CASE LimitedIn(o, l, up) = NoTake
    BY <1>1, <2>1, SingleNothing
  <2>2. CASE LimitedIn(o, l, up) # NoTake
    <3>1. LimitedIn(o, l, up).gives = Gives(LimitedIn(o, l, up).out)
      BY <2>2, LimitedInGives
    <3>2. LimitedIn(o, l, up) \in Take /\ LimitedIn(o, l, up).in <= Prepared(o).in
      BY <1>1, LimitedInType
    <3>3. LimitedIn(o, l, up).in \in Nat
      BY <3>2 DEF Take
    <3> QED BY <1>1, <3>1, <3>2, <3>3 DEF Single
  <2> QED BY <2>1, <2>2
<1> QED BY <1>2, <1>3, <1>4

\* A pass goes on to the next row, or takes from it.
LEMMA OnceRow ==
  ASSUME CrossingInv, OnceInv, phase \in Passes, UNCHANGED <<bookVars, intent, phase, flowVars>>,
         NEW o \in Offers, NEW take, takes' = [takes EXCEPT ![o] = take], Single(take, tiers[o].in)
  PROVE  OnceInv'
<1>1. /\ UNCHANGED <<book, ownerPays, intent>> /\ UNCHANGED <<rows, tiers, trace, phase>>
      /\ takes \in [Offers -> Take] /\ phase # "allocate"
  BY DEF bookVars, flowVars, CrossingInv, TypeOK, Passes
<1>2. \A x \in Offers : Single(takes'[x], tiers[x].in)
  BY <1>1 DEF OnceInv
<1>3. \A x \in Offers : Single(takes[x], tiers[x].in)'
  BY <1>1, <1>2, SingleStable
<1>4. \A x \in Offers : Single(trace[x], rows[x].in)'
  BY <1>1, SingleStable DEF OnceInv
<1>5. (NoTake)' = NoTake
  BY DEF NoTake
<1> QED BY <1>1, <1>3, <1>4, <1>5 DEF OnceInv

\* Steps that take nothing from the rows.
LEMMA OnceFrame ==
  ASSUME CrossingInv, OnceInv, phase # "allocate", UNCHANGED <<bookVars, intent, flowVars>>,
         phase' \in Passes => takes' = NoTakes \/ (takes' = takes /\ phase \in Passes)
  PROVE  OnceInv'
<1>1. UNCHANGED <<book, ownerPays, intent>> /\ UNCHANGED <<rows, tiers, trace>> /\ TypeOK
  BY DEF bookVars, flowVars, CrossingInv
<1>2. phase' \in Passes => \A x \in Offers : Single(takes'[x], tiers[x].in)
  <2>1. CASE takes' = NoTakes
    <3>1. ASSUME NEW x \in Offers PROVE Single(takes'[x], tiers[x].in)
      <4>1. takes'[x] = NoTake /\ tiers[x].in \in Nat
        BY <1>1, <2>1, RowType DEF NoTakes
      <4> QED BY <1>1, <4>1, SingleNothing
    <3> QED BY <3>1
  <2>2. CASE takes' = takes /\ phase \in Passes
    BY <2>2 DEF OnceInv
  <2> QED BY <2>1, <2>2
<1>3. phase' \in Passes => \A x \in Offers : Single(takes[x], tiers[x].in)'
  BY <1>1, <1>2, SingleStable
<1>4. \A x \in Offers : Single(trace[x], rows[x].in)'
  BY <1>1, SingleStable DEF OnceInv
<1>5. (NoTake)' = NoTake /\ (Passes)' = Passes
  BY DEF NoTake, Passes
<1> QED BY <1>1, <1>3, <1>4, <1>5 DEF OnceInv

LEMMA OnceVisit ==
  ASSUME CrossingInv, OnceInv, DeleteOwn \/ TakeReverse \/ TakeForward PROVE OnceInv'
<1>1. PICK o : o = Best(ahead)
  OBVIOUS
<1>2. /\ Visit /\ UNCHANGED <<bookVars, intent, phase, flowVars>>
  BY DEF DeleteOwn, TakeReverse, TakeForward
<1>3. /\ phase \in Passes /\ phase # "allocate" /\ TypeOK /\ o \in Offers /\ Left \in Nat /\ tiers[o].out > 0
      /\ takes \in [Offers -> Take] /\ takes[o] = NoTake /\ tiers[o].in \in Nat
  BY <1>1, <1>2, Visited, RowType DEF Passes, TypeOK
<1>4. CASE UNCHANGED takes
  <2>1. takes' = [takes EXCEPT ![o] = NoTake] /\ Single(NoTake, tiers[o].in)
    BY <1>3, <1>4, SingleNothing
  <2> QED BY <1>2, <1>3, <2>1, OnceRow
<1>5. CASE TakeReverse
  <2>1. takes' = [takes EXCEPT ![o] = LimitedOut(o, Left)]
    BY <1>1, <1>5 DEF TakeReverse
  <2>2. Single(LimitedOut(o, Left), tiers[o].in)
    BY <1>3, SingleTakes
  <2> QED BY <1>2, <1>3, <2>1, <2>2, OnceRow
<1>6. CASE TakeForward
  <2> DEFINE wanted == want - filled.out
             take == IF Left < Prepared(o).gross THEN LimitedIn(o, Left, RoundsUp) ELSE Prepared(o)
  <2>1. \/ UNCHANGED takes
        \/ 0 < wanted /\ takes' = [takes EXCEPT ![o] = LimitedOut(o, wanted)]
        \/ takes' = [takes EXCEPT ![o] = take]
    BY <1>1, <1>6 DEF TakeForward
  <2>2. want \in Nat /\ filled.out \in Nat
    BY <1>3 DEF TypeOK, Amount
  <2>3. CASE 0 < wanted /\ takes' = [takes EXCEPT ![o] = LimitedOut(o, wanted)]
    <3>1. wanted \in Nat
      BY <2>2, <2>3
    <3> HIDE DEF wanted
    <3>2. Single(LimitedOut(o, wanted), tiers[o].in)
      BY <1>3, <3>1, SingleTakes
    <3> QED BY <1>2, <1>3, <2>3, <3>2, OnceRow
  <2>4. CASE takes' = [takes EXCEPT ![o] = take]
    <3>1. Single(Prepared(o), tiers[o].in) /\ Single(LimitedIn(o, Left, RoundsUp), tiers[o].in)
      BY <1>3, SingleTakes
    <3>2. Single(take, tiers[o].in)
      BY <3>1
    <3> HIDE DEF take
    <3> QED BY <1>2, <1>3, <2>4, <3>2, OnceRow
  <2> HIDE DEF take, wanted
  <2> QED BY <1>4, <2>1, <2>3, <2>4
<1>7. CASE DeleteOwn
  BY <1>4, <1>7 DEF DeleteOwn
<1> QED BY <1>5, <1>6, <1>7

\* What is committed of an offer is all that is ever taken from it.
LEMMA OnceCommit ==
  ASSUME CrossingInv, VisitInv, WantedInv, RoundInv, OnceInv, CommitRound PROVE OnceInv'
<1>1. /\ phase \in Passes /\ phase # "allocate" /\ phase' = "round" /\ TypeOK
      /\ UNCHANGED <<book, ownerPays, intent>> /\ UNCHANGED rows
      /\ tiers' = [x \in Offers |-> Replaced(x)] /\ trace' = [x \in Offers |-> RoundTakes(x)]
      /\ takes \in [Offers -> Take] /\ trace \in [Offers -> Take]
  BY DEF CommitRound, Commit, EndPass, Passes, CrossingInv, bookVars, TypeOK
<1>2. ASSUME NEW o \in Offers
      PROVE  /\ Single(trace'[o], rows[o].in)
             /\ trace'[o].out = 0 => trace'[o] = NoTake
             /\ trace'[o].out = 0 => tiers'[o].in <= rows[o].in
  <2>1. /\ takes[o] \in Take /\ trace[o] \in Take
        /\ trace'[o] = [out |-> trace[o].out + takes[o].out, in |-> trace[o].in + takes[o].in,
                        gross |-> trace[o].gross + takes[o].gross, gives |-> trace[o].gives + takes[o].gives]
    BY <1>1 DEF RoundTakes
  <2>2. /\ tiers[o].in \in Nat /\ tiers[o] \in Row /\ rows[o].in \in Nat
    BY <1>1, RowType DEF TypeOK, BookTypeOK, Row
  <2>3. Single(trace[o], rows[o].in) /\ (trace[o].out = 0 => trace[o] = NoTake /\ tiers[o].in <= rows[o].in)
        /\ Single(takes[o], tiers[o].in)
    BY <1>1 DEF OnceInv
  <2>4. CASE takes[o].out > 0
    <3>1. o \in Taken /\ SameRate(o, o)
      BY <1>1, <2>4, RowType, NoDearerTotal DEF Taken, SameRate
    <3>2. o \notin Served
      BY <3>1, TakesNew
    <3>3. trace[o] = NoTake /\ tiers[o].in <= rows[o].in
      <4>1. trace[o].out = 0
        BY <2>1, <3>2 DEF Served, Take
      <4> QED BY <2>3, <4>1
    <3>4. trace'[o].out = takes[o].out /\ trace'[o].in = takes[o].in /\ trace'[o].gives = takes[o].gives
      BY <2>1, <3>3 DEF NoTake, Take
    <3>5. takes[o].in \in Nat
      BY <2>1 DEF Take
    <3> QED BY <2>2, <2>3, <2>4, <3>3, <3>4, <3>5 DEF Single
  <2>5. CASE ~(takes[o].out > 0)
    <3>1. takes[o] = NoTake
      BY <1>1, <2>5 DEF VisitInv, Taken
    <3>2. trace'[o] = trace[o]
      BY <2>1, <3>1 DEF NoTake, Take
    <3>3. tiers'[o].in <= tiers[o].in /\ tiers'[o].in \in Nat
      <4>1. CASE o \in deleted
        <5>1. tiers'[o] = [tiers[o] EXCEPT !.out = 0, !.in = 0]
          BY <1>1, <4>1 DEF Replaced
        <5> DEFINE t == tiers[o]
        <5>2. t = [out |-> t.out, in |-> t.in, funds |-> t.funds]
          BY <2>2 DEF Row
        <5>3. tiers'[o] = [t EXCEPT !.out = 0, !.in = 0]
          BY <5>1
        <5>4. tiers'[o].in = 0
          <6> HIDE DEF t
          <6> QED BY <5>2, <5>3
        <5> QED BY <2>2, <5>4
      <4>2. CASE o \notin deleted
        <5>1. tiers'[o] = tiers[o]
          BY <1>1, <2>5, <4>2 DEF Replaced
        <5> QED BY <2>2, <5>1
      <4> QED BY <4>1, <4>2
    <3>4. Single(trace'[o], rows[o].in) /\ (trace'[o].out = 0 => trace'[o] = NoTake /\ tiers[o].in <= rows[o].in)
      BY <2>3, <3>2
    <3> QED BY <2>2, <3>3, <3>4
  <2> QED BY <2>4, <2>5
<1>3. ASSUME NEW x \in Offers PROVE Single(trace[x], rows[x].in)'
  <2>1. Single(trace'[x], rows'[x].in)
    BY <1>1, <1>2
  <2> QED BY <1>1, <2>1, SingleStable
<1>4. (NoTake)' = NoTake
  BY DEF NoTake
<1> QED BY <1>1, <1>2, <1>3, <1>4 DEF OnceInv, Passes

\* A row gets and asks no more than its offer.
LEMMA OnceAllocate == ASSUME CrossingInv, OnceInv, Allocate PROVE OnceInv'
<1>1. /\ phase = "allocate" /\ phase' = "allocate" /\ AllocateRow /\ TypeOK /\ BookTypeOK
      /\ UNCHANGED <<book, ownerPays, intent>> /\ UNCHANGED trace
  BY DEF Allocate, CrossingInv, TypeOK, AllocateRow, flowVars
<1>2. PICK o \in unsorted : RowOf(o)
  BY <1>1, AllocatesOneRow
<1>3. o \in Offers /\ rows \in [Offers -> Row] /\ rows' \in [Offers -> Row]
  BY <1>1, <1>2, TypeStep DEF BookTypeOK
<1> DEFINE out == EffectiveOut(o, purse[book[o].owner])
           in == EffectiveIn(o, out)
<1>4. \/ UNCHANGED rows
      \/ rows' = [rows EXCEPT ![o] = [out |-> out, in |-> in, funds |-> purse[book[o].owner]]]
  BY <1>2 DEF RowOf
<1>5. out \in Nat /\ out <= book[o].gets /\ in \in Nat /\ in <= book[o].pays
  <2>1. /\ book[o].rate \in Rates /\ book[o].gets \in Nat /\ book[o].pays \in Nat
        /\ book[o].fundedPays \in Nat \cup {Unknown} /\ purse[book[o].owner] \in Nat \cup {Unknown}
    BY <1>1, <1>3, OfferType DEF BookTypeOK
  <2>2. out \in Nat /\ out <= book[o].gets
    BY <1>1, <1>3, <2>1, EffectiveOutFits
  <2> DEFINE asked == AtMost(book[o].pays, book[o].fundedPays)
  <2>3. asked \in Nat /\ asked <= book[o].pays
    BY <2>1, AtMostType
  <2>4. in = IF out < book[o].gets THEN AtMost(asked, RoundDown(out, book[o].rate)) ELSE asked
    BY DEF EffectiveIn
  <2> HIDE DEF out, asked, in
  <2>5. RoundDown(out, book[o].rate) \in Nat
    BY <2>1, <2>2, RoundDownType
  <2>6. AtMost(asked, RoundDown(out, book[o].rate)) \in Nat /\ AtMost(asked, RoundDown(out, book[o].rate)) <= asked
    BY <2>3, <2>5, AtMostBounds
  <2> QED BY <2>1, <2>2, <2>3, <2>4, <2>6
<1> HIDE DEF out, in
<1>6. \A x \in Offers : rows'[x].out <= book[x].gets /\ rows'[x].in <= book[x].pays
  <2> TAKE x \in Offers
  <2>1. rows[x].out <= book[x].gets /\ rows[x].in <= book[x].pays
    BY DEF OnceInv
  <2>2. CASE UNCHANGED rows
    BY <2>1, <2>2
  <2>3. CASE rows' = [rows EXCEPT ![o] = [out |-> out, in |-> in, funds |-> purse[book[o].owner]]]
    <3>1. CASE x = o
      BY <1>3, <1>5, <2>3, <3>1
    <3>2. CASE x # o
      BY <1>3, <2>1, <2>3, <3>2
    <3> QED BY <3>1, <3>2
  <2> QED BY <1>4, <2>2, <2>3
<1>7. ASSUME NEW x \in Offers PROVE Single(trace'[x], rows'[x].in) /\ trace'[x] = NoTake
  <2>1. trace'[x] = NoTake /\ rows'[x].in \in Nat
    BY <1>1, <1>3 DEF CrossingInv, TraceInv, NoTakes, Row
  <2> QED BY <1>1, <2>1, SingleNothing
<1>8. \A x \in Offers : Single(trace[x], rows[x].in)'
  BY <1>1, <1>7, SingleStable
<1>9. (NoTake)' = NoTake
  BY DEF NoTake
<1> QED BY <1>1, <1>6, <1>7, <1>8, <1>9 DEF OnceInv, Passes

LEMMA OnceBegin == ASSUME CrossingInv, OnceInv, BeginFlow PROVE OnceInv'
<1>1. /\ phase' = "round" /\ TypeOK /\ UNCHANGED <<book, ownerPays, intent>> /\ UNCHANGED <<rows, trace>>
      /\ tiers' = rows /\ rows \in [Offers -> Row]
  BY DEF BeginFlow, CrossingInv, bookVars, TypeOK, BookTypeOK
<1>2. \A x \in Offers : Single(trace[x], rows[x].in)'
  BY <1>1, SingleStable DEF OnceInv
<1>3. \A x \in Offers : tiers'[x].in <= rows[x].in
  BY <1>1 DEF Row
<1>4. (NoTake)' = NoTake
  BY DEF NoTake
<1> QED BY <1>1, <1>2, <1>3, <1>4 DEF OnceInv, Passes

LEMMA OnceStep == CrossingInv /\ VisitInv /\ WantedInv /\ RoundInv /\ OnceInv /\ [Next]_vars => OnceInv'
<1> SUFFICES ASSUME CrossingInv, VisitInv, WantedInv, RoundInv, OnceInv, [Next]_vars PROVE OnceInv'
  OBVIOUS
<1>1. CASE Allocate
  BY <1>1, OnceAllocate
<1>2. CASE BeginFlow
  BY <1>2, OnceBegin
<1>3. CASE BeginRound \/ RunForward \/ RunFallback
  <2>1. phase # "allocate" /\ UNCHANGED <<bookVars, intent, flowVars>> /\ takes' = NoTakes
    BY <1>3 DEF BeginRound, RunForward, RunFallback, EndPass, StartPass, Passes
  <2> QED BY <2>1, OnceFrame
<1>4. CASE StopFlow \/ EndFlow \/ Settle
  <2>1. phase # "allocate" /\ UNCHANGED <<bookVars, intent, flowVars>> /\ phase' \notin Passes
    BY <1>4 DEF StopFlow, EndFlow, Settle, EndPass, Passes
  <2> QED BY <2>1, OnceFrame
<1>5. CASE DeleteOwn \/ TakeReverse \/ TakeForward
  BY <1>5, OnceVisit
<1>6. CASE CommitRound
  BY <1>6, OnceCommit
<1>7. CASE UNCHANGED vars
  <2>1. UNCHANGED <<bookVars, intent, flowVars>> /\ UNCHANGED <<phase, takes>>
    BY <1>7 DEF vars, passVars
  <2>2. CASE phase = "allocate"
    <3>1. UNCHANGED <<book, ownerPays, intent>> /\ UNCHANGED <<rows, trace, phase>>
      BY <2>1 DEF bookVars, flowVars
    <3>2. \A x \in Offers : Single(trace[x], rows[x].in)'
      BY <3>1, SingleStable DEF OnceInv
    <3>3. (NoTake)' = NoTake
      BY DEF NoTake
    <3> QED BY <2>2, <3>1, <3>2, <3>3 DEF OnceInv, Passes
  <2>3. CASE phase # "allocate"
    BY <2>1, <2>3, OnceFrame
  <2> QED BY <2>2, <2>3
<1> QED BY <1>1, <1>2, <1>3, <1>4, <1>5, <1>6, <1>7 DEF Next, Pass

LEMMA OnceInit == Ready => OnceInv
<1> SUFFICES ASSUME Ready PROVE OnceInv
  OBVIOUS
<1>1. /\ phase = "allocate" /\ rows = [o \in Offers |-> NoRow] /\ TypeOK /\ trace = NoTakes
      /\ book \in SnapshotBook
  BY CrossingInit DEF Ready, Begins, Unallocated, CrossingInv
<1>2. ASSUME NEW o \in Offers
      PROVE  /\ rows[o].out <= book[o].gets /\ rows[o].in <= book[o].pays
             /\ Single(trace[o], rows[o].in) /\ trace[o] = NoTake
  <2>1. rows[o].in = 0 /\ rows[o].out = 0 /\ trace[o] = NoTake
    BY <1>1 DEF NoRow, NoTakes
  <2>2. book[o].gets \in Nat /\ book[o].pays \in Nat
    BY <1>1, OfferType DEF TypeOK
  <2> QED BY <1>1, <2>1, <2>2, SingleNothing
<1> QED BY <1>1, <1>2 DEF OnceInv, Passes

WithinOffers ==
  \A o \in Offers :
    /\ trace[o].out <= book[o].gets /\ trace[o].in <= book[o].pays
    /\ trace[o].gives = Gives(trace[o].out)
    /\ trace[o].out = 0 => trace[o] = NoTake

LEMMA OnceWithin == ASSUME CrossingInv, OnceInv PROVE WithinOffers
<1> SUFFICES ASSUME NEW o \in Offers
             PROVE  /\ trace[o].out <= book[o].gets /\ trace[o].in <= book[o].pays
                    /\ trace[o].gives = Gives(trace[o].out)
                    /\ trace[o].out = 0 => trace[o] = NoTake
  BY DEF WithinOffers
<1>1. /\ TypeOK /\ trace[o] \in Take /\ tiers[o] \in Row /\ rows[o] \in Row /\ book[o] \in Offer /\ TraceInv
      /\ rows[o].out <= book[o].gets /\ rows[o].in <= book[o].pays /\ Single(trace[o], rows[o].in)
      /\ trace[o].out = 0 => trace[o] = NoTake
  BY OfferType DEF CrossingInv, TypeOK, BookTypeOK, OnceInv
<1>2. /\ trace[o].in \in Nat /\ trace[o].out \in Nat /\ tiers[o].out \in Nat /\ rows[o].out \in Nat
      /\ rows[o].in \in Nat /\ book[o].gets \in Nat /\ book[o].pays \in Nat
  BY <1>1 DEF Take, Row, Offer
<1>3. trace[o].out <= book[o].gets
  <2>1. CASE phase = "allocate"
    BY <1>1, <1>2, <2>1 DEF TraceInv, NoTakes, NoTake
  <2>2. CASE phase # "allocate"
    BY <1>1, <1>2, <2>2 DEF TraceInv
  <2> QED BY <2>1, <2>2
<1> QED BY <1>1, <1>2, <1>3 DEF Single

\* Nothing was taken before of an offer that a step takes from.
TakenOnce == \A o \in Offers : trace'[o] # trace[o] => trace[o] = NoTake

LEMMA OnceTaken ==
  CrossingInv /\ VisitInv /\ WantedInv /\ RoundInv /\ OnceInv /\ [Next]_vars => TakenOnce
<1> SUFFICES ASSUME CrossingInv, VisitInv, WantedInv, RoundInv, OnceInv, [Next]_vars,
                    NEW o \in Offers, trace'[o] # trace[o]
             PROVE  trace[o] = NoTake
  BY DEF TakenOnce
<1>1. CommitRound
  BY DEF Next, Pass, Allocate, BeginFlow, BeginRound, StopFlow, DeleteOwn, TakeReverse, TakeForward,
         RunForward, RunFallback, EndFlow, Settle, vars, flowVars
<1>2. /\ phase \in Passes /\ trace' = [x \in Offers |-> RoundTakes(x)] /\ TypeOK
      /\ takes \in [Offers -> Take] /\ trace[o] \in Take
  BY <1>1 DEF CommitRound, EndPass, Commit, CrossingInv, TypeOK
<1>3. o \in Taken
  <2> SUFFICES ASSUME o \notin Taken PROVE FALSE
    OBVIOUS
  <2>1. takes[o] = NoTake
    BY <1>2 DEF VisitInv, Taken
  <2>2. trace'[o] = trace[o]
    BY <1>2, <2>1 DEF RoundTakes, NoTake, Take
  <2> QED BY <2>2
<1>4. SameRate(o, o)
  BY <1>2, RowType, NoDearerTotal DEF SameRate
<1>5. o \notin Served
  BY <1>1, <1>3, <1>4, TakesNew
<1>6. trace[o].out = 0
  BY <1>2, <1>5 DEF Served, Take
<1> QED BY <1>6 DEF OnceInv

LEMMA OnceInvariant ==
  ASSUME Unadjusted PROVE Spec => [](CrossingInv /\ VisitInv /\ WantedInv /\ WantsAll /\ RoundInv /\ OnceInv)
<1>1. Init => VisitInv /\ WantedInv /\ WantsAll /\ RoundInv /\ OnceInv
  BY InitReady, VisitInit, WantedInit, RoundInit, OnceInit DEF Init, Unadjusted, WantsAll, OfferCrossing
<1>2. CrossingInv /\ VisitInv /\ WantedInv /\ WantsAll /\ RoundInv /\ OnceInv /\ [Next]_vars
        => VisitInv' /\ WantedInv' /\ WantsAll' /\ RoundInv' /\ OnceInv'
  BY VisitStep, WantedStep, WantsAllStep, RoundStep, OnceStep
<1> QED BY <1>1, <1>2, CrossingInvariant, PTL DEF Spec

\* However many rounds a flow takes, it never comes back to an offer: what a
\* round leaves of one, priced up by _consume_clob_slices_inplace, no later round
\* buys.  That is for payments, beside any pool, and without a pool for every
\* transaction.
THEOREM OffersTakenOnce == ASSUME Unadjusted PROVE Spec => [][TakenOnce]_vars
<1>1. CrossingInv /\ VisitInv /\ WantedInv /\ WantsAll /\ RoundInv /\ OnceInv /\ [Next]_vars => [TakenOnce]_vars
  BY OnceTaken
<1> QED BY <1>1, OnceInvariant, PTL DEF Spec

\* So an offer never gives nor gets more than it said, in all rounds together,
\* and its owner is charged the transfer fee of the whole, rounded once.
THEOREM OffersNotExceeded == ASSUME Unadjusted PROVE Spec => []WithinOffers
BY OnceWithin, OnceInvariant, PTL

-----------------------------------------------------------------------------
(* Both sides of the pool *)

\* Where the pool gives nothing it gets nothing, and what it got is part of what
\* it holds.  An offer crosses without one.
PoolPairs ==
  /\ OfferCrossing => poolTrace.out = 0
  /\ poolTake.out = 0 => poolTake.in = 0
  /\ IF poolTrace.out = 0 THEN poolTrace.in = 0 ELSE pool \in Pool /\ poolTrace.in < pool.x

LEMMA PairsStep == CrossingInv /\ WantsAll /\ PoolPairs /\ [Next]_vars => PoolPairs'
<1> SUFFICES ASSUME CrossingInv, WantsAll, PoolPairs, [Next]_vars PROVE PoolPairs'
  OBVIOUS
<1>5. OfferCrossing' <=> OfferCrossing
  BY InputsStay DEF OfferCrossing
<1>1. CASE BeginRound \/ RunForward \/ RunFallback
  <2>1. PICK d, cap : StartPass(d, cap)
    BY <1>1 DEF BeginRound, RunForward, RunFallback
  <2>2. PICK slice, take : PassWith(slice, take)
    BY <2>1 DEF StartPass
  <2>3. poolTake' = NoPoolTake \/ (poolTake' = take /\ take.out > 0 /\ take.in > 0)
    BY <2>2 DEF PassWith
  <2>4. poolTake'.out = 0 => poolTake'.in = 0
    BY <2>3, NoPoolTakeType
  <2>5. poolTrace' = poolTrace /\ pool' = pool
    BY <1>1 DEF BeginRound, RunForward, RunFallback, flowVars
  <2> QED BY <1>5, <2>4, <2>5 DEF PoolPairs
<1>2. CASE CommitRound
  <2>1. /\ poolTrace' = [k \in DOMAIN poolTrace |-> poolTrace[k] + poolTake[k]] /\ poolTake' = poolTake
        /\ poolTrace \in PoolTake /\ poolTake \in PoolTake /\ TypeOK /\ phase \in Passes /\ PassInv
        /\ IF poolTake # NoPoolTake THEN pool' = Filled(pool, poolTake.in, poolTake.out) ELSE UNCHANGED pool
    BY <1>2 DEF CommitRound, Commit, EndPass, CrossingInv, TypeOK, passVars
  <2>2. poolTrace'.out = poolTrace.out + poolTake.out /\ poolTrace'.in = poolTrace.in + poolTake.in
    BY <2>1 DEF PoolTake
  <2>3. /\ poolTrace.out \in Nat /\ poolTake.out \in Nat /\ poolTrace.in \in Nat /\ poolTake.in \in Nat
    BY <2>1 DEF PoolTake
  <2>4. poolTake'.out = 0 => poolTake'.in = 0
    BY <2>1 DEF PoolPairs
  <2>5. CASE poolTake = NoPoolTake
    BY <1>5, <2>1, <2>2, <2>3, <2>4, <2>5, NoPoolTakeType DEF PoolPairs
  <2>6. CASE poolTake # NoPoolTake
    <3>1. pool \in Pool /\ Pays(pool, poolTake.in, poolTake.out) /\ ~OfferCrossing
      BY <2>1, <2>6, PoolType DEF PassInv, PoolActive, WantsAll
    <3>2. pool.x \in Nat \ {0} /\ pool.y \in Nat \ {0} /\ poolTake.out < pool.y
      BY <3>1, PoolParts DEF Pays
    <3>3. pool' = [x |-> pool.x + poolTake.in, y |-> pool.y - poolTake.out]
      BY <2>1, <2>6 DEF Filled
    <3>4. pool' \in Pool
      BY <2>3, <3>2, <3>3 DEF Pool
    <3>5. pool'.x = pool.x + poolTake.in
      BY <3>3
    <3>6. poolTrace.in < pool.x
      BY <2>3, <3>2 DEF PoolPairs
    <3>7. poolTrace'.out = 0 => poolTrace'.in = 0
      BY <2>2, <2>3 DEF PoolPairs
    <3> QED BY <1>5, <2>2, <2>3, <2>4, <3>1, <3>2, <3>4, <3>5, <3>6, <3>7 DEF PoolPairs
  <2> QED BY <2>5, <2>6
<1>3. CASE Allocate \/ BeginFlow \/ StopFlow \/ DeleteOwn \/ TakeReverse \/ TakeForward \/ EndFlow \/ Settle
  BY <1>3 DEF Allocate, BeginFlow, StopFlow, DeleteOwn, TakeReverse, TakeForward, EndFlow, Settle,
              bookVars, passVars, flowVars, OfferCrossing, PoolPairs
<1>4. CASE UNCHANGED vars
  BY <1>4, <1>5 DEF vars, passVars, flowVars, PoolPairs
<1> QED BY <1>1, <1>2, <1>3, <1>4 DEF Next, Pass

-----------------------------------------------------------------------------
(* A flow from any state that is ready *)

FlowInv ==
  /\ CrossingInv /\ VisitInv /\ WantedInv /\ WantsAll /\ RoundInv /\ OnceInv
  /\ PoolPairs

LEMMA FlowStarts == Ready /\ WantsAll => FlowInv
<1> SUFFICES ASSUME Ready, WantsAll PROVE FlowInv
  OBVIOUS
<1>1. poolTrace = NoPoolTake /\ poolTake = NoPoolTake
  BY DEF Ready, Begins
<1>2. PoolPairs
  BY <1>1, NoPoolTakeType DEF PoolPairs
<1> QED BY <1>2, CrossingInit, VisitInit, WantedInit, RoundInit, OnceInit DEF FlowInv

LEMMA FlowGoesOn == FlowInv /\ [Next]_vars => FlowInv'
BY CrossingStep, VisitStep, WantedStep, WantsAllStep, RoundStep, OnceStep, PairsStep DEF FlowInv

-----------------------------------------------------------------------------
(* What offers are paid *)

\* Offers of the snapshot ask no more than their quality, rounded up, as the
\* ledger has it when an offer is placed.
AskedAtQuality == \A b \in Books, o \in Offers : b[o].pays <= RoundUp(b[o].gets, b[o].rate)

\* Ratios compare transitively.
LEMMA RatioTransitive ==
  ASSUME NEW p \in Nat, NEW q \in Nat, NEW r \in Nat, NEW s \in Nat \ {0}, NEW u \in Nat, NEW v \in Nat,
         p * s <= r * q, r * v <= u * s
  PROVE  p * v <= u * q
<1>1. (p * s) * v <= (r * q) * v
  <2> DEFINE a == p * s
             b == r * q
  <2>1. a \in Nat /\ b \in Nat /\ a <= b
    BY ProductType
  <2> HIDE DEF a, b
  <2>2. a * v <= b * v
    BY <2>1, SMT
  <2> QED BY <2>2 DEF a, b
<1>2. (r * v) * q <= (u * s) * q
  <2> DEFINE a == r * v
             b == u * s
  <2>1. a \in Nat /\ b \in Nat /\ a <= b
    BY ProductType
  <2> HIDE DEF a, b
  <2>2. a * q <= b * q
    BY <2>1, SMT
  <2> QED BY <2>2 DEF a, b
<1>3. (p * v) * s = (p * s) * v /\ (r * q) * v = (r * v) * q /\ (u * q) * s = (u * s) * q
  BY SMT
<1>4. (p * v) * s <= (u * q) * s
  <2>1. (p * s) * v \in Nat /\ (r * q) * v \in Nat /\ (r * v) * q \in Nat /\ (u * s) * q \in Nat
    BY ProductType
  <2> QED BY <1>1, <1>2, <1>3, <2>1
<1>5. p * v \in Nat /\ u * q \in Nat
  BY ProductType
<1> DEFINE a == p * v
           b == u * q
<1> HIDE DEF a, b
<1>6. a <= b
  BY <1>4, <1>5, Cancel DEF a, b
<1> QED BY <1>6 DEF a, b

\* An output is paid for: at the price of the row, or at that of its quality if
\* that is the lower.
PaidFor(o, out, in) ==
  IF rows[o].in * Rate(o)[2] <= rows[o].out * Rate(o)[1]
  THEN out * rows[o].in <= in * rows[o].out
  ELSE out * Rate(o)[1] <= in * Rate(o)[2]

LEMMA AskParts ==
  ASSUME TypeOK, NEW o \in Offers
  PROVE  /\ rows[o].in \in Nat /\ rows[o].out \in Nat /\ Rate(o) \in Rates
         /\ Rate(o)[1] \in Nat \ {0} /\ Rate(o)[2] \in Nat \ {0}
<1>1. rows[o] \in Row
  BY DEF TypeOK, BookTypeOK
<1> QED BY <1>1, RowType, RateParts DEF Row

\* At the price of the row an output is paid for.
LEMMA PaidAtRow ==
  ASSUME TypeOK, NEW o \in Offers, NEW out \in Nat, NEW in \in Nat, out * rows[o].in <= in * rows[o].out
  PROVE  PaidFor(o, out, in)
<1> DEFINE m == rows[o].in
           n == rows[o].out
           a == Rate(o)[1]
           b == Rate(o)[2]
<1>1. m \in Nat /\ n \in Nat /\ a \in Nat \ {0} /\ b \in Nat \ {0}
  BY AskParts
<1>2. PaidFor(o, out, in) <=> IF m * b <= n * a THEN out * m <= in * n ELSE out * a <= in * b
  BY DEF PaidFor
<1>3. out * m <= in * n
  OBVIOUS
<1> HIDE DEF m, n, a, b
<1>4. CASE ~(m * b <= n * a)
  <2>1. m * b \in Nat /\ n * a \in Nat /\ in * n = n * in /\ b * m = m * b /\ in * b = b * in
    BY <1>1, SMT
  <2>2. m # 0
    <3> SUFFICES ASSUME m = 0 PROVE FALSE
      OBVIOUS
    <3>1. m * b = 0
      BY <1>1, SMT
    <3> QED BY <1>4, <2>1, <3>1
  <2>3. out * m <= n * in /\ n * a <= b * m
    BY <1>3, <1>4, <2>1
  <2>4. out * a <= b * in
    BY <1>1, <2>2, <2>3, RatioTransitive
  <2> QED BY <1>2, <1>4, <2>1, <2>4
<1> QED BY <1>2, <1>3, <1>4

\* So it is at the price of its quality.
LEMMA PaidAtRate ==
  ASSUME TypeOK, NEW o \in Offers, NEW out \in Nat, NEW in \in Nat, out * Rate(o)[1] <= in * Rate(o)[2]
  PROVE  PaidFor(o, out, in)
<1> DEFINE m == rows[o].in
           n == rows[o].out
           a == Rate(o)[1]
           b == Rate(o)[2]
<1>1. m \in Nat /\ n \in Nat /\ a \in Nat \ {0} /\ b \in Nat \ {0}
  BY AskParts
<1>2. PaidFor(o, out, in) <=> IF m * b <= n * a THEN out * m <= in * n ELSE out * a <= in * b
  BY DEF PaidFor
<1>3. out * a <= in * b
  OBVIOUS
<1> HIDE DEF m, n, a, b
<1>4. CASE m * b <= n * a
  <2>1. in * n = n * in /\ b * m = m * b /\ in * b = b * in
    BY <1>1, SMT
  <2>2. out * a <= b * in /\ b * m <= n * a
    BY <1>3, <1>4, <2>1
  <2>3. out * m <= n * in
    BY <1>1, <2>2, RatioTransitive
  <2> QED BY <1>2, <1>4, <2>1, <2>3
<1> QED BY <1>2, <1>3, <1>4

\* Less output is paid for with as much input.
LEMMA PaidLess ==
  ASSUME TypeOK, NEW o \in Offers, NEW out \in Nat, NEW in \in Nat, PaidFor(o, out, in), NEW x \in Nat, x <= out
  PROVE  PaidFor(o, x, in)
<1> DEFINE m == rows[o].in
           n == rows[o].out
           a == Rate(o)[1]
           b == Rate(o)[2]
<1>1. m \in Nat /\ n \in Nat /\ a \in Nat /\ b \in Nat
  BY AskParts
<1>2. PaidFor(o, out, in) <=> IF m * b <= n * a THEN out * m <= in * n ELSE out * a <= in * b
  BY DEF PaidFor
<1>3. PaidFor(o, x, in) <=> IF m * b <= n * a THEN x * m <= in * n ELSE x * a <= in * b
  BY DEF PaidFor
<1> HIDE DEF m, n, a, b
<1>4. x * m <= out * m /\ x * a <= out * a
  BY <1>1, SMT
<1>5. x * m \in Nat /\ out * m \in Nat /\ in * n \in Nat /\ x * a \in Nat /\ out * a \in Nat /\ in * b \in Nat
  BY <1>1, ProductType
<1> QED BY <1>2, <1>3, <1>4, <1>5

\* What is paid for in parts is paid for.
LEMMA PaidTogether ==
  ASSUME TypeOK, NEW o \in Offers, NEW x \in Nat, NEW i \in Nat, NEW y \in Nat, NEW j \in Nat,
         PaidFor(o, x, i), PaidFor(o, y, j)
  PROVE  PaidFor(o, x + y, i + j)
<1> DEFINE m == rows[o].in
           n == rows[o].out
           a == Rate(o)[1]
           b == Rate(o)[2]
<1>1. m \in Nat /\ n \in Nat /\ a \in Nat /\ b \in Nat
  BY AskParts
<1>2. /\ PaidFor(o, x, i) <=> IF m * b <= n * a THEN x * m <= i * n ELSE x * a <= i * b
      /\ PaidFor(o, y, j) <=> IF m * b <= n * a THEN y * m <= j * n ELSE y * a <= j * b
      /\ PaidFor(o, x + y, i + j) <=>
           IF m * b <= n * a THEN (x + y) * m <= (i + j) * n ELSE (x + y) * a <= (i + j) * b
  BY DEF PaidFor
<1> HIDE DEF m, n, a, b
<1>3. /\ (x + y) * m = x * m + y * m /\ (i + j) * n = i * n + j * n
      /\ (x + y) * a = x * a + y * a /\ (i + j) * b = i * b + j * b
  BY <1>1, SMT
<1>4. /\ x * m \in Nat /\ y * m \in Nat /\ i * n \in Nat /\ j * n \in Nat
      /\ x * a \in Nat /\ y * a \in Nat /\ i * b \in Nat /\ j * b \in Nat
  BY <1>1, ProductType
<1> QED BY <1>2, <1>3, <1>4

\* Rounding down gives no more than rounding up.
LEMMA DownUp ==
  ASSUME NEW x \in Nat, NEW r \in Rates PROVE RoundDown(x, r) <= RoundUp(x, r)
<1> DEFINE u == RoundDown(x, r)
           v == RoundUp(x, r)
           d == r[2]
           n == x * r[1]
<1>1. u \in Nat /\ v \in Nat /\ u * d <= n /\ n <= v * d /\ d \in Nat \ {0} /\ n \in Nat
  BY RoundDownRate, RoundUpRate, RateParts, ProductType
<1> HIDE DEF u, v, d, n
<1>2. u * d \in Nat /\ v * d \in Nat
  BY <1>1, ProductType
<1>3. u * d <= v * d
  BY <1>1, <1>2
<1>4. u <= v
  BY <1>1, <1>3, Cancel
<1> QED BY <1>4 DEF u, v

\* A row asks no more than its quality, and what is left of it no less than its
\* share.
ShareInv ==
  /\ \A o \in Offers : rows[o].in <= RoundUp(rows[o].out, Rate(o))
  /\ phase # "allocate" =>
       \A o \in Offers : tiers[o].out * rows[o].in <= tiers[o].in * rows[o].out

\* What is left of a row that was taken from is priced up, not down.
LEMMA ShareCommit == ASSUME CrossingInv, VisitInv, ShareInv, CommitRound PROVE ShareInv'
<1>1. /\ phase \in Passes /\ phase # "allocate" /\ TypeOK
      /\ UNCHANGED <<book, rows>> /\ tiers' = [x \in Offers |-> Replaced(x)]
      /\ takes \in [Offers -> Take]
  BY DEF CommitRound, Commit, EndPass, Passes, CrossingInv, bookVars, TypeOK
<1>2. \A x \in Offers : RoundUp(rows[x].out, Rate(x))' = RoundUp(rows[x].out, Rate(x))
  BY <1>1 DEF RoundUp, Rate
<1>3. ASSUME NEW o \in Offers PROVE tiers'[o].out * rows[o].in <= tiers'[o].in * rows[o].out
  <2> DEFINE m == rows[o].in
             n == rows[o].out
             t == tiers[o]
  <2>1. m \in Nat /\ n \in Nat /\ t.out \in Nat /\ t.in \in Nat /\ takes[o].out \in Nat /\ t \in Row
    BY <1>1, AskParts, RowType, TakeParts DEF TypeOK
  <2>2. t.out * m <= t.in * n
    BY <1>1 DEF ShareInv
  <2>3. tiers'[o] = Replaced(o)
    BY <1>1
  <2>4. CASE o \in deleted
    <3>1. t = [out |-> t.out, in |-> t.in, funds |-> t.funds]
      BY <2>1 DEF Row
    <3>2. Replaced(o) = [t EXCEPT !.out = 0, !.in = 0]
      BY <2>4 DEF Replaced
    <3>3. Replaced(o).out = 0 /\ Replaced(o).in = 0
      <4> HIDE DEF t
      <4> QED BY <3>1, <3>2
    <3> HIDE DEF m, n, t
    <3>4. 0 * m <= 0 * n
      BY <2>1, SMT
    <3> QED BY <2>3, <3>3, <3>4 DEF m, n
  <2>5. CASE o \notin deleted /\ ~(takes[o].out > 0)
    BY <2>2, <2>3, <2>5 DEF Replaced
  <2>6. CASE o \notin deleted /\ takes[o].out > 0
    <3>1. t.in > 0
      <4>1. takes[o] # NoTake
        BY <2>6 DEF NoTake
      <4>2. o \in Candidates
        BY <1>1, <4>1 DEF VisitInv
      <4> QED BY <4>2 DEF Candidates, Executable
    <3>2. t.out >= takes[o].out
      BY <1>1, <2>1 DEF CrossingInv, PassInv
    <3> DEFINE out == IF takes[o].out < t.out THEN t.out - takes[o].out ELSE 0
               in == RoundUp(out, <<t.in, t.out>>)
    <3>3. Replaced(o).out = out /\ Replaced(o).in = in
      BY <2>6 DEF Replaced, Consumed
    <3> HIDE DEF t
    <3>4. out \in Nat /\ t.out \in Nat \ {0} /\ t.in \in Nat \ {0}
      BY <2>1, <2>6, <3>1, <3>2
    <3> HIDE DEF out
    <3>5. in \in Nat /\ out * t.in <= in * t.out
      BY <2>1, <3>4, RoundUpIsLeast
    <3> HIDE DEF m, n, in
    <3>6. in * t.out = t.out * in /\ t.in * n = n * t.in /\ in * n = n * in
      BY <2>1, <3>4, <3>5, SMT
    <3>7. out * t.in <= t.out * in /\ t.out * m <= n * t.in
      BY <2>2, <3>5, <3>6
    <3>8. out * m <= n * in
      BY <2>1, <3>4, <3>5, <3>7, RatioTransitive
    <3> QED BY <2>3, <3>3, <3>6, <3>8 DEF m, n
  <2> QED BY <2>4, <2>5, <2>6
<1> QED BY <1>1, <1>2, <1>3 DEF ShareInv

\* An offer becomes a row that asks no more than its quality.
LEMMA ShareAllocate ==
  ASSUME Given, CrossingInv, ShareInv, AskedAtQuality, Allocate PROVE ShareInv'
<1>1. /\ phase = "allocate" /\ phase' = "allocate" /\ AllocateRow /\ TypeOK /\ BookTypeOK /\ UNCHANGED book
  BY DEF Allocate, CrossingInv, TypeOK, AllocateRow
<1>2. PICK o \in unsorted : RowOf(o)
  BY <1>1, AllocatesOneRow
<1>3. o \in Offers /\ rows \in [Offers -> Row] /\ book \in Books
  BY <1>1 DEF BookTypeOK, Given
<1>4. \A x \in Offers : RoundUp(rows[x].out, Rate(x))' = RoundUp(rows'[x].out, Rate(x))
  BY <1>1 DEF RoundUp, Rate
<1> DEFINE out == EffectiveOut(o, purse[book[o].owner])
           in == EffectiveIn(o, out)
<1>5. \/ UNCHANGED rows
      \/ rows' = [rows EXCEPT ![o] = [out |-> out, in |-> in, funds |-> purse[book[o].owner]]]
  BY <1>2 DEF RowOf
<1>6. CASE UNCHANGED rows
  BY <1>1, <1>4, <1>6 DEF ShareInv
<1>7. CASE rows' = [rows EXCEPT ![o] = [out |-> out, in |-> in, funds |-> purse[book[o].owner]]]
  <2>1. /\ book[o].rate \in Rates /\ book[o].gets \in Nat /\ book[o].pays \in Nat
        /\ book[o].fundedPays \in Nat \cup {Unknown} /\ purse[book[o].owner] \in Nat \cup {Unknown}
    BY <1>1, <1>3, OfferType DEF BookTypeOK
  <2>2. out \in Nat /\ out <= book[o].gets
    BY <1>1, <1>3, <2>1, EffectiveOutFits
  <2> DEFINE asked == AtMost(book[o].pays, book[o].fundedPays)
  <2>3. asked \in Nat /\ asked <= book[o].pays
    BY <2>1, AtMostType
  <2>4. in = IF out < book[o].gets THEN AtMost(asked, RoundDown(out, book[o].rate)) ELSE asked
    BY DEF EffectiveIn
  <2> HIDE DEF out, asked, in
  <2>5. RoundUp(out, book[o].rate) \in Nat /\ RoundDown(out, book[o].rate) \in Nat
        /\ RoundDown(out, book[o].rate) <= RoundUp(out, book[o].rate)
    BY <2>1, <2>2, RoundUpRate, RoundDownType, DownUp
  <2>6. in <= RoundUp(out, book[o].rate)
    <3>1. CASE out < book[o].gets
      <4>1. in = AtMost(asked, RoundDown(out, book[o].rate))
        BY <2>4, <3>1
      <4>2. in \in Nat /\ in <= RoundDown(out, book[o].rate)
        BY <2>3, <2>5, <4>1, AtMostBounds
      <4> QED BY <2>5, <4>2
    <3>2. CASE ~(out < book[o].gets)
      <4>1. in = asked /\ out = book[o].gets
        BY <2>1, <2>2, <2>4, <3>2
      <4>2. book[o].pays <= RoundUp(book[o].gets, book[o].rate)
        BY <1>3 DEF AskedAtQuality
      <4> QED BY <2>1, <2>3, <2>5, <4>1, <4>2
    <3> QED BY <3>1, <3>2
  <2>7. ASSUME NEW x \in Offers PROVE rows'[x].in <= RoundUp(rows'[x].out, Rate(x))
    <3>1. CASE x = o
      BY <1>3, <1>7, <2>6, <3>1 DEF Rate
    <3>2. CASE x # o
      BY <1>3, <1>7, <3>2 DEF ShareInv
    <3> QED BY <3>1, <3>2
  <2> QED BY <1>1, <1>4, <2>7 DEF ShareInv
<1> QED BY <1>5, <1>6, <1>7

\* The flow begins with whole rows.
LEMMA ShareBegin == ASSUME CrossingInv, ShareInv, BeginFlow PROVE ShareInv'
<1>1. TypeOK /\ UNCHANGED <<book, rows>> /\ tiers' = rows
  BY DEF BeginFlow, CrossingInv, bookVars
<1>2. \A x \in Offers : RoundUp(rows[x].out, Rate(x))' = RoundUp(rows[x].out, Rate(x))
  BY <1>1 DEF RoundUp, Rate
<1>3. ASSUME NEW x \in Offers PROVE rows[x].out * rows[x].in <= rows[x].in * rows[x].out
  BY <1>1, AskParts, SMT
<1> QED BY <1>1, <1>2, <1>3 DEF ShareInv

LEMMA ShareFrame ==
  ASSUME ShareInv, UNCHANGED <<book, rows, tiers>>, phase = "allocate" => phase' = "allocate"
  PROVE  ShareInv'
<1>1. \A x \in Offers : RoundUp(rows[x].out, Rate(x))' = RoundUp(rows[x].out, Rate(x))
  BY DEF RoundUp, Rate
<1> QED BY <1>1 DEF ShareInv

LEMMA ShareStep ==
  ASSUME AskedAtQuality PROVE Given /\ CrossingInv /\ VisitInv /\ ShareInv /\ [Next]_vars => ShareInv'
<1> SUFFICES ASSUME Given, CrossingInv, VisitInv, ShareInv, [Next]_vars PROVE ShareInv'
  OBVIOUS
<1>1. CASE Allocate
  BY <1>1, ShareAllocate
<1>2. CASE BeginFlow
  BY <1>2, ShareBegin
<1>3. CASE CommitRound
  BY <1>3, ShareCommit
<1>4. CASE BeginRound \/ StopFlow \/ Settle \/ (Pass /\ ~CommitRound)
  <2>1. UNCHANGED <<bookVars, flowVars>> /\ phase # "allocate"
    BY <1>4 DEF BeginRound, StopFlow, Settle, Pass, DeleteOwn, TakeReverse, TakeForward, Visit,
                RunForward, RunFallback, EndFlow, EndPass, Passes
  <2> QED BY <2>1, ShareFrame DEF bookVars, flowVars
<1>5. CASE UNCHANGED vars
  BY <1>5, ShareFrame DEF vars, bookVars, flowVars
<1> QED BY <1>1, <1>2, <1>3, <1>4, <1>5 DEF Next

LEMMA ShareInit == Ready => ShareInv
<1> SUFFICES ASSUME Ready PROVE ShareInv
  OBVIOUS
<1>1. phase = "allocate" /\ rows = [o \in Offers |-> NoRow] /\ TypeOK
  BY CrossingInit DEF Ready, Begins, Unallocated, CrossingInv
<1>2. ASSUME NEW o \in Offers PROVE rows[o].in <= RoundUp(rows[o].out, Rate(o))
  <2>1. RoundUp(0, Rate(o)) \in Nat
    BY <1>1, RowType, RoundUpRate
  <2>2. rows[o].in = 0 /\ rows[o].out = 0
    BY <1>1 DEF NoRow
  <2> QED BY <2>1, <2>2
<1> QED BY <1>1, <1>2 DEF ShareInv

\* Whatever is taken is paid for.
PaidInv ==
  /\ phase # "allocate" => \A o \in Offers : PaidFor(o, trace[o].out, trace[o].in)
  /\ phase \in Passes => \A o \in Offers : PaidFor(o, takes[o].out, takes[o].in)

AskInv == ShareInv /\ PaidInv

LEMMA NothingPaid == ASSUME TypeOK, NEW o \in Offers PROVE PaidFor(o, 0, 0)
<1>1. 0 * rows[o].in = 0 /\ 0 * rows[o].out = 0
  BY AskParts, SMT
<1>2. 0 * rows[o].in <= 0 * rows[o].out
  BY <1>1
<1> QED BY <1>2, PaidAtRow

LEMMA NothingTaken == ASSUME TypeOK, NEW o \in Offers PROVE PaidFor(o, NoTake.out, NoTake.in)
<1>1. NoTake.out = 0 /\ NoTake.in = 0
  BY DEF NoTake
<1> QED BY <1>1, NothingPaid

\* A whole row is offered for all it asks.
LEMMA WholeRowAsks ==
  ASSUME CrossingInv, phase # "allocate", NEW o \in Offers, tiers[o].out > 0
  PROVE  Prepared(o).out = tiers[o].out /\ Prepared(o).in = tiers[o].in
<1>1. TypeOK /\ (tiers[o].funds # Unknown => Gives(tiers[o].out) <= tiers[o].funds)
  BY DEF CrossingInv, StaysFunded
<1>2. tiers[o].out \in Nat /\ tiers[o].funds \in Nat \cup {Unknown} /\ Gives(tiers[o].out) \in Nat
  BY <1>1, RowType, GivesFacts
<1>3. ~(tiers[o].funds # Unknown /\ tiers[o].funds < Gives(tiers[o].out))
  BY <1>1, <1>2
<1> QED BY <1>3 DEF Prepared

\* Whatever a pass takes from a row is paid for.
LEMMA TakesPaid ==
  ASSUME CrossingInv, AskInv, phase # "allocate", NEW o \in Offers, tiers[o].out > 0, NEW l \in Nat
  PROVE  /\ PaidFor(o, Prepared(o).out, Prepared(o).in)
         /\ PaidFor(o, LimitedOut(o, l).out, LimitedOut(o, l).in)
         /\ PaidFor(o, LimitedIn(o, l, FALSE).out, LimitedIn(o, l, FALSE).in)
<1> DEFINE p == Prepared(o)
           r == Rate(o)
<1>1. TypeOK /\ p \in Take /\ p.out \in Nat /\ p.in \in Nat /\ r \in Rates /\ Flip(r) \in Rates
      /\ r[1] \in Nat \ {0} /\ r[2] \in Nat \ {0}
  BY PreparedType, RowType, FlipType, RateParts DEF CrossingInv, Take
<1>2. PaidFor(o, p.out, p.in)
  <2>1. p.out = tiers[o].out /\ p.in = tiers[o].in
    BY WholeRowAsks
  <2> HIDE DEF p
  <2> QED BY <1>1, <2>1, PaidAtRow DEF AskInv, ShareInv
<1> HIDE DEF p
<1>3. PaidFor(o, LimitedOut(o, l).out, LimitedOut(o, l).in)
  <2>1. CASE l >= p.out
    BY <1>2, <2>1 DEF LimitedOut, p
  <2>2. CASE ~(l >= p.out)
    <3> DEFINE in == AtMost(RoundUp(l, r), p.in)
    <3>1. LimitedOut(o, l).out = l /\ LimitedOut(o, l).in = in
      BY <2>2 DEF LimitedOut, p
    <3>2. RoundUp(l, r) \in Nat /\ l * r[1] <= RoundUp(l, r) * r[2]
      BY <1>1, RoundUpRate
    <3>3. in = RoundUp(l, r) \/ in = p.in
      BY DEF AtMost
    <3> HIDE DEF in
    <3>4. CASE in = RoundUp(l, r)
      BY <1>1, <3>1, <3>2, <3>4, PaidAtRate
    <3>5. CASE in = p.in
      <4>1. l <= p.out
        BY <1>1, <2>2
      <4> QED BY <1>1, <1>2, <3>1, <3>5, <4>1, PaidLess
    <3> QED BY <3>3, <3>4, <3>5
  <2> QED BY <2>1, <2>2
<1>4. PaidFor(o, LimitedIn(o, l, FALSE).out, LimitedIn(o, l, FALSE).in)
  <2>1. CASE LimitedIn(o, l, FALSE) = NoTake
    <3>1. PaidFor(o, NoTake.out, NoTake.in)
      BY <1>1, NothingTaken
    <3> QED BY <2>1, <3>1
  <2>2. CASE LimitedIn(o, l, FALSE) # NoTake
    <3> DEFINE raw == AtMost(RoundDown(l, Flip(InFeeOf(o))), p.in)
               all == RoundDown(raw, Flip(r))
               out == AtMost(all, p.out)
    <3>1. LimitedIn(o, l, FALSE).out = out /\ LimitedIn(o, l, FALSE).in = raw
      BY <2>2 DEF LimitedIn, p
    <3>2. raw \in Nat
      BY <1>1, FeesType, FlipType, RoundDownType, AtMostBounds
    <3> HIDE DEF raw
    <3>3. all \in Nat /\ all * Flip(r)[2] <= raw * Flip(r)[1]
      BY <1>1, <3>2, RoundDownRate
    <3>4. all * r[1] <= raw * r[2]
      BY <3>3 DEF Flip
    <3> HIDE DEF all
    <3>5. out \in Nat /\ out <= all
      BY <1>1, <3>3, AtMostBounds
    <3> HIDE DEF out
    <3> QED BY <1>1, <3>1, <3>2, <3>3, <3>4, <3>5, PaidAtRate, PaidLess
  <2> QED BY <2>1, <2>2
<1> QED BY <1>2, <1>3, <1>4 DEF p

\* A pass goes on to the next row, or takes from it what is paid for.
LEMMA AskRow ==
  ASSUME CrossingInv, AskInv, phase \in Passes, UNCHANGED <<bookVars, intent, phase, flowVars>>,
         NEW o \in Offers, NEW take \in Take, takes' = [takes EXCEPT ![o] = take], PaidFor(o, take.out, take.in)
  PROVE  PaidInv'
<1>1. UNCHANGED <<book, rows, tiers, trace, phase>> /\ takes \in [Offers -> Take] /\ phase # "allocate"
  BY DEF bookVars, flowVars, CrossingInv, TypeOK, Passes
<1>2. \A x \in Offers : Rate(x)' = Rate(x)
  BY <1>1 DEF Rate
<1>3. \A x \in Offers : \A i, j : PaidFor(x, i, j)' <=> PaidFor(x, i', j')
  BY <1>1, <1>2 DEF PaidFor
<1>4. \A x \in Offers : PaidFor(x, takes'[x].out, takes'[x].in)
  BY <1>1 DEF AskInv, PaidInv
<1>5. /\ \A x \in Offers : PaidFor(x, trace[x].out, trace[x].in)' <=> PaidFor(x, trace[x].out, trace[x].in)
      /\ \A x \in Offers : PaidFor(x, takes[x].out, takes[x].in)'
  BY <1>1, <1>3, <1>4
<1> QED BY <1>1, <1>5 DEF AskInv, PaidInv

\* Steps that take nothing from the rows.
LEMMA AskFrame ==
  ASSUME AskInv, phase # "allocate", UNCHANGED <<bookVars, flowVars>>,
         phase' \in Passes => \/ takes' = NoTakes /\ TypeOK
                              \/ takes' = takes /\ phase \in Passes
  PROVE  PaidInv'
<1>1. UNCHANGED <<book, rows, tiers, trace>>
  BY DEF bookVars, flowVars
<1>2. \A x \in Offers : Rate(x)' = Rate(x)
  BY <1>1 DEF Rate
<1>3. \A x \in Offers : \A i, j : PaidFor(x, i, j)' <=> PaidFor(x, i', j')
  BY <1>1, <1>2 DEF PaidFor
<1>4. \A x \in Offers : PaidFor(x, trace[x].out, trace[x].in)' <=> PaidFor(x, trace[x].out, trace[x].in)
  BY <1>1, <1>3
<1>5. phase' \in Passes => \A x \in Offers : PaidFor(x, takes[x].out, takes[x].in)'
  <2>1. CASE takes' = NoTakes /\ TypeOK
    <3>1. \A x \in Offers : takes'[x] = NoTake
      BY <2>1 DEF NoTakes
    <3> QED BY <1>3, <2>1, <3>1, NothingTaken
  <2>2. CASE takes' = takes /\ phase \in Passes
    BY <1>3, <2>2 DEF AskInv, PaidInv
  <2> QED BY <2>1, <2>2
<1> QED BY <1>1, <1>4, <1>5 DEF AskInv, PaidInv, Passes

LEMMA AskVisit ==
  ASSUME CrossingInv, AskInv, FixReduced = TRUE, DeleteOwn \/ TakeReverse \/ TakeForward PROVE PaidInv'
<1>1. PICK o : o = Best(ahead)
  OBVIOUS
<1>2. /\ Visit /\ UNCHANGED <<bookVars, intent, phase, flowVars>>
  BY DEF DeleteOwn, TakeReverse, TakeForward
<1>3. /\ phase \in Passes /\ phase # "allocate" /\ TypeOK /\ o \in Offers /\ Left \in Nat /\ tiers[o].out > 0
      /\ takes \in [Offers -> Take] /\ takes[o] = NoTake
  BY <1>1, <1>2, Visited DEF Passes, TypeOK
<1>4. CASE UNCHANGED takes
  <2>1. takes' = [takes EXCEPT ![o] = NoTake] /\ NoTake \in Take
    BY <1>3, <1>4 DEF NoTake, Take
  <2> QED BY <1>2, <1>3, <2>1, NothingTaken, AskRow
<1>5. CASE TakeReverse
  <2>1. takes' = [takes EXCEPT ![o] = LimitedOut(o, Left)]
    BY <1>1, <1>5 DEF TakeReverse
  <2>2. LimitedOut(o, Left) \in Take
    BY <1>3, LimitedOutType
  <2>3. PaidFor(o, LimitedOut(o, Left).out, LimitedOut(o, Left).in)
    BY <1>3, TakesPaid
  <2> QED BY <1>2, <1>3, <2>1, <2>2, <2>3, AskRow
<1>6. CASE TakeForward
  <2> DEFINE wanted == want - filled.out
             take == IF Left < Prepared(o).gross THEN LimitedIn(o, Left, RoundsUp) ELSE Prepared(o)
  <2>1. RoundsUp = FALSE
    BY DEF RoundsUp
  <2>2. LimitedIn(o, Left, RoundsUp) = LimitedIn(o, Left, FALSE)
    BY <2>1
  <2>3. take \in {LimitedIn(o, Left, FALSE), Prepared(o)}
    BY <2>2
  <2>4. \/ UNCHANGED takes
        \/ 0 < wanted /\ takes' = [takes EXCEPT ![o] = LimitedOut(o, wanted)]
        \/ takes' = [takes EXCEPT ![o] = take]
    BY <1>1, <1>6 DEF TakeForward
  <2>5. want \in Nat /\ filled.out \in Nat
    BY <1>3 DEF TypeOK, Amount
  <2>6. LimitedIn(o, Left, FALSE) \in Take /\ Prepared(o) \in Take
    BY <1>3, LimitedInType, PreparedType
  <2>7. CASE 0 < wanted /\ takes' = [takes EXCEPT ![o] = LimitedOut(o, wanted)]
    <3>1. wanted \in Nat
      BY <2>5, <2>7
    <3> HIDE DEF wanted
    <3>2. LimitedOut(o, wanted) \in Take /\ PaidFor(o, LimitedOut(o, wanted).out, LimitedOut(o, wanted).in)
      BY <1>3, <3>1, LimitedOutType, TakesPaid
    <3> QED BY <1>2, <1>3, <2>7, <3>2, AskRow
  <2>8. CASE takes' = [takes EXCEPT ![o] = take]
    <3>1. take \in Take /\ PaidFor(o, take.out, take.in)
      <4> HIDE DEF take
      <4>1. CASE take = LimitedIn(o, Left, FALSE)
        <5>1. PaidFor(o, LimitedIn(o, Left, FALSE).out, LimitedIn(o, Left, FALSE).in)
          BY <1>3, TakesPaid
        <5> QED BY <2>6, <4>1, <5>1
      <4>2. CASE take = Prepared(o)
        <5>1. PaidFor(o, Prepared(o).out, Prepared(o).in)
          BY <1>3, TakesPaid
        <5> QED BY <2>6, <4>2, <5>1
      <4> QED BY <2>3, <4>1, <4>2
    <3> HIDE DEF take
    <3> QED BY <1>2, <1>3, <2>8, <3>1, AskRow
  <2> HIDE DEF take, wanted
  <2> QED BY <1>4, <2>4, <2>7, <2>8
<1>7. CASE DeleteOwn
  BY <1>4, <1>7 DEF DeleteOwn
<1> QED BY <1>5, <1>6, <1>7

LEMMA AskCommit == ASSUME CrossingInv, VisitInv, AskInv, CommitRound PROVE PaidInv'
<1>1. /\ phase \in Passes /\ phase # "allocate" /\ phase' = "round" /\ TypeOK
      /\ UNCHANGED <<book, rows>> /\ tiers' = [x \in Offers |-> Replaced(x)]
      /\ trace' = [x \in Offers |-> RoundTakes(x)]
      /\ takes \in [Offers -> Take] /\ trace \in [Offers -> Take]
  BY DEF CommitRound, Commit, EndPass, Passes, CrossingInv, bookVars, TypeOK
<1>2. \A x \in Offers : Rate(x)' = Rate(x)
  BY <1>1 DEF Rate
<1>3. \A x \in Offers : \A i, j : PaidFor(x, i, j)' <=> PaidFor(x, i', j')
  BY <1>1, <1>2 DEF PaidFor
<1>5. ASSUME NEW o \in Offers PROVE PaidFor(o, trace'[o].out, trace'[o].in)
  <2>1. trace'[o].out = trace[o].out + takes[o].out /\ trace'[o].in = trace[o].in + takes[o].in
    BY <1>1 DEF RoundTakes
  <2>2. /\ trace[o].out \in Nat /\ trace[o].in \in Nat /\ takes[o].out \in Nat /\ takes[o].in \in Nat
    BY <1>1, TakeParts
  <2>3. PaidFor(o, trace[o].out, trace[o].in) /\ PaidFor(o, takes[o].out, takes[o].in)
    BY <1>1 DEF AskInv, PaidInv
  <2> QED BY <1>1, <2>1, <2>2, <2>3, PaidTogether
<1>7. \A x \in Offers : PaidFor(x, trace[x].out, trace[x].in)'
  BY <1>3, <1>5
<1> QED BY <1>1, <1>7 DEF PaidInv, Passes
\* The flow begins with nothing taken.
LEMMA AskBegin == ASSUME CrossingInv, AskInv, BeginFlow PROVE PaidInv'
<1>1. /\ phase' = "round" /\ TypeOK /\ UNCHANGED <<book, rows>> /\ tiers' = rows
      /\ trace' = NoTakes
  BY DEF BeginFlow, CrossingInv, TraceInv, bookVars
<1>2. \A x \in Offers : Rate(x)' = Rate(x)
  BY <1>1 DEF Rate
<1>3. \A x \in Offers : \A i, j : PaidFor(x, i, j)' <=> PaidFor(x, i', j')
  BY <1>1, <1>2 DEF PaidFor
<1>5. ASSUME NEW x \in Offers PROVE PaidFor(x, trace'[x].out, trace'[x].in)
  <2>1. trace'[x] = NoTake
    BY <1>1 DEF NoTakes
  <2> QED BY <1>1, <2>1, NothingTaken
<1>6. \A x \in Offers : PaidFor(x, trace[x].out, trace[x].in)'
  BY <1>3, <1>5
<1> QED BY <1>1, <1>6 DEF PaidInv, Passes

LEMMA AskStep ==
  ASSUME FixReduced = TRUE, AskedAtQuality
  PROVE  Given /\ CrossingInv /\ VisitInv /\ AskInv /\ [Next]_vars => AskInv'
<1> SUFFICES ASSUME Given, CrossingInv, VisitInv, AskInv, [Next]_vars PROVE PaidInv'
  BY ShareStep DEF AskInv
<1>1. CASE Allocate
  BY <1>1 DEF Allocate, PaidInv, Passes
<1>2. CASE BeginFlow
  BY <1>2, AskBegin
<1>3. CASE BeginRound \/ RunForward \/ RunFallback
  <2>1. /\ phase # "allocate" /\ UNCHANGED <<bookVars, flowVars>> /\ takes' = NoTakes /\ TypeOK
    BY <1>3 DEF BeginRound, RunForward, RunFallback, EndPass, StartPass, Passes, CrossingInv
  <2> QED BY <2>1, AskFrame
<1>4. CASE StopFlow \/ EndFlow \/ Settle
  <2>1. /\ phase # "allocate" /\ UNCHANGED <<bookVars, flowVars>> /\ phase' \notin Passes
    BY <1>4 DEF StopFlow, EndFlow, Settle, EndPass, Passes
  <2> QED BY <2>1, AskFrame
<1>5. CASE DeleteOwn \/ TakeReverse \/ TakeForward
  BY <1>5, AskVisit
<1>6. CASE CommitRound
  BY <1>6, AskCommit
<1>7. CASE UNCHANGED vars
  <2>1. UNCHANGED <<bookVars, flowVars>> /\ UNCHANGED <<phase, takes>>
    BY <1>7 DEF vars, passVars
  <2>2. CASE phase = "allocate"
    BY <2>1, <2>2 DEF PaidInv, Passes
  <2>3. CASE phase # "allocate"
    BY <2>1, <2>3, AskFrame
  <2> QED BY <2>2, <2>3
<1> QED BY <1>1, <1>2, <1>3, <1>4, <1>5, <1>6, <1>7 DEF Next, Pass

LEMMA AskInit == Ready => AskInv
BY ShareInit DEF Ready, Begins, AskInv, PaidInv, Passes

\* What a row was paid and what is left of it ask together no less than the row.
LEMMA AskSums ==
  ASSUME CrossingInv, AskInv, NEW o \in Offers \ removed, trace[o].out > 0
  PROVE  rows[o].in <= trace[o].in + tiers[o].in
<1> DEFINE m == rows[o].in
           n == rows[o].out
           a == Rate(o)[1]
           b == Rate(o)[2]
           to == trace[o].out
           ti == trace[o].in
           lo == tiers[o].out
           li == tiers[o].in
<1>1. phase # "allocate"
  BY DEF CrossingInv, TraceInv, NoTakes, NoTake
<1>2. /\ m \in Nat /\ n \in Nat /\ a \in Nat \ {0} /\ b \in Nat \ {0} /\ TypeOK
      /\ to \in Nat /\ ti \in Nat /\ lo \in Nat /\ li \in Nat /\ Rate(o) \in Rates
  BY AskParts, RowType, TakeParts DEF CrossingInv, TypeOK
<1>3. lo + to = n /\ to > 0
  BY <1>1 DEF CrossingInv, TraceInv
<1>4. lo * m <= li * n
  BY <1>1 DEF AskInv, ShareInv
<1>5. IF m * b <= n * a THEN to * m <= ti * n ELSE to * a <= ti * b
  BY <1>1 DEF AskInv, PaidInv, PaidFor
<1>6. m <= RoundUp(n, Rate(o))
  BY DEF AskInv, ShareInv
<1>7. \A q \in Nat : n * a <= q * b => RoundUp(n, Rate(o)) <= q
  BY <1>2, RoundUpRate
<1>8. RoundUp(n, Rate(o)) \in Nat
  BY <1>2, RoundUpRate
<1> HIDE DEF m, n, a, b, to, ti, lo, li
<1>9. SUFFICES m <= ti + li
  BY DEF m, ti, li
<1>10. n \in Nat \ {0}
  BY <1>2, <1>3
<1>11. /\ (lo + to) * m = lo * m + to * m /\ (ti + li) * n = ti * n + li * n
       /\ (lo + to) * a = lo * a + to * a /\ (ti + li) * b = ti * b + li * b
       /\ n * m = m * n
  BY <1>2, SMT
<1>12. /\ lo * m \in Nat /\ to * m \in Nat /\ ti * n \in Nat /\ li * n \in Nat
       /\ lo * a \in Nat /\ to * a \in Nat /\ ti * b \in Nat /\ li * b \in Nat
       /\ m * b \in Nat /\ n * a \in Nat /\ m * n \in Nat
  BY <1>2, ProductType
<1>13. CASE m * b <= n * a
  <2>1. n * m <= (ti + li) * n
    BY <1>3, <1>4, <1>5, <1>11, <1>12, <1>13
  <2>2. m * n <= (ti + li) * n /\ ti + li \in Nat
    BY <1>2, <1>11, <2>1
  <2> QED BY <1>2, <1>10, <2>2, Cancel
<1>14. CASE ~(m * b <= n * a)
  <2>1. m # 0
    <3> SUFFICES ASSUME m = 0 PROVE FALSE
      OBVIOUS
    <3>1. m * b = 0
      BY <1>2, SMT
    <3> QED BY <1>12, <1>14, <3>1
  <2>2. li * n = n * li /\ m * b = b * m /\ li * b = b * li
    BY <1>2, SMT
  <2>3. lo * m <= n * li /\ n * a <= b * m
    BY <1>4, <1>12, <1>14, <2>2
  <2>4. lo * a <= b * li
    BY <1>2, <2>1, <2>3, RatioTransitive
  <2>5. n * a <= (ti + li) * b
    BY <1>3, <1>5, <1>11, <1>12, <1>14, <2>2, <2>4
  <2>6. RoundUp(n, Rate(o)) <= ti + li /\ ti + li \in Nat
    BY <1>2, <1>7, <2>5
  <2> QED BY <1>2, <1>6, <1>8, <2>6
<1> QED BY <1>13, <1>14

\* An owner is not short-changed by rounding, in parts of whatever size an offer
\* is taken and in whichever direction the parts are found: it gets what its row
\* asked, or keeps asking for the rest.  Offers are taken to ask what their
\* quality asks, and fixReducedOffersV2 to be enabled; without it the step may
\* round the output of a part up.
THEOREM OwnersGetTheirAsk ==
  ASSUME FixReduced = TRUE, AskedAtQuality PROVE Spec => []AskKept
<1>1. Init => Given /\ VisitInv /\ AskInv
  BY InitReady, GivenInit, VisitInit, AskInit
<1>2. Given /\ CrossingInv /\ VisitInv /\ AskInv /\ [Next]_vars => Given' /\ VisitInv' /\ AskInv'
  BY GivenStep, VisitStep, AskStep
<1>3. CrossingInv /\ AskInv => AskKept
  BY AskSums DEF AskKept
<1> QED BY <1>1, <1>2, <1>3, CrossingInvariant, PTL DEF Spec

-----------------------------------------------------------------------------
(* What a complete sell leaves *)

\* A fee is not negative.
LEMMA FeeCosts ==
  ASSUME NEW x \in Nat, NEW r \in Rates, r[1] >= r[2] PROVE x <= RoundUp(x, r)
<1> DEFINE u == RoundUp(x, r)
           n == r[1]
           d == r[2]
<1>1. u \in Nat /\ x * n <= u * d /\ n \in Nat \ {0} /\ d \in Nat \ {0} /\ d <= n
  BY RoundUpRate, RateParts
<1> HIDE DEF u, n, d
<1>2. x * d <= x * n
  BY <1>1, SMT
<1>3. x * d \in Nat /\ x * n \in Nat /\ u * d \in Nat
  BY <1>1, ProductType
<1>4. x * d <= u * d
  BY <1>1, <1>2, <1>3
<1>5. x <= u
  BY <1>1, <1>4, Cancel
<1> QED BY <1>5 DEF u

\* The first quantum of a row costs no less than the price of the row as it was.
LEMMA FirstQuantumPrice ==
  ASSUME CrossingInv, ShareInv, phase # "allocate", NEW o \in Offers, Executable(o)
  PROVE  /\ rows[o].out \in Nat \ {0}
         /\ RoundUp(1, <<rows[o].in, rows[o].out>>) \in Nat
         /\ RoundUp(1, <<rows[o].in, rows[o].out>>) <= LimitedOut(o, 1).gross
         /\ LimitedOut(o, 1).gross \in Nat
<1> DEFINE m == rows[o].in
           n == rows[o].out
           p == Prepared(o)
           r == Rate(o)
           price == RoundUp(1, <<m, n>>)
           in == LimitedOut(o, 1).in
           t == tiers[o]
<1>1. TypeOK /\ m \in Nat /\ n \in Nat /\ t.out \in Nat \ {0} /\ t.in \in Nat \ {0} /\ r \in Rates
  BY AskParts, RowType DEF CrossingInv, Executable
<1>2. p.out = t.out /\ p.in = t.in
  BY <1>1, WholeRowAsks
<1>3. n \in Nat \ {0}
  <2>1. t.out + trace[o].out <= n /\ trace[o].out \in Nat
    BY <1>1, TakeParts DEF CrossingInv, TraceInv, TypeOK
  <2> HIDE DEF n, t
  <2> QED BY <1>1, <2>1
<1>4. price \in Nat /\ \A q \in Nat : 1 * m <= q * n => price <= q
  <2> HIDE DEF m, n
  <2> QED BY <1>1, <1>3, RoundUpIsLeast
<1>5. m <= RoundUp(n, r) /\ t.out * m <= t.in * n
  BY DEF ShareInv
<1>6. LimitedOut(o, 1) \in Take /\ in \in Nat /\ LimitedOut(o, 1).gross \in Nat
  BY <1>1, LimitedOutType DEF Take
<1>7. LimitedOut(o, 1).gross = RoundUp(in, InFeeOf(o))
  BY DEF LimitedOut, Prepared
<1>8. in = t.in \/ in = RoundUp(1, r)
  <2>1. CASE 1 >= p.out
    BY <1>2, <2>1 DEF LimitedOut
  <2>2. CASE ~(1 >= p.out)
    <3>1. in = AtMost(RoundUp(1, r), p.in)
      BY <2>2 DEF LimitedOut
    <3> QED BY <1>2, <3>1 DEF AtMost
  <2> QED BY <2>1, <2>2
<1>9. price <= in
  <2>1. CASE in = t.in
    <3> HIDE DEF m, n, t, price, in
    <3>1. m <= t.out * m
      BY <1>1, SMT
    <3>2. t.out * m \in Nat /\ t.in * n \in Nat
      BY <1>1, <1>3, ProductType
    <3>3. 1 * m <= t.in * n
      BY <1>1, <1>5, <3>1, <3>2
    <3> QED BY <1>1, <1>4, <2>1, <3>3
  <2>2. CASE in = RoundUp(1, r)
    <3> DEFINE c == RoundUp(1, r)
               a == r[1]
               b == r[2]
    <3>1. c \in Nat /\ 1 * a <= c * b /\ a \in Nat /\ b \in Nat \ {0}
      BY <1>1, RoundUpRate, RateParts
    <3>2. \A q \in Nat : n * a <= q * b => RoundUp(n, r) <= q
      BY <1>1, <1>3, RoundUpRate
    <3>3. RoundUp(n, r) \in Nat
      BY <1>1, <1>3, RoundUpRate
    <3> HIDE DEF m, n, a, b, c, price, in
    <3>4. n * a <= (n * c) * b /\ n * c \in Nat
      <4> DEFINE e == c * b
      <4>1. e \in Nat /\ a <= e
        BY <3>1, ProductType
      <4>2. n * e = (n * c) * b
        BY <1>3, <3>1, SMT
      <4> HIDE DEF e
      <4>3. n * a <= n * e
        BY <1>3, <3>1, <4>1, SMT
      <4> QED BY <1>3, <3>1, <4>2, <4>3, ProductType
    <3>5. RoundUp(n, r) <= n * c
      BY <3>2, <3>4
    <3>6. n * c = c * n /\ 1 * m = m
      BY <1>1, <1>3, <3>1, SMT
    <3>7. 1 * m <= c * n
      BY <1>1, <1>5, <3>3, <3>4, <3>5, <3>6
    <3>8. price <= c
      BY <1>4, <3>1, <3>7
    <3> QED BY <2>2, <3>8 DEF c
  <2> QED BY <1>8, <2>1, <2>2
<1>10. in <= LimitedOut(o, 1).gross
  <2>1. InFeeOf(o) \in Rates /\ InFeeOf(o)[1] >= InFeeOf(o)[2]
    BY <1>1, FeesType, CrossingAssumption DEF InFeeOf, Parity
  <2> HIDE DEF in
  <2> QED BY <1>6, <1>7, <2>1, FeeCosts
<1> HIDE DEF in, price
<1>11. price <= LimitedOut(o, 1).gross
  BY <1>4, <1>6, <1>9, <1>10
<1> QED BY <1>3, <1>4, <1>6, <1>11 DEF price, m, n

\* What the pool took in is part of what it holds.
PoolGrown == pool # Unknown => poolTrace.in < pool.x

\* A verdict ends the flow.
VerdictLast == outcome # "none" => phase = "done"

LEMMA GrownStep ==
  CrossingInv /\ PoolGrown /\ VerdictLast /\ [Next]_vars => PoolGrown' /\ VerdictLast'
<1> SUFFICES ASSUME CrossingInv, PoolGrown, VerdictLast, [Next]_vars PROVE PoolGrown' /\ VerdictLast'
  OBVIOUS
<1>1. CASE UNCHANGED vars
  BY <1>1 DEF vars, flowVars, PoolGrown, VerdictLast
<1>2. CASE CommitRound
  <2>1. /\ phase \in Passes /\ UNCHANGED outcome
        /\ poolTrace' = [k \in DOMAIN poolTrace |-> poolTrace[k] + poolTake[k]]
        /\ IF poolTake # NoPoolTake THEN pool' = Filled(pool, poolTake.in, poolTake.out) ELSE UNCHANGED pool
    BY <1>2 DEF CommitRound, Commit, EndPass
  <2>2. VerdictLast'
    BY <2>1 DEF VerdictLast, Passes
  <2>3. poolTrace \in PoolTake /\ poolTake \in PoolTake
    BY DEF CrossingInv, TypeOK
  <2>4. poolTrace'.in = poolTrace.in + poolTake.in /\ poolTrace.in \in Nat /\ poolTake.in \in Nat
    BY <2>1, <2>3 DEF PoolTake
  <2>5. CASE poolTake # NoPoolTake
    <3>1. pool # Unknown /\ pool' = Filled(pool, poolTake.in, poolTake.out)
      BY <2>1, <2>5 DEF CrossingInv, PassInv, PoolActive
    <3>2. pool.x \in Nat /\ pool'.x = pool.x + poolTake.in /\ poolTrace.in < pool.x
      BY <3>1, PoolType, PoolParts DEF Filled, CrossingInv, PoolGrown
    <3>3. poolTrace'.in < pool'.x
      BY <2>4, <3>2
    <3> QED BY <2>2, <3>3 DEF PoolGrown
  <2>6. CASE poolTake = NoPoolTake
    <3>1. poolTake.in = 0 /\ UNCHANGED pool
      BY <2>1, <2>6 DEF NoPoolTake
    <3>2. poolTrace'.in = poolTrace.in
      BY <2>4, <3>1
    <3> QED BY <2>2, <3>1, <3>2 DEF PoolGrown
  <2> QED BY <2>5, <2>6
<1>3. CASE Allocate \/ BeginFlow \/ BeginRound \/ StopFlow \/ Settle \/ (Pass /\ ~CommitRound)
  <2>1. UNCHANGED pool /\ UNCHANGED poolTrace
    BY <1>3 DEF Allocate, BeginFlow, BeginRound, StopFlow, Settle, Pass, DeleteOwn, TakeReverse, TakeForward,
                RunForward, RunFallback, EndFlow, flowVars
  <2>2. phase' = "done" \/ (UNCHANGED outcome /\ phase # "done")
    BY <1>3 DEF Allocate, BeginFlow, BeginRound, StopFlow, Settle, Pass, DeleteOwn, TakeReverse, TakeForward,
                Visit, RunForward, RunFallback, EndFlow, EndPass, Passes
  <2>3. VerdictLast'
    BY <2>2 DEF VerdictLast
  <2> QED BY <2>1, <2>3 DEF PoolGrown
<1> QED BY <1>1, <1>2, <1>3 DEF Next, Pass

\* A quantum of a pool that was drawn on costs no less than before.
LEMMA QuantumDearer ==
  ASSUME NEW p \in Pool, NEW before \in Pool, before.x <= p.x, p.y <= before.y, p.y # 1
  PROVE  /\ SwapIn(before, 1) \in Nat \ {0} /\ SwapIn(p, 1) \in Nat
         /\ SwapIn(before, 1) <= SwapIn(p, 1)
<1> DEFINE u == SwapIn(before, 1)
           v == SwapIn(p, 1)
           bx == before.x
           by == before.y - 1
           x == p.x
           y == p.y - 1
<1>1. /\ bx \in Nat \ {0} /\ x \in Nat \ {0} /\ by \in Nat \ {0} /\ y \in Nat \ {0}
      /\ bx <= x /\ y <= by /\ 1 \in 1 .. before.y - 1 /\ 1 \in 1 .. p.y - 1
  BY PoolParts
<1>2. by * Keep[1] \in Nat \ {0} /\ y * Keep[1] \in Nat \ {0} /\ y * Keep[1] <= by * Keep[1]
  <2> HIDE DEF by, y
  <2> QED BY <1>1, KeepParts, SMT
<1>3. bx * 1 = bx /\ x * 1 = x
  BY <1>1, SMT
<1> DEFINE w == y * Keep[1]
           bw == by * Keep[1]
<1>4. u = RoundUp(bx, <<Keep[2], bw>>) /\ v = RoundUp(x, <<Keep[2], w>>)
  BY <1>1, <1>3 DEF SwapIn
<1>5. u \in Nat /\ bx * Keep[2] <= u * bw /\ \A q \in Nat : bx * Keep[2] <= q * bw => u <= q
  <2> HIDE DEF bx, bw, u
  <2> QED BY <1>1, <1>2, <1>4, KeepParts, RoundUpIsLeast DEF bw
<1>6. v \in Nat /\ x * Keep[2] <= v * w
  <2> HIDE DEF x, w, v
  <2> QED BY <1>1, <1>2, <1>4, KeepParts, RoundUpIsLeast DEF w
<1>7. w \in Nat \ {0} /\ bw \in Nat \ {0} /\ w <= bw
  BY <1>2
<1> HIDE DEF bx, by, x, y, u, v, w, bw
<1>8. bx * Keep[2] <= x * Keep[2] /\ v * w <= v * bw /\ bx * Keep[2] > 0
  BY <1>1, <1>6, <1>7, KeepParts, SMT
<1>9. bx * Keep[2] \in Nat /\ x * Keep[2] \in Nat /\ v * w \in Nat /\ v * bw \in Nat /\ u * bw \in Nat
  BY <1>1, <1>5, <1>6, <1>7, KeepParts, ProductType
<1>10. u <= v
  <2>1. bx * Keep[2] <= v * bw
    BY <1>6, <1>8, <1>9
  <2> QED BY <1>5, <1>6, <2>1
<1>11. u # 0
  <2> SUFFICES ASSUME u = 0 PROVE FALSE
    OBVIOUS
  <2>1. u * bw = 0
    BY <1>7, SMT
  <2> QED BY <1>5, <1>8, <1>9, <2>1
<1> QED BY <1>5, <1>6, <1>10, <1>11 DEF u, v

\* A sell that is complete can buy no more.
LEMMA SoldNow ==
  ASSUME CrossingInv, ShareInv, PoolGrown, phase # "allocate", intent.kind = "sell", SpentUp
  PROVE  \/ total.in + 1 >= Budget
         \/ /\ \A o \in Candidates : TooDear(Rate(o)) \/ OwnCross(o)
                                       \/ total.in + LimitedOut(o, 1).gross > Budget
            /\ \/ pool = Unknown \/ pool.y = 1 \/ TooDear(<<SwapIn(pool, 1), 1>>)
               \/ total.in + RoundUp(SwapIn(pool, 1), InFee) > Budget
<1>1. TypeOK /\ total.in \in Nat /\ Budget \in Nat /\ total.in <= Budget
  BY BudgetType DEF CrossingInv, BudgetInv, TypeOK, Amount
<1>2. CASE Reached(total.in, Budget)
  BY <1>2 DEF Reached
<1>3. CASE \A q \in Prices : Budget - total.in < q
  <2>1. ASSUME NEW o \in Candidates, ~TooDear(Rate(o))
        PROVE  total.in + LimitedOut(o, 1).gross > Budget
    <3> DEFINE price == RoundUp(1, <<rows[o].in, rows[o].out>>)
               g == LimitedOut(o, 1).gross
    <3>1. o \in Offers /\ Executable(o)
      BY DEF Candidates
    <3>2. rows[o].out > 0 /\ price \in Nat /\ price <= g /\ g \in Nat
      BY <3>1, FirstQuantumPrice
    <3>3. price \in Prices
      <4>1. rows[o] \in {y \in {rows[o], residual[o]} : y.out > 0} /\ o \in {q \in Offers : ~TooDear(Rate(q))}
        BY <2>1, <3>1, <3>2
      <4>2. price \in {RoundUp(1, <<x.in, x.out>>) : x \in {y \in {rows[o], residual[o]} : y.out > 0}}
        BY <4>1
      <4> HIDE DEF price
      <4> QED BY <4>1, <4>2 DEF Prices
    <3> HIDE DEF price, g
    <3>4. Budget - total.in < price
      BY <1>3, <3>3
    <3>5. total.in + g > Budget
      BY <1>1, <3>2, <3>4
    <3> QED BY <3>5 DEF g
  <2>2. ASSUME pool # Unknown, pool.y # 1, ~TooDear(<<SwapIn(pool, 1), 1>>)
        PROVE  total.in + RoundUp(SwapIn(pool, 1), InFee) > Budget
    <3> DEFINE before == [x |-> pool.x - poolTrace.in, y |-> pool.y + poolTrace.out]
               u == SwapIn(before, 1)
               v == SwapIn(pool, 1)
    <3>1. /\ pool \in Pool /\ pool.x \in Nat \ {0} /\ pool.y \in Nat \ {0} /\ poolTrace.in < pool.x
          /\ poolTrace.in \in Nat /\ poolTrace.out \in Nat
      BY <1>1, <2>2, PoolType, PoolParts DEF PoolGrown, TypeOK, PoolTake
    <3>2. before \in Pool /\ before.x <= pool.x /\ pool.y <= before.y
      BY <3>1 DEF Pool
    <3>3. u \in Nat \ {0} /\ v \in Nat /\ u <= v
      <4> HIDE DEF before
      <4> QED BY <2>2, <3>1, <3>2, QuantumDearer
    <3>4. InFee \in Rates /\ InFee[1] >= InFee[2]
      BY CrossingAssumption
    <3>5. RoundUp(v, InFee) \in Nat /\ v <= RoundUp(v, InFee)
      <4> HIDE DEF v
      <4> QED BY <3>3, <3>4, FeeCosts, RoundUpRate
    <3>6. ~TooDear(<<u, 1>>)
      <4>1. OfferCrossing /\ LimitRate \in Rates
        BY <1>1, BudgetType DEF OfferCrossing
      <4>2. LimitRate[1] \in Nat /\ LimitRate[2] \in Nat
        BY <4>1, RateParts
      <4>3. ~TooDear(<<v, 1>>)
        BY <2>2
      <4> DEFINE l == LimitRate[1]
                 m == LimitRate[2]
      <4> HIDE DEF u, v
      <4>4. u * m <= v * m /\ u * m \in Nat /\ v * m \in Nat /\ l * 1 = l /\ l \in Nat
        BY <3>3, <4>2, SMT
      <4>5. \A w : /\ Cheaper(<<w, 1>>, LimitRate) <=> w * m < l * 1
                   /\ Cheaper(LimitRate, <<w, 1>>) <=> l * 1 < w * m
        BY DEF Cheaper
      <4> HIDE DEF l, m
      <4>6. /\ Cheaper(<<v, 1>>, LimitRate) => Cheaper(<<u, 1>>, LimitRate)
            /\ Cheaper(LimitRate, <<u, 1>>) => Cheaper(LimitRate, <<v, 1>>)
        BY <4>4, <4>5
      <4> QED BY <4>3, <4>6 DEF TooDear
    <3>7. u \in Prices
      <4> DEFINE A == UNION {{RoundUp(1, <<x.in, x.out>>) : x \in {y \in {rows[o], residual[o]} : y.out > 0}} :
                               o \in {p \in Offers : ~TooDear(Rate(p))}}
      <4>1. Prices = A \cup (IF pool # Unknown /\ u > 0 /\ ~TooDear(<<u, 1>>) THEN {u} ELSE {})
        BY DEF Prices
      <4> HIDE DEF u, A
      <4> QED BY <2>2, <3>3, <3>6, <4>1
    <3> HIDE DEF u, v
    <3>8. Budget - total.in < u
      BY <1>3, <3>7
    <3>9. total.in + RoundUp(v, InFee) > Budget
      BY <1>1, <3>3, <3>5, <3>8
    <3> QED BY <3>9 DEF v
  <2> QED BY <2>1, <2>2
<1> QED BY <1>2, <1>3 DEF SpentUp

\* What is sold out stays so: nothing happens after the verdict.
LEMMA SoldStep ==
  CrossingInv /\ ShareInv /\ PoolGrown /\ VerdictLast /\ SoldOut /\ [Next]_vars => SoldOut'
<1> SUFFICES ASSUME CrossingInv, ShareInv, PoolGrown, VerdictLast, SoldOut, [Next]_vars PROVE SoldOut'
  OBVIOUS
<1> DEFINE Sold == \/ total.in + 1 >= Budget
                   \/ /\ \A o \in Candidates : TooDear(Rate(o)) \/ OwnCross(o)
                                                 \/ total.in + LimitedOut(o, 1).gross > Budget
                      /\ \/ pool = Unknown \/ pool.y = 1 \/ TooDear(<<SwapIn(pool, 1), 1>>)
                         \/ total.in + RoundUp(SwapIn(pool, 1), InFee) > Budget
<1>1. SoldOut <=> (outcome = "filled" /\ intent.kind = "sell" => Sold)
  BY DEF SoldOut
<1>2. ASSUME UNCHANGED <<bookVars, intent, flowVars>> PROVE Sold' <=> Sold
  <2>1. UNCHANGED <<book, ownerPays, intent, tiers>> /\ UNCHANGED <<total, pool>>
    BY <1>2 DEF bookVars, flowVars
  <2>2. /\ Candidates' = Candidates /\ Budget' = Budget
        /\ \A o \in Offers : (OwnCross(o)' <=> OwnCross(o)) /\ Rate(o)' = Rate(o)
        /\ \A o \in Offers : LimitedOut(o, 1)' = LimitedOut(o, 1)
    BY <2>1, PricesStable, OrderStable
  <2>3. /\ \A r : TooDear(r)' <=> TooDear(r')
        /\ SwapIn(pool, 1)' = SwapIn(pool, 1)
    BY <2>1, RowsStable DEF SwapIn
  <2>4. /\ \A o \in Offers : TooDear(Rate(o))' <=> TooDear(Rate(o))
        /\ TooDear(<<SwapIn(pool, 1), 1>>)' <=> TooDear(<<SwapIn(pool, 1), 1>>)
        /\ RoundUp(SwapIn(pool, 1), InFee)' = RoundUp(SwapIn(pool, 1), InFee)
    BY <2>2, <2>3 DEF RoundUp
  <2>5. Candidates \subseteq Offers
    BY DEF Candidates
  <2> QED BY <2>1, <2>2, <2>3, <2>4, <2>5
<1> HIDE DEF Sold
<1>3. CASE Settle
  <2>1. UNCHANGED <<bookVars, intent, flowVars>> /\ phase = "settle"
    BY <1>3 DEF Settle
  <2>2. outcome' = "filled" /\ intent.kind = "sell" => SpentUp
    <3> SUFFICES ASSUME outcome' = "filled", intent.kind = "sell" PROVE SpentUp
      OBVIOUS
    <3>1. outcome' = OfferOutcome
      BY <1>3 DEF Settle, OfferCrossing
    <3>2. ~Incomplete
      BY <3>1 DEF OfferOutcome
    <3> QED BY <3>2 DEF Incomplete
  <2>3. outcome' = "filled" /\ intent.kind = "sell" => Sold
    BY <2>1, <2>2, SoldNow DEF Sold
  <2>4. (outcome = "filled" /\ intent.kind = "sell" => Sold)'
    BY <1>2, <2>1, <2>3
  <2> QED BY <1>1, <2>4 DEF SoldOut, Sold
<1>4. CASE UNCHANGED vars
  <2>1. UNCHANGED <<bookVars, intent, flowVars>> /\ UNCHANGED outcome
    BY <1>4 DEF vars
  <2>2. (outcome = "filled" /\ intent.kind = "sell" => Sold)'
    BY <1>1, <1>2, <2>1
  <2> QED BY <2>2 DEF SoldOut, Sold
<1>5. CASE Allocate \/ BeginFlow \/ BeginRound \/ StopFlow \/ Pass
  <2>1. phase # "done" /\ UNCHANGED outcome
    BY <1>5 DEF Allocate, BeginFlow, BeginRound, StopFlow, Pass, DeleteOwn, TakeReverse, TakeForward,
                Visit, RunForward, RunFallback, CommitRound, Commit, EndFlow, EndPass, Passes
  <2>2. outcome' # "filled"
    BY <2>1 DEF VerdictLast
  <2> QED BY <2>2 DEF SoldOut
<1> QED BY <1>3, <1>4, <1>5 DEF Next

\* A sell that execute_single_path_intent calls complete could not have bought
\* another quantum of a row or of the pool with what is left of its budget,
\* beyond a quantum: the prices it compares with, taken before the flow, are no
\* higher than those after it.  Offers are taken to ask what their quality asks.
THEOREM CompleteSellsAreSoldOut ==
  ASSUME AskedAtQuality PROVE Spec => []SoldOut
<1>1. Init => Given /\ VisitInv /\ ShareInv /\ PoolGrown /\ VerdictLast /\ SoldOut
  <2> SUFFICES ASSUME Init, Ready PROVE VisitInv /\ ShareInv /\ PoolGrown /\ VerdictLast /\ SoldOut
    BY InitReady, GivenInit
  <2>1. VisitInv /\ VerdictLast /\ SoldOut
    BY VisitInit DEF Ready, Begins, VerdictLast, SoldOut
  <2>2. poolTrace.in = 0 /\ (pool # Unknown => pool \in Pool)
    BY DEF Ready, Begins, NoPoolTake
  <2>3. PoolGrown
    BY <2>2, PoolParts DEF PoolGrown
  <2> QED BY <2>1, <2>3, ShareInit
<1>2. Given /\ CrossingInv /\ VisitInv /\ ShareInv /\ PoolGrown /\ VerdictLast /\ SoldOut /\ [Next]_vars =>
        Given' /\ VisitInv' /\ ShareInv' /\ PoolGrown' /\ VerdictLast' /\ SoldOut'
  BY GivenStep, VisitStep, ShareStep, GrownStep, SoldStep
<1> QED BY <1>1, <1>2, CrossingInvariant, PTL DEF Spec

-----------------------------------------------------------------------------
(* What a flow delivers *)

\* What is spent, its fee included, is missing from what the rest can spend.
LEMMA FeeLeft ==
  ASSUME NEW x \in Nat, NEW l \in Nat, NEW r \in Rates, RoundUp(x, r) <= l
  PROVE  RoundDown(l - RoundUp(x, r), Flip(r)) + x <= RoundDown(l, Flip(r))
<1> DEFINE g == RoundUp(x, r)
           d == RoundDown(l - g, Flip(r))
           n == r[1]
           m == r[2]
<1>1. Flip(r) \in Rates /\ Flip(r)[1] = m /\ Flip(r)[2] = n /\ n \in Nat \ {0} /\ m \in Nat \ {0}
  BY FlipType, RateParts DEF Flip
<1>2. g \in Nat /\ x * n <= g * m
  BY RoundUpRate
<1>3. l - g \in Nat
  BY <1>2
<1>4. d \in Nat /\ d * n <= (l - g) * m
  BY <1>1, <1>3, RoundDownRate
<1> HIDE DEF g, d, n, m
<1>5. (d + x) * n <= l * m
  <2>1. (d + x) * n = d * n + x * n /\ l * m = (l - g) * m + g * m
    BY <1>1, <1>2, <1>3, <1>4, SMT
  <2>2. d * n \in Nat /\ x * n \in Nat /\ (l - g) * m \in Nat /\ g * m \in Nat
    BY <1>1, <1>2, <1>3, <1>4, ProductType
  <2> QED BY <1>2, <1>4, <2>1, <2>2
<1>6. d + x <= RoundDown(l, Flip(r))
  BY <1>1, <1>4, <1>5, RoundDownIsLargest
<1> QED BY <1>6 DEF d, g

\* A rest of a row that asks, rounded, as its quality does and costs no more
\* than an input that buys nothing at that quality is one quantum of output for
\* all of the input.
LEMMA CrumbRow ==
  ASSUME NEW out \in Nat \ {0}, NEW in \in Nat \ {0}, NEW r \in Rates, NEW raw \in Nat,
         RoundDown(out, r) <= in, in <= raw, raw * r[2] < r[1]
  PROVE  out = 1 /\ in = raw
<1> DEFINE n == r[1]
           m == r[2]
           d == RoundDown(out, r)
<1>1. n \in Nat \ {0} /\ m \in Nat \ {0} /\ raw * m < n
  BY RateParts
<1>2. d \in Nat /\ d <= in
  BY RoundDownRate
<1>3. out * n < (d + 1) * m
  <2>1. ~((d + 1) * m <= out * n)
    <3>1. (d + 1) * r[2] <= out * r[1] => d + 1 <= RoundDown(out, r)
      BY <1>2, RoundDownIsLargest
    <3> QED BY <1>2, <3>1
  <2>2. (d + 1) * m \in Nat /\ out * n \in Nat
    BY <1>1, <1>2, ProductType
  <2> QED BY <2>1, <2>2
<1> HIDE DEF n, m, d
<1>4. (d + 1) * m <= (in + 1) * m /\ (in + 1) * m = in * m + m /\ in * m <= raw * m
  BY <1>1, <1>2, Scale, SMT
<1>5. /\ out * n \in Nat /\ in * m \in Nat /\ raw * m \in Nat /\ (d + 1) * m \in Nat /\ (in + 1) * m \in Nat
      /\ m <= raw * m /\ n <= out * n
  <2>1. 1 * m <= raw * m /\ 1 * n <= out * n
    BY <1>1, Scale
  <2> QED BY <1>1, <1>2, <2>1, ProductType
<1>6. out = 1
  <2> SUFFICES ASSUME out >= 2 PROVE FALSE
    OBVIOUS
  <2>1. 2 * n <= out * n
    BY <1>1, Scale
  <2> QED BY <1>1, <1>3, <1>4, <1>5, <2>1
<1>7. raw < in + 1
  <2> SUFFICES ASSUME in + 1 <= raw PROVE FALSE
    OBVIOUS
  <2>1. (in + 1) * m <= raw * m
    BY <1>1, Scale
  <2>2. out * n = n
    BY <1>1, <1>6
  <2> QED BY <1>1, <1>3, <1>4, <1>5, <2>1, <2>2
<1> QED BY <1>6, <1>7

\* An input that does not pay for a part of a row buys no more than the part.
LEMMA BuysNoMore ==
  ASSUME TypeOK, NEW o \in Offers, Executable(o), NEW l \in Nat \ {0}, NEW x \in Nat,
         x < LimitedOut(o, l).gross, NEW up
  PROVE  LimitedIn(o, x, up).out <= LimitedOut(o, l).out
<1> DEFINE p == Prepared(o)
           part == PartIn(o, l)
           raw == RawIn(o, x)
           got == LimitedIn(o, x, up).out
           r == Rate(o)
           fee == InFeeOf(o)
<1>1. /\ part \in Nat \ {0} /\ part <= p.in /\ LimitedOut(o, l).gross = RoundUp(part, fee)
      /\ p.in \in Nat \ {0} /\ p.out \in Nat \ {0}
  BY PartCost
<1>2. got \in Nat /\ got <= p.out
  BY LimitedInType DEF Take
<1>3. LimitedOut(o, l).out = AtMost(p.out, l)
  BY LimitedOutType
<1>4. r \in Rates /\ fee \in Rates /\ Flip(r) \in Rates /\ Flip(fee) \in Rates
      /\ Flip(r)[1] = r[2] /\ Flip(r)[2] = r[1] /\ r[1] \in Nat \ {0} /\ r[2] \in Nat \ {0}
  BY RowType, FeesType, FlipType, RateParts DEF Flip
<1>5. CASE l >= p.out
  <2>1. AtMost(p.out, l) = p.out
    BY <1>1, <1>5, UnknownAssumption DEF AtMost
  <2> QED BY <1>2, <1>3, <2>1
<1>6. CASE ~(l >= p.out)
  <2>1. LimitedOut(o, l).out = l /\ part = AtMost(RoundUp(l, r), p.in)
    BY <1>1, <1>3, <1>6, UnknownAssumption DEF AtMost, PartIn
  <2> DEFINE down == RoundDown(x, Flip(fee))
  <2>2. down \in Nat /\ RoundUp(down, fee) <= x /\ RoundUp(down, fee) \in Nat
    BY <1>4, RoundDownType, UpOfDown, RoundUpRate
  <2>3. down < part
    <3> SUFFICES ASSUME part <= down PROVE FALSE
      BY <1>1, <2>2
    <3>1. RoundUp(part, fee) <= RoundUp(down, fee) /\ RoundUp(part, fee) \in Nat
      BY <1>1, <1>4, <2>2, RoundUpMonotone, RoundUpRate
    <3>2. x < RoundUp(part, fee)
      BY <1>1
    <3> HIDE DEF part, down, fee
    <3> QED BY <2>2, <3>1, <3>2
  <2>4. RoundUp(l, r) \in Nat /\ part <= RoundUp(l, r)
    <3>1. RoundUp(l, r) \in Nat
      BY <1>4, RoundUpRate
    <3>2. AtMost(RoundUp(l, r), p.in) <= RoundUp(l, r)
      BY <1>1, <3>1, AtMostBounds
    <3> HIDE DEF part, p, r
    <3> QED BY <2>1, <3>1, <3>2
  <2>5. raw = AtMost(down, p.in) /\ raw \in Nat /\ raw <= down
    BY <1>1, <2>2, AtMostBounds DEF RawIn
  <2>6. raw * r[2] <= l * r[1]
    <3>1. ~(l * r[1] <= raw * r[2])
      <4>1. l * r[1] <= raw * r[2] => RoundUp(l, r) <= raw
        BY <1>4, <2>5, RoundUpRate
      <4> HIDE DEF down, raw, part
      <4> QED BY <1>1, <2>2, <2>3, <2>4, <2>5, <4>1
    <3>2. raw * r[2] \in Nat /\ l * r[1] \in Nat
      BY <1>4, <2>5, ProductType
    <3> QED BY <3>1, <3>2
  <2>7. RoundUp(raw, Flip(r)) \in Nat /\ RoundUp(raw, Flip(r)) <= l
    BY <1>4, <2>5, <2>6, RoundUpRate
  <2>8. RoundDown(raw, Flip(r)) \in Nat /\ RoundDown(raw, Flip(r)) <= l
    <3>1. RoundDown(raw, Flip(r)) \in Nat /\ RoundDown(raw, Flip(r)) <= RoundUp(raw, Flip(r))
      BY <1>4, <2>5, RoundDownType, DownUp
    <3> HIDE DEF raw
    <3> QED BY <2>7, <3>1
  <2>9. BoughtOut(o, x, up) <= l
    <3>1. AtMost(RoundUp(raw, Flip(r)), p.out) <= RoundUp(raw, Flip(r)) /\ AtMost(RoundUp(raw, Flip(r)), p.out) \in Nat
      BY <1>1, <2>7, AtMostBounds
    <3>2. AtMost(RoundDown(raw, Flip(r)), p.out) <= RoundDown(raw, Flip(r)) /\ AtMost(RoundDown(raw, Flip(r)), p.out) \in Nat
      BY <1>1, <2>8, AtMostBounds
    <3>3. BoughtOut(o, x, up) = IF up THEN AtMost(RoundUp(raw, Flip(r)), p.out) ELSE AtMost(RoundDown(raw, Flip(r)), p.out)
      BY DEF BoughtOut
    <3> HIDE DEF raw, p, r
    <3>4. CASE up
      BY <2>7, <3>1, <3>3, <3>4
    <3>5. CASE ~up
      BY <2>8, <3>2, <3>3, <3>5
    <3> QED BY <3>4, <3>5
  <2>10. LimitedIn(o, x, up) = NoTake => got = 0
    BY DEF NoTake
  <2>11. LimitedIn(o, x, up) # NoTake => got = BoughtOut(o, x, up)
    BY InCost
  <2> QED BY <1>6, <2>1, <2>9, <2>10, <2>11
<1> QED BY <1>5, <1>6

\* Offers of the snapshot ask no less than their quality, rounded down, for what
\* the snapshot says is funded.
PricedAtQuality ==
  \A b \in Books, o \in Offers :
    RoundDown(AtMost(b[o].gets, b[o].fundedGets), b[o].rate) <= AtMost(b[o].pays, b[o].fundedPays)

\* A row asks no less than its quality, rounded down.
NearRate(o, row) == RoundDown(row.out, Rate(o)) <= row.in

NearInv ==
  /\ \A o \in Offers : NearRate(o, rows[o])
  /\ phase # "allocate" => \A o \in Offers : NearRate(o, tiers[o])

LEMMA NearNothing ==
  ASSUME TypeOK, NEW o \in Offers PROVE RoundDown(0, Rate(o)) = 0
<1>1. RoundDown(0, Rate(o)) \in Nat /\ RoundDown(0, Rate(o)) * Rate(o)[2] <= 0 * Rate(o)[1]
      /\ Rate(o)[1] \in Nat \ {0} /\ Rate(o)[2] \in Nat \ {0}
  BY RowType, RoundDownRate, RateParts
<1> DEFINE q == RoundDown(0, Rate(o))
<1> HIDE DEF q
<1>2. q * Rate(o)[2] <= 0 * Rate(o)[2]
  BY <1>1, SMT DEF q
<1>3. q <= 0
  BY <1>1, <1>2, Cancel DEF q
<1> QED BY <1>1, <1>3 DEF q

\* The share of a part of a row, rounded up, is as near.
LEMMA NearPart ==
  ASSUME NEW out \in Nat \ {0}, NEW in \in Nat \ {0}, NEW r \in Rates, RoundDown(out, r) <= in,
         NEW x \in Nat, x <= out
  PROVE  RoundDown(x, r) <= RoundUp(x, <<in, out>>)
<1> DEFINE n == r[1]
           m == r[2]
           d == RoundDown(x, r)
           e == RoundDown(out, r)
           q == RoundUp(x, <<in, out>>)
<1>1. n \in Nat \ {0} /\ m \in Nat \ {0}
  BY RateParts
<1>2. d \in Nat /\ d * m <= x * n /\ e \in Nat /\ e <= in
  BY RoundDownRate
<1>3. q \in Nat /\ x * in <= q * out
  BY RoundUpIsLeast
<1>4. ~((e + 1) * m <= out * n)
  <2>1. (e + 1) * r[2] <= out * r[1] => e + 1 <= RoundDown(out, r)
    BY <1>2, RoundDownIsLargest
  <2> QED BY <1>2, <2>1
<1> HIDE DEF n, m, d, e, q
<1> SUFFICES ASSUME q + 1 <= d PROVE FALSE
  BY <1>2, <1>3 DEF d, q
<1>5. x # 0
  <2> SUFFICES ASSUME x = 0 PROVE FALSE
    OBVIOUS
  <2>1. d * m <= 0
    <3>1. x * n = 0 * n /\ 0 * n = 0
      BY <1>1, SMT
    <3> QED BY <1>2, <3>1
  <2>2. 1 * m <= d * m
    BY <1>1, <1>2, <1>3, Scale
  <2>3. d * m \in Nat
    BY <1>1, <1>2, ProductType
  <2> QED BY <1>1, <2>1, <2>2, <2>3
<1>6. out * n < (in + 1) * m
  <2>1. (e + 1) * m <= (in + 1) * m
    BY <1>1, <1>2, Scale
  <2>2. out * n \in Nat /\ (e + 1) * m \in Nat /\ (in + 1) * m \in Nat
    BY <1>1, <1>2, ProductType
  <2> QED BY <1>4, <2>1, <2>2
<1>7. (q + 1) * m <= x * n
  <2>1. (q + 1) * m <= d * m
    BY <1>1, <1>2, <1>3, Scale
  <2>2. (q + 1) * m \in Nat /\ d * m \in Nat /\ x * n \in Nat
    BY <1>1, <1>2, <1>3, ProductType
  <2> QED BY <1>2, <2>1, <2>2
<1> DEFINE a == (q + 1) * out
           b == x * (in + 1)
<1>8. a \in Nat /\ b \in Nat
  BY <1>3, ProductType
<1>9. a * m < b * m
  <2>1. ((q + 1) * m) * out <= (x * n) * out
    <3>1. (q + 1) * m \in Nat /\ x * n \in Nat
      BY <1>1, <1>3, ProductType
    <3> QED BY <1>7, <3>1, Scale
  <2>2. a * m = ((q + 1) * m) * out /\ (x * n) * out = x * (out * n) /\ b * m = x * ((in + 1) * m)
    BY <1>1, <1>3, SMT
  <2>3. x * (out * n) < x * ((in + 1) * m)
    <3> DEFINE u == out * n
               v == (in + 1) * m
    <3>1. u \in Nat /\ v \in Nat /\ u + 1 <= v
      BY <1>1, <1>6, ProductType
    <3> HIDE DEF u, v
    <3>2. (u + 1) * x <= v * x
      BY <3>1, Scale
    <3>3. (u + 1) * x = x * u + x /\ v * x = x * v /\ x * u \in Nat /\ x * v \in Nat
      BY <3>1, SMT
    <3> QED BY <1>5, <3>2, <3>3 DEF u, v
  <2>4. a * m \in Nat /\ b * m \in Nat /\ x * (out * n) \in Nat
    BY <1>1, <1>8, ProductType
  <2> HIDE DEF a, b
  <2> QED BY <2>1, <2>2, <2>3, <2>4
<1>10. a < b
  <2> HIDE DEF a, b
  <2> SUFFICES ASSUME b <= a PROVE FALSE
    BY <1>8
  <2>1. b * m <= a * m
    BY <1>1, <1>8, Scale
  <2>2. a * m \in Nat /\ b * m \in Nat
    BY <1>1, <1>8, ProductType
  <2> QED BY <1>9, <2>1, <2>2
<1>11. a = q * out + out /\ b = x * in + x /\ q * out \in Nat /\ x * in \in Nat
  BY <1>3, SMT
<1> HIDE DEF a, b
<1> QED BY <1>3, <1>10, <1>11

LEMMA NearCommit == ASSUME CrossingInv, VisitInv, NearInv, CommitRound PROVE NearInv'
<1>1. /\ phase \in Passes /\ phase # "allocate" /\ TypeOK
      /\ UNCHANGED <<book, rows>> /\ tiers' = [x \in Offers |-> Replaced(x)]
      /\ takes \in [Offers -> Take]
  BY DEF CommitRound, Commit, EndPass, Passes, CrossingInv, bookVars, TypeOK
<1>2. \A x \in Offers : NearRate(x, rows[x])' <=> NearRate(x, rows[x])
  BY <1>1 DEF NearRate, RoundDown, Rate
<1>3. \A x \in Offers : NearRate(x, tiers[x])' <=> NearRate(x, tiers'[x])
  BY <1>1 DEF NearRate, RoundDown, Rate
<1>4. ASSUME NEW o \in Offers PROVE NearRate(o, tiers'[o])
  <2> DEFINE t == tiers[o]
  <2>1. t.out \in Nat /\ t.in \in Nat /\ takes[o].out \in Nat /\ t \in Row /\ Rate(o) \in Rates
    BY <1>1, RowType, TakeParts DEF TypeOK
  <2>2. RoundDown(t.out, Rate(o)) <= t.in
    BY <1>1 DEF NearInv, NearRate
  <2>3. tiers'[o] = Replaced(o)
    BY <1>1
  <2>4. CASE o \in deleted
    <3>1. t = [out |-> t.out, in |-> t.in, funds |-> t.funds]
      BY <2>1 DEF Row
    <3>2. Replaced(o) = [t EXCEPT !.out = 0, !.in = 0]
      BY <2>4 DEF Replaced
    <3>3. Replaced(o).out = 0 /\ Replaced(o).in = 0
      <4> HIDE DEF t
      <4> QED BY <3>1, <3>2
    <3> QED BY <1>1, <2>3, <3>3, NearNothing DEF NearRate
  <2>5. CASE o \notin deleted /\ ~(takes[o].out > 0)
    BY <2>2, <2>3, <2>5 DEF Replaced, NearRate
  <2>6. CASE o \notin deleted /\ takes[o].out > 0
    <3>1. t.in > 0
      <4>1. takes[o] # NoTake
        BY <2>6 DEF NoTake
      <4>2. o \in Candidates
        BY <1>1, <4>1 DEF VisitInv
      <4> QED BY <4>2 DEF Candidates, Executable
    <3>2. t.out >= takes[o].out
      BY <1>1, <2>1 DEF CrossingInv, PassInv
    <3> DEFINE out == IF takes[o].out < t.out THEN t.out - takes[o].out ELSE 0
    <3>3. Replaced(o).out = out /\ Replaced(o).in = RoundUp(out, <<t.in, t.out>>)
      BY <2>6 DEF Replaced, Consumed
    <3> HIDE DEF t
    <3>4. out \in Nat /\ out <= t.out /\ t.out \in Nat \ {0} /\ t.in \in Nat \ {0}
      BY <2>1, <2>6, <3>1, <3>2
    <3> HIDE DEF out
    <3>5. RoundDown(out, Rate(o)) <= RoundUp(out, <<t.in, t.out>>)
      BY <2>1, <2>2, <3>4, NearPart
    <3> QED BY <2>3, <3>3, <3>5 DEF NearRate
  <2> QED BY <2>4, <2>5, <2>6
<1> QED BY <1>1, <1>2, <1>3, <1>4 DEF NearInv

\* An offer becomes a row that asks no less than its quality.
LEMMA NearAllocate ==
  ASSUME Given, CrossingInv, NearInv, PricedAtQuality, Allocate PROVE NearInv'
<1>1. /\ phase = "allocate" /\ phase' = "allocate" /\ AllocateRow /\ TypeOK /\ BookTypeOK /\ UNCHANGED book
  BY DEF Allocate, CrossingInv, TypeOK, AllocateRow
<1>2. PICK o \in unsorted : RowOf(o)
  BY <1>1, AllocatesOneRow
<1>3. o \in Offers /\ rows \in [Offers -> Row] /\ book \in Books
  BY <1>1 DEF BookTypeOK, Given
<1>4. \A x \in Offers : NearRate(x, rows[x])' <=> NearRate(x, rows'[x])
  BY <1>1 DEF NearRate, RoundDown, Rate
<1> DEFINE out == EffectiveOut(o, purse[book[o].owner])
           in == EffectiveIn(o, out)
<1>5. \/ UNCHANGED rows
      \/ rows' = [rows EXCEPT ![o] = [out |-> out, in |-> in, funds |-> purse[book[o].owner]]]
  BY <1>2 DEF RowOf
<1>6. CASE UNCHANGED rows
  BY <1>1, <1>4, <1>6 DEF NearInv
<1>7. CASE rows' = [rows EXCEPT ![o] = [out |-> out, in |-> in, funds |-> purse[book[o].owner]]]
  <2> DEFINE most == AtMost(book[o].gets, book[o].fundedGets)
             asked == AtMost(book[o].pays, book[o].fundedPays)
             r == book[o].rate
  <2>1. /\ r \in Rates /\ book[o].gets \in Nat /\ book[o].pays \in Nat
        /\ book[o].fundedGets \in Nat \cup {Unknown}
        /\ book[o].fundedPays \in Nat \cup {Unknown} /\ purse[book[o].owner] \in Nat \cup {Unknown}
    BY <1>1, <1>3, OfferType DEF BookTypeOK
  <2>2. most \in Nat /\ asked \in Nat
    BY <2>1, AtMostType
  <2>3. Spendable(purse[book[o].owner]) \in Nat \cup {Unknown}
    BY <1>1, <2>1, FeeType, FlipType, RoundDownType DEF Spendable
  <2>4. out \in Nat /\ out <= most
    BY <2>2, <2>3, AtMostType DEF EffectiveOut
  <2>5. RoundDown(most, r) <= asked
    BY <1>3 DEF PricedAtQuality
  <2>6. in = IF out < book[o].gets THEN AtMost(asked, RoundDown(out, r)) ELSE asked
    BY DEF EffectiveIn
  <2> HIDE DEF out, asked, in, most, r
  <2>7. RoundDown(out, r) \in Nat /\ RoundDown(out, r) <= RoundDown(most, r) /\ RoundDown(most, r) \in Nat
    BY <2>1, <2>2, <2>4, RoundDownType, RoundDownMonotone
  <2>8. RoundDown(out, r) <= asked
    BY <2>2, <2>5, <2>7
  <2>9. AtMost(asked, RoundDown(out, r)) = RoundDown(out, r)
    BY <2>2, <2>7, <2>8, UnknownAssumption DEF AtMost
  <2>10. RoundDown(out, r) <= in
    BY <2>2, <2>6, <2>7, <2>8, <2>9
  <2>11. ASSUME NEW x \in Offers PROVE NearRate(x, rows'[x])
    <3>1. CASE x = o
      BY <1>3, <1>7, <2>10, <3>1 DEF NearRate, Rate, r
    <3>2. CASE x # o
      BY <1>3, <1>7, <3>2 DEF NearInv
    <3> QED BY <3>1, <3>2
  <2> QED BY <1>1, <1>4, <2>11 DEF NearInv
<1> QED BY <1>5, <1>6, <1>7

\* The flow begins with whole rows.
LEMMA NearFrame ==
  ASSUME NearInv, UNCHANGED <<book, rows>>,
         tiers' = rows \/ (tiers' = tiers /\ (phase = "allocate" => phase' = "allocate"))
  PROVE  NearInv'
<1>1. \A x \in Offers : (NearRate(x, rows[x])' <=> NearRate(x, rows'[x])) /\ (NearRate(x, tiers[x])' <=> NearRate(x, tiers'[x]))
  BY DEF NearRate, RoundDown, Rate
<1> QED BY <1>1 DEF NearInv

LEMMA NearStep ==
  ASSUME PricedAtQuality PROVE Given /\ CrossingInv /\ VisitInv /\ NearInv /\ [Next]_vars => NearInv'
<1> SUFFICES ASSUME Given, CrossingInv, VisitInv, NearInv, [Next]_vars PROVE NearInv'
  OBVIOUS
<1>1. CASE Allocate
  BY <1>1, NearAllocate
<1>2. CASE BeginFlow
  BY <1>2, NearFrame DEF BeginFlow, bookVars
<1>3. CASE CommitRound
  BY <1>3, NearCommit
<1>4. CASE BeginRound \/ StopFlow \/ Settle \/ (Pass /\ ~CommitRound)
  <2>1. UNCHANGED <<bookVars, flowVars>> /\ phase # "allocate"
    BY <1>4 DEF BeginRound, StopFlow, Settle, Pass, DeleteOwn, TakeReverse, TakeForward, Visit,
                RunForward, RunFallback, EndFlow, EndPass, Passes
  <2> QED BY <2>1, NearFrame DEF bookVars, flowVars
<1>5. CASE UNCHANGED vars
  BY <1>5, NearFrame DEF vars, bookVars, flowVars
<1> QED BY <1>1, <1>2, <1>3, <1>4, <1>5 DEF Next

LEMMA NearInit == Ready => NearInv
<1> SUFFICES ASSUME Ready PROVE NearInv
  OBVIOUS
<1>1. phase = "allocate" /\ rows = [o \in Offers |-> NoRow] /\ TypeOK
  BY CrossingInit DEF Ready, Begins, Unallocated, CrossingInv
<1>2. \A o \in Offers : NearRate(o, rows[o])
  BY <1>1, NearNothing DEF NoRow, NearRate
<1> QED BY <1>1, <1>2 DEF NearInv

\* The fee on what crosses an offer is that on any other: there is none, or no
\* own offer is crossed at a passive transaction's very limit, where it pays none.
OneFee ==
  \/ InFee = Parity
  \/ \A i \in Intents : i.passive => \A b \in Books, o \in Offers : b[o].owner # Source

LEMMA CrossedFee ==
  ASSUME OneFee, Given, TypeOK, NEW o \in Candidates, ~OwnCross(o) PROVE InFeeOf(o) = InFee
<1> SUFFICES ASSUME InFeeOf(o) # InFee PROVE FALSE
  OBVIOUS
<1>1. OfferCrossing /\ book[o].owner = Source /\ InFee # Parity
  BY DEF InFeeOf
<1>2. o \in Offers /\ book \in Books /\ intent \in Intents
  BY DEF Candidates, Given
<1>3. ~intent.passive
  BY <1>1, <1>2 DEF OneFee
<1>4. ~Cheaper(LimitRate, Rate(o))
  BY <1>1 DEF Candidates
<1> QED BY <1>1, <1>3, <1>4 DEF OwnCross, TooDear

\* After in of the budget the rest of it buys nothing of the rows S, or, where
\* the step rounds up or a row is a quantum, one quantum of one of them, and
\* that is still wanted.
RawAfter(in) == RoundDown(remainingIn - in, Flip(InFee))

Crumb(S, out, in) ==
  \/ RawAfter(in) = 0
  \/ /\ out < remainingOut
     /\ \A o \in S : OwnCross(o) \/ RawAfter(in) * Rate(o)[2] < Rate(o)[1]

Crumby == Crumb(ahead, filled.out, filled.in)

LEMMA CrumbStable ==
  ASSUME UNCHANGED <<book, ownerPays, intent, tiers>>, UNCHANGED <<remainingIn, remainingOut>>, ahead' \subseteq Offers
  PROVE  Crumby' <=> Crumb(ahead', filled'.out, filled'.in)
<1>1. \A o \in Offers : (OwnCross(o)' <=> OwnCross(o)) /\ Rate(o)' = Rate(o)
  BY PricesStable
<1>2. RawAfter(filled.in)' = RawAfter(filled'.in)
  BY DEF RawAfter, RoundDown, Flip
<1> QED BY <1>1, <1>2 DEF Crumby, Crumb

\* Once all of the input is spent it buys nothing.
LEMMA SpentBuysNothing == ASSUME TypeOK PROVE RawAfter(remainingIn) = 0
<1>1. Flip(InFee) \in Rates /\ Flip(InFee)[1] \in Nat \ {0} /\ Flip(InFee)[2] \in Nat \ {0} /\ remainingIn \in Nat
  BY FeesType, FlipType, RateParts DEF TypeOK
<1>2. remainingIn - remainingIn = 0
  BY <1>1
<1> DEFINE q == RoundDown(0, Flip(InFee))
<1>3. q \in Nat /\ q * Flip(InFee)[2] <= 0 * Flip(InFee)[1]
  BY <1>1, RoundDownRate
<1> HIDE DEF q
<1>4. q * Flip(InFee)[2] <= 0 * Flip(InFee)[2]
  BY <1>1, <1>3, SMT
<1>5. q <= 0
  BY <1>1, <1>3, <1>4, Cancel
<1> QED BY <1>2, <1>3, <1>5 DEF RawAfter, q

\* What a forward pass takes from the next row, before it is cut back.
ForwardTake(o) ==
  IF Left < Prepared(o).gross THEN LimitedIn(o, Left, RoundsUp) ELSE Prepared(o)

LEMMA ForwardCases ==
  ASSUME Given, OneFee, CrossingInv, VisitInv, phase = "forward", TakeForward, NEW o, o = Best(ahead)
  PROVE  /\ o \in Offers /\ o \in ahead /\ o \in Candidates /\ Executable(o) /\ ~OwnCross(o)
         /\ InFeeOf(o) = InFee /\ ahead' = ahead \ {o} /\ takes[o] = NoTake
         /\ UNCHANGED <<bookVars, intent, flowVars>> /\ UNCHANGED <<phase, want>>
         /\ Left \in Nat \ {0} /\ Left = remainingIn - filled.in /\ filled.in <= remainingIn
         /\ filled.in \in Nat /\ filled.out \in Nat /\ remainingIn \in Nat /\ want \in Nat
         /\ Prepared(o) \in Take
         /\ \/ /\ Left < Prepared(o).gross /\ LimitedIn(o, Left, RoundsUp) = NoTake
               /\ UNCHANGED <<takes, filled>>
            \/ filled'.out = want /\ filled'.in = remainingIn
            \/ /\ Left < Prepared(o).gross /\ filled'.in = remainingIn
               /\ filled'.out = filled.out + LimitedIn(o, Left, RoundsUp).out
            \/ /\ Prepared(o).gross <= Left /\ takes' = [takes EXCEPT ![o] = Prepared(o)]
               /\ filled'.out = filled.out + Prepared(o).out
               /\ filled'.in = filled.in + Prepared(o).gross
<1> DEFINE bound == Left < Prepared(o).gross
           take == ForwardTake(o)
           wanted == want - filled.out
           cutBack == LimitedOut(o, wanted)
           cut == 0 < wanted /\ wanted < take.out /\ cutBack.gross = Left
<1>1. /\ Visit /\ ~OwnCross(o)
      /\ ahead' = ahead \ {o} /\ UNCHANGED <<bookVars, intent, phase, flowVars>> /\ UNCHANGED want
      /\ \/ take = NoTake /\ UNCHANGED <<takes, filled>>
         \/ take # NoTake /\ cut /\ filled' = [out |-> want, in |-> remainingIn]
         \/ take # NoTake /\ ~cut /\ takes' = [takes EXCEPT ![o] = take]
            /\ filled' = [out |-> filled.out + take.out,
                          in  |-> IF bound THEN remainingIn ELSE filled.in + take.gross]
  BY DEF TakeForward, ForwardTake
<1>2. /\ TypeOK /\ phase \in Passes /\ o \in Offers /\ o \in ahead /\ Left \in Nat \ {0} /\ takes[o] = NoTake
      /\ PassInv
  BY <1>1, Visited DEF CrossingInv
<1>3. o \in Candidates /\ Executable(o)
  BY <1>2 DEF VisitInv, Candidates
<1>4. /\ filled.out \in Nat /\ filled.in \in Nat /\ remainingIn \in Nat /\ want \in Nat
      /\ Left = remainingIn - filled.in /\ filled.in <= remainingIn
  BY <1>2 DEF TypeOK, Amount, Left, PassInv
<1>5. InFeeOf(o) = InFee
  BY <1>1, <1>2, <1>3, CrossedFee
<1>6. Prepared(o) \in Take /\ Prepared(o).out \in Nat \ {0} /\ Prepared(o).gross \in Nat
  BY <1>2, <1>3, PreparedType, PartCost DEF Take
<1>7. (bound => take = LimitedIn(o, Left, RoundsUp)) /\ (~bound => take = Prepared(o))
  BY DEF ForwardTake
<1>8. take = NoTake => bound
  BY <1>6, <1>7 DEF NoTake
<1>9. ~bound => Prepared(o).gross <= Left
  BY <1>2, <1>6
<1> HIDE DEF take, cut, cutBack, wanted
<1>10. CASE take = NoTake /\ UNCHANGED <<takes, filled>>
  BY <1>1, <1>2, <1>3, <1>4, <1>5, <1>6, <1>7, <1>8, <1>10
<1>11. CASE filled' = [out |-> want, in |-> remainingIn]
  BY <1>1, <1>2, <1>3, <1>4, <1>5, <1>6, <1>11
<1>12. CASE /\ take # NoTake /\ ~cut /\ takes' = [takes EXCEPT ![o] = take]
            /\ filled' = [out |-> filled.out + take.out,
                          in  |-> IF bound THEN remainingIn ELSE filled.in + take.gross]
  <2>1. filled'.out = filled.out + take.out /\ filled'.in = IF bound THEN remainingIn ELSE filled.in + take.gross
    BY <1>12
  <2>2. CASE bound
    <3>1. filled'.in = remainingIn /\ filled'.out = filled.out + LimitedIn(o, Left, RoundsUp).out
      BY <1>7, <2>1, <2>2
    <3> QED BY <1>1, <1>2, <1>3, <1>4, <1>5, <1>6, <2>2, <3>1
  <2>3. CASE ~bound
    <3>1. /\ filled'.in = filled.in + Prepared(o).gross /\ filled'.out = filled.out + Prepared(o).out
          /\ takes' = [takes EXCEPT ![o] = Prepared(o)]
      BY <1>7, <1>12, <2>1, <2>3
    <3> QED BY <1>1, <1>2, <1>3, <1>4, <1>5, <1>6, <1>9, <2>3, <3>1
  <2> QED BY <2>2, <2>3
<1> QED BY <1>1, <1>10, <1>11, <1>12

\* An input that comes to nothing without the fee buys nothing of a row, and one
\* that is less than a quantum of it costs buys at most one.
LEMMA BuysLittle ==
  ASSUME TypeOK, NEW o \in Offers, Executable(o), NEW l \in Nat, NEW up
  PROVE  /\ RoundDown(l, Flip(InFeeOf(o))) = 0 => LimitedIn(o, l, up).out = 0
         /\ RoundDown(l, Flip(InFeeOf(o))) * Rate(o)[2] < Rate(o)[1] => LimitedIn(o, l, up).out <= 1
<1> DEFINE down == RoundDown(l, Flip(InFeeOf(o)))
           raw == RawIn(o, l)
           r == Rate(o)
           p == Prepared(o)
           got == LimitedIn(o, l, up).out
<1>1. /\ r \in Rates /\ Flip(r) \in Rates /\ Flip(InFeeOf(o)) \in Rates
      /\ Flip(r)[1] = r[2] /\ Flip(r)[2] = r[1] /\ r[1] \in Nat \ {0} /\ r[2] \in Nat \ {0}
  BY RowType, FeesType, FlipType, RateParts DEF Flip
<1>2. p.in \in Nat \ {0} /\ p.out \in Nat \ {0} /\ down \in Nat
  BY <1>1, PartCost, RoundDownType
<1>3. raw = AtMost(down, p.in) /\ raw \in Nat /\ raw <= down
  BY <1>2, AtMostBounds DEF RawIn
<1>4. LimitedIn(o, l, up) = NoTake => got = 0
  BY DEF NoTake
<1>5. down = 0 => got = 0
  <2>1. down = 0 => raw = 0
    <3> HIDE DEF raw, down
    <3> QED BY <1>2, <1>3
  <2>2. raw = 0 => LimitedIn(o, l, up) = NoTake
    BY InCost
  <2> QED BY <1>4, <2>1, <2>2
<1>6. ASSUME down * r[2] < r[1] PROVE got <= 1
  <2>1. LimitedIn(o, l, up) # NoTake => got = BoughtOut(o, l, up)
    BY InCost
  <2>2. raw * r[2] <= 1 * r[1]
    <3>1. raw * r[2] <= down * r[2]
      BY <1>1, <1>2, <1>3, Scale
    <3>2. raw * r[2] \in Nat /\ down * r[2] \in Nat
      BY <1>1, <1>2, <1>3, ProductType
    <3> HIDE DEF raw, down
    <3> QED BY <1>1, <1>6, <3>1, <3>2
  <2>3. RoundUp(raw, Flip(r)) \in Nat /\ RoundUp(raw, Flip(r)) <= 1
    BY <1>1, <1>3, <2>2, RoundUpRate
  <2>4. RoundDown(raw, Flip(r)) \in Nat /\ RoundDown(raw, Flip(r)) <= RoundUp(raw, Flip(r))
    BY <1>1, <1>3, RoundDownType, DownUp
  <2>5. /\ AtMost(RoundUp(raw, Flip(r)), p.out) <= RoundUp(raw, Flip(r))
        /\ AtMost(RoundUp(raw, Flip(r)), p.out) \in Nat
        /\ AtMost(RoundDown(raw, Flip(r)), p.out) <= RoundDown(raw, Flip(r))
        /\ AtMost(RoundDown(raw, Flip(r)), p.out) \in Nat
    BY <1>2, <2>3, <2>4, AtMostBounds
  <2>6. BoughtOut(o, l, up) = IF up THEN AtMost(RoundUp(raw, Flip(r)), p.out) ELSE AtMost(RoundDown(raw, Flip(r)), p.out)
    BY DEF BoughtOut
  <2> HIDE DEF raw, r, p, got
  <2>7. BoughtOut(o, l, up) <= 1
    <3>1. CASE up
      BY <2>3, <2>5, <2>6, <3>1
    <3>2. CASE ~up
      BY <2>3, <2>4, <2>5, <2>6, <3>2
    <3> QED BY <3>1, <3>2
  <2> QED BY <1>4, <2>1, <2>7
<1> QED BY <1>5, <1>6

LEMMA RawType == ASSUME TypeOK, NEW in \in Nat, in <= remainingIn PROVE RawAfter(in) \in Nat
<1>1. Flip(InFee) \in Rates /\ remainingIn - in \in Nat
  BY FeesType, FlipType DEF TypeOK
<1> QED BY <1>1, RoundDownType DEF RawAfter

\* Where the rest of the input buys next to nothing, a forward pass takes next to
\* nothing.
LEMMA CrumbyForward ==
  ASSUME Given, OneFee, CrossingInv, VisitInv, NearInv, phase = "forward", TakeForward, Crumby,
         filled.out <= remainingOut, want <= remainingOut
  PROVE  Crumb(ahead', filled'.out, filled'.in) /\ filled'.out <= remainingOut
<1>1. PICK o : o = Best(ahead)
  OBVIOUS
<1>2. /\ o \in Offers /\ o \in ahead /\ o \in Candidates /\ Executable(o) /\ ~OwnCross(o)
      /\ InFeeOf(o) = InFee /\ ahead' = ahead \ {o}
      /\ Left \in Nat \ {0} /\ Left = remainingIn - filled.in /\ filled.in <= remainingIn
      /\ filled.in \in Nat /\ filled.out \in Nat /\ remainingIn \in Nat /\ want \in Nat
  BY <1>1, ForwardCases
<1>3. \/ /\ Left < Prepared(o).gross /\ LimitedIn(o, Left, RoundsUp) = NoTake
         /\ UNCHANGED <<takes, filled>>
      \/ filled'.out = want /\ filled'.in = remainingIn
      \/ /\ Left < Prepared(o).gross /\ filled'.in = remainingIn
         /\ filled'.out = filled.out + LimitedIn(o, Left, RoundsUp).out
      \/ /\ Prepared(o).gross <= Left /\ takes' = [takes EXCEPT ![o] = Prepared(o)]
         /\ filled'.out = filled.out + Prepared(o).out
         /\ filled'.in = filled.in + Prepared(o).gross
  BY <1>1, ForwardCases
<1> DEFINE raw == RawAfter(filled.in)
<1>4. TypeOK /\ remainingOut \in Nat /\ raw \in Nat /\ RawAfter(remainingIn) = 0
  BY <1>2, RawType, SpentBuysNothing DEF CrossingInv, TypeOK
<1>5. raw = RoundDown(Left, Flip(InFee))
  BY <1>2 DEF RawAfter
<1>6. raw = 0 \/ (filled.out < remainingOut /\ raw * Rate(o)[2] < Rate(o)[1])
  BY <1>2 DEF Crumby, Crumb
<1> HIDE DEF raw
<1>7. CASE UNCHANGED <<takes, filled>>
  <2>1. \A p \in ahead' : p \in ahead
    BY <1>2
  <2> QED BY <1>7, <2>1 DEF Crumby, Crumb
<1>8. CASE filled'.out = want /\ filled'.in = remainingIn
  BY <1>4, <1>8 DEF Crumb
<1>9. CASE /\ filled'.in = remainingIn
           /\ filled'.out = filled.out + LimitedIn(o, Left, RoundsUp).out
  <2> DEFINE got == LimitedIn(o, Left, RoundsUp).out
  <2>1. got \in Nat
    BY <1>2, <1>4, LimitedInType DEF Take
  <2>2. raw = 0 => got = 0
    BY <1>2, <1>4, <1>5, BuysLittle
  <2>3. raw * Rate(o)[2] < Rate(o)[1] => got <= 1
    BY <1>2, <1>4, <1>5, BuysLittle
  <2>4. filled.out + got <= remainingOut
    <3> HIDE DEF got
    <3> QED BY <1>2, <1>4, <1>6, <2>1, <2>2, <2>3
  <2> QED BY <1>4, <1>9, <2>4 DEF Crumb
<1>10. CASE /\ Prepared(o).gross <= Left
            /\ filled'.out = filled.out + Prepared(o).out
            /\ filled'.in = filled.in + Prepared(o).gross
  <2> DEFINE p == Prepared(o)
  <2>1. /\ p.out \in Nat \ {0} /\ p.in \in Nat \ {0} /\ p.gross = RoundUp(p.in, InFee)
        /\ Rate(o) \in Rates /\ InFee \in Rates
    BY <1>2, <1>4, PartCost, RowType, FeesType
  <2>2. RoundDown(p.out, Rate(o)) <= p.in
    <3>1. phase # "allocate" /\ tiers[o].out > 0
      BY <1>2 DEF Executable
    <3> QED BY <1>2, <3>1, WholeRowAsks DEF NearInv, NearRate
  <2>3. RoundDown(Left - p.gross, Flip(InFee)) + p.in <= raw
    BY <1>2, <1>5, <1>10, <2>1, FeeLeft
  <2>4. Left - p.gross = remainingIn - filled'.in /\ Left - p.gross \in Nat /\ filled'.in \in Nat /\ filled'.in <= remainingIn
    <3>1. p.gross \in Nat
      BY <2>1, RoundUpRate
    <3> HIDE DEF p
    <3> QED BY <1>2, <1>10, <3>1 DEF p
  <2>5. RawAfter(filled'.in) \in Nat /\ RawAfter(filled'.in) + p.in <= raw
    BY <1>4, <2>3, <2>4, RawType DEF RawAfter
  <2>6. raw # 0 /\ p.in <= raw
    <3> HIDE DEF p
    <3> QED BY <1>4, <2>1, <2>5 DEF p
  <2>7. p.out = 1 /\ p.in = raw
    BY <1>4, <1>6, <2>1, <2>2, <2>6, CrumbRow
  <2>8. RawAfter(filled'.in) = 0
    BY <1>4, <2>5, <2>7
  <2>9. filled'.out <= remainingOut
    BY <1>2, <1>4, <1>6, <1>10, <2>6, <2>7
  <2> QED BY <2>8, <2>9 DEF Crumb
<1> QED BY <1>3, <1>7, <1>8, <1>9, <1>10

\* A rest of the input that is short of a row and buys nothing of it is less
\* than its quality asks for a quantum ...
LEMMA RestIsCrumb ==
  ASSUME TypeOK, NEW o \in Offers, Executable(o), NEW l \in Nat, l < Prepared(o).gross,
         NEW up, LimitedIn(o, l, up) = NoTake
  PROVE  RoundDown(l, Flip(InFeeOf(o))) * Rate(o)[2] < Rate(o)[1]
<1> DEFINE fee == InFeeOf(o)
           down == RoundDown(l, Flip(fee))
           raw == RawIn(o, l)
           r == Rate(o)
           p == Prepared(o)
<1>1. /\ r \in Rates /\ Flip(r) \in Rates /\ fee \in Rates /\ Flip(fee) \in Rates
      /\ Flip(r)[1] = r[2] /\ Flip(r)[2] = r[1] /\ r[1] \in Nat \ {0} /\ r[2] \in Nat \ {0}
  BY RowType, FeesType, FlipType, RateParts DEF Flip
<1>2. p.in \in Nat \ {0} /\ p.out \in Nat \ {0} /\ p.gross = RoundUp(p.in, fee)
  BY PartCost
<1>3. down \in Nat /\ RoundUp(down, fee) <= l /\ RoundUp(down, fee) \in Nat
  BY <1>1, RoundDownType, UpOfDown, RoundUpRate
<1>4. down < p.in
  <2> SUFFICES ASSUME p.in <= down PROVE FALSE
    BY <1>2, <1>3
  <2>1. RoundUp(p.in, fee) <= RoundUp(down, fee) /\ RoundUp(p.in, fee) \in Nat
    BY <1>1, <1>2, <1>3, RoundUpMonotone, RoundUpRate
  <2>2. l < RoundUp(p.in, fee)
    BY <1>2
  <2> HIDE DEF p, down, fee
  <2> QED BY <1>3, <2>1, <2>2
<1>5. raw = down
  <2>1. raw = AtMost(down, p.in)
    BY DEF RawIn
  <2> HIDE DEF raw, down, p
  <2> QED BY <1>2, <1>3, <1>4, <2>1, UnknownAssumption DEF AtMost
<1>6. down * r[2] \in Nat
  BY <1>1, <1>3, ProductType
<1> SUFFICES ASSUME r[1] <= down * r[2] PROVE FALSE
  BY <1>1, <1>6
<1>7. raw # 0
  <2> SUFFICES ASSUME down = 0 PROVE FALSE
    BY <1>5
  <2>1. down * r[2] = 0
    BY <1>1, SMT
  <2> HIDE DEF down
  <2> QED BY <1>1, <2>1
<1>8. 1 <= RoundDown(raw, Flip(r)) /\ RoundDown(raw, Flip(r)) \in Nat
      /\ RoundDown(raw, Flip(r)) <= RoundUp(raw, Flip(r)) /\ RoundUp(raw, Flip(r)) \in Nat
  <2>1. raw \in Nat
    BY <1>3, <1>5
  <2>2. 1 * Flip(r)[2] <= raw * Flip(r)[1]
    <3> HIDE DEF raw, down, r
    <3> QED BY <1>1, <1>5, <1>6
  <2> QED BY <1>1, <2>1, <2>2, RoundDownIsLargest, RoundDownType, DownUp, RoundUpRate
<1>9. BoughtOut(o, l, up) # 0
  <2>1. BoughtOut(o, l, up) = IF up THEN AtMost(RoundUp(raw, Flip(r)), p.out) ELSE AtMost(RoundDown(raw, Flip(r)), p.out)
    BY DEF BoughtOut
  <2> HIDE DEF raw, r, p
  <2>2. AtMost(RoundUp(raw, Flip(r)), p.out) # 0
    BY <1>2, <1>8, UnknownAssumption DEF AtMost
  <2>3. AtMost(RoundDown(raw, Flip(r)), p.out) # 0
    BY <1>2, <1>8, UnknownAssumption DEF AtMost
  <2> QED BY <2>1, <2>2, <2>3
<1> QED BY <1>7, <1>9, InCost

\* ... and so of what a quality no better asks.
LEMMA DearerToo ==
  ASSUME NEW r \in Rates, NEW s \in Rates, ~Cheaper(s, r), NEW raw \in Nat, raw * r[2] < r[1]
  PROVE  raw * s[2] < s[1]
<1> DEFINE a == r[1]
           b == r[2]
           c == s[1]
           d == s[2]
<1>1. a \in Nat \ {0} /\ b \in Nat \ {0} /\ c \in Nat \ {0} /\ d \in Nat \ {0} /\ raw * b < a
  BY RateParts
<1>2. ~(c * b < a * d)
  BY DEF Cheaper
<1> HIDE DEF a, b, c, d
<1>3. raw * d \in Nat /\ raw * b \in Nat /\ c * b \in Nat /\ a * d \in Nat
  BY <1>1, ProductType
<1> SUFFICES ASSUME c <= raw * d PROVE FALSE
  BY <1>1, <1>3 DEF c, d
<1>4. c * b <= (raw * d) * b
  BY <1>1, <1>3, Scale
<1>5. (raw * d) * b = (raw * b) * d
  BY <1>1, SMT
<1>6. (raw * b + 1) * d <= a * d /\ (raw * b + 1) * d = (raw * b) * d + d
  <2> DEFINE v == raw * b
  <2>1. v \in Nat /\ v + 1 <= a
    BY <1>1, <1>3
  <2> HIDE DEF v
  <2>2. (v + 1) * d <= a * d
    BY <1>1, <2>1, Scale
  <2>3. (v + 1) * d = v * d + d
    BY <1>1, <2>1, SMT
  <2> QED BY <2>2, <2>3 DEF v
<1>7. (raw * b) * d \in Nat /\ (raw * d) * b \in Nat
  BY <1>1, <1>3, ProductType
<1> QED BY <1>1, <1>2, <1>3, <1>4, <1>5, <1>6, <1>7

\* A part of a row costs no more than the row.
LEMMA PartBelowWhole ==
  ASSUME TypeOK, NEW o \in Offers, Executable(o), NEW l \in Nat \ {0}
  PROVE  LimitedOut(o, l).gross \in Nat /\ LimitedOut(o, l).gross <= Prepared(o).gross
<1>1. InFeeOf(o) \in Rates
  BY FeesType
<1>2. /\ PartIn(o, l) \in Nat /\ PartIn(o, l) <= Prepared(o).in /\ Prepared(o).in \in Nat
      /\ LimitedOut(o, l).gross = RoundUp(PartIn(o, l), InFeeOf(o))
      /\ Prepared(o).gross = RoundUp(Prepared(o).in, InFeeOf(o))
  BY PartCost
<1> QED BY <1>1, <1>2, RoundUpMonotone, RoundUpRate

\* A part of a row, as a reverse pass takes it.
IsPart(o, take) == \E l \in Nat \ {0} : take = LimitedOut(o, l)

\* What a reverse pass takes that comes to out and costs more than is left: a
\* row is taken whole before the next one.
Planned(rev, out) ==
  /\ Sum(Outs(rev), Offers) = out /\ remainingIn < Sum(Costs(rev), Offers)
  /\ \A o \in Offers : rev[o] # NoTake => o \in Candidates /\ ~OwnCross(o) /\ IsPart(o, rev[o])
  /\ \A o, p \in Offers :
       rev[p] # NoTake /\ Before(o, p) /\ o \in Candidates /\ ~OwnCross(o) => rev[o] = Prepared(o)

\* A pass that takes the same of the rows that are not in S, and nothing of S.
AsPlanned(rev, S, t) == \A o \in Offers : t[o] = IF o \in S THEN NoTake ELSE rev[o]

\* A forward pass still does as the reverse pass did.
Follows(rev) ==
  /\ Planned(rev, want) /\ AsPlanned(rev, ahead, takes)
  /\ filled.out = Sum(Outs(takes), Offers) /\ filled.in = Sum(Costs(takes), Offers)

LEMMA PlannedStable ==
  ASSUME UNCHANGED <<book, ownerPays, intent, tiers>>, UNCHANGED remainingIn, NEW rev, NEW out, Planned(rev, out)
  PROVE  Planned(rev, out)'
<1>1. /\ \A o \in Offers : Prepared(o)' = Prepared(o) /\ (OwnCross(o)' <=> OwnCross(o))
      /\ \A o, p \in Offers : Before(o, p)' <=> Before(o, p)
      /\ Candidates' = Candidates
  BY PricesStable
<1>2. \A o \in Offers : IsPart(o, rev[o]) => IsPart(o, rev[o])'
  <2> SUFFICES ASSUME NEW o \in Offers, IsPart(o, rev[o]) PROVE IsPart(o, rev[o])'
    OBVIOUS
  <2>1. PICK l \in Nat \ {0} : rev[o] = LimitedOut(o, l)
    BY DEF IsPart
  <2>2. LimitedOut(o, l)' = LimitedOut(o, l)
    BY PricesStable
  <2> QED BY <2>1, <2>2 DEF IsPart
<1>3. Outs(rev)' = Outs(rev) /\ Costs(rev)' = Costs(rev)
  BY DEF Outs, Costs
<1>4. Sum(Outs(rev), Offers)' = Sum(Outs(rev), Offers) /\ Sum(Costs(rev), Offers)' = Sum(Costs(rev), Offers)
  BY <1>3
<1>5. (NoTake)' = NoTake
  BY DEF NoTake
<1> QED BY <1>1, <1>2, <1>4, <1>5 DEF Planned

LEMMA TakeOne ==
  ASSUME takes \in [Offers -> Take], NEW o \in Offers, takes[o] = NoTake, NEW take \in Take
  PROVE  /\ Sum(Outs([takes EXCEPT ![o] = take]), Offers) = Sum(Outs(takes), Offers) + take.out
         /\ Sum(Costs([takes EXCEPT ![o] = take]), Offers) = Sum(Costs(takes), Offers) + take.gross
BY TakeAdds

\* While a forward pass does as the reverse pass did it takes no more; where it
\* cannot, next to nothing is left.
LEMMA FollowForward ==
  ASSUME Given, OneFee, CrossingInv, VisitInv, phase = "forward", TakeForward,
         filled.out <= remainingOut, want <= remainingOut,
         NEW rev \in [Offers -> Take], Follows(rev)
  PROVE  /\ filled'.out <= remainingOut
         /\ \/ Crumb(ahead', filled'.out, filled'.in)
            \/ /\ AsPlanned(rev, ahead', takes') /\ filled'.out = Sum(Outs(takes'), Offers)
               /\ filled'.in = Sum(Costs(takes'), Offers)
<1>1. PICK o : o = Best(ahead)
  OBVIOUS
<1>2. /\ o \in Offers /\ o \in ahead /\ o \in Candidates /\ Executable(o) /\ ~OwnCross(o)
      /\ InFeeOf(o) = InFee /\ ahead' = ahead \ {o} /\ takes[o] = NoTake
      /\ Left \in Nat \ {0} /\ Left = remainingIn - filled.in /\ filled.in <= remainingIn
      /\ filled.in \in Nat /\ filled.out \in Nat /\ remainingIn \in Nat /\ want \in Nat
      /\ Prepared(o) \in Take
  BY <1>1, ForwardCases
<1>3. \/ /\ Left < Prepared(o).gross /\ LimitedIn(o, Left, RoundsUp) = NoTake
         /\ UNCHANGED <<takes, filled>>
      \/ filled'.out = want /\ filled'.in = remainingIn
      \/ /\ Left < Prepared(o).gross /\ filled'.in = remainingIn
         /\ filled'.out = filled.out + LimitedIn(o, Left, RoundsUp).out
      \/ /\ Prepared(o).gross <= Left /\ takes' = [takes EXCEPT ![o] = Prepared(o)]
         /\ filled'.out = filled.out + Prepared(o).out
         /\ filled'.in = filled.in + Prepared(o).gross
  BY <1>1, ForwardCases
<1>4. /\ TypeOK /\ remainingOut \in Nat /\ RawAfter(remainingIn) = 0 /\ takes \in [Offers -> Take]
      /\ ahead \subseteq Candidates /\ ahead \subseteq Offers
  BY <1>2, SpentBuysNothing DEF CrossingInv, TypeOK, VisitInv, Passes
<1>5. Prepared(o).out \in Nat \ {0} /\ Prepared(o) # NoTake
  BY <1>2, <1>4, PartCost DEF NoTake
<1>6. \A p \in ahead : p = o \/ Before(o, p)
  <2>1. \E q \in ahead : Leads(q, ahead)
    BY <1>2, <1>4, LeaderExists DEF TypeOK
  <2>2. Leads(o, ahead)
    BY <1>1, <2>1 DEF Best
  <2> QED BY <2>2 DEF Leads
<1>7. rev[o] # Prepared(o) => \A p \in ahead \ {o} : rev[p] = NoTake
  BY <1>2, <1>4, <1>6 DEF Follows, Planned
<1>8. \A p \in Offers : takes[p] = IF p \in ahead THEN NoTake ELSE rev[p]
  BY DEF Follows, AsPlanned
<1>9. /\ Sum(Outs(rev), Offers) = want /\ remainingIn < Sum(Costs(rev), Offers)
      /\ filled.out = Sum(Outs(takes), Offers) /\ filled.in = Sum(Costs(takes), Offers)
  BY DEF Follows, Planned
<1>10. /\ \A p \in Offers : Outs(rev)[p] \in Nat /\ Costs(rev)[p] \in Nat
       /\ Sum(Outs(rev), Offers) \in Nat /\ Sum(Costs(rev), Offers) \in Nat
  BY TakeParts, SumsType DEF Outs, Costs
<1>11. rev[o] # NoTake
  <2> SUFFICES ASSUME rev[o] = NoTake PROVE FALSE
    OBVIOUS
  <2>1. \A p \in Offers : takes[p] = rev[p]
    BY <1>5, <1>7, <1>8
  <2>2. \A p \in Offers : Costs(rev)[p] = Costs(takes)[p]
    BY <2>1 DEF Costs
  <2>3. Sum(Costs(rev), Offers) = Sum(Costs(takes), Offers)
    BY <1>10, <2>2, OffersFinite, SumSame
  <2> QED BY <1>2, <1>9, <1>10, <2>3
<1>12. PICK l \in Nat \ {0} : rev[o] = LimitedOut(o, l)
  BY <1>2, <1>11 DEF Follows, Planned, IsPart
<1>13. rev[o] \in Take /\ rev[o].gross \in Nat /\ rev[o].out \in Nat
  BY <1>2, TakeParts
<1>14. PICK reached : reached = [takes EXCEPT ![o] = rev[o]]
  OBVIOUS
<1>15. /\ reached \in [Offers -> Take]
       /\ Sum(Outs(reached), Offers) = filled.out + rev[o].out
       /\ Sum(Costs(reached), Offers) = filled.in + rev[o].gross
  <2>1. PICK take \in Take : take = rev[o]
    BY <1>13
  <2> DEFINE v == [takes EXCEPT ![o] = take]
  <2>2. /\ Sum(Outs(v), Offers) = Sum(Outs(takes), Offers) + take.out
        /\ Sum(Costs(v), Offers) = Sum(Costs(takes), Offers) + take.gross
    BY <1>2, <1>4, TakeOne
  <2>3. v \in [Offers -> Take]
    BY <1>2, <1>4
  <2> QED BY <1>9, <1>14, <2>1, <2>2, <2>3
<1>16. \A p \in Offers : reached[p] = rev[p] \/ reached[p] = NoTake
  BY <1>4, <1>8, <1>14
<1>17. rev[o] # Prepared(o) => Left < rev[o].gross
  <2> SUFFICES ASSUME rev[o] # Prepared(o) PROVE Left < rev[o].gross
    OBVIOUS
  <2>1. \A p \in Offers : reached[p] = rev[p]
    BY <1>4, <1>7, <1>8, <1>14
  <2>2. \A p \in Offers : Costs(reached)[p] = Costs(rev)[p]
    BY <2>1 DEF Costs
  <2>3. Sum(Costs(rev), Offers) = Sum(Costs(reached), Offers)
    BY <1>10, <2>2, OffersFinite, SumSame
  <2> QED BY <1>2, <1>9, <1>10, <1>13, <1>15, <2>3
<1>18. filled.out + rev[o].out <= want
  <2>1. \A p \in Offers : Outs(reached)[p] \in Nat /\ Outs(reached)[p] <= Outs(rev)[p]
    <3> SUFFICES ASSUME NEW p \in Offers PROVE Outs(reached)[p] \in Nat /\ Outs(reached)[p] <= Outs(rev)[p]
      OBVIOUS
    <3>1. Outs(reached)[p] = reached[p].out /\ Outs(rev)[p] = rev[p].out /\ Outs(rev)[p] \in Nat
      BY <1>10 DEF Outs
    <3>2. reached[p] = NoTake => reached[p].out = 0
      BY DEF NoTake
    <3> QED BY <1>16, <3>1, <3>2
  <2>2. Sum(Outs(reached), Offers) <= Sum(Outs(rev), Offers)
    BY <1>10, <2>1, OffersFinite, SumMonotone
  <2> QED BY <1>9, <1>15, <2>2
<1>19. rev[o].out > 0
  <2>1. LimitedOut(o, l).out = AtMost(Prepared(o).out, l)
    BY <1>2, <1>4, LimitedOutType
  <2> QED BY <1>5, <1>12, <2>1, UnknownAssumption DEF AtMost
<1>20. CASE /\ Left < Prepared(o).gross /\ LimitedIn(o, Left, RoundsUp) = NoTake
            /\ UNCHANGED <<takes, filled>>
  <2>1. filled.out < remainingOut
    BY <1>2, <1>4, <1>13, <1>18, <1>19
  <2>2. RawAfter(filled.in) = RoundDown(Left, Flip(InFee))
    BY <1>2 DEF RawAfter
  <2> DEFINE raw == RawAfter(filled.in)
  <2>3. raw \in Nat /\ raw * Rate(o)[2] < Rate(o)[1]
    BY <1>2, <1>4, <1>20, <2>2, RestIsCrumb, RawType
  <2> HIDE DEF raw
  <2>4. \A p \in ahead' : raw * Rate(p)[2] < Rate(p)[1]
    <3> SUFFICES ASSUME NEW p \in ahead' PROVE raw * Rate(p)[2] < Rate(p)[1]
      OBVIOUS
    <3>1. p \in Offers /\ Before(o, p)
      BY <1>2, <1>4, <1>6
    <3>2. Rate(o) \in Rates /\ Rate(p) \in Rates
      BY <1>2, <1>4, <3>1, RowType
    <3>3. ~Cheaper(Rate(p), Rate(o))
      BY <3>1, <3>2, RateOrder, NoDearerTotal
    <3> QED BY <2>3, <3>2, <3>3, DearerToo
  <2>5. Crumb(ahead', filled'.out, filled'.in)
    BY <1>20, <2>1, <2>4 DEF Crumb, raw
  <2> QED BY <1>20, <2>5
<1>21. CASE filled'.out = want /\ filled'.in = remainingIn
  BY <1>4, <1>21 DEF Crumb
<1>22. CASE /\ Left < Prepared(o).gross /\ filled'.in = remainingIn
            /\ filled'.out = filled.out + LimitedIn(o, Left, RoundsUp).out
  <2> DEFINE got == LimitedIn(o, Left, RoundsUp).out
  <2>1. Left < LimitedOut(o, l).gross
    BY <1>12, <1>17, <1>22
  <2>2. got <= rev[o].out
    <3>1. Left \in Nat
      BY <1>2
    <3> QED BY <1>2, <1>4, <1>12, <2>1, <3>1, BuysNoMore
  <2>3. got \in Nat
    BY <1>2, <1>4, LimitedInType DEF Take
  <2> HIDE DEF got
  <2>4. filled'.out <= remainingOut
    BY <1>2, <1>4, <1>13, <1>18, <1>22, <2>2, <2>3 DEF got
  <2> QED BY <1>4, <1>22, <2>4 DEF Crumb
<1>23. CASE /\ Prepared(o).gross <= Left /\ takes' = [takes EXCEPT ![o] = Prepared(o)]
            /\ filled'.out = filled.out + Prepared(o).out
            /\ filled'.in = filled.in + Prepared(o).gross
  <2>1. rev[o] = Prepared(o)
    <3>1. LimitedOut(o, l).gross \in Nat /\ LimitedOut(o, l).gross <= Prepared(o).gross
      BY <1>2, <1>4, PartBelowWhole
    <3>2. Prepared(o).gross \in Nat
      BY <1>2 DEF Take
    <3>3. ~(Left < rev[o].gross)
      BY <1>2, <1>12, <1>23, <3>1, <3>2
    <3> QED BY <1>17, <3>3
  <2>2. takes' = reached
    BY <1>14, <1>23, <2>1
  <2>3. filled'.out = Sum(Outs(takes'), Offers) /\ filled'.in = Sum(Costs(takes'), Offers)
    BY <1>15, <1>23, <2>1, <2>2
  <2>4. AsPlanned(rev, ahead', takes')
    BY <1>2, <1>4, <1>8, <1>14, <2>2 DEF AsPlanned
  <2>5. filled'.out <= remainingOut
    BY <1>2, <1>4, <1>13, <1>18, <1>23, <2>1
  <2> QED BY <2>3, <2>4, <2>5
<1> QED BY <1>3, <1>20, <1>21, <1>22, <1>23

-----------------------------------------------------------------------------
(* A pass forward after the pool was drawn on in reverse *)

\* Nothing in the book is beyond the limit and still a candidate, where the pool
\* would offer all it has beside it.
FloorIsLimit == Pools = {Unknown} \/ ~FixAmm \/ \A i \in Intents : ~i.passive

\* What buys nothing of a pool is less than the share of a quantum in what it
\* asks for more.
LEMMA BuysNoQuantum ==
  ASSUME NEW p \in Pool, NEW in, NEW out, Fair(p, in, out), out > 0,
         NEW raw \in Nat, SwapOut(p, raw) = 0
  PROVE  raw * out < in
<1> DEFINE all == (p.y - 1) * Keep[1]
           rest == (p.y - out) * Keep[1]
           first == p.x * Keep[2]
<1>1. /\ in \in Nat /\ out \in Nat \ {0} /\ out < p.y /\ p.x \in Nat \ {0} /\ p.y \in Nat
      /\ p.y - 1 \in Nat \ {0} /\ p.y - out \in Nat /\ p.y - out <= p.y - 1 /\ 1 < p.y
  BY PoolParts DEF Fair
<1>2. all \in Nat \ {0} /\ rest \in Nat /\ rest <= all /\ first \in Nat
  <2>1. all \in Nat /\ rest \in Nat /\ first \in Nat
    BY <1>1, KeepParts, ProductType
  <2>2. rest <= all
    BY <1>1, KeepParts, Scale
  <2>3. all # 0
    BY <1>1, KeepParts, SMT
  <2> QED BY <2>1, <2>2, <2>3
<1>3. ~Fair(p, raw, 1)
  BY SwapOutLargest
<1>4. raw * all < first
  <2>1. ~((p.x * 1) * Keep[2] <= raw * all)
    BY <1>1, <1>3 DEF Fair
  <2>2. p.x * 1 = p.x /\ raw * all \in Nat
    BY <1>1, <1>2, ProductType
  <2> HIDE DEF all
  <2> QED BY <1>2, <2>1, <2>2
<1>5. first * out <= in * rest
  <2>1. (p.x * out) * Keep[2] <= in * rest
    BY DEF Fair
  <2>2. (p.x * out) * Keep[2] = first * out
    BY <1>1, KeepParts, SMT
  <2> QED BY <2>1, <2>2
<1> HIDE DEF all, rest, first
<1>6. in * rest <= in * all
  BY <1>1, <1>2, SMT
<1>7. (raw * all) * out < first * out
  <2> DEFINE u == raw * all
  <2>1. u \in Nat /\ u + 1 <= first
    BY <1>2, <1>4, ProductType
  <2> HIDE DEF u
  <2>2. (u + 1) * out <= first * out /\ (u + 1) * out = u * out + out
    BY <1>1, <1>2, <2>1, SMT
  <2>3. u * out \in Nat /\ first * out \in Nat
    BY <1>1, <1>2, <2>1, ProductType
  <2> QED BY <1>1, <2>2, <2>3 DEF u
<1>8. (raw * out) * all < in * all
  <2>1. (raw * all) * out = (raw * out) * all
    BY <1>1, <1>2, SMT
  <2>2. /\ (raw * out) * all \in Nat /\ in * all \in Nat /\ in * rest \in Nat /\ first * out \in Nat
    BY <1>1, <1>2, ProductType
  <2> QED BY <1>5, <1>6, <1>7, <2>1, <2>2
<1>9. raw * out \in Nat
  BY <1>1, ProductType
<1> QED BY <1>1, <1>2, <1>8, <1>9, Scale

\* A slice asks no more than its rate, and one against r no more than r.
AsksAtMost(s, r) == s # NoSlice => s.in * r[2] <= r[1] * s.out

LEMMA SliceAsks ==
  ASSUME NEW p \in Pool, NEW r \in Rates PROVE AsksAtMost(SliceAgainst(p, r, Unknown), r)
<1> DEFINE ItsRate(s) == s # NoSlice => s.rate = <<s.in, s.out>>
           built == BuiltFor(p, r, Start(p, r))
           s == SliceFor(p, r, Unknown)
           l == MaxSlice(p, Unknown)
<1>1. r[1] \in Nat /\ r[2] \in Nat
  BY RateParts
<1>2. \A out, in : ItsRate(AtItsRate(out, in))
  BY DEF AtItsRate, Slice, NoSlice
<1>3. \A start : ItsRate(Built(p, start))
  BY <1>2 DEF Built
<1>4. ItsRate(built)
  BY <1>3 DEF BuiltFor
<1> HIDE DEF built
<1>5. ASSUME s # NoSlice PROVE AsksAtMost(s, r)
  <2>1. CutTo(p, built, Unknown) = built
    BY DEF CutTo
  <2>2. s = Kept(p, r, built)
    BY <1>5, <2>1 DEF SliceFor, built
  <2>3. s = built /\ built # NoSlice /\ ~Cheaper(r, built.rate)
    BY <1>5, <2>2 DEF Kept, StaysWithin
  <2>4. ~(r[1] * built.out < built.in * r[2])
    BY <1>4, <2>3 DEF Cheaper
  <2>5. built.in \in Nat /\ built.out \in Nat
    <3>1. FairSlice(p, s)
      BY SliceForFair
    <3> QED BY <1>5, <2>3, <3>1 DEF FairSlice, Fair
  <2>6. r[1] * built.out \in Nat /\ built.in * r[2] \in Nat
    BY <1>1, <2>5, ProductType
  <2>7. built.in * r[2] <= r[1] * built.out
    BY <2>4, <2>6
  <2> QED BY <2>3, <2>7 DEF AsksAtMost
<1>6. ASSUME l # NoSlice, Cheaper(<<l.in, l.out>>, r) PROVE AsksAtMost(l, r)
  <2>1. l.in * r[2] < r[1] * l.out
    BY <1>6 DEF Cheaper
  <2>2. l.in \in Nat /\ l.out \in Nat
    BY <1>6, MaxSliceFair DEF FairSlice, Fair
  <2> HIDE DEF l
  <2>3. l.in * r[2] \in Nat /\ r[1] * l.out \in Nat
    BY <1>1, <2>2, ProductType
  <2> QED BY <2>1, <2>3 DEF AsksAtMost
<1>7. AsksAtMost(NoSlice, r)
  BY DEF AsksAtMost
<1> QED BY <1>5, <1>6, <1>7 DEF SliceAgainst, OrLargest

\* Where the input left buys nothing of a slice, it buys no quantum of an offer
\* that the slice is no dearer than.
LEMMA DryForward ==
  ASSUME TypeOK, pool \in Pool, NEW slice, slice # NoSlice, FairSlice(pool, slice),
         NEW r \in Rates, AsksAtMost(slice, r), NEW cap \in Nat \ {0},
         ~(UnderBudget(slice, cap).out > 0 /\ UnderBudget(slice, cap).in > 0)
  PROVE  RoundDown(remainingIn, Flip(InFee)) * r[2] < r[1]
<1> DEFINE out == AtMost(slice.out, cap)
           need == SwapIn(pool, out)
           raw == RoundDown(remainingIn, Flip(InFee))
           take == UnderBudget(slice, cap)
<1>1. /\ slice.in \in Nat \ {0} /\ slice.out \in Nat \ {0} /\ slice.out < pool.y /\ pool.y \in Nat
      /\ Fair(pool, slice.in, slice.out)
  BY PoolParts DEF FairSlice, Fair
<1>2. out \in 1 .. slice.out
  <2>1. AtMost(slice.out, cap) \in Nat /\ AtMost(slice.out, cap) <= slice.out /\ AtMost(slice.out, cap) # 0
    BY <1>1, AtMostBounds, UnknownAssumption DEF AtMost
  <2> QED BY <1>1, <2>1
<1>3. raw \in Nat /\ r[1] \in Nat \ {0} /\ r[2] \in Nat \ {0}
  BY FeesType, FlipType, RoundDownType, RateParts DEF TypeOK
<1>4. take = IF raw = 0 \/ need = 0 THEN NoPoolTake
             ELSE IF raw >= need THEN [out |-> out, in |-> need, gross |-> RoundUp(need, InFee)]
             ELSE [out |-> SwapOut(pool, raw), in |-> raw, gross |-> remainingIn]
  BY DEF UnderBudget
<1> HIDE DEF out
<1>5. need \in Nat \ {0}
  BY <1>1, <1>2, SwapInLess
<1> HIDE DEF need, raw, take
<1>6. ~(take.out > 0 /\ take.in > 0)
  BY DEF take
<1>7. CASE raw = 0
  <2>1. 0 * r[2] = 0
    BY <1>3
  <2> QED BY <1>3, <1>7, <2>1 DEF raw
<1>8. CASE raw # 0
  <2>1. ~(raw >= need)
    BY <1>1, <1>2, <1>4, <1>5, <1>6, <1>8
  <2>2. SwapOut(pool, raw) \in Nat /\ take.out = SwapOut(pool, raw) /\ take.in = raw
    BY <1>3, <1>4, <1>5, <1>8, <2>1, SwapOutLargest
  <2>3. SwapOut(pool, raw) = 0
    BY <1>3, <1>6, <1>8, <2>2
  <2>4. raw * slice.out < slice.in
    BY <1>1, <1>3, <2>3, BuysNoQuantum
  <2>5. slice.in * r[2] <= r[1] * slice.out
    BY DEF AsksAtMost
  <2> DEFINE b == slice.out
             a == slice.in
  <2>6. a \in Nat /\ b \in Nat \ {0} /\ raw * b + 1 <= a /\ raw * b \in Nat /\ a * r[2] <= r[1] * b
    BY <1>1, <1>3, <2>4, <2>5, ProductType
  <2> HIDE DEF a, b
  <2>7. (raw * b + 1) * r[2] <= a * r[2] /\ (raw * b + 1) * r[2] = (raw * b) * r[2] + r[2]
    <3> DEFINE u == raw * b
    <3>1. u \in Nat /\ u + 1 <= a
      BY <2>6
    <3> HIDE DEF u
    <3>2. (u + 1) * r[2] <= a * r[2] /\ (u + 1) * r[2] = u * r[2] + r[2]
      BY <1>3, <2>6, <3>1, SMT
    <3> QED BY <3>2 DEF u
  <2>8. (raw * b) * r[2] = (raw * r[2]) * b
    BY <1>3, <2>6, SMT
  <2>9. raw * r[2] \in Nat /\ (raw * r[2]) * b \in Nat /\ r[1] * b \in Nat /\ a * r[2] \in Nat
    BY <1>3, <2>6, ProductType
  <2>10. (raw * r[2]) * b < r[1] * b
    BY <1>3, <2>6, <2>7, <2>8, <2>9
  <2>11. ~(r[1] <= raw * r[2])
    <3>1. r[1] <= raw * r[2] => r[1] * b <= (raw * r[2]) * b
      BY <1>3, <2>6, <2>9, Scale
    <3> QED BY <2>9, <2>10, <3>1
  <2> QED BY <1>3, <2>9, <2>11 DEF raw
<1> QED BY <1>7, <1>8

\* What whole quanta of input bought in reverse costs less forward, and buys less
\* than was wanted.
LEMMA LessForward ==
  ASSUME TypeOK, pool \in Pool, NEW slice, slice # NoSlice, FairSlice(pool, slice), NEW cap \in Nat,
         NEW in \in Nat \ {0}, remainingIn < RoundUp(in, InFee),
         NEW wanted \in Nat, SwapOut(pool, in - 1) < wanted, UnderBudget(slice, cap).out > 0
  PROVE  UnderBudget(slice, cap).out < wanted
<1> DEFINE out == AtMost(slice.out, cap)
           need == SwapIn(pool, out)
           raw == RoundDown(remainingIn, Flip(InFee))
           take == UnderBudget(slice, cap)
<1>1. /\ slice.out \in Nat \ {0} /\ slice.out < pool.y /\ pool.y \in Nat /\ remainingIn \in Nat
      /\ InFee \in Rates /\ Fair(pool, slice.in, slice.out)
  BY PoolParts, FeesType DEF FairSlice, Fair, TypeOK
<1>2. out \in Nat /\ out <= slice.out
  BY <1>1, AtMostBounds
<1>3. raw \in Nat /\ RoundUp(raw, InFee) <= remainingIn /\ RoundUp(raw, InFee) \in Nat
  BY <1>1, FlipType, RoundDownType, UpOfDown, RoundUpRate
<1>4. take = IF raw = 0 \/ need = 0 THEN NoPoolTake
             ELSE IF raw >= need THEN [out |-> out, in |-> need, gross |-> RoundUp(need, InFee)]
             ELSE [out |-> SwapOut(pool, raw), in |-> raw, gross |-> remainingIn]
  BY DEF UnderBudget
<1> HIDE DEF out
<1>5. need > 0 => out \in 1 .. pool.y - 1
  BY DEF SwapIn
<1>6. need \in Nat
  BY SwapInPays
<1> HIDE DEF need, raw, take
<1>7. raw <= in - 1
  <2> SUFFICES ASSUME in <= raw PROVE FALSE
    BY <1>3
  <2>1. RoundUp(in, InFee) <= RoundUp(raw, InFee) /\ RoundUp(in, InFee) \in Nat
    BY <1>1, <1>3, RoundUpMonotone, RoundUpRate
  <2> QED BY <1>1, <1>3, <2>1
<1>8. SwapOut(pool, raw) \in Nat /\ SwapOut(pool, raw) < wanted
  <2>1. in - 1 \in Nat
    OBVIOUS
  <2>2. SwapOut(pool, raw) \in Nat /\ Fair(pool, raw, SwapOut(pool, raw))
    BY <1>3, SwapOutLargest
  <2>3. Fair(pool, in - 1, SwapOut(pool, raw))
    BY <1>3, <1>7, <2>1, <2>2, FairMore
  <2>4. SwapOut(pool, raw) <= SwapOut(pool, in - 1) /\ SwapOut(pool, in - 1) \in Nat
    BY <2>1, <2>2, <2>3, SwapOutLargest
  <2> QED BY <2>2, <2>4
<1>9. take.out > 0
  BY DEF take
<1>10. ~(raw = 0 \/ need = 0)
  BY <1>4, <1>9, NoPoolTakeType
<1>11. CASE raw >= need
  <2>1. take.out = out /\ out \in 1 .. pool.y - 1
    BY <1>4, <1>5, <1>6, <1>10, <1>11
  <2>2. out <= SwapOut(pool, raw)
    BY <1>3, <1>11, <2>1, SwapEnough DEF need
  <2> QED BY <1>2, <1>8, <2>1, <2>2 DEF take
<1>12. CASE ~(raw >= need)
  BY <1>4, <1>8, <1>10, <1>12 DEF take
<1> QED BY <1>11, <1>12

\* What a reverse pass has from the pool is what it wants at most, or what whole
\* quanta of input buy instead, where there is nothing in the book.
Beside == Tips = {} \/ SliceBeside(Rate(Best(Tips)), want) # NoSlice

Drawn ==
  /\ filled.out = poolTake.out /\ filled.in = RoundUp(poolTake.in, InFee) /\ poolTake.in > 0
  /\ filled.out <= want \/ (Tips = {} /\ SwapOut(pool, poolTake.in - 1) < want)
  /\ Beside

\* The output stays within the target but for the last quantum of a pool's input:
\* a round in reverse takes what it wants at most, and forward no more than in
\* reverse, or next to nothing more.
OnlyLastQuantum == total.out > Target => poolTake.out > 0 /\ WithoutLastQuantum < want

OutInv ==
  /\ OnlyLastQuantum
  /\ phase = "reverse" /\ poolTake = NoPoolTake =>
       /\ filled.out <= want
       /\ filled.out = Sum(Outs(takes), Offers) /\ filled.in = Sum(Costs(takes), Offers)
       /\ \A o \in Offers : takes[o] # NoTake => IsPart(o, takes[o])
  /\ phase = "reverse" /\ poolTake # NoPoolTake => Drawn
  /\ phase = "forward" =>
       /\ filled.out <= remainingOut
       /\ ahead = {} \/ (want <= remainingOut /\ (Crumby \/ \E rev \in [Offers -> Take] : Follows(rev)))

LEMMA FollowsStable ==
  ASSUME UNCHANGED <<book, ownerPays, intent, tiers>>, UNCHANGED <<remainingIn, want>>,
         NEW rev, Planned(rev, want), AsPlanned(rev, ahead', takes'),
         filled'.out = Sum(Outs(takes'), Offers), filled'.in = Sum(Costs(takes'), Offers)
  PROVE  Follows(rev)'
<1>1. PICK w : w = want
  OBVIOUS
<1>2. Planned(rev, w)'
  BY <1>1, PlannedStable
<1>3. want' = w
  BY <1>1
<1>4. Planned(rev, want)'
  BY <1>2, <1>3 DEF Planned
<1>5. AsPlanned(rev, ahead, takes)'
  BY DEF AsPlanned, NoTake
<1>6. Outs(takes)' = Outs(takes') /\ Costs(takes)' = Costs(takes')
  BY DEF Outs, Costs
<1> QED BY <1>4, <1>5, <1>6 DEF Follows

\* While something is wanted, the target is not reached.
LEMMA StillWanted ==
  ASSUME CrossingInv, WantedInv, phase \in Passes \cup {"round"}, remainingOut > 0
  PROVE  /\ total.out <= Target /\ total.out \in Nat /\ Target \in Nat /\ remainingOut \in Nat
         /\ remainingOut = Target - total.out
<1>1. total.out \in Nat /\ Target \in Nat /\ remainingOut \in Nat
  BY BudgetType DEF CrossingInv, TypeOK, Amount
<1>2. remainingOut = Target - total.out
  BY DEF WantedInv
<1> QED BY <1>1, <1>2

\* Steps that commit nothing.
LEMMA OverFrame ==
  ASSUME UNCHANGED <<book, ownerPays, intent>>, UNCHANGED total,
         OnlyLastQuantum, total.out <= Target \/ UNCHANGED <<pool, poolTake, want>>,
         total.out \in Nat, Target \in Nat
  PROVE  OnlyLastQuantum'
<1>1. Target' = Target
  BY OrderStable
<1>2. CASE total.out <= Target
  <2>1. ~(total'.out > Target')
    BY <1>1, <1>2
  <2> QED BY <2>1 DEF OnlyLastQuantum
<1>3. CASE UNCHANGED <<pool, poolTake, want>>
  <2>1. PoolBefore' = PoolBefore
    BY <1>3 DEF PoolBefore
  <2>2. WithoutLastQuantum' = WithoutLastQuantum
    BY <1>3, <2>1 DEF WithoutLastQuantum, SwapOut, RoundUp
  <2> QED BY <1>1, <1>3, <2>2 DEF OnlyLastQuantum
<1> QED BY <1>2, <1>3

\* Steps that are not of a reverse or forward pass.
LEMMA OutFrame ==
  ASSUME CrossingInv, OutInv, UNCHANGED <<book, ownerPays, intent>>, UNCHANGED total,
         total.out <= Target \/ UNCHANGED <<pool, poolTake, want>>, phase' \notin {"reverse", "forward"}
  PROVE  OutInv'
<1>1. total.out \in Nat /\ Target \in Nat
  BY BudgetType DEF CrossingInv, TypeOK, Amount
<1>2. OnlyLastQuantum'
  BY <1>1, OverFrame DEF OutInv
<1> QED BY <1>2 DEF OutInv

\* How a pass starts.
LEMMA PassBegins ==
  ASSUME NEW direction, NEW cap, StartPass(direction, cap)
  PROVE  LET take == PoolTakeOf(PoolSlice(cap), direction, cap)
         IN  /\ phase' = direction /\ want' = cap /\ takes' = NoTakes
             /\ \/ /\ take.out > 0 /\ take.in > 0 /\ ahead' = {}
                   /\ poolTake' = take /\ filled' = [out |-> take.out, in |-> take.gross]
                \/ ahead' = {} /\ poolTake' = NoPoolTake /\ filled' = Nothing
                \/ /\ ~(take.out > 0 /\ take.in > 0) /\ ahead' = Candidates
                   /\ poolTake' = NoPoolTake /\ filled' = Nothing
<1> DEFINE take == PoolTakeOf(PoolSlice(cap), direction, cap)
<1>1. phase' = direction /\ want' = cap /\ takes' = NoTakes /\ PassWith(PoolSlice(cap), take)
  BY DEF StartPass
<1> HIDE DEF take
<1>2. \/ /\ take.out > 0 /\ take.in > 0 /\ ahead' = {}
         /\ poolTake' = take /\ filled' = [out |-> take.out, in |-> take.gross]
      \/ ahead' = {} /\ poolTake' = NoPoolTake /\ filled' = Nothing
      \/ /\ ~(take.out > 0 /\ take.in > 0) /\ ahead' = Candidates
         /\ poolTake' = NoPoolTake /\ filled' = Nothing
  BY <1>1 DEF PassWith
<1> QED BY <1>1, <1>2 DEF take

LEMMA PoolSliceFair ==
  ASSUME TypeOK, NEW cap \in Nat, PoolSlice(cap) # NoSlice
  PROVE  pool \in Pool /\ PoolActive /\ FairSlice(pool, PoolSlice(cap))
<1>1. PoolActive
  BY DEF PoolSlice
<1>2. pool \in Pool
  BY <1>1, PoolType DEF PoolActive
<1>3. FairSlice(pool, NoSlice)
  BY DEF FairSlice
<1>4. CASE Tips = {}
  <2>1. SliceAlone(cap) = NoSlice \/ (\E c : SliceAlone(cap) = MaxSlice(pool, c))
        \/ (LimitRate # Unknown /\ SliceAlone(cap) = SliceFor(pool, LimitRate, cap))
    BY DEF SliceAlone
  <2>2. LimitRate # Unknown => LimitRate \in Rates
    BY BudgetType
  <2>3. FairSlice(pool, SliceAlone(cap))
    BY <1>2, <1>3, <2>1, <2>2, MaxSliceFair, SliceForFair
  <2> QED BY <1>1, <1>2, <1>4, <2>3 DEF PoolSlice
<1>5. CASE Tips # {}
  <2>1. PICK r : r = Rate(Best(Tips))
    OBVIOUS
  <2>2. r \in Rates
    BY <1>5, <2>1, BestIsCheapest DEF Tips
  <2>3. SliceBeside(r, cap) \in {NoSlice, MaxSlice(pool, cap), SliceAgainst(pool, r, Unknown)}
    BY DEF SliceBeside, IfNoDearer
  <2>4. FairSlice(pool, SliceBeside(r, cap))
    BY <1>2, <1>3, <2>2, <2>3, MaxSliceFair, SliceAgainstFair
  <2> QED BY <1>1, <1>2, <1>5, <2>1, <2>4 DEF PoolSlice
<1> QED BY <1>4, <1>5

LEMMA BesideStable ==
  ASSUME UNCHANGED <<book, ownerPays, intent, tiers>>, UNCHANGED pool,
         NEW cap, want' = cap, Tips = {} \/ SliceBeside(Rate(Best(Tips)), cap) # NoSlice
  PROVE  Beside'
<1>1. Tips' = Tips /\ Tips \subseteq Offers /\ \A r : TooDear(r)' <=> TooDear(r')
  BY TipsStable DEF Tips
<1>2. OfferCrossing' = OfferCrossing /\ (NoSlice)' = NoSlice
  BY DEF OfferCrossing, NoSlice
<1>3. PICK r : r = Rate(Best(Tips))
  OBVIOUS
<1>4. Rate(Best(Tips))' = r
  BY <1>1, <1>3 DEF Rate, Best, Leads, Before, Cheaper
<1>5. SliceBeside(r, cap)' = SliceBeside(r, cap)
  <2>1. TooDear(r)' <=> TooDear(r)
    BY <1>1
  <2> QED BY <1>2, <2>1 DEF SliceBeside, IfNoDearer
<1>6. SliceBeside(Rate(Best(Tips)), want)' = SliceBeside(r, cap)'
  BY <1>4 DEF SliceBeside
<1> QED BY <1>1, <1>2, <1>3, <1>5, <1>6 DEF Beside

LEMMA OutBegin ==
  ASSUME CrossingInv, WantedInv, OutInv, BeginRound PROVE OutInv'
<1>1. PICK cap : cap = LimitOut(PoolIsTip, InFee, remainingOut)
  OBVIOUS
<1>2. /\ phase = "round" /\ remainingOut > 0 /\ StartPass("reverse", cap)
      /\ UNCHANGED <<bookVars, intent, flowVars>>
  BY <1>1 DEF BeginRound, GoesOn
<1>3. PICK slice : slice = PoolSlice(cap)
  OBVIOUS
<1> DEFINE take == PoolTakeOf(slice, "reverse", cap)
<1>4. /\ phase' = "reverse" /\ want' = cap /\ takes' = NoTakes
      /\ \/ /\ take.out > 0 /\ take.in > 0
            /\ poolTake' = take /\ filled' = [out |-> take.out, in |-> take.gross]
         \/ poolTake' = NoPoolTake /\ filled' = Nothing
  BY <1>2, <1>3, PassBegins
<1>5. CrossingInv' /\ TypeOK /\ cap \in Nat
  <2>1. CrossingInv'
    BY BeginRoundInv
  <2> QED BY <1>4, <2>1 DEF CrossingInv, TypeOK
<1>6. total' = total /\ UNCHANGED <<book, ownerPays, intent, tiers>> /\ UNCHANGED pool
  BY <1>2 DEF bookVars, flowVars
<1>7. OnlyLastQuantum'
  <2>1. total.out <= Target /\ total.out \in Nat /\ Target \in Nat
    BY <1>2, StillWanted
  <2> QED BY <1>6, <2>1, OverFrame DEF OutInv
<1>8. (NoPoolTake)' = NoPoolTake /\ (NoTake)' = NoTake
  BY DEF NoPoolTake, NoTake
<1>9. CASE poolTake' = NoPoolTake /\ filled' = Nothing
  <2>1. Outs(takes)' = Outs(NoTakes) /\ Costs(takes)' = Costs(NoTakes)
    BY <1>4 DEF Outs, Costs
  <2>2. \A o \in Offers : takes'[o] = NoTake
    BY <1>4 DEF NoTakes
  <2>3. filled'.out = 0 /\ filled'.in = 0
    BY <1>9 DEF Nothing
  <2> QED BY <1>4, <1>5, <1>7, <1>8, <1>9, <2>1, <2>2, <2>3, NoTakesSums DEF OutInv
<1>10. CASE /\ take.out > 0 /\ take.in > 0
            /\ poolTake' = take /\ filled' = [out |-> take.out, in |-> take.gross]
  <2> DEFINE out == AtMost(slice.out, cap)
             whole == ~OfferCrossing /\ Tips = {}
  <2>1. slice # NoSlice
    BY <1>10, NoPoolTakeType DEF PoolTakeOf
  <2>2. pool \in Pool /\ PoolActive /\ FairSlice(pool, slice)
    BY <1>3, <1>5, <2>1, PoolSliceFair
  <2>3. take = ExactOut(slice, cap)
    BY <2>1 DEF PoolTakeOf
  <2>4. slice.out \in Nat /\ slice.in \in Nat /\ out \in Nat /\ out <= cap
    <3>1. slice.out \in Nat /\ slice.in \in Nat
      BY <2>1, <2>2 DEF FairSlice, Fair
    <3> QED BY <1>5, <3>1, AtMostBounds
  <2>5. /\ take.gross = RoundUp(take.in, InFee)
        /\ ~whole => take.out = out
        /\ whole => take.in = SwapIn(pool, out)
    BY <2>3 DEF ExactOut
  <2> HIDE DEF out, take
  <2>6. take.out <= cap \/ (Tips = {} /\ SwapOut(pool, take.in - 1) < cap)
    <3>1. CASE ~whole
      BY <2>4, <2>5, <3>1
    <3>2. CASE whole
      <4>1. take.in \in Nat
        BY <2>2, <2>5, <3>2, SwapInPays
      <4>2. out \in 1 .. pool.y - 1
        BY <1>10, <2>5, <3>2 DEF SwapIn
      <4>3. take.in - 1 \in Nat /\ take.in - 1 < SwapIn(pool, out)
        BY <1>10, <2>5, <3>2, <4>1
      <4>4. SwapOut(pool, take.in - 1) \in Nat /\ SwapOut(pool, take.in - 1) < out
        BY <2>2, <4>2, <4>3, SwapShort
      <4> QED BY <1>5, <2>4, <3>2, <4>4
    <3> QED BY <3>1, <3>2
  <2>7. Tips = {} \/ SliceBeside(Rate(Best(Tips)), cap) # NoSlice
    BY <1>3, <2>1, <2>2 DEF PoolSlice
  <2>8. Beside'
    BY <1>4, <1>6, <2>7, BesideStable
  <2>9. Tips' = Tips
    BY <1>6, TipsStable
  <2>10. filled'.out = poolTake'.out /\ filled'.in = RoundUp(poolTake'.in, InFee) /\ poolTake'.in > 0
    BY <1>10, <2>5
  <2>11. filled'.out <= want' \/ (Tips' = {} /\ SwapOut(pool', poolTake'.in - 1) < want')
    BY <1>4, <1>6, <1>10, <2>6, <2>9
  <2>12. Drawn'
    BY <2>8, <2>10, <2>11 DEF Drawn
  <2>13. poolTake' # NoPoolTake
    BY <1>10, NoPoolTakeType
  <2> QED BY <1>4, <1>7, <1>8, <2>12, <2>13 DEF OutInv
<1> QED BY <1>4, <1>9, <1>10

\* A pass that visits an offer has nothing from the pool.
LEMMA VisitKeeps ==
  ASSUME CrossingInv, WantedInv, RankInv, OutInv, Visit,
         UNCHANGED <<book, ownerPays, intent>>, UNCHANGED <<total, pool, poolTake, want>>
  PROVE  OnlyLastQuantum' /\ poolTake = NoPoolTake /\ (NoPoolTake)' = NoPoolTake
<1>1. phase \in Passes /\ ahead # {}
  BY DEF Visit, PassOpen
<1>2. poolTake = NoPoolTake
  BY <1>1 DEF RankInv
<1>3. total.out \in Nat /\ Target \in Nat
  BY BudgetType DEF CrossingInv, TypeOK, Amount
<1>4. OnlyLastQuantum'
  BY <1>3, OverFrame DEF OutInv
<1> QED BY <1>2, <1>4 DEF NoPoolTake

LEMMA OutDelete ==
  ASSUME CrossingInv, WantedInv, RankInv, OutInv, DeleteOwn PROVE OutInv'
<1>1. PICK o : o = Best(ahead)
  OBVIOUS
<1>2. /\ Visit /\ OwnCross(o) /\ ahead' = ahead \ {o}
      /\ UNCHANGED <<bookVars, intent, flowVars>> /\ UNCHANGED <<phase, takes, filled, want, poolTake>>
  BY <1>1 DEF DeleteOwn
<1>3. o \in ahead /\ o \in Offers /\ takes[o] = NoTake /\ TypeOK
  BY <1>1, <1>2, Visited
<1>4. /\ UNCHANGED <<book, ownerPays, intent, tiers>> /\ UNCHANGED <<remainingIn, remainingOut>>
      /\ UNCHANGED total /\ UNCHANGED pool
  BY <1>2 DEF bookVars, flowVars
<1>5. OnlyLastQuantum' /\ poolTake = NoPoolTake /\ (NoPoolTake)' = NoPoolTake
  BY <1>2, <1>3, <1>4, VisitKeeps
<1>6. ahead' \subseteq Offers
  BY <1>2, <1>3 DEF TypeOK
<1>7. CASE phase = "reverse"
  <2>1. Outs(takes)' = Outs(takes) /\ Costs(takes)' = Costs(takes) /\ (NoTake)' = NoTake
    BY <1>2 DEF Outs, Costs, NoTake
  <2>2. \A x \in Offers : IsPart(x, takes[x]) => IsPart(x, takes[x])'
    <3>1. \A x \in Offers : \A l : LimitedOut(x, l)' = LimitedOut(x, l')
      BY <1>4, PricesStable
    <3> QED BY <1>2, <3>1 DEF IsPart
  <2> QED BY <1>2, <1>4, <1>5, <1>7, <2>1, <2>2 DEF OutInv
<1>8. CASE phase = "forward"
  <2>1. want' <= remainingOut' /\ filled'.out <= remainingOut' /\ ahead # {}
    BY <1>2, <1>3, <1>4, <1>8 DEF OutInv
  <2>2. CASE Crumby
    <3>1. \A p \in ahead' : p \in ahead
      BY <1>2
    <3>2. Crumb(ahead', filled'.out, filled'.in)
      BY <1>2, <2>2, <3>1 DEF Crumby, Crumb
    <3>3. Crumby'
      BY <1>4, <1>6, <3>2, CrumbStable
    <3> QED BY <1>2, <1>4, <1>5, <1>8, <2>1, <3>3 DEF OutInv
  <2>3. CASE \E rev \in [Offers -> Take] : Follows(rev)
    <3>1. PICK rev \in [Offers -> Take] : Follows(rev)
      BY <2>3
    <3>2. rev[o] = NoTake
      BY <1>2, <1>3, <3>1 DEF Follows, Planned
    <3>3. AsPlanned(rev, ahead', takes')
      BY <1>2, <1>3, <3>1, <3>2 DEF Follows, AsPlanned
    <3>4. Follows(rev)'
      BY <1>2, <1>4, <3>1, <3>3, FollowsStable DEF Follows
    <3> QED BY <1>2, <1>4, <1>5, <1>8, <2>1, <3>4 DEF OutInv
  <2> QED BY <1>8, <2>1, <2>2, <2>3 DEF OutInv
<1>9. CASE phase \notin {"reverse", "forward"}
  BY <1>2, <1>4, <1>9, OutFrame
<1> QED BY <1>7, <1>8, <1>9

LEMMA OutReverse ==
  ASSUME CrossingInv, WantedInv, VisitInv, RankInv, OutInv, TakeReverse PROVE OutInv'
<1>1. PICK o : o = Best(ahead)
  OBVIOUS
<1>2. PICK take : take = LimitedOut(o, Left)
  OBVIOUS
<1>3. /\ Visit /\ phase = "reverse" /\ takes' = [takes EXCEPT ![o] = take]
      /\ filled' = [out |-> filled.out + take.out, in |-> filled.in + take.gross]
      /\ UNCHANGED <<bookVars, intent, flowVars>> /\ UNCHANGED <<phase, want, poolTake>>
  BY <1>1, <1>2 DEF TakeReverse
<1>4. o \in ahead /\ o \in Offers /\ takes[o] = NoTake /\ TypeOK /\ Left \in Nat \ {0} /\ takes \in [Offers -> Take]
  BY <1>1, <1>3, Visited DEF TypeOK
<1>16. OnlyLastQuantum' /\ poolTake = NoPoolTake /\ (NoPoolTake)' = NoPoolTake
  BY <1>3, VisitKeeps DEF bookVars, flowVars
<1>5. /\ filled.out <= want /\ want \in Nat /\ filled.out \in Nat /\ Left = want - filled.out
      /\ filled.out = Sum(Outs(takes), Offers) /\ filled.in = Sum(Costs(takes), Offers)
      /\ \A x \in Offers : takes[x] # NoTake => IsPart(x, takes[x])
  BY <1>3, <1>4, <1>16 DEF OutInv, TypeOK, Amount, Left
<1>6. Executable(o)
  BY <1>3, <1>4 DEF VisitInv, Passes, Candidates
<1>7. take \in Take /\ take.out = AtMost(Prepared(o).out, Left) /\ Prepared(o).out \in Nat
  BY <1>2, <1>4, <1>6, LimitedOutType, PartCost
<1>8. take.out \in Nat /\ take.out <= Left
  BY <1>4, <1>7, AtMostBounds
<1>9. filled'.out = filled.out + take.out /\ filled'.in = filled.in + take.gross
  BY <1>3
<1>10. filled'.out <= want'
  BY <1>3, <1>5, <1>8, <1>9
<1>11. Outs(takes)' = Outs([takes EXCEPT ![o] = take]) /\ Costs(takes)' = Costs([takes EXCEPT ![o] = take])
  BY <1>3 DEF Outs, Costs
<1>12. filled'.out = Sum(Outs(takes)', Offers) /\ filled'.in = Sum(Costs(takes)', Offers)
  <2> DEFINE v == [takes EXCEPT ![o] = take]
  <2>1. /\ Sum(Outs(v), Offers) = Sum(Outs(takes), Offers) + take.out
        /\ Sum(Costs(v), Offers) = Sum(Costs(takes), Offers) + take.gross
    BY <1>4, <1>7, TakeAdds
  <2> QED BY <1>5, <1>9, <1>11, <2>1
<1>13. UNCHANGED <<book, ownerPays, intent, tiers>>
  BY <1>3 DEF bookVars, flowVars
<1>14. (NoTake)' = NoTake
  BY DEF NoTake
<1>15. ASSUME NEW x \in Offers, takes'[x] # NoTake PROVE IsPart(x, takes[x])'
  <2>1. \A l : LimitedOut(x, l)' = LimitedOut(x, l')
    BY <1>13, PricesStable
  <2>2. PICK l \in Nat \ {0} : takes'[x] = LimitedOut(x, l)
    <3>1. CASE x = o
      BY <1>2, <1>3, <1>4, <3>1
    <3>2. CASE x # o
      <4>1. takes'[x] = takes[x]
        BY <1>3, <1>4, <3>2
      <4> QED BY <1>5, <1>15, <4>1 DEF IsPart
    <3> QED BY <3>1, <3>2
  <2>3. LimitedOut(x, l)' = LimitedOut(x, l)
    BY <2>1
  <2> QED BY <2>2, <2>3 DEF IsPart
<1> QED BY <1>3, <1>10, <1>12, <1>14, <1>15, <1>16 DEF OutInv

LEMMA OutForward ==
  ASSUME Given, OneFee, CrossingInv, WantedInv, VisitInv, RankInv, NearInv, OutInv, TakeForward PROVE OutInv'
<1>1. /\ Visit /\ phase \in {"forward", "fallback"} /\ ahead' \subseteq ahead
      /\ UNCHANGED <<bookVars, intent, flowVars>> /\ UNCHANGED <<phase, want, poolTake>>
  BY DEF TakeForward
<1>2. /\ UNCHANGED <<book, ownerPays, intent, tiers>> /\ UNCHANGED <<remainingIn, remainingOut>>
      /\ UNCHANGED total /\ UNCHANGED pool
  BY <1>1 DEF bookVars, flowVars
<1>3. OnlyLastQuantum' /\ ahead' \subseteq Offers /\ ahead # {}
  BY <1>1, <1>2, VisitKeeps DEF CrossingInv, TypeOK, Visit, PassOpen
<1>4. CASE phase = "fallback"
  BY <1>1, <1>2, <1>4, OutFrame
<1>5. CASE phase = "forward"
  <2>1. want <= remainingOut /\ filled.out <= remainingOut
    BY <1>3, <1>5 DEF OutInv
  <2>2. CASE Crumby
    <3>1. Crumb(ahead', filled'.out, filled'.in) /\ filled'.out <= remainingOut
      BY <1>5, <2>1, <2>2, CrumbyForward
    <3>2. Crumby'
      BY <1>2, <1>3, <3>1, CrumbStable
    <3> QED BY <1>1, <1>2, <1>3, <1>5, <2>1, <3>1, <3>2 DEF OutInv
  <2>3. CASE \E rev \in [Offers -> Take] : Follows(rev)
    <3>1. PICK rev \in [Offers -> Take] : Follows(rev)
      BY <2>3
    <3>2. /\ filled'.out <= remainingOut
          /\ \/ Crumb(ahead', filled'.out, filled'.in)
             \/ /\ AsPlanned(rev, ahead', takes') /\ filled'.out = Sum(Outs(takes'), Offers)
                /\ filled'.in = Sum(Costs(takes'), Offers)
      BY <1>5, <2>1, <3>1, FollowForward
    <3>3. CASE Crumb(ahead', filled'.out, filled'.in)
      <4>1. Crumby'
        BY <1>2, <1>3, <3>3, CrumbStable
      <4> QED BY <1>1, <1>2, <1>3, <1>5, <2>1, <3>2, <4>1 DEF OutInv
    <3>4. CASE /\ AsPlanned(rev, ahead', takes') /\ filled'.out = Sum(Outs(takes'), Offers)
               /\ filled'.in = Sum(Costs(takes'), Offers)
      <4>1. Planned(rev, want)
        BY <3>1 DEF Follows
      <4>2. Follows(rev)'
        BY <1>1, <1>2, <3>4, <4>1, FollowsStable
      <4>3. \E r \in [Offers -> Take] : Follows(r)'
        BY <4>2
      <4> QED BY <1>1, <1>2, <1>3, <1>5, <2>1, <3>2, <4>3 DEF OutInv, Take
    <3> QED BY <3>2, <3>3, <3>4
  <2> QED BY <1>3, <1>5, <2>2, <2>3 DEF OutInv
<1> QED BY <1>1, <1>4, <1>5

\* A pass of the book in reverse is what a pass of the book forward follows.
LEMMA TurnOfBook ==
  ASSUME CrossingInv, VisitInv, OutInv, phase = "reverse", poolTake = NoPoolTake, remainingIn < filled.in,
         UNCHANGED <<book, ownerPays, intent, tiers>>, UNCHANGED remainingIn,
         want' = filled.out, takes' = NoTakes, ahead' = Candidates, filled' = Nothing
  PROVE  \E rev \in [Offers -> Take] : Follows(rev)'
<1>1. PICK rev : rev = takes
  OBVIOUS
<1>2. PICK w : w = filled.out
  OBVIOUS
<1>3. /\ TypeOK /\ rev \in [Offers -> Take] /\ VisitInv
      /\ filled.out = Sum(Outs(rev), Offers) /\ filled.in = Sum(Costs(rev), Offers)
      /\ \A x \in Offers : rev[x] # NoTake => IsPart(x, rev[x])
  BY <1>1 DEF CrossingInv, TypeOK, OutInv
<1>4. \A x \in Offers : rev[x] # NoTake => x \in Taken /\ x \in Candidates /\ ~OwnCross(x)
  BY <1>1, <1>3 DEF VisitInv, Passes
<1>5. ASSUME NEW o \in Offers, NEW p \in Offers, rev[p] # NoTake, Before(o, p), o \in Candidates, ~OwnCross(o)
      PROVE  rev[o] = Prepared(o)
  <2>1. p \in Taken
    BY <1>4, <1>5
  <2>2. Passed(o)
    BY <1>3, <1>5, <2>1 DEF VisitInv, Passes
  <2> QED BY <1>1, <1>5, <2>2 DEF Passed
<1>6. Planned(rev, w)
  BY <1>2, <1>3, <1>4, <1>5 DEF Planned
<1>7. Planned(rev, w)'
  BY <1>6, PlannedStable
<1>8. Planned(rev, want)'
  BY <1>2, <1>7 DEF Planned
<1>9. AsPlanned(rev, ahead, takes)'
  <2>1. \A o \in Offers : takes'[o] = IF o \in ahead' THEN NoTake ELSE rev[o]
    BY <1>4 DEF NoTakes
  <2>2. (NoTake)' = NoTake
    BY DEF NoTake
  <2> QED BY <2>1, <2>2 DEF AsPlanned
<1>10. filled'.out = 0 /\ filled'.in = 0 /\ Outs(takes)' = Outs(NoTakes) /\ Costs(takes)' = Costs(NoTakes)
  BY DEF Nothing, Outs, Costs
<1>11. Follows(rev)'
  BY <1>8, <1>9, <1>10, NoTakesSums DEF Follows
<1> QED BY <1>3, <1>11

\* A pass of the pool in reverse leaves nothing for a pass of the book forward,
\* or no input that buys anything there.
LEMMA TurnOfPool ==
  ASSUME Given, FloorIsLimit, CrossingInv, WantedInv, phase = "reverse", poolTake # NoPoolTake, Drawn,
         NEW w \in Nat \ {0},
         LET take == PoolTakeOf(PoolSlice(w), "forward", w) IN ~(take.out > 0 /\ take.in > 0)
  PROVE  Candidates = {} \/ (Tips # {} /\ Crumb(Candidates, 0, 0))
<1>1. TypeOK /\ PoolActive /\ pool \in Pool /\ intent \in Intents /\ intent.kind \in {"payment", "sell", "buy"}
  BY PoolType, IntentType DEF CrossingInv, TypeOK, PassInv, PoolActive, Passes, Intent, Given
<1>2. Candidates \subseteq Tips /\ Tips \in SUBSET Offers
  BY DEF Candidates, Tips
<1>3. CASE Tips = {}
  BY <1>2, <1>3
<1>4. CASE Tips # {}
  <2>1. PICK r : r = Rate(Best(Tips))
    OBVIOUS
  <2>2. \A o \in Tips : r \in Rates /\ o \in Offers /\ Rate(o) \in Rates /\ ~Cheaper(Rate(o), r)
    BY <1>1, <1>2, <2>1, BestIsCheapest, RowType
  <2>3. r \in Rates
    BY <1>4, <2>2
  <2>4. SliceBeside(r, want) # NoSlice /\ PoolSlice(w) = SliceBeside(r, w)
    BY <1>1, <1>4, <2>1 DEF Drawn, Beside, PoolSlice
  <2>5. CASE OfferCrossing /\ FixAmm /\ TooDear(r)
    <3>1. ~intent.passive
      <4>1. pool # Unknown
        BY <1>1 DEF PoolActive
      <4> QED BY <1>1, <2>5, <4>1 DEF FloorIsLimit, Given
    <3>2. \A o \in Tips : Cheaper(LimitRate, Rate(o))
      <4> TAKE o \in Tips
      <4>1. TooDear(Rate(o))
        BY <1>1, <2>2, <2>5, DearerIsTooDear
      <4> QED BY <3>1, <4>1 DEF TooDear
    <3>3. Candidates = {}
      BY <1>2, <2>5, <3>2 DEF Candidates
    <3> QED BY <3>3
  <2>6. CASE ~(OfferCrossing /\ FixAmm /\ TooDear(r))
    <3>1. PICK slice : slice = SliceAgainst(pool, r, Unknown)
      OBVIOUS
    <3>2. PoolSlice(w) = slice /\ slice # NoSlice
      BY <2>4, <2>6, <3>1 DEF SliceBeside, IfNoDearer
    <3>3. AsksAtMost(slice, r) /\ FairSlice(pool, slice)
      BY <1>1, <2>3, <3>1, SliceAsks, SliceAgainstFair
    <3>4. PoolTakeOf(slice, "forward", w) = UnderBudget(slice, w)
      BY <3>2 DEF PoolTakeOf
    <3>5. RoundDown(remainingIn, Flip(InFee)) * r[2] < r[1]
      BY <1>1, <2>3, <3>2, <3>3, <3>4, DryForward
    <3>6. RawAfter(0) = RoundDown(remainingIn, Flip(InFee)) /\ RawAfter(0) \in Nat
      <4>1. remainingIn \in Nat /\ remainingIn - 0 = remainingIn /\ 0 <= remainingIn
        BY <1>1 DEF TypeOK
      <4> QED BY <1>1, <4>1, RawType DEF RawAfter
    <3>7. \A o \in Candidates : RawAfter(0) * Rate(o)[2] < Rate(o)[1]
      BY <1>2, <2>2, <2>3, <3>5, <3>6, DearerToo
    <3>8. 0 < remainingOut
      BY DEF WantedInv, Passes
    <3> QED BY <1>4, <3>7, <3>8 DEF Crumb
  <2> QED BY <2>5, <2>6
<1> QED BY <1>3, <1>4

\* A round that costs too much in reverse is run forward, for what it found.
LEMMA OutTurn ==
  ASSUME Given, FloorIsLimit, CrossingInv, VisitInv, WantedInv, OutInv, RunForward PROVE OutInv'
<1>1. PICK w : w = filled.out
  OBVIOUS
<1>2. /\ phase = "reverse" /\ remainingIn < filled.in /\ filled.out > 0 /\ StartPass("forward", w)
      /\ UNCHANGED <<bookVars, intent, flowVars>>
  BY <1>1 DEF RunForward, BindsBudget
<1>3. PICK slice : slice = PoolSlice(w)
  OBVIOUS
<1> DEFINE take == PoolTakeOf(slice, "forward", w)
<1>4. /\ phase' = "forward" /\ want' = w /\ takes' = NoTakes
      /\ \/ /\ take.out > 0 /\ take.in > 0 /\ ahead' = {}
            /\ poolTake' = take /\ filled' = [out |-> take.out, in |-> take.gross]
         \/ ahead' = {} /\ poolTake' = NoPoolTake /\ filled' = Nothing
         \/ /\ ~(take.out > 0 /\ take.in > 0) /\ ahead' = Candidates
            /\ poolTake' = NoPoolTake /\ filled' = Nothing
  BY <1>2, <1>3, PassBegins
<1> HIDE DEF take
<1>5. /\ UNCHANGED <<book, ownerPays, intent, tiers>> /\ UNCHANGED <<remainingIn, remainingOut>>
      /\ UNCHANGED <<total, pool>>
  BY <1>2 DEF bookVars, flowVars
<1>6. TypeOK /\ w \in Nat \ {0} /\ want \in Nat /\ remainingOut \in Nat /\ want <= remainingOut
  BY <1>1, <1>2 DEF CrossingInv, TypeOK, Amount, WantedInv
<1>7. OnlyLastQuantum'
  <2>1. remainingOut > 0
    BY <1>2 DEF WantedInv, Passes
  <2>2. total.out <= Target /\ total.out \in Nat /\ Target \in Nat
    BY <1>2, <2>1, StillWanted DEF Passes
  <2> QED BY <1>5, <2>2, OverFrame DEF OutInv
<1>8. ASSUME take.out > 0, take.in > 0 PROVE take.out <= remainingOut
  <2>1. slice # NoSlice
    BY <1>8, NoPoolTakeType DEF PoolTakeOf, take
  <2>2. pool \in Pool /\ FairSlice(pool, slice)
    BY <1>3, <1>6, <2>1, PoolSliceFair
  <2>3. take.out \in Nat /\ take.out <= w
    <3>1. take.out \in 0 .. slice.out /\ take.out <= w
      BY <1>6, <1>8, <2>1, <2>2, TakeWithin DEF take
    <3>2. slice.out \in Nat
      BY <2>1, <2>2 DEF FairSlice, Fair
    <3> QED BY <3>1, <3>2
  <2>4. CASE w <= want
    BY <1>6, <2>3, <2>4
  <2>5. CASE ~(w <= want)
    <3>1. poolTake # NoPoolTake
      BY <1>1, <1>2, <2>5 DEF OutInv
    <3>2. SwapOut(pool, poolTake.in - 1) < want /\ filled.in = RoundUp(poolTake.in, InFee) /\ poolTake.in > 0
      BY <1>1, <1>2, <2>5, <3>1 DEF OutInv, Drawn
    <3>3. poolTake.in \in Nat \ {0}
      BY <1>6, <3>2 DEF TypeOK, PoolTake
    <3>4. take = UnderBudget(slice, w)
      BY <2>1 DEF PoolTakeOf, take
    <3>5. take.out < want
      BY <1>2, <1>6, <1>8, <2>1, <2>2, <3>2, <3>3, <3>4, LessForward
    <3> QED BY <1>6, <2>3, <3>5
  <2> QED BY <2>4, <2>5
<1>9. CASE ahead' = {}
  <2>1. filled'.out <= remainingOut'
    BY <1>4, <1>5, <1>6, <1>8 DEF Nothing
  <2> QED BY <1>4, <1>7, <1>9, <2>1 DEF OutInv
<1>10. CASE /\ ~(take.out > 0 /\ take.in > 0) /\ ahead' = Candidates /\ filled' = Nothing
  <2>1. filled'.out <= remainingOut' /\ filled'.out = 0 /\ filled'.in = 0
    BY <1>5, <1>6, <1>10 DEF Nothing
  <2>2. CASE poolTake = NoPoolTake
    <3>1. w <= want
      BY <1>1, <1>2, <2>2 DEF OutInv
    <3>2. want' <= remainingOut'
      BY <1>4, <1>5, <1>6, <3>1
    <3>3. \E rev \in [Offers -> Take] : Follows(rev)'
      BY <1>1, <1>2, <1>4, <1>5, <1>10, <2>2, TurnOfBook
    <3> QED BY <1>4, <1>7, <2>1, <3>2, <3>3 DEF OutInv, Take
  <2>3. CASE poolTake # NoPoolTake
    <3>1. Drawn
      BY <1>2, <2>3 DEF OutInv
    <3>2. Candidates = {} \/ (Tips # {} /\ Crumb(Candidates, 0, 0))
      BY <1>2, <1>3, <1>6, <1>10, <2>3, <3>1, TurnOfPool DEF take
    <3>3. CASE Candidates = {}
      BY <1>9, <1>10, <3>3
    <3>4. CASE Tips # {} /\ Crumb(Candidates, 0, 0)
      <4>1. want' <= remainingOut'
        BY <1>1, <1>4, <1>5, <1>6, <3>1, <3>4 DEF Drawn
      <4>2. Candidates \subseteq Offers
        BY DEF Candidates
      <4>3. Crumby'
        BY <1>5, <1>10, <2>1, <3>4, <4>2, CrumbStable
      <4> QED BY <1>4, <1>7, <2>1, <4>1, <4>3 DEF OutInv
    <3> QED BY <3>2, <3>3, <3>4
  <2> QED BY <2>2, <2>3
<1> QED BY <1>4, <1>9, <1>10

\* What a round took from the pool is what it left less.
LEMMA PoolAgain ==
  ASSUME CrossingInv, phase \in Passes, poolTake # NoPoolTake, UNCHANGED poolTake,
         pool' = Filled(pool, poolTake.in, poolTake.out)
  PROVE  PoolBefore' = pool
<1>1. PoolActive /\ TypeOK
  BY DEF CrossingInv, PassInv
<1>2. pool \in Pool /\ poolTake.in \in Nat /\ poolTake.out \in Nat
  BY <1>1, PoolType DEF PoolActive, TypeOK, PoolTake
<1>3. PoolBefore' = [x |-> pool'.x - poolTake.in, y |-> pool'.y + poolTake.out]
  BY DEF PoolBefore
<1>4. pool'.x = pool.x + poolTake.in /\ pool'.y = pool.y - poolTake.out
  BY DEF Filled
<1>5. pool.x \in Nat /\ pool.y \in Nat /\ pool = [x |-> pool.x, y |-> pool.y]
  BY <1>2 DEF Pool
<1>6. pool'.x - poolTake.in = pool.x /\ pool'.y + poolTake.out = pool.y
  BY <1>2, <1>4, <1>5
<1> QED BY <1>3, <1>5, <1>6

\* What is committed was still wanted, or all of it but for a quantum's worth.
LEMMA OutCommit ==
  ASSUME CrossingInv, WantedInv, RankInv, OutInv, CommitRound PROVE OutInv'
<1>1. /\ phase \in Passes /\ filled.out > 0 /\ phase' = "round"
      /\ total' = [out |-> total.out + filled.out, in |-> total.in + filled.in]
      /\ UNCHANGED <<book, ownerPays, intent>> /\ UNCHANGED <<want, poolTake>>
      /\ poolTake # NoPoolTake => pool' = Filled(pool, poolTake.in, poolTake.out)
      /\ phase = "fallback" => filled.out <= remainingOut
  BY DEF CommitRound, Commits, Commit, EndPass, bookVars, passVars
<1>2. /\ filled.out \in Nat /\ want \in Nat /\ total.out \in Nat /\ Target \in Nat /\ remainingOut \in Nat
      /\ remainingOut = Target - total.out /\ total'.out = total.out + filled.out
  <2>1. remainingOut > 0
    BY <1>1 DEF WantedInv
  <2> QED BY <1>1, <2>1, StillWanted DEF CrossingInv, TypeOK, Amount
<1>3. Target' = Target
  BY <1>1, OrderStable
<1>4. CASE filled.out <= remainingOut
  <2>1. ~(total'.out > Target')
    BY <1>2, <1>3, <1>4
  <2> QED BY <1>1, <2>1 DEF OutInv, OnlyLastQuantum
<1>5. CASE ~(filled.out <= remainingOut)
  <2>1. phase = "reverse" /\ want <= remainingOut
    BY <1>1, <1>5 DEF OutInv, WantedInv, Passes
  <2>2. ~(filled.out <= want)
    BY <1>2, <1>5, <2>1
  <2>3. poolTake # NoPoolTake
    BY <2>1, <2>2 DEF OutInv
  <2>4. SwapOut(pool, poolTake.in - 1) < want /\ poolTake.out > 0
    BY <1>1, <2>1, <2>2, <2>3 DEF OutInv, Drawn
  <2>5. PoolBefore' = pool
    BY <1>1, <2>3, PoolAgain
  <2>6. WithoutLastQuantum' = SwapOut(pool, poolTake.in - 1)
    BY <1>1, <2>5 DEF WithoutLastQuantum, SwapOut, RoundUp
  <2>7. OnlyLastQuantum'
    BY <1>1, <2>4, <2>6 DEF OnlyLastQuantum
  <2> QED BY <1>1, <2>7 DEF OutInv
<1> QED BY <1>4, <1>5

LEMMA OutStep ==
  ASSUME Given, OneFee, FloorIsLimit, CrossingInv, VisitInv, WantedInv, RankInv, NearInv, OutInv, [Next]_vars
  PROVE  OutInv'
<1>1. CASE Allocate \/ BeginFlow \/ StopFlow \/ EndFlow \/ Settle
  <2>1. /\ UNCHANGED <<book, ownerPays, intent>> /\ UNCHANGED total /\ UNCHANGED <<pool, poolTake, want>>
        /\ phase' \notin {"reverse", "forward"}
    BY <1>1 DEF Allocate, AllocateRow, BeginFlow, StopFlow, EndFlow, Settle, bookVars, flowVars, passVars
  <2> QED BY <2>1, OutFrame
<1>2. CASE RunFallback
  <2>1. /\ UNCHANGED <<book, ownerPays, intent>> /\ UNCHANGED total /\ phase' = "fallback"
        /\ phase \in Passes
    BY <1>2 DEF RunFallback, EndPass, StartPass, bookVars, flowVars
  <2>2. total.out <= Target
    BY <2>1, StillWanted DEF WantedInv
  <2> QED BY <2>1, <2>2, OutFrame
<1>3. CASE BeginRound
  BY <1>3, OutBegin
<1>4. CASE DeleteOwn
  BY <1>4, OutDelete
<1>5. CASE TakeReverse
  BY <1>5, OutReverse
<1>6. CASE TakeForward
  BY <1>6, OutForward
<1>7. CASE RunForward
  BY <1>7, OutTurn
<1>8. CASE CommitRound
  BY <1>8, OutCommit
<1>9. CASE UNCHANGED vars
  <2>1. /\ UNCHANGED <<book, ownerPays, intent, tiers>> /\ UNCHANGED <<remainingIn, remainingOut>>
        /\ UNCHANGED <<total, pool>> /\ UNCHANGED <<phase, ahead, takes, filled, want, poolTake>>
    BY <1>9 DEF vars, bookVars, flowVars, passVars
  <2>2. OnlyLastQuantum' /\ (NoPoolTake)' = NoPoolTake /\ ahead \subseteq Offers /\ takes \in [Offers -> Take]
    <3>1. total.out \in Nat /\ Target \in Nat
      BY BudgetType DEF CrossingInv, TypeOK, Amount
    <3> QED BY <2>1, <3>1, OverFrame DEF OutInv, NoPoolTake, CrossingInv, TypeOK
  <2>3. Crumby => Crumby'
    BY <2>1, <2>2, CrumbStable DEF Crumby
  <2>4. (\E rev \in [Offers -> Take] : Follows(rev)) => \E rev \in [Offers -> Take] : Follows(rev)'
    <3> SUFFICES ASSUME NEW rev \in [Offers -> Take], Follows(rev) PROVE Follows(rev)'
      OBVIOUS
    <3> QED BY <2>1, FollowsStable DEF Follows
  <2>5. Outs(takes)' = Outs(takes) /\ Costs(takes)' = Costs(takes) /\ (NoTake)' = NoTake
    BY <2>1 DEF Outs, Costs, NoTake
  <2>6. \A x \in Offers : IsPart(x, takes[x]) => IsPart(x, takes[x])'
    <3>1. \A x \in Offers : \A l : LimitedOut(x, l)' = LimitedOut(x, l')
      BY <2>1, PricesStable
    <3> QED BY <2>1, <3>1 DEF IsPart
  <2>7. Drawn => Drawn'
    <3>1. PICK cap : cap = want
      OBVIOUS
    <3>2. Beside => Beside'
      BY <2>1, <3>1, BesideStable DEF Beside
    <3>3. Tips' = Tips
      BY <2>1, TipsStable
    <3> QED BY <2>1, <3>2, <3>3 DEF Drawn, SwapOut, RoundUp
  <2>8. CASE phase = "reverse"
    BY <2>1, <2>2, <2>5, <2>6, <2>7, <2>8 DEF OutInv
  <2>9. CASE phase = "forward"
    BY <2>1, <2>2, <2>3, <2>4, <2>9 DEF OutInv, Take
  <2>10. CASE phase \notin {"reverse", "forward"}
    BY <2>1, <2>2, <2>10 DEF OutInv
  <2> QED BY <2>8, <2>9, <2>10
<1> QED BY <1>1, <1>2, <1>3, <1>4, <1>5, <1>6, <1>7, <1>8, <1>9 DEF Next, Pass

LEMMA OutInit == ASSUME Ready PROVE OutInv
<1>1. TypeOK /\ total = Nothing /\ phase = "allocate"
  BY CrossingInit DEF Ready, Begins, CrossingInv
<1>2. Target \in Nat
  BY <1>1, BudgetType
<1>3. ~(total.out > Target)
  BY <1>1, <1>2 DEF Nothing
<1> QED BY <1>1, <1>3 DEF OutInv, OnlyLastQuantum

\* A flow keeps to both of its limits: it never delivers more than was asked for,
\* but for what the last quantum of input buys of a pool, not even when
\* run_payment_constrained_quote runs a round forward again, on a smaller budget,
\* with every amount rounded anew, and on the book after the pool.  Offers are
\* taken to ask no less than their quality does, and to pay one fee.
THEOREM NeverOverdelivers ==
  ASSUME FloorIsLimit, PricedAtQuality, OneFee PROVE Spec => []BudgetKept
<1>1. Init => Given /\ VisitInv /\ WantedInv /\ RankInv /\ NearInv /\ OutInv
  BY InitReady, GivenInit, VisitInit, WantedInit, RankInit, NearInit, OutInit
<1>2. Given /\ CrossingInv /\ VisitInv /\ WantedInv /\ RankInv /\ NearInv /\ OutInv /\ [Next]_vars
        => Given' /\ VisitInv' /\ WantedInv' /\ RankInv' /\ NearInv' /\ OutInv'
  BY GivenStep, VisitStep, WantedStep, RankStep, NearStep, OutStep
<1>3. CrossingInv /\ OutInv => BudgetKept
  BY DEF CrossingInv, BudgetInv, OutInv, OnlyLastQuantum, BudgetKept
<1> QED BY <1>1, <1>2, <1>3, CrossingInvariant, PTL DEF Spec
=============================================================================
