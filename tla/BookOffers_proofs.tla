-------------------------- MODULE BookOffers_proofs --------------------------
(***************************************************************************)
(* Proofs about BookOffers, for every number of offers, every fee and all  *)
(* amounts: the allocation is type correct and never promises a quantum of *)
(* an owner's funds twice.                                                 *)
(***************************************************************************)
EXTENDS BookOffers, Amounts_proofs

-----------------------------------------------------------------------------
(* Types *)

LEMMA FeeType == BookTypeOK => Fee \in Rates
<1>1. Parity \in Rates
  BY SMT DEF Parity, Rates
<1>2. OutFee \in Rates
  BY BookAssumption
<1> QED BY <1>1, <1>2 DEF Fee

LEMMA OfferType ==
  ASSUME BookTypeOK, NEW o \in Offers
  PROVE  /\ book[o] \in Offer /\ book[o].owner \in Accounts
         /\ book[o].rate \in Rates
         /\ book[o].gets \in Nat /\ book[o].pays \in Nat
         /\ book[o].fundedGets \in Nat \cup {Unknown}
         /\ book[o].fundedPays \in Nat \cup {Unknown}
<1>1. book \in [Offers -> Offer]
  BY DEF BookTypeOK, SnapshotBook
<1> QED BY <1>1 DEF Offer

\* What an offer gives with the funds left is an amount, within its own size,
\* and its owner can pay for it.
LEMMA EffectiveOutFits ==
  ASSUME BookTypeOK, NEW o \in Offers, NEW f \in Nat \cup {Unknown}
  PROVE  LET out == EffectiveOut(o, f)
         IN  /\ out \in Nat /\ out <= book[o].gets
             /\ Gives(out) \in Nat
             /\ f # Unknown => Gives(out) <= f
<1> DEFINE wants == AtMost(book[o].gets, book[o].fundedGets)
           out   == EffectiveOut(o, f)
<1>1. wants \in Nat /\ wants <= book[o].gets /\ book[o].gets \in Nat
  BY OfferType, AtMostType
<1>2. Spendable(f) \in Nat \cup {Unknown}
  BY FeeType, FlipType, RoundDownType DEF Spendable
<1>3. out = AtMost(wants, Spendable(f))
  BY DEF EffectiveOut
<1>4. out \in Nat /\ out <= wants /\ (Spendable(f) # Unknown => out <= Spendable(f))
  <2> HIDE DEF wants, out
  <2> QED BY <1>1, <1>2, <1>3, AtMostType
<1>5. out <= book[o].gets
  BY <1>1, <1>4, SMT
<1>6. Gives(out) \in Nat
  BY <1>4, FeeType, RoundDownType DEF Gives
<1>7. ASSUME f # Unknown PROVE Gives(out) <= f
  <2>1. Spendable(f) = RoundDown(f, Flip(Fee)) /\ f \in Nat
    BY <1>7 DEF Spendable
  <2>2. Spendable(f) \in Nat
    BY <2>1, FeeType, FlipType, RoundDownType
  <2>3. Spendable(f) # Unknown
    BY <2>2, UnknownAssumption
  <2>4. Gives(out) <= Gives(Spendable(f)) /\ Gives(Spendable(f)) \in Nat
    BY <1>4, <2>2, <2>3, FeeType, RoundDownMonotone, RoundDownType DEF Gives
  <2>5. Gives(Spendable(f)) <= f
    BY <2>1, FeeType, FeeRoundTrip DEF Gives
  <2> QED BY <1>6, <2>1, <2>4, <2>5, SMT
<1> QED BY <1>4, <1>5, <1>6, <1>7

LEMMA EffectiveInType ==
  ASSUME BookTypeOK, NEW o \in Offers, NEW out \in Nat
  PROVE  EffectiveIn(o, out) \in Nat
<1>1. AtMost(book[o].pays, book[o].fundedPays) \in Nat
  BY OfferType, AtMostType
<1>2. RoundDown(out, book[o].rate) \in Nat
  BY OfferType, RoundDownType
<1> QED BY <1>1, <1>2, AtMostType DEF EffectiveIn

LEMMA RemainingType ==
  ASSUME BookTypeOK, NEW f \in Nat \cup {Unknown}, NEW out \in Nat,
         Gives(out) \in Nat, f # Unknown => Gives(out) <= f
  PROVE  /\ Remaining(f, out) \in Nat \cup {Unknown}
         /\ f = Unknown <=> Remaining(f, out) = Unknown
         /\ f # Unknown => Remaining(f, out) = f - Gives(out)
<1>1. CASE f = Unknown
  BY <1>1 DEF Remaining
<1>2. CASE f # Unknown
  <2>1. f \in Nat
    BY <1>2
  <2>2. Remaining(f, out) = f - Gives(out) /\ f - Gives(out) \in Nat
    BY <1>2, <2>1, SMT DEF Remaining
  <2> QED BY <1>2, <2>2, UnknownAssumption
<1> QED BY <1>1, <1>2

\* What stays visible of an offer is an amount.
LEMMA ResidualType ==
  ASSUME BookTypeOK, NEW o \in Offers, NEW out \in Nat, NEW in \in Nat
  PROVE  /\ WholeResidual(o) \in [out : Nat, in : Nat]
         /\ CutResidual(o, out, in) \in [out : Nat, in : Nat]
<1>1. NoResidual \in [out : Nat, in : Nat]
  BY DEF NoResidual
<1>2. book[o].gets \in Nat /\ book[o].pays \in Nat
  BY OfferType
<1>3. WholeResidual(o) \in [out : Nat, in : Nat]
  BY <1>1, <1>2 DEF WholeResidual
<1>4. ASSUME out < book[o].gets, in < book[o].pays
      PROVE  [out |-> book[o].gets - out, in |-> book[o].pays - in] \in [out : Nat, in : Nat]
  BY <1>2, <1>4, SMT
<1>5. CutResidual(o, out, in) \in [out : Nat, in : Nat]
  BY <1>1, <1>4 DEF CutResidual
<1> QED BY <1>3, <1>5

\* One row of the allocation, with the values its LET names.
RowOf(o) ==
  LET owner == book[o].owner
      out   == EffectiveOut(o, purse[owner])
      in    == EffectiveIn(o, out)
  IN  /\ unsorted' = unsorted \ {o}
      /\ IF out > 0 /\ in > 0
           THEN /\ rows' = [rows EXCEPT ![o] = [out |-> out, in |-> in,
                                                funds |-> purse[owner]]]
                /\ residual' = [residual EXCEPT ![o] = CutResidual(o, out, in)]
                /\ purse' = [purse EXCEPT ![owner] = Remaining(@, out)]
           ELSE /\ residual' = [residual EXCEPT ![o] = WholeResidual(o)]
                /\ UNCHANGED <<rows, purse>>
      /\ UNCHANGED <<book, funds, ownerPays>>

LEMMA TypeStep ==
  ASSUME BookTypeOK, NEW o \in unsorted, RowOf(o)
  PROVE  BookTypeOK'
<1> DEFINE owner == book[o].owner
           out   == EffectiveOut(o, purse[owner])
           in    == EffectiveIn(o, out)
<1>1. o \in Offers /\ owner \in Accounts
  BY OfferType DEF BookTypeOK
<1>2. purse[owner] \in Nat \cup {Unknown}
  BY <1>1 DEF BookTypeOK
<1>3. out \in Nat /\ Gives(out) \in Nat /\ (purse[owner] # Unknown => Gives(out) <= purse[owner])
  BY <1>1, <1>2, EffectiveOutFits
<1>4. in \in Nat
  BY <1>1, <1>3, EffectiveInType
<1>5. Remaining(purse[owner], out) \in Nat \cup {Unknown}
  BY <1>2, <1>3, RemainingType
<1>6. /\ WholeResidual(o) \in [out : Nat, in : Nat]
      /\ CutResidual(o, out, in) \in [out : Nat, in : Nat]
  BY <1>1, <1>3, <1>4, ResidualType
<1>7. [out |-> out, in |-> in, funds |-> purse[owner]] \in Row
  BY <1>2, <1>3, <1>4 DEF Row
<1>8. CASE out > 0 /\ in > 0
  <2>1. /\ rows' = [rows EXCEPT ![o] = [out |-> out, in |-> in, funds |-> purse[owner]]]
        /\ residual' = [residual EXCEPT ![o] = CutResidual(o, out, in)]
        /\ purse' = [purse EXCEPT ![owner] = Remaining(@, out)]
        /\ unsorted' = unsorted \ {o} /\ UNCHANGED <<book, funds, ownerPays>>
    BY <1>8 DEF RowOf
  <2> HIDE DEF owner, out, in
  <2> QED BY <1>1, <1>5, <1>6, <1>7, <2>1 DEF BookTypeOK
<1>9. CASE ~(out > 0 /\ in > 0)
  <2>1. /\ residual' = [residual EXCEPT ![o] = WholeResidual(o)]
        /\ UNCHANGED <<rows, purse, book, funds, ownerPays>>
        /\ unsorted' = unsorted \ {o}
    BY <1>9 DEF RowOf
  <2> QED BY <1>1, <1>6, <2>1 DEF BookTypeOK
<1> QED BY <1>8, <1>9

\* A snapshot, any one there is, before its first row.
BookReady ==
  /\ book \in SnapshotBook /\ funds \in [Accounts -> Nat \cup {Unknown}] /\ ownerPays \in BOOLEAN
  /\ Unallocated

LEMMA BookInitReady == BookInit => BookReady
BY BookAssumption, SnapshotAssumption DEF BookInit, BookReady

LEMMA TypeInit == BookReady => BookTypeOK
<1>1. \A o \in Offers : NoRow \in Row /\ NoResidual \in [out : Nat, in : Nat]
  BY DEF NoRow, NoResidual, Row
<1> QED BY <1>1 DEF BookReady, Unallocated, BookTypeOK

\* AllocateRow works on one row, one that leads the rows not yet done.
LEMMA AllocatesOneRow ==
  AllocateRow => \E o \in unsorted : Leads(o, unsorted) /\ RowOf(o)
BY DEF AllocateRow, RowOf

\* The allocation only ever holds books, funds and rows of whole quanta: no
\* subtraction of build_clob_segments_from_offers goes below zero.
THEOREM AllocationTypeCorrect == BookSpec => []BookTypeOK
<1>1. BookTypeOK /\ [AllocateRow]_bookVars => BookTypeOK'
  <2>1. ASSUME BookTypeOK, AllocateRow PROVE BookTypeOK'
    BY <2>1, AllocatesOneRow, TypeStep
  <2>2. ASSUME BookTypeOK, UNCHANGED bookVars PROVE BookTypeOK'
    BY <2>2 DEF BookTypeOK, bookVars
  <2> QED BY <2>1, <2>2
<1> QED BY <1>1, BookInitReady, TypeInit, PTL DEF BookSpec

-----------------------------------------------------------------------------
(* Shares *)

Granted(o) == rows[o].out > 0 /\ rows[o].funds # Unknown

\* Rows come out in book order, and only rows already done have anything.
InBookOrder ==
  /\ \A o \in Offers \ unsorted, p \in unsorted : Before(o, p)
  /\ \A o \in unsorted : rows[o].out = 0

\* The purse is the part of an owner's funds below everything it has granted.
PurseBelow ==
  /\ \A a \in Accounts : purse[a] # Unknown => funds[a] # Unknown /\ purse[a] <= funds[a]
  /\ \A o \in Offers : Granted(o) =>
       /\ purse[book[o].owner] # Unknown
       /\ purse[book[o].owner] <= rows[o].funds - Gives(rows[o].out)

AllocationInv == BookTypeOK /\ InBookOrder /\ PurseBelow /\ SharesDisjoint

\* The book is in a total order ...
LEMMA BeforeTransitive ==
  ASSUME BookTypeOK, NEW o \in Offers, NEW p \in Offers, NEW q \in Offers, Before(o, p), Before(p, q)
  PROVE  Before(o, q)
<1> DEFINE a == book[o].rate
           b == book[p].rate
           c == book[q].rate
<1>1. a \in Rates /\ b \in Rates /\ c \in Rates /\ o \in Nat /\ p \in Nat /\ q \in Nat
  BY OfferType, BookAssumption
<1>2. Cheaper(a, b) \/ (~Cheaper(b, a) /\ o < p)
  BY DEF Before
<1>3. Cheaper(b, c) \/ (~Cheaper(c, b) /\ p < q)
  BY DEF Before
<1> SUFFICES Cheaper(a, c) \/ (~Cheaper(c, a) /\ o < q)
  BY DEF Before
<1> HIDE DEF a, b, c
<1>4. ~Cheaper(b, a) /\ ~Cheaper(c, b)
  BY <1>1, <1>2, <1>3, NoDearerTotal
<1>5. ~Cheaper(c, a)
  BY <1>1, <1>4, NoDearerTransitive
<1>6. ASSUME ~Cheaper(a, c) PROVE o < q
  <2>1. ~Cheaper(a, b) /\ ~Cheaper(b, c)
    BY <1>1, <1>4, <1>6, NoDearerTransitive
  <2> QED BY <1>1, <1>2, <1>3, <2>1
<1> QED BY <1>5, <1>6

LEMMA BeforeTotal ==
  ASSUME BookTypeOK, NEW o \in Offers, NEW p \in Offers, o # p
  PROVE  Before(o, p) \/ Before(p, o)
<1>1. o \in Nat /\ p \in Nat /\ (o < p \/ p < o)
  BY BookAssumption
<1>2. book[o].rate \in Rates /\ book[p].rate \in Rates
  BY OfferType
<1> QED BY <1>1, <1>2, NoDearerTotal DEF Before

\* ... so some offer leads whatever is left of it.
LEMMA LeaderExists ==
  ASSUME BookTypeOK, NEW S \in SUBSET Offers, S # {}
  PROVE  \E o \in S : Leads(o, S)
<1> DEFINE P == {s \in SUBSET Offers : s # {} => \E o \in s : Leads(o, s)}
<1>1. ASSUME NEW s \in SUBSET Offers, \A x \in s : s \ {x} \in P PROVE s \in P
  <2> SUFFICES ASSUME s # {} PROVE \E o \in s : Leads(o, s)
    OBVIOUS
  <2>1. PICK x \in s : TRUE
    OBVIOUS
  <2>2. CASE s \ {x} = {}
    BY <2>1, <2>2 DEF Leads
  <2>3. CASE s \ {x} # {}
    <3>1. PICK o \in s \ {x} : Leads(o, s \ {x})
      BY <1>1, <2>3
    <3>2. CASE Before(o, x)
      BY <3>1, <3>2 DEF Leads
    <3>3. CASE Before(x, o)
      <4>1. ASSUME NEW p \in s \ {x} PROVE Before(x, p)
        BY <3>1, <3>3, BeforeTransitive DEF Leads
      <4> QED BY <4>1 DEF Leads
    <3> QED BY <3>2, <3>3, BeforeTotal
  <2> QED BY <2>2, <2>3
<1>2. \A s \in SUBSET Offers : s \in P
  <2> HIDE DEF P
  <2> QED BY <1>1, AllSubsets, BookAssumption
<1> QED BY <1>2

\* The order of the book is strict.
LEMMA BeforeStrict ==
  ASSUME BookTypeOK, NEW o \in Offers, NEW p \in Offers, Before(o, p)
  PROVE  ~Before(p, o)
<1> DEFINE a == book[o].rate[1] * book[p].rate[2]
           b == book[p].rate[1] * book[o].rate[2]
<1>1. a \in Nat /\ b \in Nat /\ o \in Nat /\ p \in Nat
  <2>1. /\ book[o].rate[1] \in Nat /\ book[o].rate[2] \in Nat
        /\ book[p].rate[1] \in Nat /\ book[p].rate[2] \in Nat
    BY OfferType DEF Rates
  <2> QED BY <2>1, BookAssumption, SMT
<1>2. a < b \/ (~(b < a) /\ o < p)
  BY DEF Before, Cheaper
<1>3. Before(p, o) => b < a \/ (~(a < b) /\ p < o)
  BY DEF Before, Cheaper
<1> HIDE DEF a, b
<1> QED BY <1>1, <1>2, <1>3, SMT

LEMMA InvInit == BookReady => AllocationInv
<1> SUFFICES ASSUME BookReady PROVE AllocationInv
  OBVIOUS
<1>1. BookTypeOK
  BY TypeInit
<1>2. \A o \in Offers : rows[o].out = 0
  BY DEF BookReady, Unallocated, NoRow
<1>3. InBookOrder
  BY <1>2 DEF BookReady, Unallocated, InBookOrder
<1>4. \A a \in Accounts : purse[a] # Unknown => funds[a] # Unknown /\ purse[a] <= funds[a]
  <2>1. \A a \in Accounts : purse[a] = funds[a] /\ purse[a] \in Nat \cup {Unknown}
    BY <1>1 DEF BookReady, Unallocated, BookTypeOK
  <2> QED BY <2>1, SMT
<1>5. \A o \in Offers : ~(rows[o].out > 0)
  BY <1>2, SMT
<1> QED BY <1>1, <1>3, <1>4, <1>5 DEF AllocationInv, PurseBelow, SharesDisjoint, Granted

\* Rows that are left alone keep their meaning.
LEMMA Unmoved ==
  ASSUME UNCHANGED <<book, funds, ownerPays>>
  PROVE  /\ \A x : Gives(x)' = Gives(x')
         /\ \A o, p \in Offers : Before(o, p)' <=> Before(o, p)
BY DEF Gives, RoundDown, Fee, Before, Cheaper, Parity

LEMMA InvStep ==
  ASSUME AllocationInv, NEW o \in unsorted, Leads(o, unsorted), RowOf(o)
  PROVE  AllocationInv'
<1> DEFINE owner == book[o].owner
           f     == purse[owner]
           out   == EffectiveOut(o, f)
           in    == EffectiveIn(o, out)
<1> USE DEF AllocationInv
<1>1. BookTypeOK'
  BY TypeStep
<1>2. /\ o \in Offers /\ owner \in Accounts /\ unsorted \subseteq Offers
      /\ f \in Nat \cup {Unknown}
      /\ unsorted' = unsorted \ {o} /\ UNCHANGED <<book, funds, ownerPays>>
  BY OfferType DEF BookTypeOK, RowOf
<1>3. \A x : Gives(x)' = Gives(x')
  BY <1>2, Unmoved
<1>4. \A p, q \in Offers : Before(p, q)' <=> Before(p, q)
  BY <1>2, Unmoved
<1>5. out \in Nat /\ Gives(out) \in Nat /\ (f # Unknown => Gives(out) <= f)
  BY <1>2, EffectiveOutFits
<1>6. \A p \in unsorted \ {o} : Before(o, p)
  BY DEF Leads
<1>7. CASE ~(out > 0 /\ in > 0)
  <2>1. UNCHANGED <<rows, purse>>
    BY <1>7 DEF RowOf
  <2>2. InBookOrder'
    BY <1>2, <1>4, <1>6, <2>1 DEF InBookOrder
  <2>3. \A p \in Offers : Granted(p)' <=> Granted(p)
    BY <2>1 DEF Granted
  <2>4. PurseBelow'
    BY <1>2, <1>3, <2>1, <2>3 DEF PurseBelow
  <2>5. SharesDisjoint'
    BY <1>2, <1>3, <1>4, <2>1 DEF SharesDisjoint
  <2> QED BY <1>1, <2>2, <2>4, <2>5
<1>8. CASE out > 0 /\ in > 0
  <2> DEFINE row == [out |-> out, in |-> in, funds |-> f]
  <2>1. rows' = [rows EXCEPT ![o] = row] /\ purse' = [purse EXCEPT ![owner] = Remaining(f, out)]
    BY <1>8 DEF RowOf
  <2>2. /\ rows'[o] = row
        /\ \A p \in Offers \ {o} : rows'[p] = rows[p]
    BY <1>2, <2>1 DEF BookTypeOK
  <2>3. /\ purse'[owner] = Remaining(f, out)
        /\ \A a \in Accounts \ {owner} : purse'[a] = purse[a]
    BY <1>2, <2>1 DEF BookTypeOK
  <2>4. /\ f = Unknown <=> purse'[owner] = Unknown
        /\ f # Unknown => purse'[owner] = f - Gives(out)
    BY <1>2, <1>5, <2>3, RemainingType
  <2>5. row.out = out /\ row.funds = f
    OBVIOUS
  <2> HIDE DEF row, out, in
  <2>6. InBookOrder'
    <3>1. \A p \in Offers \ unsorted', q \in unsorted' : Before(p, q)'
      BY <1>2, <1>4, <1>6 DEF InBookOrder
    <3>2. \A p \in unsorted' : rows'[p].out = 0
      BY <1>2, <2>2 DEF InBookOrder
    <3> QED BY <3>1, <3>2 DEF InBookOrder
  <2>7. \A p \in Offers \ {o} : Granted(p)' <=> Granted(p)
    BY <2>2 DEF Granted
  <2>8. f # Unknown => /\ f \in Nat /\ purse'[owner] \in Nat /\ purse'[owner] <= f
                       /\ funds[owner] # Unknown /\ f <= funds[owner]
    <3>1. ASSUME f # Unknown PROVE f \in Nat /\ purse'[owner] \in Nat /\ purse'[owner] <= f
      BY <1>2, <1>5, <2>4, <3>1, SMT
    <3>2. f # Unknown => funds[owner] # Unknown /\ f <= funds[owner]
      BY <1>2 DEF PurseBelow
    <3> QED BY <3>1, <3>2
  <2>9. \A p \in Offers : Granted(p) =>
          rows[p].funds \in Nat /\ Gives(rows[p].out) \in Nat
    BY FeeType, RoundDownType DEF Granted, BookTypeOK, Row, Gives
  <2>10. PurseBelow'
    <3>1. ASSUME NEW a \in Accounts, purse'[a] # Unknown
          PROVE  funds'[a] # Unknown /\ purse'[a] <= funds'[a]
      <4>1. CASE a # owner
        BY <1>2, <2>3, <3>1, <4>1 DEF PurseBelow
      <4>2. CASE a = owner
        <5>1. f # Unknown /\ funds' = funds
          BY <1>2, <2>4, <3>1, <4>2
        <5>2. funds[owner] \in Nat
          BY <1>2, <5>1, <2>8, BookAssumption DEF BookTypeOK
        <5> QED BY <2>8, <4>2, <5>1, <5>2, SMT
      <4> QED BY <4>1, <4>2
    <3>2. ASSUME NEW p \in Offers, Granted(p)'
          PROVE  /\ purse'[book'[p].owner] # Unknown
                 /\ purse'[book'[p].owner] <= rows'[p].funds - Gives(rows[p].out)'
      <4>1. CASE p = o
        <5>1. f # Unknown /\ rows'[p].funds = f /\ Gives(rows[p].out)' = Gives(out)
          BY <1>3, <2>2, <2>5, <3>2, <4>1 DEF Granted
        <5>2. purse'[owner] = f - Gives(out) /\ purse'[owner] # Unknown
          BY <2>4, <5>1
        <5> QED BY <1>2, <1>5, <2>8, <4>1, <5>1, <5>2, SMT
      <4>2. CASE p # o
        <5>1. /\ Granted(p) /\ rows'[p] = rows[p] /\ Gives(rows[p].out)' = Gives(rows[p].out)
              /\ book'[p].owner = book[p].owner
          BY <1>2, <1>3, <2>2, <2>7, <3>2, <4>2
        <5>2. /\ purse[book[p].owner] # Unknown
              /\ purse[book[p].owner] <= rows[p].funds - Gives(rows[p].out)
          BY <5>1 DEF PurseBelow
        <5>3. CASE book[p].owner # owner
          BY <2>3, <5>1, <5>2, <5>3, OfferType
        <5>4. CASE book[p].owner = owner
          <6>1. purse'[owner] # Unknown /\ purse'[owner] <= f /\ f \in Nat /\ purse'[owner] \in Nat
            BY <2>4, <2>8, <5>2, <5>4
          <6>2. f <= rows[p].funds - Gives(rows[p].out)
            BY <5>2, <5>4
          <6>3. rows[p].funds \in Nat /\ Gives(rows[p].out) \in Nat
            BY <2>9, <5>1
          <6>4. purse'[owner] <= rows[p].funds - Gives(rows[p].out)
            BY <6>1, <6>2, <6>3, SMT
          <6> QED BY <5>1, <5>4, <6>1, <6>4
        <5> QED BY <5>3, <5>4
      <4> QED BY <4>1, <4>2
    <3> QED BY <3>1, <3>2 DEF PurseBelow
  <2>11. SharesDisjoint'
    <3>1. ASSUME NEW p \in Offers, Granted(p)'
          PROVE  Gives(rows[p].out)' <= rows'[p].funds /\ rows'[p].funds <= funds'[book'[p].owner]
      <4>1. CASE p = o
        BY <1>2, <1>3, <1>5, <2>2, <2>5, <2>8, <3>1, <4>1 DEF Granted
      <4>2. CASE p # o
        <5>1. Granted(p) /\ rows'[p] = rows[p] /\ Gives(rows[p].out)' = Gives(rows[p].out)
          BY <1>3, <2>2, <2>7, <3>1, <4>2
        <5> QED BY <1>2, <5>1 DEF SharesDisjoint, Granted
      <4> QED BY <4>1, <4>2
    <3>2. ASSUME NEW p \in Offers, NEW q \in Offers, Granted(p)', rows'[q].out > 0,
                 book'[q].owner = book'[p].owner, Before(p, q)'
          PROVE  rows'[q].funds <= rows'[p].funds - Gives(rows[p].out)'
      <4>1. Before(p, q) /\ book[q].owner = book[p].owner /\ Gives(rows[p].out)' = Gives(rows'[p].out)
        BY <1>2, <1>3, <1>4, <3>2
      <4>2. CASE q = o
        <5>1. p # o
          BY <4>1, <4>2, BeforeStrict
        <5>2. Granted(p) /\ rows'[p] = rows[p]
          BY <2>2, <2>7, <3>2, <5>1
        <5>3. f <= rows[p].funds - Gives(rows[p].out)
          BY <4>1, <4>2, <5>2 DEF PurseBelow
        <5> QED BY <2>2, <2>5, <4>1, <4>2, <5>2, <5>3
      <4>3. CASE q # o /\ p = o
        <5>1. rows[q].out > 0
          BY <2>2, <3>2, <4>3
        <5>2. q \notin unsorted
          BY <5>1, SMT DEF InBookOrder
        <5>3. Before(q, o)
          BY <5>2 DEF InBookOrder
        <5> QED BY <1>2, <4>1, <4>3, <5>3, BeforeStrict
      <4>4. CASE q # o /\ p # o
        <5>1. Granted(p) /\ rows'[p] = rows[p] /\ rows'[q] = rows[q]
          BY <2>2, <2>7, <3>2, <4>4
        <5> QED BY <3>2, <4>1, <5>1 DEF SharesDisjoint, Granted
      <4> QED BY <4>2, <4>3, <4>4
    <3> QED BY <3>1, <3>2 DEF SharesDisjoint, Granted
  <2> QED BY <1>1, <2>6, <2>10, <2>11
<1> QED BY <1>7, <1>8

LEMMA InvInvariant == BookSpec => []AllocationInv
<1>1. AllocationInv /\ [AllocateRow]_bookVars => AllocationInv'
  <2>1. ASSUME AllocationInv, AllocateRow PROVE AllocationInv'
    BY <2>1, AllocatesOneRow, InvStep
  <2>2. ASSUME AllocationInv, UNCHANGED bookVars PROVE AllocationInv'
    <3>1. UNCHANGED <<book, funds, ownerPays>>
      BY <2>2 DEF bookVars
    <3>2. \A x : Gives(x)' = Gives(x')
      BY <3>1, Unmoved
    <3>3. \A p, q \in Offers : Before(p, q)' <=> Before(p, q)
      BY <3>1, Unmoved
    <3> QED BY <2>2, <3>2, <3>3 DEF AllocationInv, BookTypeOK, InBookOrder, PurseBelow,
                                    SharesDisjoint, Granted, bookVars
  <2> QED BY <2>1, <2>2
<1> QED BY <1>1, BookInitReady, InvInit, PTL DEF BookSpec

\* build_clob_segments_from_offers never promises a quantum of an owner's funds
\* to two rows, however many offers the owner has, in whatever order they are
\* listed, and whatever the transfer fee.
THEOREM SharesAreDisjoint == BookSpec => []SharesDisjoint
<1>1. AllocationInv => SharesDisjoint
  BY DEF AllocationInv
<1> QED BY <1>1, InvInvariant, PTL

-----------------------------------------------------------------------------
(* Purses *)

LEMMA OffersFinite == IsFiniteSet(Offers)
BY BookAssumption

\* Nothing gives nothing.
LEMMA GivesNothing == ASSUME BookTypeOK PROVE Gives(0) = 0
<1>1. Fee[1] \in Nat /\ Fee[2] \in Nat \ {0}
  BY FeeType, RateParts
<1>2. Gives(0) = (0 * Fee[1]) \div Fee[2] /\ 0 * Fee[1] = 0
  BY <1>1, SMT DEF Gives, RoundDown
<1> QED BY <1>1, <1>2, SMT

\* What an owner gave its rows and what is left of its purse are its funds.
PurseCovers ==
  \A a \in Accounts : funds[a] # Unknown =>
    /\ purse[a] # Unknown
    /\ purse[a] + Sum([o \in Offers |-> IF book[o].owner = a THEN Gives(rows[o].out) ELSE 0], Offers)
         = funds[a]

\* A new row is paid for out of the purse of its owner.
LEMMA PurseStep ==
  ASSUME AllocationInv, PurseCovers, NEW o \in unsorted, RowOf(o)
  PROVE  PurseCovers'
<1> DEFINE owner == book[o].owner
           f == purse[owner]
           out == EffectiveOut(o, f)
           in == EffectiveIn(o, out)
           row == [out |-> out, in |-> in, funds |-> f]
           Part(r, a) == [q \in Offers |-> IF book[q].owner = a THEN Gives(r[q].out) ELSE 0]
<1>1. /\ BookTypeOK /\ o \in Offers /\ owner \in Accounts /\ f \in Nat \cup {Unknown}
      /\ rows[o].out = 0 /\ purse \in [Accounts -> Nat \cup {Unknown}] /\ rows \in [Offers -> Row]
      /\ UNCHANGED <<book, funds, ownerPays>>
  BY OfferType DEF AllocationInv, BookTypeOK, InBookOrder, RowOf
<1>2. \A x : Gives(x)' = Gives(x')
  BY <1>1, Unmoved
<1>3. out \in Nat /\ Gives(out) \in Nat /\ (f # Unknown => Gives(out) <= f)
  BY <1>1, EffectiveOutFits
<1>4. \A q \in Offers : rows[q].out \in Nat /\ Gives(rows[q].out) \in Nat
  BY <1>1, FeeType, RoundDownType DEF Row, Gives
<1>5. Gives(rows[o].out) = 0
  BY <1>1, GivesNothing
<1>6. CASE ~(out > 0 /\ in > 0)
  <2>1. UNCHANGED <<rows, purse>>
    BY <1>6 DEF RowOf
  <2> QED BY <1>1, <1>2, <2>1 DEF PurseCovers
<1>7. CASE out > 0 /\ in > 0
  <2>1. /\ rows' = [rows EXCEPT ![o] = row] /\ purse' = [purse EXCEPT ![owner] = Remaining(f, out)]
    BY <1>7 DEF RowOf
  <2>2. /\ rows'[o].out = out /\ \A q \in Offers \ {o} : rows'[q] = rows[q]
        /\ purse'[owner] = Remaining(f, out) /\ \A a \in Accounts \ {owner} : purse'[a] = purse[a]
    BY <1>1, <2>1
  <2> HIDE DEF out, in, row
  <2>3. \A q \in Offers : Gives(rows'[q].out) \in Nat
    BY <1>3, <1>4, <2>2
  <2>4. ASSUME NEW a \in Accounts, funds[a] # Unknown
        PROVE  purse'[a] # Unknown /\ purse'[a] + Sum(Part(rows', a), Offers) = funds[a]
    <3> DEFINE g == Part(rows, a)
               h == Part(rows', a)
    <3>1. purse[a] # Unknown /\ purse[a] + Sum(g, Offers) = funds[a] /\ purse[a] \in Nat
      BY <1>1, <2>4 DEF PurseCovers
    <3>2. \A q \in Offers : g[q] \in Nat /\ h[q] \in Nat
      BY <1>4, <2>3
    <3>3. \A q \in Offers \ {o} : h[q] = g[q]
      BY <2>2
    <3>4. g[o] = 0 /\ h[o] = IF owner = a THEN Gives(out) ELSE 0
      BY <1>1, <1>5, <2>2
    <3> HIDE DEF g, h
    <3>5. /\ Sum(h, Offers) + g[o] = Sum(g, Offers) + h[o]
          /\ Sum(h, Offers) \in Nat /\ Sum(g, Offers) \in Nat
      <4>1. o \in Offers
        BY <1>1
      <4>2. Sum(h, Offers) + g[o] = Sum(g, Offers) + h[o]
        BY <3>2, <3>3, <4>1, OffersFinite, SumChange
      <4> QED BY <3>2, <4>2, OffersFinite, SumType
    <3>6. CASE owner = a
      <4>1. purse'[a] = purse[a] - Gives(out) /\ purse'[a] # Unknown
        <5>1. f # Unknown /\ Remaining(f, out) = f - Gives(out) /\ Remaining(f, out) # Unknown
          BY <1>1, <1>3, <3>1, <3>6, RemainingType
        <5> QED BY <2>2, <3>6, <5>1
      <4>2. Sum(h, Offers) = Sum(g, Offers) + Gives(out)
        BY <3>4, <3>5, <3>6
      <4>3. purse'[a] + Sum(h, Offers) = purse[a] + Sum(g, Offers)
        BY <1>3, <3>1, <3>5, <4>1, <4>2
      <4> QED BY <3>1, <4>1, <4>3 DEF h
    <3>7. CASE owner # a
      <4>1. purse'[a] = purse[a] /\ Sum(h, Offers) = Sum(g, Offers)
        BY <2>2, <3>4, <3>5, <3>7
      <4> QED BY <3>1, <4>1 DEF h
    <3> QED BY <3>6, <3>7
  <2>5. \A a \in Accounts :
          [q \in Offers |-> IF book[q].owner = a THEN Gives(rows[q].out) ELSE 0]' = Part(rows', a)
    BY <1>1, <1>2
  <2> QED BY <1>1, <2>4, <2>5 DEF PurseCovers
<1> QED BY <1>6, <1>7

LEMMA BookKept ==
  ASSUME AllocationInv, PurseCovers, UNCHANGED bookVars
  PROVE  AllocationInv' /\ PurseCovers'
<1>1. UNCHANGED <<book, funds, ownerPays, purse, unsorted, rows, residual>>
  BY DEF bookVars
<1>2. \A x : Gives(x)' = Gives(x')
  BY <1>1, Unmoved
<1>3. \A p, q \in Offers : Before(p, q)' <=> Before(p, q)
  BY <1>1, Unmoved
<1>4. AllocationInv'
  BY <1>1, <1>2, <1>3 DEF AllocationInv, BookTypeOK, InBookOrder, PurseBelow, SharesDisjoint, Granted
<1>5. PurseCovers'
  BY <1>1, <1>2 DEF PurseCovers
<1> QED BY <1>4, <1>5

\* At the start all funds are in the purse.
LEMMA PurseInit == BookReady => PurseCovers
<1> SUFFICES ASSUME BookReady, NEW a \in Accounts, funds[a] # Unknown
             PROVE  /\ purse[a] # Unknown
                    /\ purse[a] + Sum([o \in Offers |-> IF book[o].owner = a THEN Gives(rows[o].out) ELSE 0],
                                      Offers) = funds[a]
  BY DEF PurseCovers
<1> DEFINE f == [o \in Offers |-> IF book[o].owner = a THEN Gives(rows[o].out) ELSE 0]
<1>1. BookTypeOK /\ \A o \in Offers : rows[o].out = 0
  BY TypeInit DEF BookReady, Unallocated, NoRow
<1>2. \A o \in Offers : f[o] = 0
  BY <1>1, GivesNothing
<1> HIDE DEF f
<1>3. Sum(f, Offers) = 0
  BY <1>2, OffersFinite, SumZero
<1>4. purse[a] = funds[a] /\ funds[a] \in Nat
  BY <1>1 DEF BookReady, Unallocated, BookTypeOK
<1> QED BY <1>3, <1>4 DEF f

-----------------------------------------------------------------------------
(* Cuts *)

\* An owner's offers that come before this one.
BetterOf(o) == {p \in Offers : book[p].owner = book[o].owner /\ Before(p, o)}

\* What they leave of its funds.
Spared(o) == funds[book[o].owner] - Sum([p \in BetterOf(o) |-> Gives(rows[p].out)], BetterOf(o))

CutRight(o) ==
  funds[book[o].owner] # Unknown /\ rows[o].out < AtMost(book[o].gets, book[o].fundedGets) =>
    \/ Spendable(Spared(o)) <= rows[o].out
    \/ rows[o].out = 0 /\ EffectiveIn(o, EffectiveOut(o, Spared(o))) = 0

LEMMA CutParts == CutOnlyByBetter <=> \A o \in Offers \ unsorted : CutRight(o)
BY DEF CutOnlyByBetter, CutRight, Spared, BetterOf

\* When an offer is next, the purse is what the better ones left.
LEMMA PurseIsSpared ==
  ASSUME AllocationInv, PurseCovers, NEW o \in unsorted, funds[book[o].owner] # Unknown
  PROVE  purse[book[o].owner] = Spared(o) /\ purse[book[o].owner] \in Nat
<1> DEFINE a == book[o].owner
           all == [q \in Offers |-> IF book[q].owner = a THEN Gives(rows[q].out) ELSE 0]
           better == BetterOf(o)
           part == [p \in better |-> Gives(rows[p].out)]
<1>1. /\ BookTypeOK /\ o \in Offers /\ a \in Accounts /\ better \in SUBSET Offers
      /\ \A q \in Offers : rows[q].out \in Nat /\ Gives(rows[q].out) \in Nat
  BY OfferType, FeeType, RoundDownType DEF AllocationInv, BookTypeOK, Row, BetterOf, Gives
<1>2. purse[a] # Unknown /\ purse[a] + Sum(all, Offers) = funds[a]
  BY <1>1 DEF PurseCovers
<1>3. \A q \in Offers : all[q] \in Nat
  BY <1>1
<1>4. ASSUME NEW q \in Offers \ better PROVE all[q] = 0
  <2>1. CASE book[q].owner # a
    BY <2>1
  <2>2. CASE book[q].owner = a
    <3>1. ~Before(q, o)
      BY <1>4, <2>2 DEF BetterOf
    <3>2. rows[q].out = 0
      BY <1>1, <3>1 DEF AllocationInv, InBookOrder
    <3> QED BY <1>1, <3>2, GivesNothing
  <2> QED BY <2>1, <2>2
<1>5. \A q \in better : part[q] \in Nat /\ all[q] = part[q]
  BY <1>1 DEF BetterOf
<1>6. IsFiniteSet(better)
  BY <1>1, OffersFinite, FS_Subset
<1>7. Spared(o) = funds[a] - Sum(part, better)
  BY DEF Spared
<1> HIDE DEF all, part, better
<1>8. Sum(all, Offers) = Sum(all, better)
  BY <1>1, <1>3, <1>4, OffersFinite, SumPart
<1>9. Sum(all, better) = Sum(part, better) /\ Sum(part, better) \in Nat
  <2>1. Sum(part, better) = Sum(all, better)
    BY <1>5, <1>6, SumSame
  <2>2. Sum(part, better) \in Nat
    BY <1>5, <1>6, SumType
  <2> QED BY <2>1, <2>2
<1>10. purse[a] \in Nat
  BY <1>1, <1>2 DEF BookTypeOK
<1> QED BY <1>2, <1>7, <1>8, <1>9, <1>10

LEMMA CutStep ==
  ASSUME AllocationInv, PurseCovers, CutOnlyByBetter, NEW o \in unsorted, Leads(o, unsorted), RowOf(o)
  PROVE  CutOnlyByBetter'
<1> DEFINE owner == book[o].owner
           f == purse[owner]
           out == EffectiveOut(o, f)
           in == EffectiveIn(o, out)
           wants == AtMost(book[o].gets, book[o].fundedGets)
<1>1. /\ BookTypeOK /\ o \in Offers /\ owner \in Accounts /\ f \in Nat \cup {Unknown}
      /\ rows[o].out = 0 /\ rows \in [Offers -> Row] /\ unsorted' = unsorted \ {o} /\ unsorted \subseteq Offers
      /\ UNCHANGED <<book, funds, ownerPays>>
  BY OfferType DEF AllocationInv, BookTypeOK, InBookOrder, RowOf
<1>2. \A x : Gives(x)' = Gives(x')
  BY <1>1, Unmoved
<1>3. \A p, q \in Offers : Before(p, q)' <=> Before(p, q)
  BY <1>1, Unmoved
<1>4. \A p \in Offers \ {o} : rows'[p] = rows[p]
  BY <1>1 DEF RowOf
<1>5. ASSUME NEW q \in Offers
      PROVE  BetterOf(q)' = BetterOf(q)
  BY <1>1, <1>3, <1>5 DEF BetterOf
<1>6. ASSUME NEW q \in Offers, o \notin BetterOf(q)
      PROVE  Spared(q)' = Spared(q)
  <2>1. \A p \in BetterOf(q) : Gives(rows[p].out)' = Gives(rows[p].out)
    BY <1>2, <1>4, <1>6 DEF BetterOf
  <2>2. [p \in BetterOf(q) |-> Gives(rows[p].out)]' = [p \in BetterOf(q) |-> Gives(rows[p].out)]
    BY <1>5, <2>1
  <2> QED BY <1>1, <1>5, <2>2 DEF Spared
<1>7. \A q \in Offers : \A x : /\ Spendable(x)' = Spendable(x') /\ EffectiveOut(q, x)' = EffectiveOut(q, x')
                               /\ EffectiveIn(q, x)' = EffectiveIn(q, x')
  BY <1>1 DEF Spendable, EffectiveOut, EffectiveIn, AtMost, RoundDown, Flip, Fee, Parity
<1>8. ASSUME NEW q \in Offers, o \notin BetterOf(q), rows'[q] = rows[q], CutRight(q)
      PROVE  CutRight(q)'
  <2>1. Spared(q)' = Spared(q)
    BY <1>6, <1>8
  <2>2. /\ Spendable(Spared(q))' = Spendable(Spared(q))
        /\ EffectiveIn(q, EffectiveOut(q, Spared(q)))' = EffectiveIn(q, EffectiveOut(q, Spared(q)))
    BY <1>7, <2>1
  <2> QED BY <1>1, <1>8, <2>2 DEF CutRight, AtMost
<1>9. ASSUME NEW q \in Offers \ unsorted PROVE CutRight(q)'
  <2>1. q # o /\ Before(q, o) /\ CutRight(q)
    BY <1>1, CutParts DEF AllocationInv, InBookOrder
  <2>2. o \notin BetterOf(q)
    BY <1>1, <2>1, BeforeStrict DEF BetterOf
  <2> QED BY <1>4, <1>8, <2>1, <2>2
<1>10. CutRight(o)'
  <2> SUFFICES ASSUME funds[owner] # Unknown, rows'[o].out < wants
               PROVE  \/ Spendable(f) <= rows'[o].out
                      \/ rows'[o].out = 0 /\ EffectiveIn(o, EffectiveOut(o, f)) = 0
    <3>1. o \notin BetterOf(o)
      BY <1>1, BeforeStrict DEF BetterOf
    <3>2. Spared(o)' = Spared(o)
      BY <1>1, <1>6, <3>1
    <3>3. /\ Spendable(Spared(o))' = Spendable(Spared(o))
          /\ EffectiveIn(o, EffectiveOut(o, Spared(o)))' = EffectiveIn(o, EffectiveOut(o, Spared(o)))
      BY <1>1, <1>7, <3>2
    <3>4. funds[owner] # Unknown => f = Spared(o)
      BY PurseIsSpared
    <3> QED BY <1>1, <3>3, <3>4 DEF CutRight, AtMost
  <2>1. f \in Nat /\ Spendable(f) \in Nat /\ wants \in Nat
    <3>1. f \in Nat
      BY PurseIsSpared
    <3>2. wants \in Nat
      BY <1>1, OfferType, AtMostType
    <3>3. RoundDown(f, Flip(Fee)) \in Nat
      BY <1>1, <3>1, FeeType, FlipType, RoundDownType
    <3>4. Spendable(f) \in Nat
      <4>1. f # Unknown
        BY <3>1, UnknownAssumption
      <4> QED BY <3>3, <4>1 DEF Spendable
    <3> QED BY <3>1, <3>2, <3>4
  <2>2. out = AtMost(wants, Spendable(f)) /\ Spendable(f) # Unknown
    BY <2>1, UnknownAssumption DEF EffectiveOut
  <2>3. out \in Nat /\ (out < wants => out = Spendable(f))
    <3> HIDE DEF out, wants
    <3> QED BY <2>1, <2>2 DEF AtMost
  <2>4. in \in Nat
    <3> HIDE DEF out
    <3> QED BY <1>1, <2>3, EffectiveInType
  <2>5. CASE out > 0 /\ in > 0
    <3>1. rows'[o].out = out
      BY <1>1, <2>5 DEF RowOf
    <3> HIDE DEF out, wants
    <3> QED BY <2>1, <2>3, <3>1
  <2>6. CASE ~(out > 0 /\ in > 0)
    <3>1. rows'[o].out = 0
      BY <1>1, <2>6 DEF RowOf
    <3>2. out = 0 \/ in = 0
      <4> HIDE DEF out, in
      <4> QED BY <2>3, <2>4, <2>6
    <3>3. CASE out = 0
      <4> HIDE DEF out, wants
      <4> QED BY <2>1, <2>3, <3>1, <3>3
    <3>4. CASE in = 0
      BY <3>1, <3>4
    <3> QED BY <3>2, <3>3, <3>4
  <2> QED BY <2>5, <2>6
<1>11. \A q \in Offers \ unsorted' : CutRight(q)'
  BY <1>1, <1>9, <1>10
<1>12. CutOnlyByBetter' <=> \A q \in Offers \ unsorted' : CutRight(q)'
  BY DEF CutOnlyByBetter, CutRight, Spared, BetterOf
<1> QED BY <1>11, <1>12

\* Funds are given to the better offer first, and an offer gets all of what is
\* left that it can take, whatever the fee, the funded amounts and the ties.
THEOREM CutsAreByBetter == BookSpec => []CutOnlyByBetter
<1>1. BookInit => AllocationInv /\ PurseCovers /\ CutOnlyByBetter
  BY BookInitReady, InvInit, PurseInit DEF BookReady, Unallocated, CutOnlyByBetter
<1>2. AllocationInv /\ PurseCovers /\ CutOnlyByBetter /\ [AllocateRow]_bookVars
        => AllocationInv' /\ PurseCovers' /\ CutOnlyByBetter'
  <2>1. ASSUME AllocationInv, PurseCovers, CutOnlyByBetter, AllocateRow
        PROVE  AllocationInv' /\ PurseCovers' /\ CutOnlyByBetter'
    BY <2>1, AllocatesOneRow, InvStep, PurseStep, CutStep
  <2>2. ASSUME AllocationInv, PurseCovers, CutOnlyByBetter, UNCHANGED bookVars
        PROVE  AllocationInv' /\ PurseCovers' /\ CutOnlyByBetter'
    <3>1. UNCHANGED <<book, funds, ownerPays, purse, unsorted, rows>>
      BY <2>2 DEF bookVars
    <3>2. AllocationInv' /\ PurseCovers'
      BY <2>2, BookKept
    <3>3. CutOnlyByBetter'
      <4>1. (\A x : Gives(x)' = Gives(x')) /\ \A p, q \in Offers : Before(p, q)' <=> Before(p, q)
        BY <3>1, Unmoved
      <4>2. \A q \in Offers : BetterOf(q)' = BetterOf(q)
        BY <3>1, <4>1 DEF BetterOf
      <4>3. ASSUME NEW q \in Offers PROVE Spared(q)' = Spared(q)
        <5>1. [p \in BetterOf(q) |-> Gives(rows[p].out)]' = [p \in BetterOf(q) |-> Gives(rows[p].out)]
          BY <3>1, <4>1, <4>2
        <5> QED BY <3>1, <4>2, <5>1 DEF Spared
      <4>4. \A q \in Offers : CutRight(q)' = CutRight(q)
        BY <3>1, <4>3 DEF CutRight, Spendable, EffectiveOut, EffectiveIn, AtMost, RoundDown, Flip, Fee, Parity
      <4>5. CutOnlyByBetter' <=> \A q \in Offers \ unsorted' : CutRight(q)'
        BY DEF CutOnlyByBetter, CutRight, Spared, BetterOf
      <4> QED BY <2>2, <3>1, <4>4, <4>5, CutParts
    <3> QED BY <3>2, <3>3
  <2> QED BY <2>1, <2>2
<1> QED BY <1>1, <1>2, PTL DEF BookSpec
=============================================================================
