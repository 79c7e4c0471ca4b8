--------------------------- MODULE SingleFit_proofs ---------------------------
(***************************************************************************)
(* Proofs about the fit of one transaction: that a strict match tells the  *)
(* trade of every offer, and what account_offers promises of an owner.     *)
(***************************************************************************)
EXTENDS SingleFit, CrossingOrder_proofs

\* An account places no two offers with the same sequence number.
OwnSequences ==
  \A b \in Books : \A o, p \in Offers :
    o # p /\ b[o].owner = b[p].owner => Sequences[o] # Sequences[p]

-----------------------------------------------------------------------------
(* What an owner is promised *)

Own(a) == {o \in Offers : before[o].owner = a}

\* The amounts of the offers as account_offers lists them.
Listings(s) == [o \in Offers |-> ListedGets(s, o)]

Earlier(s, passed, o) ==
  {p \in Listed(s, before[o].owner) \ passed : Sequences[p] < Sequences[o]}

LEMMA OlderIs ==
  ASSUME NEW o \in Offers, before[o] \in Offer
  PROVE  before[o].gets + 1 \in Nat /\ Older(o).gets = before[o].gets + 1 /\ Older(o) \in Offer
<1> DEFINE here == before[o]
           g == here.gets + 1
           p == RoundUp(g, here.rate)
<1>1. g \in Nat /\ here.rate \in Rates /\ here \in Offer
  BY DEF Offer
<1>2. p \in Nat
  BY <1>1, RoundUpRate
<1>3. Older(o) = [here EXCEPT !.gets = g, !.pays = p]
  BY DEF Older
<1> HIDE DEF here, g, p
<1>4. Older(o).gets = g /\ Older(o) \in Offer
  BY <1>1, <1>2, <1>3 DEF Offer
<1> QED BY <1>1, <1>4 DEF g, here

LEMMA ListedType ==
  ASSUME before \in Books, NEW s, NEW o \in Offers
  PROVE  ListedGets(s, o) \in Nat
<1>1. before[o] \in Offer
  BY SnapshotAssumption DEF SnapshotBook
<1>2. before[o].gets \in Nat
  BY <1>1 DEF Offer
<1> QED BY <1>1, <1>2, OlderIs DEF ListedGets

LEMMA NotedType ==
  ASSUME BookTypeOK, NEW s, NEW a \in Accounts
  PROVE  Noted(s, a) \in Nat \cup {Unknown}
<1>1. funds[a] \in Nat \cup {Unknown}
  BY DEF BookTypeOK
<1> QED BY <1>1 DEF Noted

LEMMA LeftForIs ==
  ASSUME BookTypeOK, NEW s, NEW a \in Accounts, Noted(s, a) # Unknown, NEW used \in Nat
  PROVE  LeftFor(s, a, used) \in Nat /\ (LeftFor(s, a, used) = 0 \/ LeftFor(s, a, used) + used = Noted(s, a))
<1>1. Noted(s, a) \in Nat
  BY NotedType
<1> QED BY <1>1 DEF LeftFor

\* Of offers of one owner, one was placed last.
LEMMA LastPlaced ==
  ASSUME NEW S \in SUBSET Offers, S # {}
  PROVE  \E m \in S : \A o \in S : Sequences[o] <= Sequences[m]
<1> DEFINE HasLast(T) == T = {} \/ \E m \in T : \A o \in T : Sequences[o] <= Sequences[m]
           P == {T \in SUBSET Offers : HasLast(T)}
<1>1. \A o \in Offers : Sequences[o] \in Nat
  BY FitAssumption
<1>2. ASSUME NEW T \in SUBSET Offers, \A x \in T : T \ {x} \in P PROVE T \in P
  <2>1. CASE T = {}
    BY <2>1
  <2>2. CASE T # {}
    <3>1. PICK x \in T : TRUE
      BY <2>2
    <3>2. HasLast(T \ {x})
      BY <1>2, <3>1
    <3>3. CASE T \ {x} = {}
      BY <1>1, <3>1, <3>3
    <3>4. CASE T \ {x} # {}
      <4>1. PICK m \in T \ {x} : \A o \in T \ {x} : Sequences[o] <= Sequences[m]
        BY <3>2, <3>4
      <4>2. Sequences[m] \in Nat /\ Sequences[x] \in Nat /\ \A o \in T : Sequences[o] \in Nat
        BY <1>1, <3>1, <4>1
      <4>3. CASE Sequences[x] <= Sequences[m]
        <5>1. \A o \in T : Sequences[o] <= Sequences[m]
          BY <4>1, <4>3
        <5> QED BY <4>1, <5>1
      <4>4. CASE Sequences[m] <= Sequences[x]
        <5>1. \A o \in T : Sequences[o] <= Sequences[x]
          BY <4>1, <4>2, <4>4
        <5> QED BY <3>1, <5>1
      <4> QED BY <4>2, <4>3, <4>4
    <3> QED BY <3>3, <3>4
  <2> QED BY <2>1, <2>2
<1>3. S \in P
  <2> HIDE DEF P
  <2>1. IsFiniteSet(Offers) /\ \A T \in SUBSET Offers : (\A x \in T : T \ {x} \in P) => T \in P
    BY <1>2, BookAssumption
  <2> QED BY <2>1, AllSubsets
<1> QED BY <1>3

\* Which offers are passed over is well defined: what is left for an offer
\* depends only on those placed before it.
LEMMA PassedOverIs ==
  ASSUME NEW s, NEW a \in Accounts
  PROVE  /\ PassedOver(s, a) \in SUBSET Listed(s, a)
         /\ \A o \in Listed(s, a) :
              o \in PassedOver(s, a) <=> InBook(s, o) /\ Overlaid(s, o).gets < Funded(s, PassedOver(s, a), o)
<1> DEFINE L == Listed(s, a)
           Behind(Z, o) == InBook(s, o) /\ Overlaid(s, o).gets < Funded(s, Z, o)
           Told(T, Z) == \A o \in T : o \in Z <=> Behind(Z, o)
           P == {T \in SUBSET L : \E Z \in SUBSET T : Told(T, Z)}
<1>1. L \subseteq Offers /\ IsFiniteSet(L) /\ \A o \in L : before[o].owner = a /\ Sequences[o] \in Nat
  BY BookAssumption, FitAssumption, FS_Subset DEF Listed
<1>2. ASSUME NEW Y, NEW Z, NEW o \in L,
             \A p \in L : Sequences[p] < Sequences[o] => (p \in Y <=> p \in Z)
      PROVE  Behind(Y, o) <=> Behind(Z, o)
  <2>1. {p \in L \ Y : Sequences[p] < Sequences[o]} = {p \in L \ Z : Sequences[p] < Sequences[o]}
    BY <1>2
  <2>2. before[o].owner = a
    BY <1>1
  <2>3. FundsLeft(s, Y, o) = FundsLeft(s, Z, o)
    BY <2>1, <2>2 DEF FundsLeft
  <2>4. Funded(s, Y, o) = Funded(s, Z, o)
    BY <2>3 DEF Funded
  <2> QED BY <2>4
<1> HIDE DEF L, Behind
<1>3. ASSUME NEW T \in SUBSET L, \A x \in T : T \ {x} \in P PROVE T \in P
  <2>1. CASE T = {}
    BY <2>1
  <2>2. CASE T # {}
    <3>1. PICK m \in T : \A o \in T : Sequences[o] <= Sequences[m]
      BY <1>1, <2>2, LastPlaced
    <3>2. PICK Z \in SUBSET (T \ {m}) : Told(T \ {m}, Z)
      BY <1>3, <3>1
    <3> DEFINE W == IF Behind(Z, m) THEN Z \cup {m} ELSE Z
    <3>3. W \in SUBSET T /\ \A p \in L : p # m => (p \in W <=> p \in Z)
      BY <3>1, <3>2
    <3>4. ASSUME NEW o \in T PROVE Behind(W, o) <=> Behind(Z, o)
      <4>1. ~(Sequences[m] < Sequences[o])
        BY <1>1, <3>1
      <4>2. \A p \in L : Sequences[p] < Sequences[o] => (p \in W <=> p \in Z)
        BY <3>3, <4>1
      <4> HIDE DEF W
      <4> QED BY <1>2, <4>2
    <3>5. Told(T, W)
      <4> SUFFICES ASSUME NEW o \in T PROVE o \in W <=> Behind(W, o)
        OBVIOUS
      <4>1. CASE o = m
        BY <3>2, <3>4, <4>1
      <4>2. CASE o # m
        BY <3>2, <3>3, <3>4, <4>2
      <4> QED BY <4>1, <4>2
    <3> QED BY <3>3, <3>5
  <2> QED BY <2>1, <2>2
<1>4. L \in P
  <2> HIDE DEF P
  <2> QED BY <1>1, <1>3, AllSubsets
<1>5. \E Z \in SUBSET L : Told(L, Z)
  BY <1>4
<1> QED BY <1>5 DEF L, Behind, PassedOver

\* A cap is what is left of the owner's funds once the earlier offers have had
\* theirs, or less, and no more than the row has.
LEMMA CapIs ==
  ASSUME before \in Books, BookTypeOK, NEW s, NEW o \in Offers, ExternalCap(s, o) # Unknown
  PROVE  LET a      == before[o].owner
             passed == PassedOver(s, a)
             cap    == ExternalCap(s, o)
             used   == Sum(Listings(s), Earlier(s, passed, o))
         IN  /\ cap \in Nat /\ used \in Nat /\ Noted(s, a) \in Nat
             /\ cap <= Listings(s)[o]
             /\ cap = 0 \/ cap + used <= Noted(s, a)
             /\ o \in Listed(s, a) \ passed
             /\ Overlaid(s, o).gets \in Nat => cap <= Overlaid(s, o).gets
<1> DEFINE a == before[o].owner
           passed == PassedOver(s, a)
           used == Sum(Listings(s), Earlier(s, passed, o))
           left == FundsLeft(s, passed, o)
           cap == ExternalCap(s, o)
           all == Noted(s, a)
           g == ListedGets(s, o)
           has == Overlaid(s, o).gets
<1>1. a \in Accounts
  BY SnapshotAssumption DEF SnapshotBook, Offer
<1>2. /\ all # Unknown /\ InBook(s, o) /\ o \in Listed(s, a) \ passed
      /\ cap = Funded(s, passed, o)
  BY DEF ExternalCap
<1>3. all \in Nat
  BY <1>1, <1>2, NotedType
<1>4. \A p \in Offers : Listings(s)[p] = ListedGets(s, p) /\ ListedGets(s, p) \in Nat
  BY ListedType DEF Listings
<1>5. used \in Nat
  <2>1. Earlier(s, passed, o) \subseteq Offers /\ IsFiniteSet(Earlier(s, passed, o))
    BY BookAssumption, FS_Subset DEF Earlier, Listed
  <2> QED BY <1>4, <2>1, SumType
<1>6. left = LeftFor(s, a, used)
  BY DEF FundsLeft, Earlier, Listings
<1>7. cap = AtMost(g, left) /\ g \in Nat
  BY <1>2, <1>4 DEF Funded
<1>8. left \in Nat /\ (left = 0 \/ left + used = all)
  BY <1>1, <1>2, <1>5, <1>6, LeftForIs
<1>9. ~(has < Funded(s, passed, o))
  BY <1>1, <1>2, PassedOverIs
<1>10. ~(has < cap)
  BY <1>2, <1>9
<1>11. Listings(s)[o] = g
  BY <1>4
<1> HIDE DEF used, left, cap, all, g, has
<1>12. cap \in Nat /\ cap <= g /\ cap <= left
  BY <1>7, <1>8, AtMostBounds
<1>13. cap = 0 \/ cap + used <= all
  BY <1>3, <1>5, <1>8, <1>12
<1>14. has \in Nat => cap <= has
  BY <1>10, <1>12
<1> QED BY <1>2, <1>3, <1>5, <1>11, <1>12, <1>13, <1>14 DEF used, cap, all, has

\* What is promised for any of an owner's offers adds up to no more than the
\* funds noted for it.
LEMMA PromisesFit ==
  ASSUME before \in Books, BookTypeOK, OwnSequences, NEW s, NEW a \in Accounts, Noted(s, a) # Unknown,
         NEW cap, NEW S \in SUBSET Own(a), \A o \in S : cap[o] = ExternalCap(s, o) /\ cap[o] # Unknown
  PROVE  Sum(cap, S) <= Noted(s, a)
<1> DEFINE amt == Listings(s)
           f == Noted(s, a)
           E(m) == Earlier(s, PassedOver(s, a), m)
           P == {T \in SUBSET S : Sum(cap, T) <= f /\ Sum(cap, T) <= Sum(amt, T)}
<1>1. S \subseteq Offers /\ IsFiniteSet(S) /\ \A o \in S : before[o].owner = a
  BY BookAssumption, FS_Subset DEF Own
<1>2. \A o \in Offers : amt[o] \in Nat
  BY ListedType DEF Listings
<1>3. \A o \in S : /\ cap[o] \in Nat /\ cap[o] <= amt[o]
                   /\ cap[o] = 0 \/ cap[o] + Sum(amt, E(o)) <= f
                   /\ o \in Listed(s, a) \ PassedOver(s, a)
  BY <1>1, CapIs
<1>4. f \in Nat
  BY NotedType
<1> HIDE DEF amt, f
<1>5. ASSUME NEW T \in SUBSET S, \A x \in T : T \ {x} \in P PROVE T \in P
  <2>1. CASE T = {}
    <3>1. Sum(cap, T) = 0 /\ Sum(amt, T) = 0
      BY <2>1, SumEmpty
    <3> QED BY <1>4, <2>1, <3>1
  <2>2. CASE T # {}
    <3>1. PICK m \in T : \A o \in T : Sequences[o] <= Sequences[m]
      BY <1>1, <2>2, LastPlaced
    <3> DEFINE R == T \ {m}
               D == E(m)
    <3>2. R \in SUBSET S /\ Sum(cap, R) <= f /\ Sum(cap, R) <= Sum(amt, R)
      BY <1>5, <3>1
    <3>3. IsFiniteSet(T) /\ IsFiniteSet(R) /\ IsFiniteSet(D) /\ D \subseteq Offers /\ T \subseteq Offers
      BY <1>1, BookAssumption, FS_Subset DEF Earlier, Listed
    <3>4. R \subseteq D
      <4> SUFFICES ASSUME NEW o \in R PROVE o \in D
        OBVIOUS
      <4>1. o \in Offers /\ m \in Offers /\ before[o].owner = a /\ before[m].owner = a /\ o # m
        BY <1>1, <3>1
      <4>2. before \in Books /\ Sequences[o] # Sequences[m]
        BY <4>1 DEF OwnSequences
      <4>3. Sequences[o] \in Nat /\ Sequences[m] \in Nat /\ Sequences[o] <= Sequences[m]
        BY <3>1, <4>1, FitAssumption
      <4>4. o \in Listed(s, before[m].owner) \ PassedOver(s, a)
        BY <1>3, <4>1
      <4> QED BY <4>2, <4>3, <4>4 DEF Earlier
    <3>5. Sum(amt, R) <= Sum(amt, D)
      BY <1>2, <3>3, <3>4, SumSubset
    <3>6. Sum(cap, T) = cap[m] + Sum(cap, R) /\ Sum(amt, T) = amt[m] + Sum(amt, R)
      BY <1>2, <1>3, <3>1, <3>3, SumRemove
    <3>7. Sum(cap, R) \in Nat /\ Sum(amt, R) \in Nat /\ Sum(amt, D) \in Nat
      BY <1>2, <1>3, <3>3, SumType
    <3>8. cap[m] \in Nat /\ amt[m] \in Nat /\ cap[m] <= amt[m] /\ (cap[m] = 0 \/ cap[m] + Sum(amt, D) <= f)
      BY <1>2, <1>3, <3>1, <3>3
    <3> HIDE DEF R, D
    <3>9. Sum(cap, T) <= f /\ Sum(cap, T) <= Sum(amt, T)
      BY <1>4, <3>2, <3>5, <3>6, <3>7, <3>8
    <3> QED BY <3>9
  <2> QED BY <2>1, <2>2
<1>6. S \in P
  <2> HIDE DEF P
  <2> QED BY <1>1, <1>5, AllSubsets
<1> QED BY <1>6 DEF f

-----------------------------------------------------------------------------
(* What the router is given *)

\* Every transaction of the sample pays, or no pool is there: an offer that
\* crosses beside a pool may come back to an offer of the book.
OfferPerTrade == Pools = {Unknown} \/ \A t \in Txs : ~IsOffer(t)

\* What a transaction asks the router for.
LEMMA AskedType ==
  ASSUME NEW t \in Txs, NEW cap \in Nat \cup {Unknown}, NEW tick \in {t.tick, Unknown}
  PROVE  /\ IntentOf(t, cap, tick) \in Intent
         /\ (IntentOf(t, cap, tick).kind # "payment" <=> IsOffer(t))
<1> DEFINE Fields == [kind : {"payment", "sell", "buy"}, send : Nat \ {0}, deliver : Nat \ {0},
                      least : Nat, cap : Nat \cup {Unknown}, limit : Rates \cup {Unknown},
                      partial : BOOLEAN, fok : BOOLEAN, ioc : BOOLEAN, passive : BOOLEAN]
           flag(name) == name \in t.flags
<1>1. /\ SendField(t).amount \in Nat \ {0} /\ t.deliver.amount \in Nat \ {0}
      /\ t.least # Unknown => t.least.amount \in Nat
  BY TxAssumption
<1>4. \A name : flag(name) \in BOOLEAN
  OBVIOUS
<1>2. CASE IsOffer(t)
  <2> DEFINE asked == Ticked(t, tick)
             kind == IF "sell" \in t.flags THEN "sell" ELSE "buy"
  <2>1. asked \in [send : Nat \ {0}, deliver : Nat \ {0}]
    BY TxAssumption
  <2>2. asked.send \in Nat \ {0} /\ asked.deliver \in Nat \ {0} /\ kind \in {"sell", "buy"}
    BY <2>1
  <2>3. IntentOf(t, cap, tick) =
          [kind |-> kind, send |-> asked.send, deliver |-> asked.deliver, least |-> 0, cap |-> cap,
           limit |-> Unknown, partial |-> FALSE, fok |-> flag("fok"), ioc |-> flag("ioc"),
           passive |-> flag("passive")]
    BY <1>2 DEF IntentOf, OfferIntent
  <2>4. IntentOf(t, cap, tick).kind = kind
    BY <2>3
  <2> HIDE DEF asked, kind, flag
  <2>5. IntentOf(t, cap, tick) \in Fields
    BY <1>4, <2>2, <2>3
  <2> HIDE DEF Fields
  <2> QED BY <1>2, <2>2, <2>4, <2>5 DEF Intent, Fields
<1>3. CASE ~IsOffer(t)
  <2> DEFINE deliver == BookShare(t.deliver.amount)
             least == IF t.least = Unknown THEN 0 ELSE BookShare(t.least.amount)
             limit == IF "limitQuality" \in t.flags THEN <<SendField(t).amount, t.deliver.amount>> ELSE Unknown
  <2>1. deliver \in Nat \ {0}
    BY <1>1, TxIntentAssumption, RoundUpPositive DEF BookShare
  <2>2. least \in Nat
    <3>1. CASE t.least = Unknown
      BY <3>1
    <3>2. CASE t.least # Unknown
      BY <1>1, <3>2, TxIntentAssumption, RoundUpRate DEF BookShare
    <3> QED BY <3>1, <3>2
  <2>3. limit \in Rates \cup {Unknown}
    BY <1>1 DEF Rates
  <2>4. IntentOf(t, cap, tick) =
          [kind |-> "payment", send |-> SendField(t).amount, deliver |-> deliver, least |-> least, cap |-> cap,
           limit |-> limit, partial |-> flag("partial"), fok |-> FALSE, ioc |-> FALSE, passive |-> FALSE]
    BY <1>3 DEF IntentOf, PaymentIntent
  <2>5. IntentOf(t, cap, tick).kind = "payment"
    BY <2>4
  <2>6. IntentOf(t, cap, tick).passive = FALSE
    BY <2>4
  <2> HIDE DEF deliver, least, limit, flag
  <2>7. IntentOf(t, cap, tick) \in Fields
    BY <1>1, <1>4, <2>1, <2>2, <2>3, <2>4
  <2> HIDE DEF Fields
  <2> QED BY <1>3, <2>5, <2>6, <2>7 DEF Intent, Fields
<1> QED BY <1>2, <1>3

\* What the metadata says the source could spend is an amount.
LEMMA CapType ==
  ASSUME tx \in Txs PROVE SourceCap(tx, Metadata.source) \in Nat \cup {Unknown}
<1> DEFINE node == Metadata.source
<1>1. /\ tx.spendable \in Nat \cup {Unknown} /\ tx.owners \in Nat /\ tx.fee \in Nat
      /\ ReserveBase \in Nat /\ ReserveInc \in Nat
  BY TxAssumption, TxIntentAssumption
<1>2. node = Unknown \/ (node.balance \in Int /\ node.owners \in Int)
  <2>1. node = IF tx.spendable = Unknown THEN Unknown
               ELSE IF XrpIn
               THEN [balance |-> tx.spendable + ReserveBase + tx.owners * ReserveInc + tx.fee,
                     owners  |-> tx.owners + (IF tx.ticket THEN 1 ELSE 0)]
               ELSE [balance |-> tx.spendable, owners |-> 0]
    BY DEF Metadata
  <2> DEFINE held == tx.owners * ReserveInc
             ticket == IF tx.ticket THEN 1 ELSE 0
  <2>2. held \in Nat /\ ticket \in Nat
    BY <1>1, ProductType
  <2> HIDE DEF node, held, ticket
  <2>3. CASE tx.spendable = Unknown
    BY <2>1, <2>3
  <2>4. CASE tx.spendable # Unknown /\ XrpIn
    <3>1. node = [balance |-> tx.spendable + ReserveBase + held + tx.fee, owners |-> tx.owners + ticket]
      BY <2>1, <2>4 DEF held, ticket
    <3> QED BY <1>1, <2>2, <2>4, <3>1
  <2>5. CASE tx.spendable # Unknown /\ ~XrpIn
    BY <1>1, <2>1, <2>5
  <2> QED BY <2>3, <2>4, <2>5
<1> SUFFICES SourceCap(tx, node) \in Nat \cup {Unknown}
  OBVIOUS
<1> HIDE DEF node
<1>3. ASSUME NEW x \in Int PROVE IfPositive(x) \in Nat \cup {Unknown}
  BY DEF IfPositive
<1>4. CASE node # Unknown
  <2>1. OwnersCharged(tx, node) \in Int
    BY <1>2, <1>4 DEF OwnersCharged
  <2> DEFINE held == OwnersCharged(tx, node) * ReserveInc
  <2>2. held \in Int
    <3> DEFINE x == OwnersCharged(tx, node)
    <3>1. x \in Int
      BY <2>1
    <3> HIDE DEF x
    <3> QED BY <1>1, <3>1, SMT DEF x
  <2>3. node.balance - ReserveBase - held - tx.fee \in Int
    <3> HIDE DEF held
    <3> QED BY <1>1, <1>2, <1>4, <2>2
  <2>4. SourceCap(tx, node) = IfPositive(node.balance - ReserveBase - held - tx.fee)
        \/ SourceCap(tx, node) = IfPositive(node.balance)
    BY <1>4 DEF SourceCap
  <2> HIDE DEF held
  <2> QED BY <1>2, <1>3, <1>4, <2>3, <2>4
<1>5. CASE node = Unknown
  BY <1>5 DEF SourceCap
<1> QED BY <1>4, <1>5

LEMMA OfferWith ==
  ASSUME NEW r \in Offer, NEW g \in Nat, NEW p \in Nat
  PROVE  [r EXCEPT !.gets = g, !.pays = p] \in Offer
BY DEF Offer

LEMMA OfferAbsent ==
  ASSUME NEW r \in Offer
  PROVE  Absent(r) \in Offer /\ Absent(r).fundedGets = Unknown /\ Absent(r).fundedPays = Unknown
BY DEF Offer, Absent

LEMMA OverlaidIsOffer ==
  ASSUME BookTypeOK, before \in Books, NEW s, NEW o \in Offers
  PROVE  /\ before[o] \in Offer /\ Shown(s, o) \in Offer /\ Overlaid(s, o) \in Offer
         /\ Overlaid(s, o).owner = before[o].owner
         /\ o \notin Touched /\ s.rows[o] # "missing" => Overlaid(s, o) = Shown(s, o)
<1> DEFINE here == before[o]
           here2 == Overlaid(s, o)
<1>1. here \in Offer /\ book[o].gets \in Nat /\ book[o].pays \in Nat
  BY SnapshotAssumption, OfferType DEF SnapshotBook
<1>2. Shown(s, o) \in Offer /\ Shown(s, o).owner = here.owner
  <2>1. Older(o).owner = here.owner
    BY <1>1 DEF Older, Offer
  <2> QED BY <1>1, <2>1, OlderIs DEF Shown
<1>3. here2 \in Offer /\ here2.owner = here.owner
  <2>1. CASE o \in Touched
    <3>1. Metadata.offers[o].pre.gets = book[o].gets /\ Metadata.offers[o].pre.pays = book[o].pays
      BY <2>1 DEF Metadata
    <3>2. here2 = [here EXCEPT !.gets = book[o].gets, !.pays = book[o].pays]
      BY <2>1, <3>1 DEF Overlaid
    <3> HIDE DEF here, here2
    <3>3. here2.owner = here.owner
      BY <1>1, <3>2 DEF Offer
    <3> QED BY <1>1, <3>2, <3>3, OfferWith
  <2>2. CASE o \notin Touched
    <3>1. here2 = Absent(here) \/ here2 = Shown(s, o)
      BY <2>2 DEF Overlaid
    <3>2. Absent(here).owner = here.owner
      BY <1>1 DEF Absent, Offer
    <3> HIDE DEF here, here2
    <3> QED BY <1>1, <1>2, <3>1, <3>2, OfferAbsent
  <2> QED BY <2>1, <2>2
<1>4. ASSUME o \notin Touched, s.rows[o] # "missing" PROVE here2 = Shown(s, o)
  BY <1>4 DEF Overlaid
<1> QED BY <1>1, <1>2, <1>3, <1>4

\* What book_offers funds of a row is part of it.
LEMMA OwnFundedType ==
  ASSUME BookTypeOK, before \in Books, NEW s, NEW o \in Offers, OwnFunded(s, o) # Unknown
  PROVE  /\ OwnFunded(s, o) \in Nat /\ OwnFunded(s, o) <= Overlaid(s, o).gets
<1> DEFINE a      == before[o].owner
           better == {p \in Offers : before[p].owner = a /\ s.rows[p] # "missing" /\ Before(p, o)}
           gives  == [p \in Offers |-> RoundDown(Shown(s, p).gets, OutFee)]
           rest   == LeftFor(s, a, Sum(gives, better))
           left   == RoundDown(rest, Flip(OutFee))
<1>1. a \in Accounts
  BY SnapshotAssumption DEF SnapshotBook, Offer
<1>2. /\ Noted(s, a) # Unknown /\ OwnFunded(s, o) = left /\ left < Shown(s, o).gets
      /\ o \notin Touched /\ s.rows[o] # "missing"
  BY DEF OwnFunded
<1>3. \A p \in better : gives[p] \in Nat
  <2> SUFFICES ASSUME NEW p \in Offers PROVE RoundDown(Shown(s, p).gets, OutFee) \in Nat
    OBVIOUS
  <2>1. Shown(s, p).gets \in Nat
    BY OverlaidIsOffer DEF Offer
  <2> QED BY <2>1, BookAssumption, RoundDownType
<1>4. Sum(gives, better) \in Nat
  <2>1. IsFiniteSet(better)
    BY OffersFinite, FS_Subset
  <2> HIDE DEF gives, better
  <2> QED BY <1>3, <2>1, SumType
<1>5. rest \in Nat
  <2> HIDE DEF a, gives, better
  <2> QED BY <1>1, <1>2, <1>4, LeftForIs
<1>6. left \in Nat
  <2> HIDE DEF rest
  <2> QED BY <1>5, BookAssumption, FlipType, RoundDownType
<1>7. Overlaid(s, o) = Shown(s, o) /\ Shown(s, o).gets \in Nat
  BY <1>2, OverlaidIsOffer DEF Offer
<1> HIDE DEF left
<1> QED BY <1>2, <1>6, <1>7

\* Every row the fit puts together is one that the book parser takes.
LEMMA RowIsOffer ==
  ASSUME BookTypeOK, before \in Books, NEW s \in Snapshots, NEW o \in Offers
  PROVE  LET row == MaterialRow(s, o)
             cap == ExternalCap(s, o)
         IN  /\ row \in Offer /\ row.owner = before[o].owner
             /\ row.fundedGets # Unknown => row.fundedGets <= row.gets
             /\ row.fundedPays # Unknown => row.fundedPays <= row.pays
             /\ row.fundedGets = Unknown => row.fundedPays = Unknown
             /\ cap # Unknown => AtMost(row.gets, row.fundedGets) <= cap
<1> DEFINE here == before[o]
           over == Overlaid(s, o)
           cap  == ExternalCap(s, o)
           own  == IF cap = Unknown THEN OwnFunded(s, o) ELSE Unknown
           price == RoundDown(own, here.rate)
           asks == IF own = Unknown THEN Unknown ELSE AtMost(over.pays, price)
           dropped == o \in DroppedIds
           gets == IF cap = Unknown THEN own ELSE cap
           row == MaterialRow(s, o)
<1>1. here \in Offer /\ over \in Offer /\ over.owner = here.owner
  BY OverlaidIsOffer
<1>2. here.rate \in Rates /\ over.gets \in Nat /\ over.pays \in Nat
  BY <1>1 DEF Offer
<1>3. cap # Unknown => cap \in Nat /\ cap <= over.gets
  BY <1>2, CapIs
<1>4. own # Unknown => cap = Unknown /\ own \in Nat /\ own <= over.gets
  BY OwnFundedType
<1>5. own # Unknown => asks \in Nat /\ asks <= over.pays
  <2> SUFFICES ASSUME own # Unknown PROVE asks \in Nat /\ asks <= over.pays
    OBVIOUS
  <2>1. own \in Nat
    BY <1>4
  <2> HIDE DEF own
  <2>2. price \in Nat
    BY <1>2, <2>1, RoundDownRate
  <2>3. asks = AtMost(over.pays, price)
    OBVIOUS
  <2> HIDE DEF price, asks, over
  <2> QED BY <1>2, <2>2, <2>3, AtMostBounds
<1>6. gets \in Nat \cup {Unknown} /\ (gets # Unknown => gets <= over.gets) /\ (cap # Unknown => gets = cap)
  <2> HIDE DEF cap, own, over
  <2> QED BY <1>3, <1>4
<1>7. asks \in Nat \cup {Unknown} /\ (asks # Unknown => asks <= over.pays) /\ (gets = Unknown => asks = Unknown)
  <2>1. own = Unknown => asks = Unknown
    OBVIOUS
  <2> HIDE DEF cap, own, asks, over
  <2> QED BY <1>3, <1>4, <1>5, <2>1
<1>8. CASE row = Absent(here)
  <2>1. row.owner = here.owner /\ row.gets = 0 /\ row.fundedGets = Unknown /\ row.fundedPays = Unknown /\ row \in Offer
    BY <1>1, <1>8, OfferAbsent DEF Absent, Offer
  <2>2. AtMost(row.gets, row.fundedGets) = 0
    BY <2>1 DEF AtMost
  <2>3. cap # Unknown => 0 <= cap
    <3> HIDE DEF cap
    <3> QED BY <1>3
  <2> HIDE DEF row, cap, here
  <2> QED BY <2>1, <2>2, <2>3 DEF row, cap, here
<1>9. CASE row = [over EXCEPT !.fundedGets = gets, !.fundedPays = asks, !.nonFill = dropped]
  <2>1. dropped \in BOOLEAN
    OBVIOUS
  <2> HIDE DEF over, gets, asks, dropped, row, here, cap
  <2>2. /\ row \in Offer /\ row.fundedGets = gets /\ row.fundedPays = asks /\ row.gets = over.gets
        /\ row.pays = over.pays /\ row.owner = here.owner
    BY <1>1, <1>6, <1>7, <1>9, <2>1 DEF Offer
  <2>3. ASSUME cap # Unknown PROVE AtMost(row.gets, row.fundedGets) <= cap
    <3>1. gets = cap /\ cap \in Nat
      BY <1>3, <1>6, <2>3
    <3> QED BY <1>2, <2>2, <3>1, AtMostBounds
  <2> QED BY <1>6, <1>7, <2>2, <2>3 DEF row, cap, here
<1> QED BY <1>8, <1>9 DEF MaterialRow

LEMMA MaterialBook ==
  ASSUME BookTypeOK, before \in Books, NEW s \in Snapshots, NEW q \in [Offers -> Offers]
  PROVE  [n \in Offers |-> MaterialRow(s, q[n])] \in SnapshotBook
<1> DEFINE b == [n \in Offers |-> MaterialRow(s, q[n])]
<1>1. ASSUME NEW n \in Offers
      PROVE  /\ b[n] \in Offer
             /\ b[n].fundedGets # Unknown => b[n].fundedGets <= b[n].gets
             /\ b[n].fundedPays # Unknown => b[n].fundedPays <= b[n].pays
             /\ b[n].fundedGets = Unknown => b[n].fundedPays = Unknown
  BY RowIsOffer
<1>2. b \in [Offers -> Offer]
  BY <1>1
<1> HIDE DEF b
<1>3. b \in SnapshotBook
  BY <1>1, <1>2 DEF SnapshotBook
<1> QED BY <1>3 DEF b

LEMMA OwnerFundsType ==
  ASSUME BookTypeOK, NEW s \in Snapshots, NEW a \in Accounts
  PROVE  OwnerFunds(s, a) \in Nat \cup {Unknown}
<1>1. funds[a] \in Nat \cup {Unknown}
  BY DEF BookTypeOK
<1>2. Derived(a) = Unknown \/ Derived(a) = funds[a]
  <2>1. Metadata.lines[a].pre = funds[a]
    BY DEF Metadata
  <2> QED BY <2>1 DEF Derived
<1>3. Noted(s, a) \in Nat \cup {Unknown}
  BY NotedType
<1>4. ASSUME NEW f \in FundsTold(s, a) PROVE f \in Nat \cup {Unknown}
  <2>1. PICK o \in Offers : before[o].owner = a /\ f = RowFunds(s, o)
    BY DEF FundsTold
  <2>2. f \in {Derived(a), Unknown, Noted(s, a)}
    BY <2>1 DEF RowFunds
  <2> QED BY <1>1, <1>2, <1>3, <2>2
<1> QED BY <1>4 DEF OwnerFunds

LEMMA ModelPoolType ==
  ASSUME PoolPairs, poolTrace \in PoolTake PROVE ModelPool \in Pool \cup {Unknown}
<1>1. CASE Metadata.pool = Unknown
  BY <1>1 DEF ModelPool
<1>2. CASE Metadata.pool # Unknown
  <2>1. Metadata.pool = IF poolTrace.out = 0 THEN Unknown
                        ELSE [x |-> pool.x - poolTrace.in, y |-> pool.y + poolTrace.out,
                              out |-> poolTrace.out, in |-> poolTrace.in]
    BY DEF Metadata
  <2>2. poolTrace.out # 0
    BY <1>2, <2>1
  <2>3. Metadata.pool.x = pool.x - poolTrace.in /\ Metadata.pool.y = pool.y + poolTrace.out
    BY <2>1, <2>2
  <2>4. /\ pool \in Pool /\ poolTrace.in < pool.x /\ pool.x \in Nat /\ pool.y \in Nat \ {0}
        /\ poolTrace.in \in Nat /\ poolTrace.out \in Nat
    BY <2>2, PoolParts DEF PoolPairs, PoolTake
  <2>5. ModelPool = [x |-> pool.x - poolTrace.in, y |-> pool.y + poolTrace.out]
    BY <1>2, <2>3 DEF ModelPool, ExactPool
  <2> QED BY <2>4, <2>5 DEF Pool
<1> QED BY <1>1, <1>2

-----------------------------------------------------------------------------
(* What the metadata records *)

\* The nodes of m account for the trade of m.
Recorded(m) ==
  /\ m.trade.out \in [Offers -> Nat] /\ m.trade.in \in [Offers -> Nat]
  /\ DOMAIN m.offers = {o \in Offers : m.trade.out[o] > 0}
  /\ \A o \in Offers : m.trade.out[o] = 0 => m.trade.in[o] = 0
  /\ \A o \in DOMAIN m.offers :
       LET fill == m.offers[o]
       IN  /\ fill.pre.gets - fill.post.gets = m.trade.out[o]
           /\ fill.pre.pays - fill.post.pays = m.trade.in[o]
           /\ (\A p \in DOMAIN m.offers : m.offers[p].owner = fill.owner => p = o) =>
                /\ m.lines[fill.owner].paid = Gives(m.trade.out[o])
                /\ m.lines[fill.owner].got = m.trade.in[o]
  /\ m.trade.pool.out = 0 => m.trade.pool.in = 0
  /\ IF m.pool = Unknown THEN m.trade.pool.out = 0
     ELSE m.pool.out = m.trade.pool.out /\ m.pool.in = m.trade.pool.in

\* The sum over the offers of an owner of which only one moved is what that one
\* moved.
LEMMA OnlyOneMoves ==
  ASSUME NEW S \in SUBSET Offers, NEW f, \A x \in S : f[x] \in Nat,
         NEW o \in S, \A x \in S \ {o} : f[x] = 0
  PROVE  Sum(f, S) = f[o]
<1>1. IsFiniteSet(S) /\ IsFiniteSet(S \ {o})
  BY OffersFinite, FS_Subset
<1>2. Sum(f, S) = f[o] + Sum(f, S \ {o})
  BY <1>1, SumRemove
<1>3. Sum(f, S \ {o}) = 0
  BY <1>1, SumZero
<1> QED BY <1>2, <1>3

\* The fill of a touched offer is the difference of its fields.
LEMMA FillIs ==
  ASSUME FlowInv, NEW o \in Touched
  PROVE  LET fill == Metadata.offers[o]
         IN  /\ fill.pre.gets - fill.post.gets = trace[o].out
             /\ fill.pre.pays - fill.post.pays = trace[o].in
             /\ fill.owner = book[o].owner
<1>1. o \in Offers /\ TypeOK /\ BookTypeOK
  BY DEF Touched, FlowInv, CrossingInv, TypeOK
<1>2. /\ trace[o].out \in Nat /\ trace[o].in \in Nat /\ book[o].gets \in Nat /\ book[o].pays \in Nat
      /\ trace[o].out <= book[o].gets /\ trace[o].in <= book[o].pays
  BY <1>1, OnceWithin, TakeParts, OfferType DEF FlowInv, WithinOffers, TypeOK
<1> DEFINE left == IF trace[o].in < book[o].pays THEN book[o].pays - trace[o].in ELSE 0
<1>3. Metadata.offers[o] =
        [pre  |-> [gets |-> book[o].gets, pays |-> book[o].pays],
         post |-> [gets |-> book[o].gets - trace[o].out, pays |-> left], owner |-> book[o].owner]
  BY DEF Metadata
<1>4. book[o].pays - left = trace[o].in
  BY <1>2
<1> HIDE DEF left
<1> QED BY <1>2, <1>3, <1>4

\* If no other offer of the owner was touched, its trust line moved by the fill.
LEMMA LineIs ==
  ASSUME FlowInv, NEW o \in Touched, \A p \in Touched : book[p].owner = book[o].owner => p = o
  PROVE  LET line == Metadata.lines[book[o].owner]
         IN  line.paid = Gives(trace[o].out) /\ line.got = trace[o].in
<1> DEFINE a == book[o].owner
           S == {p \in Offers : book[p].owner = a}
           paid == [p \in Offers |-> trace[p].gives]
           got  == [p \in Offers |-> trace[p].in]
<1>1. o \in Offers /\ TypeOK /\ BookTypeOK /\ WithinOffers /\ trace \in [Offers -> Take]
  BY OnceWithin DEF Touched, FlowInv, CrossingInv, TypeOK
<1>2. a \in Accounts /\ S \in SUBSET Offers /\ o \in S
  BY <1>1, OfferType
<1>3. Metadata.lines[a].paid = Sum(paid, S) /\ Metadata.lines[a].got = Sum(got, S)
  BY <1>2 DEF Metadata, SumOver
<1>4. \A p \in Offers : paid[p] \in Nat /\ got[p] \in Nat
  BY <1>1, TakeParts
<1>5. ASSUME NEW p \in S \ {o} PROVE paid[p] = 0 /\ got[p] = 0
  <2>1. p \in Offers /\ p \notin Touched
    OBVIOUS
  <2>2. trace[p].out = 0
    BY <1>1, <2>1, TakeParts DEF Touched
  <2>3. trace[p] = NoTake
    BY <1>1, <2>1, <2>2 DEF WithinOffers
  <2> QED BY <2>1, <2>3 DEF NoTake
<1>6. paid[o] = Gives(trace[o].out) /\ got[o] = trace[o].in
  BY <1>1 DEF WithinOffers
<1> HIDE DEF a, S, paid, got
<1>7. \A x \in S : paid[x] \in Nat /\ got[x] \in Nat
  BY <1>2, <1>4
<1>8. Sum(paid, S) = paid[o]
  BY <1>2, <1>5, <1>7, OnlyOneMoves
<1>9. Sum(got, S) = got[o]
  BY <1>2, <1>5, <1>7, OnlyOneMoves
<1> QED BY <1>3, <1>6, <1>8, <1>9 DEF a

LEMMA MetadataRecords == ASSUME FlowInv PROVE Recorded(Metadata)
<1> DEFINE m == Metadata
<1>1. /\ TypeOK /\ WithinOffers /\ trace \in [Offers -> Take] /\ poolTrace \in PoolTake /\ PoolPairs
  BY OnceWithin DEF FlowInv, CrossingInv, TypeOK
<1>2. /\ m.trade.out = [o \in Offers |-> trace[o].out] /\ m.trade.in = [o \in Offers |-> trace[o].in]
      /\ m.trade.pool = poolTrace /\ DOMAIN m.offers = Touched
  BY DEF Metadata
<1>3. /\ m.trade.out \in [Offers -> Nat] /\ m.trade.in \in [Offers -> Nat]
      /\ DOMAIN m.offers = {o \in Offers : m.trade.out[o] > 0}
  <2>1. \A o \in Offers : trace[o].out \in Nat /\ trace[o].in \in Nat
    BY <1>1, TakeParts
  <2>2. Touched = {o \in Offers : m.trade.out[o] > 0}
    BY <1>2 DEF Touched
  <2> QED BY <1>2, <2>1, <2>2
<1>4. \A o \in Offers : m.trade.out[o] = 0 => m.trade.in[o] = 0
  BY <1>1, <1>2 DEF WithinOffers, NoTake
<1>5. ASSUME NEW o \in DOMAIN m.offers
      PROVE  /\ m.offers[o].pre.gets - m.offers[o].post.gets = m.trade.out[o]
             /\ m.offers[o].pre.pays - m.offers[o].post.pays = m.trade.in[o]
             /\ (\A p \in DOMAIN m.offers : m.offers[p].owner = m.offers[o].owner => p = o) =>
                  /\ m.lines[m.offers[o].owner].paid = Gives(m.trade.out[o])
                  /\ m.lines[m.offers[o].owner].got = m.trade.in[o]
  <2>1. o \in Touched /\ o \in Offers /\ m.trade.out[o] = trace[o].out /\ m.trade.in[o] = trace[o].in
    BY <1>2 DEF Touched
  <2>2. /\ m.offers[o].pre.gets - m.offers[o].post.gets = trace[o].out
        /\ m.offers[o].pre.pays - m.offers[o].post.pays = trace[o].in
        /\ \A p \in Touched : m.offers[p].owner = book[p].owner
    BY <2>1, FillIs
  <2>3. ASSUME \A p \in Touched : book[p].owner = book[o].owner => p = o
        PROVE  m.lines[book[o].owner].paid = Gives(trace[o].out) /\ m.lines[book[o].owner].got = trace[o].in
    BY <2>1, <2>3, LineIs
  <2> HIDE DEF m
  <2> QED BY <1>2, <2>1, <2>2, <2>3
<1>6. m.trade.pool.out = 0 => m.trade.pool.in = 0
  BY <1>1, <1>2 DEF PoolPairs
<1>7. IF m.pool = Unknown THEN m.trade.pool.out = 0
      ELSE m.pool.out = m.trade.pool.out /\ m.pool.in = m.trade.pool.in
  <2>1. m.pool = IF poolTrace.out = 0 THEN Unknown
                 ELSE [x |-> pool.x - poolTrace.in, y |-> pool.y + poolTrace.out,
                       out |-> poolTrace.out, in |-> poolTrace.in]
    BY DEF Metadata
  <2>2. CASE poolTrace.out = 0
    BY <1>2, <2>1, <2>2
  <2>3. CASE poolTrace.out # 0
    <3>1. m.pool = [x |-> pool.x - poolTrace.in, y |-> pool.y + poolTrace.out,
                    out |-> poolTrace.out, in |-> poolTrace.in]
      BY <2>1, <2>3
    <3>2. pool.x \in Nat /\ pool.y \in Nat /\ poolTrace.out \in Nat /\ poolTrace.in \in Nat
      BY <1>1, <2>3, PoolParts DEF PoolPairs, PoolTake
    <3> HIDE DEF m
    <3>3. m.pool \in [x : Int, y : Int, out : Nat, in : Nat]
      BY <3>1, <3>2
    <3>4. m.pool # Unknown
      BY <3>3, FitAssumption
    <3> QED BY <1>2, <3>1, <3>4
  <2> QED BY <2>2, <2>3
<1> HIDE DEF m
<1>8. Recorded(m)
  BY <1>3, <1>4, <1>5, <1>6, <1>7 DEF Recorded
<1> QED BY <1>8 DEF m

-----------------------------------------------------------------------------
(* The comparison *)

\* What an owner pays for its output is no less than that.
LEMMA GivesNoLess == ASSUME TypeOK, NEW z \in Nat PROVE z <= Gives(z)
<1> DEFINE n == Fee[1]
           d == Fee[2]
           q == (z * n) \div d
<1>1. n \in Nat \ {0} /\ d \in Nat \ {0} /\ d <= n
  <2>1. Fee \in Rates
    BY FeeType DEF TypeOK
  <2>2. Fee = Parity \/ Fee = OutFee
    BY DEF Fee
  <2> QED BY <2>1, <2>2, RateParts, BookAssumption DEF Parity
<1> HIDE DEF n, d
<1>2. z * n \in Nat /\ z * d <= z * n
  BY <1>1, SMT
<1>3. q \in Nat /\ z * n < q * d + d
  BY <1>1, <1>2, Quotient
<1> HIDE DEF q
<1>4. z * d < (q + 1) * d
  BY <1>1, <1>2, <1>3, SMT
<1>5. z < q + 1
  BY <1>1, <1>3, <1>4, SMT
<1>6. Gives(z) = q
  BY DEF Gives, RoundDown, q, n, d
<1> QED BY <1>3, <1>5, <1>6

\* With the transfer fee on top, more output is more given.
LEMMA GivesApart ==
  ASSUME TypeOK, NEW x \in Nat, NEW y \in Nat, Gives(x) = Gives(y) PROVE x = y
<1>1. ASSUME NEW z \in Nat PROVE z <= Gives(z)
  BY GivesNoLess
<1>2. ASSUME NEW u \in Nat, NEW v \in Nat, u < v PROVE Gives(u) < Gives(v)
  <2>1. v - u \in Nat /\ v - u > 0 /\ u + (v - u) = v
    BY <1>2
  <2>2. Gives(u) + Gives(v - u) <= Gives(v) /\ Gives(u) \in Nat /\ Gives(v) \in Nat /\ Gives(v - u) \in Nat
    BY <2>1, GivesFacts
  <2>3. v - u <= Gives(v - u)
    BY <1>1, <2>1
  <2> QED BY <2>1, <2>2, <2>3
<1>3. Gives(x) \in Nat /\ Gives(y) \in Nat
  BY GivesFacts
<1> QED BY <1>2, <1>3

\* What the model did is what the ledger did.
SameTrade ==
  /\ [o \in Offers |-> ModelTakes[o].out] = meta.trade.out
  /\ [o \in Offers |-> ModelTakes[o].in] = meta.trade.in
  /\ ModelPoolTake.out = meta.trade.pool.out /\ ModelPoolTake.in = meta.trade.pool.in

\* The model's book has every offer somewhere.
AllPlaced == ids \in [Offers -> Offers] /\ \A o \in Offers : \E n \in Offers : ids[n] = o

\* The router ran the flow, or refused to.
ModelRan == FlowInv \/ (phase = "done" /\ outcome = "rejected")

LEMMA ModelTakesType ==
  ASSUME ModelRan, AllPlaced, NEW o \in Offers
  PROVE  LET take == ModelTakes[o]
         IN  /\ take.out \in Nat /\ take.in \in Nat
             /\ take.out = 0 => take.in = 0
             /\ take.out > 0 => TypeOK /\ take.gives = Gives(take.out)
<1>1. CASE outcome = "rejected"
  <2>1. ModelTakes[o] = NoTake
    BY <1>1 DEF ModelTakes
  <2> QED BY <2>1 DEF NoTake
<1>2. CASE outcome # "rejected"
  <2> DEFINE n == Place(o)
  <2>1. n \in Offers
    BY DEF AllPlaced, Place
  <2>2. ModelTakes[o] = trace[n]
    BY <1>2 DEF ModelTakes
  <2> HIDE DEF n
  <2>3. TypeOK /\ WithinOffers /\ trace \in [Offers -> Take]
    BY <1>2, OnceWithin DEF ModelRan, FlowInv, CrossingInv, TypeOK
  <2>4. trace[n].out \in Nat /\ trace[n].in \in Nat
    BY <2>1, <2>3, TakeParts
  <2>5. trace[n].gives = Gives(trace[n].out) /\ (trace[n].out = 0 => trace[n].in = 0)
    BY <2>1, <2>3 DEF WithinOffers, NoTake
  <2> QED BY <2>2, <2>3, <2>4, <2>5
<1> QED BY <1>1, <1>2

LEMMA StrictIsSame ==
  ASSUME ModelRan, AllPlaced, Recorded(meta), StrictMatch, ~LeftDust PROVE SameTrade
<1> DEFINE out == meta.trade.out
           in  == meta.trade.in
<1>1. /\ out \in [Offers -> Nat] /\ in \in [Offers -> Nat] /\ Fills = {o \in Offers : out[o] > 0}
      /\ \A o \in Offers : out[o] = 0 => in[o] = 0
  BY DEF Recorded, Fills
<1>2. ASSUME NEW o \in Fills PROVE ModelTakes[o].out = out[o] /\ ModelTakes[o].in = in[o]
  <2> DEFINE fill == meta.offers[o]
             line == meta.lines[fill.owner]
  <2>1. /\ o \in Offers /\ o \in ModelFills /\ ModelOut(o) = RealOut(o) /\ ModelTakes[o].in = RealIn(o)
    BY <1>1, <1>2 DEF StrictMatch
  <2>2. /\ fill.pre.gets - fill.post.gets = out[o] /\ fill.pre.pays - fill.post.pays = in[o]
        /\ OnlyFill(o) => line.paid = Gives(out[o]) /\ line.got = in[o]
    BY <1>2 DEF Recorded, Fills, OnlyFill
  <2>3. PostGets(o) = fill.post.gets /\ PostPays(o) = fill.post.pays
    BY <1>2 DEF LeftDust, PostGets, PostPays
  <2>4. /\ ModelTakes[o].out \in Nat /\ TypeOK /\ ModelTakes[o].gives = Gives(ModelTakes[o].out)
    BY <2>1, ModelTakesType DEF ModelFills
  <2>5. out[o] \in Nat
    BY <1>1, <2>1
  <2>6. ModelTakes[o].out = out[o]
    <3>1. CASE ~StartOut /\ ByLine(o)
      <4>1. ModelTakes[o].gives = line.paid
        BY <2>1, <3>1 DEF ModelOut, RealOut
      <4>2. line.paid = Gives(out[o])
        BY <2>2, <3>1 DEF ByLine
      <4> HIDE DEF line, out
      <4> QED BY <2>4, <2>5, <4>1, <4>2, GivesApart
    <3>2. CASE ~(~StartOut /\ ByLine(o))
      BY <2>1, <2>2, <2>3, <3>2 DEF ModelOut, RealOut
    <3> QED BY <3>1, <3>2
  <2>7. RealIn(o) = in[o]
    <3>1. CASE ~XrpIn /\ ByLine(o)
      BY <2>2, <3>1 DEF ByLine, RealIn
    <3>2. CASE ~(~XrpIn /\ ByLine(o))
      BY <2>2, <2>3, <3>2 DEF RealIn
    <3> QED BY <3>1, <3>2
  <2> QED BY <2>1, <2>6, <2>7
<1>3. ASSUME NEW o \in Offers \ Fills PROVE ModelTakes[o].out = out[o] /\ ModelTakes[o].in = in[o]
  <2>1. out[o] = 0 /\ in[o] = 0
    BY <1>1
  <2>2. o \notin ModelFills
    BY DEF StrictMatch
  <2>3. ModelTakes[o].out = 0 /\ ModelTakes[o].in = 0
    BY <2>2, ModelTakesType DEF ModelFills
  <2> QED BY <2>1, <2>3
<1>4. [o \in Offers |-> ModelTakes[o].out] = out /\ [o \in Offers |-> ModelTakes[o].in] = in
  <2>1. \A o \in Offers : ModelTakes[o].out = out[o] /\ ModelTakes[o].in = in[o]
    BY <1>2, <1>3
  <2> HIDE DEF out, in
  <2> QED BY <1>1, <2>1
<1>5. ModelPoolTake.out = meta.trade.pool.out /\ ModelPoolTake.in = meta.trade.pool.in
  <2>1. ModelPoolTake.out = 0 => ModelPoolTake.in = 0
    <3>1. CASE outcome = "rejected"
      BY <3>1, NoPoolTakeType DEF ModelPoolTake
    <3>2. CASE outcome # "rejected"
      BY <3>2 DEF ModelPoolTake, ModelRan, FlowInv, PoolPairs
    <3> QED BY <3>1, <3>2
  <2>2. CASE meta.pool = Unknown
    BY <2>1, <2>2 DEF StrictMatch, SamePool, Recorded
  <2>3. CASE meta.pool # Unknown
    BY <2>3 DEF StrictMatch, SamePool, Recorded
  <2> QED BY <2>2, <2>3
<1> QED BY <1>4, <1>5 DEF SameTrade

LEMMA SameTradeStable ==
  ASSUME UNCHANGED <<outcome, trace, poolTrace, meta, ids>>
  PROVE  (SameTrade' <=> SameTrade) /\ (LeftDust' <=> LeftDust)
<1>1. ModelTakes' = ModelTakes /\ ModelPoolTake' = ModelPoolTake
  BY DEF ModelTakes, Place, ModelPoolTake, NoTake, NoPoolTake
<1> QED BY <1>1 DEF SameTrade, LeftDust, Fills

\* Between the stages.
StrictInv ==
  /\ tx \in Txs /\ before \in Books
  /\ ownerPays = IsOffer(tx) /\ OfferCrossing = IsOffer(tx)
  /\ stage = "ledger" => FlowInv
  /\ stage \in {"model", "compared"} => ModelRan /\ AllPlaced /\ Recorded(meta)
  /\ StrictMeansSameTrade

LEMMA StrictSays ==
  StrictMeansSameTrade <=> (stage = "compared" /\ verdict.strict /\ ~LeftDust => SameTrade)
BY DEF StrictMeansSameTrade, SameTrade

LEMMA RecordedStable ==
  ASSUME ownerPays' = ownerPays, NEW m PROVE Recorded(m)' <=> Recorded(m')
<1>1. \A x : Gives(x)' = Gives(x')
  BY DEF Gives, RoundDown, Fee, Parity
<1> QED BY <1>1 DEF Recorded

LEMMA StrictInit == ASSUME OfferPerTrade, FitInit PROVE StrictInv
<1>1. /\ tx \in Txs /\ before \in Books /\ stage = "ledger" /\ ownerPays = IsOffer(tx)
      /\ intent = IntentOf(tx, tx.spendable, tx.tick) /\ Begins /\ pool \in Pools
      /\ funds \in [Accounts -> Nat \cup {Unknown}]
      /\ book = [o \in Offers |-> IF Cancelled(o) THEN Absent(before[o]) ELSE before[o]]
  BY BookAssumption DEF FitInit
<1>2. tx.spendable \in Nat \cup {Unknown}
  BY <1>1, TxAssumption
<1>3. intent \in Intent /\ (intent.kind # "payment" <=> IsOffer(tx))
  BY <1>1, <1>2, AskedType
<1>4. OfferCrossing = IsOffer(tx)
  BY <1>3 DEF OfferCrossing, IsOffer
<1>5. book \in SnapshotBook
  <2>1. before \in SnapshotBook
    BY <1>1, SnapshotAssumption
  <2>2. ASSUME NEW o \in Offers
        PROVE  /\ book[o] \in Offer
               /\ book[o].fundedGets # Unknown => book[o].fundedGets <= book[o].gets
               /\ book[o].fundedPays # Unknown => book[o].fundedPays <= book[o].pays
               /\ book[o].fundedGets = Unknown => book[o].fundedPays = Unknown
    <3>1. before[o] \in Offer
      BY <2>1 DEF SnapshotBook
    <3>2. CASE Cancelled(o)
      <4>1. book[o] = Absent(before[o])
        BY <1>1, <3>2
      <4> QED BY <3>1, <4>1, OfferAbsent
    <3>3. CASE ~Cancelled(o)
      <4>1. book[o] = before[o]
        BY <1>1, <3>3
      <4> QED BY <2>1, <4>1 DEF SnapshotBook
    <3> QED BY <3>2, <3>3
  <2>3. book \in [Offers -> Offer]
    BY <1>1, <2>2
  <2> QED BY <2>2, <2>3 DEF SnapshotBook
<1>6. Ready
  BY <1>1, <1>3, <1>4, <1>5, CrossingAssumption DEF Ready, Pool
<1>7. WantsAll
  BY <1>1, <1>4 DEF OfferPerTrade, WantsAll
<1> QED BY <1>1, <1>4, <1>6, <1>7, FlowStarts DEF StrictInv, StrictMeansSameTrade

\* A step of the ledger or of the router.
LEMMA StrictStep == ASSUME StrictInv, Step PROVE StrictInv'
<1>1. /\ stage \in {"ledger", "model"} /\ Next /\ UNCHANGED <<stage, tx, before, meta, ids, verdict>>
  BY DEF Step
<1>2. UNCHANGED <<book, funds, ownerPays, intent>>
  BY <1>1, InputsStay
<1>3. FlowInv
  <2>1. CASE stage = "ledger"
    BY <2>1 DEF StrictInv
  <2>2. CASE stage = "model"
    <3>1. phase # "done"
      BY <1>1 DEF Next, Pass, Allocate, BeginFlow, BeginRound, StopFlow, DeleteOwn, TakeReverse, TakeForward,
                  Visit, RunForward, RunFallback, CommitRound, EndFlow, EndPass, Settle, Passes
    <3> QED BY <2>2, <3>1 DEF StrictInv, ModelRan
  <2> QED BY <1>1, <2>1, <2>2
<1>4. FlowInv'
  BY <1>1, <1>3, FlowGoesOn
<1>5. OfferCrossing' = OfferCrossing /\ IsOffer(tx)' = IsOffer(tx)
  BY <1>1, <1>2 DEF OfferCrossing, IsOffer
<1>6. stage = "model" => Recorded(meta)' /\ AllPlaced'
  BY <1>1, <1>2, RecordedStable DEF StrictInv, AllPlaced
<1>7. StrictMeansSameTrade'
  BY <1>1 DEF StrictMeansSameTrade
<1> QED BY <1>1, <1>2, <1>4, <1>5, <1>6, <1>7 DEF StrictInv, ModelRan

\* The router is given a legal book, intent and pool, or does not begin.
LEMMA StrictPrepare == ASSUME StrictInv, Prepare PROVE StrictInv'
<1>1. /\ stage = "ledger" /\ stage' = "model" /\ meta' = Metadata /\ UNCHANGED <<ownerPays, tx, before>>
      /\ FlowInv
  BY DEF Prepare, Sampled, StrictInv
<1>2. TypeOK /\ BookTypeOK /\ PoolPairs /\ WantsAll /\ poolTrace \in PoolTake /\ tx \in Txs /\ before \in Books
  BY <1>1 DEF FlowInv, CrossingInv, TypeOK, StrictInv
<1>3. PICK s \in Snapshots :
        /\ ids' \in BookOrders(s) /\ book' = [n \in Offers |-> MaterialRow(s, ids'[n])]
        /\ funds' = [a \in Accounts |-> OwnerFunds(s, a)]
        /\ intent' = IntentOf(tx, SourceCap(tx, Metadata.source), TickKnown(s))
  BY DEF Prepare
<1>4. AllPlaced'
  BY <1>3 DEF BookOrders, AllPlaced
<1>5. book' \in SnapshotBook
  BY <1>2, <1>3, <1>4, MaterialBook DEF AllPlaced
<1>6. funds' \in [Accounts -> Nat \cup {Unknown}]
  BY <1>2, <1>3, OwnerFundsType
<1>7. intent' \in Intent /\ (intent'.kind # "payment" <=> IsOffer(tx))
  <2>1. SourceCap(tx, Metadata.source) \in Nat \cup {Unknown}
    BY <1>2, CapType
  <2>2. TickKnown(s) \in {tx.tick, Unknown}
    BY DEF TickKnown
  <2> QED BY <1>2, <1>3, <2>1, <2>2, AskedType
<1>8. OfferCrossing' = IsOffer(tx) /\ IsOffer(tx)' = IsOffer(tx) /\ ownerPays' = IsOffer(tx)
  BY <1>1, <1>7 DEF OfferCrossing, IsOffer, StrictInv
<1>9. pool' = ModelPool /\ ModelPool \in Pool \cup {Unknown}
  BY <1>2, ModelPoolType DEF Prepare
<1>10. IsOffer(tx) => pool' = Unknown
  <2> SUFFICES ASSUME IsOffer(tx) PROVE ModelPool = Unknown
    BY <1>9
  <2>1. OfferCrossing
    BY DEF StrictInv
  <2>2. poolTrace.out = 0
    BY <1>2, <2>1 DEF PoolPairs
  <2>3. Metadata.pool = Unknown
    BY <2>2 DEF Metadata
  <2> QED BY <2>3 DEF ModelPool
<1>11. ModelRan'
  <2>1. CASE InPathScope(tx)
    <3>1. Begins'
      BY <2>1 DEF Prepare, Begins, Unallocated, NoTakes, NoTake, NoRow, NoResidual, Nothing, NoPoolTake
    <3>2. Ready'
      BY <1>5, <1>6, <1>7, <1>8, <1>9, <3>1 DEF Ready, SnapshotBook, Offer, Rates, Intent, Pool
    <3>3. WantsAll'
      BY <1>8, <1>10 DEF WantsAll
    <3>4. FlowInv'
      <4>1. (Ready /\ WantsAll => FlowInv)'
        BY FlowStarts, PTL
      <4> QED BY <3>2, <3>3, <4>1
    <3> QED BY <3>4 DEF ModelRan
  <2>2. CASE ~InPathScope(tx)
    BY <2>2 DEF Prepare, ModelRan
  <2> QED BY <2>1, <2>2
<1>12. Recorded(meta)'
  BY <1>1, MetadataRecords, RecordedStable
<1>13. StrictMeansSameTrade'
  BY <1>1 DEF StrictMeansSameTrade
<1> QED BY <1>1, <1>2, <1>4, <1>8, <1>11, <1>12, <1>13 DEF StrictInv

LEMMA StrictCompare == ASSUME StrictInv, Compare PROVE StrictInv'
<1>1. /\ stage = "model" /\ stage' = "compared" /\ verdict'.strict = StrictMatch
      /\ UNCHANGED <<vars, tx, before, meta, ids>>
  BY DEF Compare
<1>2. UNCHANGED vars /\ FlowInv => FlowInv'
  BY FlowGoesOn
<1>3. UNCHANGED <<ownerPays, intent, phase, outcome, trace, poolTrace>>
  BY <1>1 DEF vars, bookVars, flowVars
<1>4. ModelRan' /\ AllPlaced' /\ Recorded(meta)'
  BY <1>1, <1>2, <1>3, RecordedStable DEF StrictInv, ModelRan, AllPlaced
<1>5. OfferCrossing' = OfferCrossing /\ IsOffer(tx)' = IsOffer(tx)
  BY <1>1, <1>3 DEF OfferCrossing, IsOffer
<1>6. verdict'.strict /\ ~LeftDust' => SameTrade'
  BY <1>1, <1>3, StrictIsSame, SameTradeStable DEF StrictInv
<1>7. StrictMeansSameTrade'
  BY <1>6 DEF StrictMeansSameTrade, SameTrade
<1> QED BY <1>1, <1>3, <1>4, <1>5, <1>7 DEF StrictInv

LEMMA StrictInvariant == ASSUME OfferPerTrade PROVE FitSpec => []StrictInv
<1>1. FitInit => StrictInv
  BY StrictInit
<1>2. StrictInv /\ [FitNext]_fitVars => StrictInv'
  <2> SUFFICES ASSUME StrictInv, [FitNext]_fitVars PROVE StrictInv'
    OBVIOUS
  <2>1. CASE Step
    BY <2>1, StrictStep
  <2>2. CASE Prepare
    BY <2>2, StrictPrepare
  <2>3. CASE Compare
    BY <2>3, StrictCompare
  <2>4. CASE Refuse \/ UNCHANGED fitVars
    <3>1. /\ UNCHANGED <<vars, tx, before, meta, ids, verdict>>
          /\ stage' = "refused" \/ UNCHANGED stage
      BY <2>4 DEF Refuse, fitVars
    <3>2. UNCHANGED <<ownerPays, intent, phase, outcome, trace, poolTrace>>
      BY <3>1 DEF vars, bookVars, flowVars
    <3>3. FlowInv => FlowInv'
      BY <3>1, FlowGoesOn
    <3>4. OfferCrossing' = OfferCrossing /\ IsOffer(tx)' = IsOffer(tx)
      BY <3>1, <3>2 DEF OfferCrossing, IsOffer
    <3>5. (ModelRan => ModelRan') /\ (AllPlaced => AllPlaced') /\ (Recorded(meta) => Recorded(meta)')
      BY <3>1, <3>2, <3>3, RecordedStable DEF ModelRan, AllPlaced
    <3>6. StrictMeansSameTrade'
      <4>1. (SameTrade' <=> SameTrade) /\ (LeftDust' <=> LeftDust)
        BY <3>1, <3>2, SameTradeStable
      <4>2. (StrictMeansSameTrade <=> (stage = "compared" /\ verdict.strict /\ ~LeftDust => SameTrade))'
        BY StrictSays, PTL
      <4> QED BY <3>1, <4>1, <4>2, StrictSays DEF StrictInv
    <3> QED BY <3>1, <3>2, <3>3, <3>4, <3>5, <3>6 DEF StrictInv
  <2> QED BY <2>1, <2>2, <2>3, <2>4 DEF FitNext
<1> QED BY <1>1, <1>2, PTL DEF FitSpec

\* A strict match is no coincidence: where _strict_exact_match_details finds that
\* the model and the metadata agree, offer by offer, every offer and the pool gave
\* and got the same, although the comparison takes the owner's trust line for the
\* fill where only one offer moved it, and rounds transfer fees down.  That is for
\* payments, beside any pool, and without a pool for every transaction.
THEOREM StrictIsNoCoincidence == ASSUME OfferPerTrade PROVE FitSpec => []StrictMeansSameTrade
<1>1. StrictInv => StrictMeansSameTrade
  BY DEF StrictInv
<1> QED BY <1>1, StrictInvariant, PTL

-----------------------------------------------------------------------------
(* What the trade takes of an owner that account_offers was used for *)

\* A row of the router is no more than what the book promises of the offer.
RowsPromised == \A n \in Offers : rows[n].out <= AtMost(book[n].gets, book[n].fundedGets)

Closed(a) == {o \in Own(a) : capped[o] # Unknown}

\* The caps of an owner fit its funds, and the router's book keeps to them.
NotedInv ==
  stage \in {"model", "compared"} =>
    /\ book \in SnapshotBook /\ funds \in [Accounts -> Nat \cup {Unknown}]
    /\ \A o \in Offers : capped[o] # Unknown => capped[o] \in Nat
    /\ \A a \in Accounts : noted[a] # Unknown => noted[a] \in Nat /\ Sum(capped, Closed(a)) <= noted[a]
    /\ \A n \in Offers :
         /\ book[n].owner = before[ids[n]].owner
         /\ capped[ids[n]] # Unknown => AtMost(book[n].gets, book[n].fundedGets) <= capped[ids[n]]
    /\ RowsPromised

LEMMA PlaceIs == ASSUME AllPlaced, NEW o \in Offers PROVE Place(o) \in Offers /\ ids[Place(o)] = o
BY DEF AllPlaced, Place

\* A sum over offers is a sum over their places in the book.
LEMMA SumPlaced ==
  ASSUME AllPlaced, NEW f, \A n \in Offers : f[n] \in Nat, NEW S \in SUBSET Offers
  PROVE  Sum([o \in Offers |-> f[Place(o)]], S) = Sum(f, {Place(o) : o \in S})
<1> DEFINE g == [o \in Offers |-> f[Place(o)]]
           At(T) == {Place(o) : o \in T}
           P == {T \in SUBSET Offers : Sum(g, T) = Sum(f, At(T))}
<1>1. \A o \in Offers : g[o] = f[Place(o)] /\ g[o] \in Nat
  BY PlaceIs
<1> HIDE DEF g
<1>2. ASSUME NEW T \in SUBSET Offers, \A x \in T : T \ {x} \in P PROVE T \in P
  <2>1. CASE T = {}
    <3>1. At(T) = {}
      BY <2>1
    <3> QED BY <2>1, <3>1, SumEmpty
  <2>2. CASE T # {}
    <3>1. PICK x \in T : TRUE
      BY <2>2
    <3>2. Sum(g, T \ {x}) = Sum(f, At(T \ {x}))
      BY <1>2, <3>1
    <3>3. At(T \ {x}) = At(T) \ {Place(x)}
      <4>1. \A o \in T \ {x} : Place(o) # Place(x)
        BY <3>1, PlaceIs
      <4> QED BY <3>1, <4>1
    <3>4. IsFiniteSet(T) /\ IsFiniteSet(At(T)) /\ Place(x) \in At(T) /\ \A n \in At(T) : n \in Offers /\ f[n] \in Nat
      <4>1. At(T) \in SUBSET Offers
        BY PlaceIs
      <4> QED BY <3>1, <4>1, OffersFinite, FS_Subset
    <3> HIDE DEF At
    <3>5. Sum(g, T) = g[x] + Sum(g, T \ {x})
      BY <1>1, <3>1, <3>4, SumRemove
    <3>6. Sum(f, At(T)) = f[Place(x)] + Sum(f, At(T) \ {Place(x)})
      BY <3>4, SumRemove
    <3>7. Sum(g, T) = Sum(f, At(T))
      BY <1>1, <3>1, <3>2, <3>3, <3>5, <3>6
    <3> QED BY <3>7
  <2> QED BY <2>1, <2>2
<1>3. S \in P
  <2> HIDE DEF P
  <2> QED BY <1>2, OffersFinite, AllSubsets
<1> QED BY <1>3 DEF g

\* What the router took of an offer is part of its row.
LEMMA TakenOfRow ==
  ASSUME FlowInv, RowsPromised, NEW n \in Offers
  PROVE  /\ trace[n].out \in Nat /\ trace[n].gives \in Nat /\ trace[n].out <= trace[n].gives
         /\ trace[n].out <= AtMost(book[n].gets, book[n].fundedGets)
<1>1. TypeOK /\ TraceInv /\ WithinOffers /\ book[n] \in Offer /\ trace[n] \in Take
  BY OnceWithin, OfferType DEF FlowInv, CrossingInv, TypeOK
<1>2. trace[n].out \in Nat /\ trace[n].gives \in Nat /\ trace[n].gives = Gives(trace[n].out)
  BY <1>1, TakeParts DEF WithinOffers, TypeOK, Take
<1>3. rows[n].out \in Nat /\ tiers[n].out \in Nat
  BY <1>1 DEF TypeOK, BookTypeOK, Row
<1>4. trace[n].out <= rows[n].out
  <2>1. CASE phase = "allocate"
    BY <1>1, <1>3, <2>1 DEF TraceInv, NoTakes, NoTake
  <2>2. CASE phase # "allocate"
    BY <1>1, <1>2, <1>3, <2>2 DEF TraceInv
  <2> QED BY <2>1, <2>2
<1> DEFINE most == AtMost(book[n].gets, book[n].fundedGets)
<1>5. most \in Nat /\ rows[n].out <= most
  BY <1>1, AtMostType DEF RowsPromised, Offer
<1> HIDE DEF most
<1>6. trace[n].out <= most
  BY <1>2, <1>3, <1>4, <1>5
<1> QED BY <1>1, <1>2, <1>6, GivesNoLess DEF most

LEMMA NotedKeeps ==
  ASSUME StrictInv, NotedInv, stage \in {"model", "compared"}, NEW a \in Accounts, noted[a] # Unknown
  PROVE  LET open == {o \in Own(a) : capped[o] = Unknown}
         IN  Sum([o \in Offers |-> ModelTakes[o].out], Own(a))
               <= IF funds[a] # Unknown THEN funds[a]
                  ELSE noted[a] + Sum([o \in Offers |-> book[Place(o)].gets], open)
<1> DEFINE open  == {o \in Own(a) : capped[o] = Unknown}
           taken == [o \in Offers |-> ModelTakes[o].out]
           gets  == [o \in Offers |-> book[Place(o)].gets]
<1>1. ModelRan /\ AllPlaced /\ book \in SnapshotBook /\ noted[a] \in Nat /\ funds[a] \in Nat \cup {Unknown}
  BY DEF StrictInv, NotedInv
<1>2. Own(a) \in SUBSET Offers /\ IsFiniteSet(Own(a)) /\ open \in SUBSET Own(a) /\ Closed(a) \in SUBSET Own(a)
      /\ IsFiniteSet(open) /\ IsFiniteSet(Closed(a))
  BY OffersFinite, FS_Subset DEF Own, Closed
<1>3. ASSUME NEW o \in Own(a)
      PROVE  /\ o \in Offers /\ Place(o) \in Offers /\ ids[Place(o)] = o /\ book[Place(o)] \in Offer
             /\ book[Place(o)].owner = a /\ gets[o] = book[Place(o)].gets /\ gets[o] \in Nat
             /\ taken[o] \in Nat
  <2>1. o \in Offers /\ before[o].owner = a
    BY DEF Own
  <2>2. Place(o) \in Offers /\ ids[Place(o)] = o
    BY <1>1, <2>1, PlaceIs
  <2>3. book[Place(o)] \in Offer /\ book[Place(o)].owner = a
    BY <1>1, <2>1, <2>2 DEF NotedInv, SnapshotBook
  <2>4. taken[o] \in Nat
    BY <1>1, <2>1, ModelTakesType
  <2> QED BY <2>1, <2>2, <2>3, <2>4 DEF Offer
<1>4. Sum(gets, open) \in Nat
  <2> HIDE DEF gets, open
  <2> QED BY <1>2, <1>3, SumType
<1>5. CASE outcome = "rejected"
  <2>1. \A o \in Own(a) : taken[o] = 0
    BY <1>3, <1>5 DEF ModelTakes, NoTake
  <2> HIDE DEF taken, gets, open
  <2>2. Sum(taken, Own(a)) = 0
    BY <1>2, <2>1, SumZero
  <2> QED BY <1>1, <1>4, <2>2 DEF taken, gets, open
<1>6. CASE outcome # "rejected"
  <2>1. FlowInv /\ RowsPromised /\ \A o \in Own(a) : taken[o] = trace[Place(o)].out
    BY <1>1, <1>3, <1>6 DEF ModelRan, NotedInv, ModelTakes
  <2>2. CASE funds[a] # Unknown
    <3> DEFINE paid == [n \in Offers |-> IF book[n].owner = a THEN trace[n].gives ELSE 0]
               back == [o \in Offers |-> paid[Place(o)]]
               at   == {Place(o) : o \in Own(a)}
    <3>1. Sum(paid, Offers) <= funds[a]
      BY <2>1, <2>2, OwnersPay DEF FlowInv, FundsKept
    <3>2. \A n \in Offers : paid[n] \in Nat
      BY <2>1, TakenOfRow
    <3>3. \A o \in Own(a) : back[o] \in Nat /\ taken[o] <= back[o]
      BY <1>3, <2>1, TakenOfRow
    <3>4. at \in SUBSET Offers
      BY <1>3
    <3> HIDE DEF taken, paid
    <3>5. Sum(back, Own(a)) = Sum(paid, at)
      BY <1>1, <1>2, <3>2, SumPlaced
    <3> HIDE DEF back, at
    <3>6. Sum(taken, Own(a)) <= Sum(back, Own(a))
      BY <1>2, <1>3, <3>3, SumMonotone
    <3>7. Sum(paid, at) <= Sum(paid, Offers)
      BY <3>2, <3>4, OffersFinite, SumSubset
    <3>8. Sum(taken, Own(a)) \in Nat /\ Sum(paid, at) \in Nat /\ Sum(paid, Offers) \in Nat
      <4>1. IsFiniteSet(at) /\ IsFiniteSet(Offers)
        BY <3>4, OffersFinite, FS_Subset
      <4> QED BY <1>2, <1>3, <3>2, <3>4, <4>1, SumType
    <3>9. Sum(taken, Own(a)) <= funds[a]
      BY <1>1, <2>2, <3>1, <3>5, <3>6, <3>7, <3>8
    <3> QED BY <2>2, <3>9 DEF taken
  <2>3. CASE funds[a] = Unknown
    <3> DEFINE kept == [o \in Offers |-> IF capped[o] = Unknown THEN 0 ELSE capped[o]]
               free == [o \in Offers |-> IF capped[o] = Unknown THEN gets[o] ELSE 0]
               both == [o \in Offers |-> IF capped[o] = Unknown THEN gets[o] ELSE capped[o]]
    <3>1. ASSUME NEW o \in Own(a)
          PROVE  /\ kept[o] \in Nat /\ free[o] \in Nat /\ both[o] \in Nat
                 /\ both[o] = kept[o] + free[o] /\ taken[o] <= both[o]
      <4>1. /\ o \in Offers /\ gets[o] \in Nat /\ taken[o] \in Nat /\ Place(o) \in Offers
            /\ capped[o] # Unknown => capped[o] \in Nat
        BY <1>3 DEF NotedInv
      <4> DEFINE most == AtMost(book[Place(o)].gets, book[Place(o)].fundedGets)
      <4>2. taken[o] <= most
        BY <1>3, <2>1, TakenOfRow
      <4>3. capped[o] # Unknown => most <= capped[o]
        BY <1>3 DEF NotedInv
      <4>4. most \in Nat /\ most <= gets[o]
        BY <1>3, AtMostType DEF Offer
      <4> HIDE DEF most, gets, taken
      <4> QED BY <4>1, <4>2, <4>3, <4>4
    <3>2. Sum(taken, Own(a)) <= Sum(both, Own(a))
      <4> HIDE DEF taken, both, kept, free
      <4> QED BY <1>2, <1>3, <3>1, SumMonotone
    <3>3. Sum(both, Own(a)) = Sum(kept, Own(a)) + Sum(free, Own(a))
      <4> HIDE DEF taken, both, kept, free
      <4> QED BY <1>2, <3>1, SumAdd
    <3>4. Sum(kept, Own(a)) = Sum(capped, Closed(a))
      <4>1. \A o \in Own(a) \ Closed(a) : kept[o] = 0
        BY <1>2 DEF Closed
      <4>2. \A o \in Closed(a) : kept[o] \in Nat /\ capped[o] = kept[o]
        BY <1>2, <3>1 DEF Closed
      <4> HIDE DEF kept
      <4>3. Sum(kept, Own(a)) = Sum(kept, Closed(a))
        BY <1>2, <3>1, <4>1, SumPart
      <4>4. Sum(kept, Closed(a)) = Sum(capped, Closed(a))
        BY <1>2, <4>2, SumSame
      <4> QED BY <4>3, <4>4
    <3>5. Sum(free, Own(a)) = Sum(gets, open)
      <4>1. \A o \in Own(a) \ open : free[o] = 0
        BY <1>2
      <4>2. \A o \in open : free[o] \in Nat /\ gets[o] = free[o]
        BY <1>2, <3>1
      <4> HIDE DEF free, gets, open
      <4>3. Sum(free, Own(a)) = Sum(free, open)
        BY <1>2, <3>1, <4>1, SumPart
      <4>4. Sum(free, open) = Sum(gets, open)
        BY <1>2, <4>2, SumSame
      <4> QED BY <4>3, <4>4
    <3>6. Sum(capped, Closed(a)) <= noted[a]
      BY DEF NotedInv
    <3>7. Sum(taken, Own(a)) \in Nat /\ Sum(both, Own(a)) \in Nat /\ Sum(kept, Own(a)) \in Nat
      <4> HIDE DEF taken, both, kept, free
      <4> QED BY <1>2, <1>3, <3>1, SumType
    <3> HIDE DEF taken, both, kept, free, gets, open
    <3>8. Sum(taken, Own(a)) <= noted[a] + Sum(gets, open)
      BY <1>1, <1>4, <3>2, <3>3, <3>4, <3>5, <3>6, <3>7
    <3> QED BY <2>3, <3>8 DEF taken, gets, open
  <2> QED BY <2>2, <2>3
<1> QED BY <1>5, <1>6

\* A step of the router fills a row up to what is promised, or leaves the rows.
LEMMA RowsStep == ASSUME TypeOK, RowsPromised, Next PROVE RowsPromised'
<1>1. BookTypeOK /\ book' = book
  BY InputsStay DEF TypeOK
<1>2. CASE AllocateRow
  <2>1. PICK o \in unsorted : RowOf(o)
    BY <1>2, AllocatesOneRow
  <2> DEFINE f == purse[book[o].owner]
             out == EffectiveOut(o, f)
             most == AtMost(book[o].gets, book[o].fundedGets)
  <2>2. o \in Offers /\ f \in Nat \cup {Unknown} /\ most \in Nat
    BY <1>1, OfferType, AtMostType DEF BookTypeOK, Offer
  <2>3. out <= most
    <3>1. Spendable(f) \in Nat \cup {Unknown}
      BY <1>1, <2>2, FeeType, FlipType, RoundDownType DEF Spendable
    <3>2. out = AtMost(most, Spendable(f))
      BY DEF EffectiveOut
    <3> HIDE DEF out, most
    <3> QED BY <2>2, <3>1, <3>2, AtMostType
  <2>4. \A n \in Offers : rows'[n] = rows[n] \/ (n = o /\ rows'[n].out = out)
    BY <1>1, <2>1, <2>2 DEF RowOf, BookTypeOK
  <2> HIDE DEF out
  <2> QED BY <1>1, <2>3, <2>4 DEF RowsPromised
<1>3. CASE ~AllocateRow
  <2>1. rows' = rows
    BY <1>3 DEF Next, Allocate, BeginFlow, BeginRound, StopFlow, Pass, DeleteOwn, TakeReverse,
               TakeForward, RunForward, RunFallback, CommitRound, Commit, EndFlow, Settle, bookVars
  <2> QED BY <1>1, <2>1 DEF RowsPromised
<1> QED BY <1>2, <1>3

LEMMA NotedPrepare == ASSUME OwnSequences, StrictInv, Prepare PROVE NotedInv'
<1>1. /\ before \in Books /\ before' = before /\ BookTypeOK
  BY DEF Prepare, Sampled, StrictInv, FlowInv, CrossingInv, TypeOK
<1>2. PICK s \in Snapshots :
        /\ ids' \in BookOrders(s) /\ book' = [n \in Offers |-> MaterialRow(s, ids'[n])]
        /\ funds' = [a \in Accounts |-> OwnerFunds(s, a)]
        /\ capped' = [o \in Offers |-> ExternalCap(s, o)]
        /\ noted' = [a \in Accounts |-> IF Overridden(s, a) THEN Noted(s, a) ELSE Unknown]
  BY DEF Prepare
<1>3. ids' \in [Offers -> Offers]
  BY <1>2 DEF BookOrders
<1>4. book' \in SnapshotBook
  BY <1>1, <1>2, <1>3, MaterialBook
<1>5. funds' \in [Accounts -> Nat \cup {Unknown}]
  BY <1>1, <1>2, OwnerFundsType
<1>6. ASSUME NEW o \in Offers, capped'[o] # Unknown PROVE capped'[o] \in Nat
  BY <1>1, <1>2, <1>6, CapIs
<1>7. ASSUME NEW a \in Accounts, noted'[a] # Unknown
      PROVE  noted'[a] \in Nat /\ Sum(capped', Closed(a)') <= noted'[a]
  <2>1. noted'[a] = Noted(s, a) /\ Noted(s, a) # Unknown
    BY <1>2, <1>7
  <2>2. Noted(s, a) \in Nat
    BY <1>1, <2>1, NotedType
  <2>3. /\ Closed(a)' \in SUBSET Own(a)
        /\ \A o \in Closed(a)' : capped'[o] = ExternalCap(s, o) /\ capped'[o] # Unknown
    BY <1>1, <1>2 DEF Closed, Own
  <2>4. Sum(capped', Closed(a)') <= Noted(s, a)
    BY <1>1, <2>1, <2>3, PromisesFit
  <2> QED BY <2>1, <2>2, <2>4
<1>8. ASSUME NEW n \in Offers
      PROVE  /\ book'[n].owner = before'[ids'[n]].owner
             /\ capped'[ids'[n]] # Unknown => AtMost(book'[n].gets, book'[n].fundedGets) <= capped'[ids'[n]]
  <2>1. ids'[n] \in Offers /\ book'[n] = MaterialRow(s, ids'[n]) /\ capped'[ids'[n]] = ExternalCap(s, ids'[n])
    BY <1>2, <1>3
  <2> QED BY <1>1, <2>1, RowIsOffer
<1>9. RowsPromised'
  <2> SUFFICES ASSUME NEW n \in Offers PROVE rows'[n].out <= AtMost(book'[n].gets, book'[n].fundedGets)
    BY DEF RowsPromised
  <2>1. rows'[n].out = 0
    BY DEF Prepare, NoRow
  <2>2. book'[n].gets \in Nat /\ book'[n].fundedGets \in Nat \cup {Unknown}
    BY <1>4 DEF SnapshotBook, Offer
  <2>3. AtMost(book'[n].gets, book'[n].fundedGets) \in Nat
    BY <2>2, AtMostType
  <2> QED BY <2>1, <2>3
<1> QED BY <1>4, <1>5, <1>6, <1>7, <1>8, <1>9 DEF NotedInv

\* Where account_offers is used, the router's trade takes no more of an owner
\* than the funds noted for it, by whatever rounds and in whatever order of the
\* book, with whatever is stale or missing in the snapshot or in the list.  Only
\* the rows that _build_external_funded_caps_for_snapshot passes over or that the
\* list misses come on top, or, if the metadata tells the owner's funds, what
\* those are.
THEOREM ListedFundsKept ==
  ASSUME OfferPerTrade, OwnSequences PROVE FitSpec => []TradeWithinNoted
<1>1. FitInit => StrictInv /\ NotedInv
  BY StrictInit DEF FitInit, NotedInv
<1>2. StrictInv /\ NotedInv /\ [FitNext]_fitVars => NotedInv'
  <2> SUFFICES ASSUME StrictInv, NotedInv, [FitNext]_fitVars PROVE NotedInv'
    OBVIOUS
  <2>1. CASE Step
    <3>1. Next /\ UNCHANGED <<stage, before, ids, capped, noted>> /\ stage \in {"ledger", "model"}
      BY <2>1 DEF Step
    <3>2. UNCHANGED <<book, funds>>
      BY <3>1, InputsStay
    <3>3. CASE stage = "model"
      <4>1. phase # "done"
        BY <3>1 DEF Next, Pass, Allocate, BeginFlow, BeginRound, StopFlow, DeleteOwn, TakeReverse, TakeForward,
                    Visit, RunForward, RunFallback, CommitRound, EndFlow, EndPass, Settle, Passes
      <4>2. TypeOK
        BY <3>3, <4>1 DEF StrictInv, ModelRan, FlowInv, CrossingInv
      <4>3. RowsPromised'
        BY <3>1, <3>3, <4>2, RowsStep DEF NotedInv
      <4> QED BY <3>1, <3>2, <3>3, <4>3 DEF NotedInv, Closed, Own
    <3>4. CASE stage = "ledger"
      BY <3>1, <3>4 DEF NotedInv
    <3> QED BY <3>1, <3>3, <3>4
  <2>2. CASE Prepare
    BY <2>2, NotedPrepare
  <2>3. CASE Refuse
    BY <2>3 DEF Refuse, NotedInv
  <2>4. CASE Compare \/ UNCHANGED fitVars
    <3>1. UNCHANGED <<book, funds, rows, before, ids, capped, noted>> /\ (stage' = stage \/ stage = "model")
      BY <2>4 DEF Compare, fitVars, vars, bookVars
    <3> QED BY <2>4, <3>1 DEF NotedInv, Closed, Own, RowsPromised, Compare, fitVars
  <2> QED BY <2>1, <2>2, <2>3, <2>4 DEF FitNext
<1>3. StrictInv /\ NotedInv => TradeWithinNoted
  BY NotedKeeps DEF TradeWithinNoted, Own
<1>4. FitSpec => []StrictInv
  BY StrictInvariant
<1> QED BY <1>1, <1>2, <1>3, <1>4, PTL DEF FitSpec
=============================================================================
