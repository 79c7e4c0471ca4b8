------------------------------- MODULE SingleFit -------------------------------
(***************************************************************************)
(* empirical_fit_single_direct.py: a transaction the ledger has carried    *)
(* out is carried out again by the router, on a book put together from a   *)
(* snapshot and from the metadata of the transaction, and what the two did *)
(* is compared offer by offer.                                             *)
(*                                                                         *)
(* The ledger is external: it crosses the book by the rules of Crossing,   *)
(* and writes down what it changed.                                        *)
(***************************************************************************)
EXTENDS Crossing, TxIntent

CONSTANTS
  Txs,        \* the transactions to consider
  Sequences,  \* of the offers, in the order they were placed
  MaxFaults   \* how much of a snapshot is wrong

ASSUME FitAssumption ==
  /\ Sequences \in [Offers -> Nat \ {0}]
  /\ MaxFaults \in Nat
  /\ Unknown \notin [x : Int, y : Int, out : Nat, in : Nat]

\* A transaction that the ledger has carried out asks for something and offers
\* something for it.
ASSUME TxAssumption ==
  \A t \in Txs :
    /\ SendField(t).amount \in Nat \ {0} /\ t.deliver.amount \in Nat \ {0}
    /\ t.least # Unknown => t.least.amount \in Nat
    /\ t.spendable \in Nat \cup {Unknown} /\ t.owners \in Nat /\ t.fee \in Nat
    /\ \A tick \in {t.tick, Unknown} : Ticked(t, tick) \in [send : Nat \ {0}, deliver : Nat \ {0}]

VARIABLES
  stage,    \* ledger, model, compared, refused
  tx,
  before,   \* the book before the transaction
  seen,     \* offers without funds that the ledger came across
  slices,   \* how many slices of each offer were committed
  meta,     \* AffectedNodes of the transaction
  ids,      \* the offers in the order of the materialised book
  sound,    \* the snapshot told nothing wrong that the metadata does not correct
  capped,   \* taker_gets_funded by account_offers
  noted,    \* the funds that account_offers hands out, of the owners it is used for
  verdict   \* of the comparison

fitVars == <<vars, stage, tx, before, seen, slices, meta, ids, sound, capped, noted, verdict>>

NoVerdict == [strict |-> FALSE, structure |-> FALSE, bucket |-> "none"]

-----------------------------------------------------------------------------
(* The ledger *)

Absent(row) ==
  [row EXCEPT !.gets = 0, !.pays = 0, !.fundedGets = Unknown, !.fundedPays = Unknown]

Cancelled(o) == IsOffer(tx) /\ before[o].owner = Source /\ tx.cancel = Sequences[o]

FitInit ==
  /\ stage = "ledger" /\ tx \in Txs
  /\ before \in Books /\ funds \in Purses
  /\ book = [o \in Offers |-> IF Cancelled(o) THEN Absent(before[o]) ELSE before[o]]
  /\ intent = IntentOf(tx, tx.spendable, tx.tick) /\ ownerPays = IsOffer(tx)
  /\ pool \in Pools /\ Begins
  /\ seen = {} /\ slices = [o \in Offers |-> 0]
  /\ meta = Unknown /\ ids = [o \in Offers |-> o] /\ sound = TRUE
  /\ capped = [o \in Offers |-> Unknown] /\ noted = [a \in Accounts |-> Unknown]
  /\ verdict = NoVerdict

\* Where the ledger looks for the next offer to take from: between rounds, and
\* in a pass that goes on to the book.
LooksOn ==
  \/ phase = "round" /\ remainingOut > 0 /\ remainingIn > 0
  \/ phase \in Passes /\ Left > 0 /\ poolTake.out = 0

\* It comes across the offers without funds in front of that one.
Unfunded ==
  {o \in Offers : /\ book[o].gets > 0 /\ rows[o].out = 0
                  /\ OfferCrossing => ~TooDear(Rate(o))
                  /\ \A p \in (IF phase = "round" THEN Tips ELSE ahead) : Before(o, p)}

\* A step of the ledger, or of the router on the materialised book.
Step ==
  /\ stage \in {"ledger", "model"} /\ Next
  /\ seen' = IF stage = "ledger" /\ LooksOn THEN seen \cup Unfunded ELSE seen
  /\ slices' = [o \in Offers |-> slices[o] + (IF trace'[o] # trace[o] THEN 1 ELSE 0)]
  /\ UNCHANGED <<stage, tx, before, meta, ids, sound, capped, noted, verdict>>

-----------------------------------------------------------------------------
(* The metadata *)

Touched == {o \in Offers : trace[o].out > 0}

SumOver(a, f) == Sum(f, {o \in Offers : book[o].owner = a})

\* Nodes with their fields before and after.  An offer is touched, which leaves
\* PreviousFields, or deleted without a fill.
Metadata ==
  [offers  |-> [o \in Touched |->
      [pre  |-> [gets |-> book[o].gets, pays |-> book[o].pays],
       post |-> [gets |-> book[o].gets - trace[o].out,
                 pays |-> IF trace[o].in < book[o].pays THEN book[o].pays - trace[o].in ELSE 0],
       owner |-> book[o].owner]],
   lines   |-> [a \in Accounts |->
      [pre |-> funds[a], paid |-> SumOver(a, [o \in Offers |-> trace[o].gives]),
       got |-> SumOver(a, [o \in Offers |-> trace[o].in])]],
   pool    |-> IF poolTrace.out = 0 THEN Unknown
               ELSE [x |-> pool.x - poolTrace.in, y |-> pool.y + poolTrace.out,
                     out |-> poolTrace.out, in |-> poolTrace.in],
   dropped |-> (removed \cup seen \cup {o \in Offers : Cancelled(o)}) \ Touched,
   source  |-> IF tx.spendable = Unknown THEN Unknown
               ELSE IF XrpIn
               THEN [balance |-> tx.spendable + ReserveBase + tx.owners * ReserveInc + tx.fee,
                     owners  |-> tx.owners + (IF tx.ticket THEN 1 ELSE 0)]
               ELSE [balance |-> tx.spendable, owners |-> 0],
   trade   |-> [out |-> [o \in Offers |-> trace[o].out], in |-> [o \in Offers |-> trace[o].in],
                pool |-> poolTrace]]

-----------------------------------------------------------------------------
(* The snapshot *)

\* rows: each as it is, as it was before an earlier transaction, or missing.
\* notes: the owner's funds, not reported, or as they once were.
\* own: the rows have funded amounts, as book_offers gives them.
\* list: account_offers of an earlier ledger, where each offer is as it is, as it
\* was, or not yet there.
Snapshots ==
  {s \in [rows : [Offers -> {"right", "stale", "missing"}], notes : [Accounts -> {"right", "none", "stale"}],
          own : BOOLEAN, list : {Unknown} \cup [Offers -> {"right", "stale", "missing"}],
          tick : {"right", "none"}] :
     Cardinality({o \in Offers : s.rows[o] # "right"}) + Cardinality({a \in Accounts : s.notes[a] # "right"})
       + (IF s.list = Unknown THEN 0 ELSE 1) <= MaxFaults}

Older(o) ==
  [before[o] EXCEPT !.gets = @ + 1, !.pays = RoundUp(before[o].gets + 1, before[o].rate)]

Shown(s, o) == IF s.rows[o] = "stale" THEN Older(o) ELSE before[o]

\* owner_funds of the rows of an account; funds of zero are not reported.
Noted(s, a) ==
  IF \/ s.notes[a] = "none" \/ funds[a] = Unknown
     \/ \A o \in Offers : before[o].owner = a => s.rows[o] = "missing"
  THEN Unknown
  ELSE IF s.notes[a] = "stale" THEN funds[a] + 2 ELSE IF funds[a] = 0 THEN Unknown ELSE funds[a]

\* Mutant of Overlaid: what the snapshot says of a touched offer stands.
NotOverlaid(s, o) == IF s.rows[o] = "missing" THEN Absent(before[o]) ELSE Shown(s, o)

\* _overlay_current_tx_pre_offer_rows: a touched offer is as the metadata says
\* it was.
Overlaid(s, o) ==
  IF o \in Touched
  THEN [before[o] EXCEPT !.gets = Metadata.offers[o].pre.gets, !.pays = Metadata.offers[o].pre.pays]
  ELSE IF s.rows[o] = "missing" THEN Absent(before[o]) ELSE Shown(s, o)

InBook(s, o) == s.rows[o] # "missing" \/ o \in Touched

\* The snapshot's rows in its order, then the touched offers that it misses, in
\* any order; the offers the book lacks take the places behind.
BookOrders(s) ==
  LET place == [o \in Offers |-> IF s.rows[o] # "missing" THEN 1 ELSE IF o \in Touched THEN 2 ELSE 3]
  IN  {q \in [Offers -> Offers] :
         /\ \A o \in Offers : \E n \in Offers : q[n] = o
         /\ \A m, n \in Offers : m < n =>
              \/ place[q[m]] < place[q[n]]
              \/ place[q[m]] = place[q[n]] /\ (place[q[m]] = 2 \/ q[m] < q[n])}

\* What others leave of the funds noted for an account.
LeftFor(s, a, used) == IF used < Noted(s, a) THEN Noted(s, a) - used ELSE 0

\* taker_gets_funded of a row that was not overlaid: what the owner's better
\* offers leave, if that is not enough for it.
OwnFunded(s, o) ==
  LET a      == before[o].owner
      better == {p \in Offers : before[p].owner = a /\ s.rows[p] # "missing" /\ Before(p, o)}
      left   == RoundDown(LeftFor(s, a, Sum([p \in Offers |-> RoundDown(Shown(s, p).gets, OutFee)], better)),
                          Flip(OutFee))
  IN  IF /\ s.own /\ Noted(s, a) # Unknown
         /\ o \notin Touched /\ s.rows[o] # "missing" /\ left < Shown(s, o).gets
      THEN left ELSE Unknown

ListedGets(s, o) == IF s.list[o] = "stale" THEN Older(o).gets ELSE before[o].gets

Listed(s, a) == {o \in Offers : before[o].owner = a /\ s.list[o] # "missing"}

\* Mutant of FundsLeft: each offer is given all the owner has.
FundsLeftAlways(s, passed, o) == Noted(s, before[o].owner)

\* What is left of the funds for an offer once those placed earlier are covered.
\* An offer that was passed over has used none.
FundsLeft(s, passed, o) ==
  LET a       == before[o].owner
      earlier == {p \in Listed(s, a) \ passed : Sequences[p] < Sequences[o]}
  IN  LeftFor(s, a, Sum([p \in Offers |-> ListedGets(s, p)], earlier))

Funded(s, passed, o) == AtMost(ListedGets(s, o), FundsLeft(s, passed, o))

\* The offers that have less left in the book than the list would fund.
PassedOver(s, a) ==
  CHOOSE passed \in SUBSET Listed(s, a) : \A o \in Listed(s, a) :
    o \in passed <=> InBook(s, o) /\ Overlaid(s, o).gets < Funded(s, passed, o)

\* _build_external_funded_caps_for_snapshot
ExternalCap(s, o) ==
  LET a == before[o].owner
  IN  IF /\ s.list # Unknown /\ Noted(s, a) # Unknown /\ InBook(s, o)
         /\ o \in Listed(s, a) \ PassedOver(s, a)
      THEN Funded(s, PassedOver(s, a), o) ELSE Unknown

Overridden(s, a) == \E o \in Offers : before[o].owner = a /\ ExternalCap(s, o) # Unknown

\* _extract_overlay_owner_funds_from_metadata_result: an owner of a touched offer
\* had what its trust line held.
Derived(a) ==
  LET line == Metadata.lines[a]
  IN  IF /\ \E o \in Touched : before[o].owner = a
         /\ line.paid > 0 /\ line.pre # Unknown
      THEN line.pre ELSE Unknown

\* _metadata_deleted_offer_without_fill_ids
DroppedIds == Metadata.dropped

\* _filter_non_fill_deleted_offers and _apply_offercreate_cancel_sequence
KeptOut(o) ==
  \/ o \in DroppedIds /\ ~(IsOffer(tx) /\ before[o].owner = Source)
  \/ Cancelled(o)

\* _materialize_snapshot_book_offers: a cap of account_offers replaces the funded
\* amounts that the row has, and a row that is promised nothing is left out.
MaterialRow(s, o) ==
  LET cap  == ExternalCap(s, o)
      own  == IF cap = Unknown THEN OwnFunded(s, o) ELSE Unknown
      asks == IF own = Unknown THEN Unknown
              ELSE AtMost(Overlaid(s, o).pays, RoundDown(own, before[o].rate))
  IN  IF KeptOut(o) \/ 0 \in {cap, own, asks} THEN Absent(before[o])
      ELSE [Overlaid(s, o) EXCEPT !.fundedGets = IF cap = Unknown THEN own ELSE cap,
                                  !.fundedPays = asks, !.nonFill = o \in DroppedIds]

\* owner_funds as a row ends up with them: what the metadata says, unless the row
\* has a funded amount, or what the snapshot says, unless account_offers was used.
RowFunds(s, o) ==
  LET a == before[o].owner
  IN  IF Derived(a) # Unknown /\ ExternalCap(s, o) = Unknown /\ OwnFunded(s, o) = Unknown THEN Derived(a)
      ELSE IF Overridden(s, a) THEN Unknown ELSE Noted(s, a)

FundsTold(s, a) ==
  {RowFunds(s, o) : o \in {p \in Offers : before[p].owner = a /\ MaterialRow(s, p).gets > 0}} \ {Unknown}

\* _collect_owner_funds: the rows of an account must not contradict each other.
Ambiguous(s) == \E a \in Accounts : \E f, g \in FundsTold(s, a) : f # g

OwnerFunds(s, a) == IF FundsTold(s, a) = {} THEN Unknown ELSE CHOOSE f \in FundsTold(s, a) : TRUE

\* _effective_offer_tick_size_for_intent
TickKnown(s) == IF s.tick = "none" THEN Unknown ELSE tx.tick

-----------------------------------------------------------------------------
(* The router *)

\* What the snapshot says wrong is about touched offers or not needed.
Sound(s) ==
  /\ \A o \in Offers \ Touched : s.rows[o] = "right"
  /\ \A o \in Touched, p \in Offers : s.rows[o] = "missing" /\ o < p => Cheaper(Rate(o), Rate(p))
  /\ \A a \in Accounts : s.notes[a] = "right" \/ Derived(a) # Unknown
  /\ s.list = Unknown /\ TickKnown(s) = tx.tick

\* _extract_exact_amm_pre_state_from_metadata
ExactPool == [x |-> Metadata.pool.x, y |-> Metadata.pool.y]

\* _build_model_amm: the pool takes part if the ledger used it.
ModelPool == IF Metadata.pool = Unknown THEN Unknown ELSE ExactPool

Sampled == stage = "ledger" /\ phase = "done" /\ total.out > 0 /\ outcome # "rejected"

\* The book of the router replaces the ledger's, and everything starts again.
Prepare ==
  /\ Sampled /\ Accepted(tx)
  /\ stage' = "model" /\ meta' = Metadata
  /\ \E s \in Snapshots :
       /\ ~Ambiguous(s)
       /\ ids' \in BookOrders(s)
       /\ book' = [n \in Offers |-> MaterialRow(s, ids'[n])]
       /\ funds' = [a \in Accounts |-> OwnerFunds(s, a)]
       /\ intent' = IntentOf(tx, SourceCap(tx, Metadata.source), TickKnown(s))
       /\ sound' = Sound(s)
       /\ capped' = [o \in Offers |-> ExternalCap(s, o)]
       /\ noted' = [a \in Accounts |-> IF Overridden(s, a) THEN Noted(s, a) ELSE Unknown]
  /\ pool' = ModelPool
  /\ purse' = funds' /\ unsorted' = Offers
  /\ rows' = [o \in Offers |-> NoRow] /\ residual' = [o \in Offers |-> NoResidual]
  /\ phase' = IF InPathScope(tx) THEN "allocate" ELSE "done"
  /\ outcome' = IF InPathScope(tx) THEN "none" ELSE "rejected"
  /\ tiers' = rows'
  /\ ahead' = {} /\ takes' = NoTakes /\ deleted' = {}
  /\ filled' = Nothing /\ want' = 0 /\ adjusted' = FALSE /\ poolTake' = NoPoolTake
  /\ remainingOut' = 0 /\ remainingIn' = 0 /\ rounds' = 0 /\ poolRounds' = 0
  /\ total' = Nothing /\ trace' = NoTakes /\ poolTrace' = NoPoolTake /\ removed' = {}
  /\ slices' = [o \in Offers |-> 0]
  /\ UNCHANGED <<ownerPays, tx, before, seen, verdict>>

\* A sample that is not understood, or a book that contradicts itself, ends the
\* fit.
Refuse ==
  /\ Sampled /\ (~Accepted(tx) \/ \E s \in Snapshots : Ambiguous(s))
  /\ stage' = "refused"
  /\ UNCHANGED <<vars, tx, before, seen, slices, meta, ids, sound, capped, noted, verdict>>

-----------------------------------------------------------------------------
(* The comparison *)

Fills == DOMAIN meta.offers

\* What a deleted offer has left on one side does not count as left.
PostGets(o) == IF meta.offers[o].post.pays = 0 THEN 0 ELSE meta.offers[o].post.gets

PostPays(o) == IF meta.offers[o].post.gets = 0 THEN 0 ELSE meta.offers[o].post.pays

OnlyFill(o) == \A p \in Fills : meta.offers[p].owner = meta.offers[o].owner => p = o

\* The change of the owner's trust line is the better evidence, if only one offer
\* moved it.
ByLine(o) == OnlyFill(o) /\ meta.lines[meta.offers[o].owner].pre # Unknown

\* _build_real_offer_legs
RealOut(o) ==
  IF ~StartOut /\ ByLine(o) THEN meta.lines[meta.offers[o].owner].paid
  ELSE meta.offers[o].pre.gets - PostGets(o)

RealIn(o) ==
  IF ~XrpIn /\ ByLine(o) THEN meta.lines[meta.offers[o].owner].got
  ELSE meta.offers[o].pre.pays - PostPays(o)

Place(o) == CHOOSE n \in Offers : ids[n] = o

\* A failed execution has no legs.
ModelTakes == [o \in Offers |-> IF outcome = "rejected" THEN NoTake ELSE trace[Place(o)]]

ModelPoolTake == IF outcome = "rejected" THEN NoPoolTake ELSE poolTrace

ModelFills == {o \in Offers : ModelTakes[o].out > 0}

\* _model_amount_reports_for_real_side
ModelOut(o) == IF ~StartOut /\ ByLine(o) THEN ModelTakes[o].gives ELSE ModelTakes[o].out

SamePool ==
  IF meta.pool = Unknown THEN ModelPoolTake.out = 0
  ELSE meta.pool.out = ModelPoolTake.out /\ meta.pool.in = ModelPoolTake.in

\* Mutant of StrictMatch: what the model has beyond the real legs does not count.
StrictForReal ==
  /\ Fills \subseteq ModelFills /\ SamePool
  /\ \A o \in Fills : ModelOut(o) = RealOut(o) /\ ModelTakes[o].in = RealIn(o)

\* _strict_exact_match_details
StrictMatch ==
  /\ ModelFills = Fills /\ SamePool
  /\ \A o \in Fills : ModelOut(o) = RealOut(o) /\ ModelTakes[o].in = RealIn(o)

\* clob_offer_multiset_match and amm_participation_match
StructureMatch ==
  /\ ModelFills = Fills
  /\ \A n \in Offers : ids[n] \in Fills => slices[n] = 1
  /\ (meta.pool = Unknown) = (ModelPoolTake.out = 0)

\* _compare_reports, _classify_fit_bucket
Compare ==
  /\ stage = "model" /\ phase = "done"
  /\ stage' = "compared"
  /\ verdict' = [strict |-> StrictMatch, structure |-> StructureMatch,
                 bucket |-> IF StrictMatch THEN "strict_exact"
                            ELSE IF StructureMatch THEN "strict_failed_structure_matched"
                            ELSE "structure_mismatch"]
  /\ UNCHANGED <<vars, tx, before, seen, slices, meta, ids, sound, capped, noted>>

FitNext == Step \/ Prepare \/ Refuse \/ Compare

FitSpec == FitInit /\ [][FitNext]_fitVars

-----------------------------------------------------------------------------
(* Properties *)

\* A deleted offer had something left on one side.
LeftDust == \E o \in Fills : (meta.offers[o].post.gets = 0) # (meta.offers[o].post.pays = 0)

\* If the ledger crosses as the router does, the comparison is exact: whatever
\* the snapshot says of touched offers and their owners, and although it leaves
\* out funds of zero, the book put together from it gives the same trade.
RightRouterMatches ==
  stage = "compared" /\ sound /\ ~LeftDust => verdict.strict

\* A strict match is no coincidence: every offer and the pool gave and got the
\* same in the model as in the ledger.
StrictMeansSameTrade ==
  stage = "compared" /\ verdict.strict /\ ~LeftDust =>
    /\ [o \in Offers |-> ModelTakes[o].out] = meta.trade.out
    /\ [o \in Offers |-> ModelTakes[o].in] = meta.trade.in
    /\ ModelPoolTake.out = meta.trade.pool.out /\ ModelPoolTake.in = meta.trade.pool.in

\* Where account_offers is used, what its rows are promised is all that keeps
\* the trade within the owner's funds.  However many rounds the router takes and
\* in whatever order the book has the offers, each quantum is promised once.  A
\* row that was passed over is bound by the funds that the metadata tells, and by
\* nothing if it tells none.
TradeWithinNoted ==
  stage \in {"model", "compared"} =>
    \A a \in Accounts : noted[a] # Unknown =>
      LET own  == {o \in Offers : before[o].owner = a}
          open == {o \in own : capped[o] = Unknown}
      IN  Sum([o \in Offers |-> ModelTakes[o].out], own)
            <= IF funds[a] # Unknown THEN funds[a]
               ELSE noted[a] + Sum([o \in Offers |-> book[Place(o)].gets], open)
=============================================================================
