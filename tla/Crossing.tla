------------------------------ MODULE Crossing ------------------------------
(***************************************************************************)
(* How a transaction crosses one side of the book and the pool beside it:  *)
(* execution_semantics.py (execute_single_path_intent and the rounds of    *)
(* run_payment_constrained_quote) and book_step.py (one book step of a     *)
(* round).  A round runs the step in reverse, for the output that is still *)
(* wanted, and if that costs more than what is left of the budget, or came *)
(* to nothing, again forward, for the input that is left.  A step takes    *)
(* one slice of the pool, or visits offers best first and takes from one   *)
(* quality only.  What the round found is committed to the working book    *)
(* and pool if it keeps the limit quality.                                 *)
(*                                                                         *)
(* The code compares pool and book, and a round with an adjusted target,   *)
(* with a relative tolerance of 1e-7.  Rates of the amounts considered     *)
(* that are as close as that are equal.                                    *)
(***************************************************************************)
EXTENDS BookOffers, AmmPool

CONSTANTS
  Intents,     \* the transactions to consider
  Source,      \* their account
  InFee,       \* transfer rate of the issuer of the input
  FixReduced,  \* fixReducedOffersV2 is enabled
  Ceiling,     \* _sell_deliver_ceiling
  MaxRounds,   \* MAX_FLOW_ITERS
  Pools,       \* the pools to consider; Unknown is none
  FixAmm,      \* fixAMMv1_1 is enabled
  MaxPoolRounds  \* MAX_AMM_FLOW_ITERS

\* send is SendMax or TakerGets, deliver the book's share of DeliverMax or
\* TakerPays, least that of DeliverMin (0: none), cap what the source can pay,
\* limit the quality limit; that of an OfferCreate, if Unknown, is in what it asks.
Intent ==
  {i \in [kind : {"payment", "sell", "buy"}, send : Nat \ {0}, deliver : Nat \ {0},
          least : Nat, cap : Nat \cup {Unknown}, limit : Rates \cup {Unknown},
          partial : BOOLEAN, fok : BOOLEAN, ioc : BOOLEAN, passive : BOOLEAN] :
     i.kind = "payment" => ~i.passive}

ASSUME CrossingAssumption ==
  /\ Intents \subseteq Intent
  /\ InFee \in Rates /\ InFee[1] >= InFee[2]
  /\ FixReduced \in BOOLEAN
  /\ Ceiling \in Nat /\ MaxRounds \in Nat
  /\ Pools \subseteq [x : Nat \ {0}, y : Nat \ {0}] \cup {Unknown}
  /\ FixAmm \in BOOLEAN /\ MaxPoolRounds \in Nat

VARIABLES
  intent,
  phase,         \* allocate, round, reverse, forward, fallback, settle, done
  tiers,         \* mtiers: the working book
  pool,          \* working_amm
  \* the running pass of the book step
  ahead,         \* rows it has not visited
  takes,         \* what it takes from each row
  deleted,       \* the source's own offers it deletes
  filled,        \* total output and input of the pass
  want,          \* the output the pass may take
  adjusted,      \* adjusted_remaining_out: less than is left was wanted
  poolTake,      \* what it takes from the pool
  \* the flow
  remainingOut, remainingIn, rounds,
  poolRounds,    \* amm_iters
  total,         \* total output and input of the committed rounds
  trace,         \* all_trace, added up for each offer
  poolTrace,     \* and for the pool
  removed,       \* offers the trace deletes
  outcome        \* of the transaction

passVars == <<ahead, takes, deleted, filled, want, adjusted, poolTake>>
flowVars == <<tiers, pool, remainingOut, remainingIn, rounds, poolRounds,
              total, trace, poolTrace, removed>>
vars == <<bookVars, intent, phase, passVars, flowVars, outcome>>

Passes == {"reverse", "forward", "fallback"}

Phases == {"allocate", "round", "settle", "done"} \cup Passes

Outcomes == {"none", "filled", "partial", "posted", "rejected"}

NoTake == [out |-> 0, in |-> 0, gross |-> 0, gives |-> 0]

Nothing == [out |-> 0, in |-> 0]

NoTakes == [o \in Offers |-> NoTake]

NoPoolTake == [out |-> 0, in |-> 0, gross |-> 0]

-----------------------------------------------------------------------------
(* What the transaction asks for *)

OfferCrossing == intent.kind # "payment"

\* _offer_gateway_sendmax
SendMax == IF OfferCrossing THEN RoundUp(intent.send, InFee) ELSE intent.send

Budget == AtMost(SendMax, intent.cap)

Target == IF intent.kind = "sell" THEN Ceiling ELSE intent.deliver

LimitRate ==
  IF OfferCrossing /\ intent.limit = Unknown THEN <<SendMax, intent.deliver>> ELSE intent.limit

\* A quality worse than the limit.  A passive offer's limit is the next better
\* quality, so it refuses equality too.
TooDear(rate) ==
  /\ LimitRate # Unknown
  /\ IF intent.passive THEN ~Cheaper(rate, LimitRate) ELSE Cheaper(LimitRate, rate)

-----------------------------------------------------------------------------
(* One row *)

Best(S) == CHOOSE o \in S : Leads(o, S)

Rate(o) == book[o].rate

\* Crossing one's own offer pays no transfer fee.
InFeeOf(o) == IF OfferCrossing /\ book[o].owner = Source THEN Parity ELSE InFee

\* _prepare_row: the whole row, cut again if its funds no longer cover it.
Prepared(o) ==
  LET t     == tiers[o]
      short == t.funds # Unknown /\ t.funds < Gives(t.out)
      out   == IF short THEN RoundDown(t.funds, Flip(Fee)) ELSE t.out
      in    == IF short THEN AtMost(RoundDown(out, Rate(o)), t.in) ELSE t.in
  IN  [out |-> out, in |-> in, gross |-> RoundUp(in, InFeeOf(o)),
       gives |-> IF short THEN t.funds ELSE Gives(out)]

Executable(o) ==
  /\ tiers[o].out > 0 /\ tiers[o].in > 0
  /\ Prepared(o).out > 0 /\ Prepared(o).in > 0

\* _limit_prepared_out
LimitedOut(o, limit) ==
  IF limit >= Prepared(o).out THEN Prepared(o)
  ELSE LET in == AtMost(RoundUp(limit, Rate(o)), Prepared(o).in)
       IN  [out |-> limit, in |-> in, gross |-> RoundUp(in, InFeeOf(o)),
            gives |-> Gives(limit)]

\* _limit_prepared_in, for a limit below what the row costs; NoTake if it buys
\* nothing.
LimitedIn(o, limit, roundUp) ==
  LET raw == AtMost(RoundDown(limit, Flip(InFeeOf(o))), Prepared(o).in)
      out == AtMost(IF roundUp THEN RoundUp(raw, Flip(Rate(o)))
                               ELSE RoundDown(raw, Flip(Rate(o))), Prepared(o).out)
  IN  IF raw = 0 \/ out = 0 THEN NoTake
      ELSE [out |-> out, in |-> raw, gross |-> RoundUp(raw, InFeeOf(o)),
            gives |-> Gives(out)]

-----------------------------------------------------------------------------
(* The pool beside the book *)

PoolActive == pool # Unknown /\ poolRounds < MaxPoolRounds

Live == {o \in Offers : tiers[o].out > 0 /\ tiers[o].in > 0}

\* An offer of the source of an OfferCreate that has no funds stays in the book.
Visible == Live \cup {o \in Offers : rows[o].out = 0 /\ residual[o].out > 0}

\* _offer_stream_rows
Tips == {o \in Offers : Executable(o)}

\* _offer_crossing_amm_quality_threshold and the slice it asks for: beside an
\* offer beyond the limit the pool offers all it has.
OfferBeside(r, cap) ==
  IF FixAmm /\ TooDear(r) THEN MaxSlice(pool, cap) ELSE SliceAgainst(pool, r, Unknown)

Beats(slice, r) == slice # NoSlice /\ Cheaper(slice.rate, r)

\* _amm_is_tip_for_quality_function, for an offer crossing
PoolIsTip ==
  PoolActive /\ (Visible # {} => LET r == Rate(Best(Visible)) IN Beats(OfferBeside(r, Unknown), r))

\* The output at which a pool, its input charged at fee, has come to the rate
\* r on average, to the nearest quantum, halves to even.
OutputAt(r, fee) ==
  LET over == fee[2] * Keep[1] * r[1]
      all  == pool.y * over - pool.x * fee[1] * Keep[2] * r[2]
      twice == 2 * (all % over)
  IN  all \div over + (IF twice > over \/ (twice = over /\ (all \div over) % 2 = 1) THEN 1 ELSE 0)

\* _limit_out_by_quality_function
LimitOut(isTip, fee, out) ==
  LET over == fee[2] * Keep[1] * LimitRate[1]
  IN  IF /\ OfferCrossing /\ isTip
         /\ pool.y * over > pool.x * fee[1] * Keep[2] * LimitRate[2]
      THEN AtMost(out, OutputAt(LimitRate, fee)) ELSE out

IfNoDearer(slice, r) == IF NoDearer(slice, r) THEN slice ELSE NoSlice

\* The pool alone: nothing in the book can be executed.
SliceAlone(cap) ==
  IF OfferCrossing
  THEN IF MaxSlice(pool, cap) = NoSlice THEN NoSlice
       ELSE MaxSlice(pool, LimitOut(TRUE, Parity, cap))
  ELSE IF LimitRate = Unknown THEN MaxSlice(pool, cap) ELSE SliceFor(pool, LimitRate, cap)

\* _competing_amm_segment: in an offer crossing not from a pool that is itself
\* no better than r, unless the offer is beyond the limit.
SliceBeside(r, cap) ==
  IF ~OfferCrossing
  THEN IfNoDearer(SliceAgainst(pool, r, Unknown), r)
  ELSE IF FixAmm /\ TooDear(r) THEN MaxSlice(pool, cap)
  ELSE IF Cheaper(Spot(pool), r) THEN IfNoDearer(SliceAgainst(pool, r, Unknown), r)
  ELSE NoSlice

PoolSlice(cap) ==
  IF ~PoolActive THEN NoSlice
  ELSE IF Tips = {} THEN SliceAlone(cap) ELSE SliceBeside(Rate(Best(Tips)), cap)

\* _amm_take_exact_out_with_rate: a payment that finds only the pool gets what
\* the whole quanta of its input buy.
ExactOut(slice, cap) ==
  LET out   == AtMost(slice.out, cap)
      whole == ~OfferCrossing /\ Tips = {}
      in    == IF out = slice.out /\ ~whole THEN slice.in ELSE SwapIn(pool, out)
  IN  [out |-> IF whole THEN SwapOut(pool, in) ELSE out, in |-> in, gross |-> RoundUp(in, InFee)]

\* _amm_take_under_budget
UnderBudget(slice, cap) ==
  LET out  == AtMost(slice.out, cap)
      need == SwapIn(pool, out)
      raw  == RoundDown(remainingIn, Flip(InFee))
  IN  IF raw = 0 \/ need = 0 THEN NoPoolTake
      ELSE IF raw >= need THEN [out |-> out, in |-> need, gross |-> RoundUp(need, InFee)]
      ELSE [out |-> SwapOut(pool, raw), in |-> raw, gross |-> remainingIn]

PoolTakeOf(slice, direction, cap) ==
  IF slice = NoSlice THEN NoPoolTake
  ELSE IF direction = "reverse" THEN ExactOut(slice, cap) ELSE UnderBudget(slice, cap)

-----------------------------------------------------------------------------
(* One pass of the book step *)

\* _offer_stream_rows and _filtered_rows.  The floor of an offer crossing is
\* one step worse than its limit, for a passive offer the plain limit.
Candidates ==
  {o \in Offers : Executable(o) /\ (OfferCrossing => ~Cheaper(LimitRate, Rate(o)))}

\* _should_delete_self_cross_offer
OwnCross(o) ==
  OfferCrossing /\ book[o].owner = Source /\ (book[o].nonFill \/ ~TooDear(Rate(o)))

\* _drop_leading_self_cross_deletes: the source's own offers of the best
\* quality, as long as they come first.
LeadingOwn ==
  {o \in Candidates :
     /\ OwnCross(o) /\ ~Cheaper(Rate(Best(Candidates)), Rate(o))
     /\ \A p \in Candidates : Before(p, o) => OwnCross(p)}

\* A pass finds nothing if the first row behind them is beyond the limit.
Blocked ==
  /\ LeadingOwn # {} /\ Candidates \ LeadingOwn # {}
  /\ TooDear(Rate(Best(Candidates \ LeadingOwn)))

\* What the pass still has to find (reverse) or to spend (forward).
Left == IF phase = "reverse" THEN want - filled.out ELSE remainingIn - filled.in

\* Mutant of SameQuality: a pass takes from one row only.
FirstOnly(o) == \A p \in Offers : takes[p].out = 0

\* One quality only: that of the first row it takes from.
SameQuality(o) ==
  \A p \in Offers : takes[p].out > 0 => ~Cheaper(Rate(p), Rate(o))

\* The pass has something left to find and a row left to find it in.
PassOpen == ahead # {} /\ Left > 0 /\ SameQuality(Best(ahead)) /\ ~Blocked

\* A pass takes what the pool offers, or goes on to the book.  A slice beyond
\* the limit of an offer crossing ends the pass.
PassWith(slice, take) ==
  LET some == take.out > 0 /\ take.in > 0
      stop == OfferCrossing /\ TooDear(slice.rate)
  IN  /\ ahead' = IF some THEN {} ELSE Candidates
      /\ poolTake' = IF some /\ ~stop THEN take ELSE NoPoolTake
      /\ filled' = IF some /\ ~stop THEN [out |-> take.out, in |-> take.gross] ELSE Nothing

StartPass(direction, cap) ==
  /\ phase' = direction /\ want' = cap
  /\ takes' = NoTakes /\ deleted' = {}
  /\ \E slice \in {PoolSlice(cap)} : PassWith(slice, PoolTakeOf(slice, direction, cap))

\* The flow begins with the rows book_offers allocated.
BeginFlow ==
  /\ phase = "allocate" /\ unsorted = {}
  /\ phase' = "round"
  /\ tiers' = rows
  /\ remainingOut' = Target /\ remainingIn' = Budget
  /\ UNCHANGED <<bookVars, intent, passVars, pool, rounds, poolRounds, total, trace, poolTrace,
                 removed, outcome>>

\* _quality_upper_bound_for_state: what the book or the pool promises is within
\* the limit of an offer crossing.
PromisesEnough ==
  IF PoolIsTip
  THEN \E slice \in {IF Visible = {} THEN MaxSlice(pool, Unknown)
                      ELSE OfferBeside(Rate(Best(Visible)), Unknown)} :
         slice # NoSlice /\ ~TooDear(slice.rate)
  ELSE ~TooDear(Rate(Best(Visible)))

\* Mutant of GoesOn: the last round allowed is counted one late.
GoesOnOnceMore ==
  /\ rounds <= MaxRounds /\ remainingOut > 0 /\ remainingIn > 0
  /\ Visible # {} \/ PoolActive
  /\ OfferCrossing => PromisesEnough

\* The flow's own tests before a round.
GoesOn ==
  /\ rounds < MaxRounds /\ remainingOut > 0 /\ remainingIn > 0
  /\ Visible # {} \/ PoolActive
  /\ OfferCrossing => PromisesEnough

BeginRound ==
  /\ phase = "round" /\ GoesOn
  /\ StartPass("reverse", LimitOut(PoolIsTip, InFee, remainingOut))
  /\ adjusted' = (want' < remainingOut)
  /\ UNCHANGED <<bookVars, intent, flowVars, outcome>>

StopFlow ==
  /\ phase = "round" /\ ~GoesOn
  /\ phase' = "settle"
  /\ UNCHANGED <<bookVars, intent, passVars, flowVars, outcome>>

Visit == phase \in Passes /\ PassOpen

\* The source's own offer, if it would be crossed, is deleted.
DeleteOwn ==
  /\ Visit /\ OwnCross(Best(ahead))
  /\ deleted' = deleted \cup {Best(ahead)}
  /\ ahead' = ahead \ {Best(ahead)}
  /\ UNCHANGED <<bookVars, intent, phase, takes, filled, want, adjusted, poolTake, flowVars, outcome>>

\* _consume_clob_exact_out
TakeReverse ==
  /\ phase = "reverse" /\ Visit /\ ~OwnCross(Best(ahead))
  /\ LET o    == Best(ahead)
         take == LimitedOut(o, Left)
     IN  /\ takes' = [takes EXCEPT ![o] = take]
         /\ filled' = [out |-> filled.out + take.out, in |-> filled.in + take.gross]
         /\ ahead' = ahead \ {o}
  /\ UNCHANGED <<bookVars, intent, phase, deleted, want, adjusted, poolTake, flowVars, outcome>>

\* Mutant of RoundsUp: outputs are always rounded up.
AlwaysUp == TRUE

\* The output is rounded up only where the amendment flag reaches the step:
\* when its first row was an own offer that it deleted.
RoundsUp == ~FixReduced /\ LeadingOwn # {}

\* _consume_clob_exact_in.  A row of which the input left buys nothing is
\* skipped.  Output beyond what the pass wants is cut back to it, if that takes
\* all of the input.
TakeForward ==
  /\ phase \in {"forward", "fallback"} /\ Visit /\ ~OwnCross(Best(ahead))
  /\ LET o       == Best(ahead)
         bound   == Left < Prepared(o).gross
         take    == IF bound THEN LimitedIn(o, Left, RoundsUp) ELSE Prepared(o)
         wanted  == want - filled.out
         cutBack == LimitedOut(o, wanted)
     IN  /\ ahead' = ahead \ {o}
         /\ IF take = NoTake THEN UNCHANGED <<takes, filled>>
            ELSE IF 0 < wanted /\ wanted < take.out /\ cutBack.gross = Left
            THEN /\ takes' = [takes EXCEPT ![o] = cutBack]
                 /\ filled' = [out |-> want, in |-> remainingIn]
            ELSE /\ takes' = [takes EXCEPT ![o] = take]
                 /\ filled' = [out |-> filled.out + take.out,
                               in  |-> IF bound THEN remainingIn ELSE filled.in + take.gross]
  /\ UNCHANGED <<bookVars, intent, phase, deleted, want, adjusted, poolTake, flowVars, outcome>>

-----------------------------------------------------------------------------
(* The end of a pass *)

RoundTakes(o) == [out   |-> trace[o].out + takes[o].out,
                  in    |-> trace[o].in + takes[o].in,
                  gross |-> trace[o].gross + takes[o].gross,
                  gives |-> trace[o].gives + takes[o].gives]

\* Mutant of Consumed: what is left of a row is rounded down.
ConsumedDown(o) ==
  LET t   == tiers[o]
      out == t.out - takes[o].out
      in  == RoundDown(out, <<t.in, t.out>>)
  IN  [t EXCEPT !.out = IF in = 0 THEN 0 ELSE out, !.in = in]

\* Mutant of Consumed: a partial take costs the owner the whole row.
ConsumedDear(o) ==
  LET t   == tiers[o]
      out == t.out - takes[o].out
  IN  [out |-> out, in |-> RoundUp(out, <<t.in, t.out>>), funds |-> Remaining(t.funds, t.out)]

\* _consume_clob_slices_inplace: what is left of a row asks for its share of
\* the row's input, rounded up.
Consumed(o) ==
  LET t    == tiers[o]
      out  == IF takes[o].out < t.out THEN t.out - takes[o].out ELSE 0
      in   == RoundUp(out, <<t.in, t.out>>)
      paid == IF Fee # Parity THEN Remaining(t.funds, takes[o].out) ELSE t.funds
  IN  [out |-> out, in |-> in, funds |-> paid]

Replaced(o) ==
  IF o \in deleted THEN [tiers[o] EXCEPT !.out = 0, !.in = 0]
  ELSE IF takes[o].out > 0 THEN Consumed(o) ELSE tiers[o]

\* Within one quantum of what was asked for.
Reached(x, asked) == x + 1 >= asked

\* Worse than the limit, but not for the step that sets a passive offer apart.
WellTooDear(rate) == LimitRate # Unknown /\ Cheaper(LimitRate, rate)

\* Mutant of KeepsLimit: only the forward branch is checked.
KeepsLimitForward ==
  phase = "reverse" \/ ~TooDear(<<filled.in, filled.out>>)

\* _iteration_violates_limit_quality: the quality of a round, fees included, is
\* checked before it is committed.
KeepsLimit ==
  IF adjusted THEN ~WellTooDear(<<filled.in, filled.out>>) ELSE ~TooDear(<<filled.in, filled.out>>)

Commit ==
  LET out == total.out + filled.out
      in  == total.in + filled.in
  IN  /\ total' = [out |-> out, in |-> in]
      /\ trace' = [o \in Offers |-> RoundTakes(o)]
      /\ poolTrace' = [k \in DOMAIN poolTrace |-> poolTrace[k] + poolTake[k]]
      /\ removed' = removed \cup deleted
      /\ tiers' = [o \in Offers |-> Replaced(o)]
      /\ IF poolTake # NoPoolTake
           THEN /\ pool' = Filled(pool, poolTake.in, poolTake.out)
                /\ poolRounds' = poolRounds + 1
           ELSE UNCHANGED <<pool, poolRounds>>
      /\ remainingOut' = IF Reached(out, Target) THEN 0 ELSE Target - out
      /\ remainingIn' = IF in >= Budget THEN 0 ELSE Budget - in
      /\ rounds' = rounds + 1
      /\ phase' = "round"
      /\ UNCHANGED <<bookVars, intent, passVars, outcome>>

\* Mutant of BindsBudget: a round that costs too much is not run forward.
NeverBinds == FALSE

\* sendmax_binding_round
BindsBudget == phase = "reverse" /\ remainingIn < filled.in

EndPass == phase \in Passes /\ ~PassOpen

RunForward ==
  /\ EndPass /\ filled.out > 0 /\ BindsBudget
  /\ StartPass("forward", filled.out)
  /\ UNCHANGED <<bookVars, intent, adjusted, flowVars, outcome>>

\* What the forward pass of a dry round may take at most.
Capacity ==
  Sum([o \in Offers |-> IF o \in Live /\ ~TooDear(Rate(o)) THEN tiers[o].out ELSE 0], Offers)
    + (IF PoolActive THEN SwapOut(pool, remainingIn) ELSE 0)

\* A round that found nothing in reverse is run forward.
RunFallback ==
  /\ EndPass /\ phase = "reverse" /\ filled.out = 0
  /\ StartPass("fallback", Capacity)
  /\ UNCHANGED <<bookVars, intent, adjusted, flowVars, outcome>>

\* The limit is not tested again for a round that was dry in reverse.
Commits ==
  /\ filled.out > 0 /\ ~BindsBudget
  /\ IF phase = "fallback" THEN filled.out <= remainingOut ELSE KeepsLimit

CommitRound == EndPass /\ Commits /\ Commit

\* Nothing found, or a round beyond the limit or the target, ends the flow.
EndFlow ==
  /\ EndPass /\ ~Commits
  /\ phase = "reverse" => filled.out > 0 /\ ~BindsBudget
  /\ phase' = "settle"
  /\ UNCHANGED <<bookVars, intent, passVars, flowVars, outcome>>

-----------------------------------------------------------------------------
(* The verdict on the transaction *)

Dry == total.out = 0

Short == ~Reached(total.out, Target)

PaymentOutcome ==
  IF \/ intent.least > 0 /\ ~Reached(total.out, intent.least)
     \/ Dry
     \/ Short /\ (~intent.partial \/ total.out < intent.least)
  THEN "rejected" ELSE IF Short THEN "partial" ELSE "filled"

\* The least input that bought a quantum of output from any row or from the
\* pool, as they were before the flow, book-visible rows included.
Prices ==
  LET before == [x |-> pool.x - poolTrace.in, y |-> pool.y + poolTrace.out]
      price  == SwapIn(before, 1)
  IN  (UNION {{RoundUp(1, <<x.in, x.out>>) : x \in {y \in {rows[o], residual[o]} : y.out > 0}} :
                o \in {p \in Offers : ~TooDear(Rate(p))}})
      \cup (IF pool # Unknown /\ price > 0 /\ ~TooDear(<<price, 1>>) THEN {price} ELSE {})

\* Mutant of SpentUp: the comparison with the price is turned round.
SpentUpTurned ==
  \/ Reached(total.in, Budget)
  \/ \A p \in Prices : p < Budget - total.in

\* exhausted_budget: a sell is complete when what is left buys nothing.
SpentUp ==
  \/ Reached(total.in, Budget)
  \/ \A p \in Prices : Budget - total.in < p

Incomplete == Dry \/ (IF intent.kind = "sell" THEN ~SpentUp ELSE Short)

OfferOutcome ==
  IF ~Incomplete THEN "filled"
  ELSE IF intent.fok THEN "rejected"
  ELSE IF intent.ioc THEN "partial" ELSE "posted"

Settle ==
  /\ phase = "settle"
  /\ phase' = "done"
  /\ outcome' = IF OfferCrossing THEN OfferOutcome ELSE PaymentOutcome
  /\ UNCHANGED <<bookVars, intent, passVars, flowVars>>

-----------------------------------------------------------------------------
\* A transaction before its first step.
Begins ==
  /\ Unallocated /\ phase = "allocate" /\ tiers = rows
  /\ ahead = {} /\ takes = NoTakes /\ deleted = {}
  /\ filled = Nothing /\ want = 0 /\ adjusted = FALSE /\ poolTake = NoPoolTake
  /\ remainingOut = 0 /\ remainingIn = 0 /\ rounds = 0 /\ poolRounds = 0
  /\ total = Nothing /\ trace = NoTakes /\ poolTrace = NoPoolTake /\ removed = {}
  /\ outcome = "none"

Init ==
  /\ BookInit
  /\ intent \in Intents /\ ownerPays = OfferCrossing /\ pool \in Pools
  /\ Begins

Allocate ==
  /\ phase = "allocate" /\ AllocateRow
  /\ UNCHANGED <<intent, phase, passVars, flowVars, outcome>>

Pass ==
  \/ DeleteOwn \/ TakeReverse \/ TakeForward
  \/ RunForward \/ RunFallback \/ CommitRound \/ EndFlow

Next == Allocate \/ BeginFlow \/ BeginRound \/ StopFlow \/ Pass \/ Settle

Spec == Init /\ [][Next]_vars

-----------------------------------------------------------------------------
(* Properties *)

Take == [out : Nat, in : Nat, gross : Nat, gives : Nat]

Amount == [out : Nat, in : Nat]

PoolTake == [out : Nat, in : Nat, gross : Nat]

TypeOK ==
  /\ BookTypeOK
  /\ intent \in Intent /\ phase \in Phases /\ outcome \in Outcomes
  /\ tiers \in [Offers -> Row]
  /\ ahead \subseteq Offers /\ deleted \subseteq Offers /\ removed \subseteq Offers
  /\ takes \in [Offers -> Take] /\ trace \in [Offers -> Take]
  /\ filled \in Amount /\ total \in Amount /\ want \in Nat /\ adjusted \in BOOLEAN
  /\ pool \in [x : Nat \ {0}, y : Nat \ {0}] \cup {Unknown}
  /\ poolTake \in PoolTake /\ poolTrace \in PoolTake
  /\ remainingOut \in Nat /\ remainingIn \in Nat
  /\ rounds \in 0 .. MaxRounds /\ poolRounds \in 0 .. MaxPoolRounds

\* The pool as the last round found it.
PoolBefore == [x |-> pool.x - poolTake.in, y |-> pool.y + poolTake.out]

\* What a quantum less of input would have bought of the pool in the last pass.
WithoutLastQuantum == SwapOut(PoolBefore, poolTake.in - 1)

\* However many rounds, reverse or forward, of book and pool, the source never
\* pays more than SendMax and its own funds allow.  It never receives more than
\* it asked for, except what the last quantum of input buys of the pool: a
\* forward pass on a smaller budget never finds more than the reverse pass.
BudgetKept ==
  /\ total.in <= Budget
  /\ total.out > Target => poolTake.out > 0 /\ WithoutLastQuantum < want

\* Whatever was crossed in all rounds together, transfer fees and rounding
\* included, is within the limit quality of the transaction.
LimitKept == total.out > 0 => ~TooDear(<<total.in, total.out>>)

\* No owner pays more for all its offers together than the funds it had.
FundsKept ==
  \A a \in Accounts : funds[a] # Unknown =>
    Sum([o \in Offers |-> IF book[o].owner = a THEN trace[o].gives ELSE 0], Offers) <= funds[a]

\* A row never runs short of funds on the way: taking some of it leaves funds
\* for the rest, so the book step never has to cut it a second time.
StaysFunded ==
  phase # "allocate" =>
    \A o \in Offers : tiers[o].out > 0 /\ tiers[o].funds # Unknown =>
      Gives(tiers[o].out) <= tiers[o].funds

\* The trace accounts for the result: what an offer gave is missing from its
\* row, what all gave is the output, and nobody got more input than was spent.
TraceAccounts ==
  /\ \A o \in Offers \ removed : phase # "allocate" =>
       tiers[o].out + trace[o].out = rows[o].out
  /\ Sum([o \in Offers |-> trace[o].out], Offers) + poolTrace.out = total.out
  /\ Sum([o \in Offers |-> trace[o].gross], Offers) + poolTrace.gross <= total.in

\* An owner is not short-changed by rounding: what it was paid and what the
\* rest of its row asks are no less than the row asked at first.
AskKept ==
  \A o \in Offers \ removed : trace[o].out > 0 =>
    rows[o].in <= trace[o].in + tiers[o].in

\* The source buys from an offer only if it could no longer afford a quantum
\* of any better one that is left.
BetterOfferFirst ==
  \A o, p \in Offers :
    /\ trace[p].out > 0 /\ Before(o, p)
    /\ o \in Candidates /\ ~OwnCross(o)
    => total.in + LimitedOut(o, 1).gross > Budget

\* Each committed round draws on the pool or uses up a quality: a round never
\* ends with a rest of that quality to come back for, so a book of almost a
\* thousand qualities is what it takes to meet MAX_FLOW_ITERS.
RoundsSuffice ==
  rounds <= poolRounds
            + Cardinality({o \in Offers : \A p \in Offers : Before(p, o) => Cheaper(Rate(p), Rate(o))})

\* A sell that counts as complete leaves no more than a quantum of budget, or
\* less than any row within the limit, and the pool, asks for one quantum.
SoldOut ==
  outcome = "filled" /\ intent.kind = "sell" =>
    \/ total.in + 1 >= Budget
    \/ /\ \A o \in Candidates : TooDear(Rate(o)) \/ OwnCross(o)
                                  \/ total.in + LimitedOut(o, 1).gross > Budget
       /\ \/ pool = Unknown \/ pool.y = 1 \/ TooDear(<<SwapIn(pool, 1), 1>>)
          \/ total.in + RoundUp(SwapIn(pool, 1), InFee) > Budget

\* However a trade is split into slices, and whichever way they were found, the
\* pool does not lose: the product of its sides never falls.
PoolPaid ==
  pool # Unknown =>
    (pool.x - poolTrace.in) * (pool.y + poolTrace.out) <= pool.x * pool.y

\* The pool is not drawn on beyond the offer it was preferred to: after a slice
\* it is no dearer than the best offer left, unless that offer is beyond the
\* limit or dearer than all the pool has to give, taken as a whole.
PoolKeepsRank ==
  phase = "round" /\ poolTake.out > 0 =>
    LET largest == MaxSlice(PoolBefore, Unknown)
    IN  \A o \in Tips :
          \/ ~Cheaper(Rate(o), Spot(pool)) \/ TooDear(Rate(o))
          \/ largest # NoSlice /\ Cheaper(<<largest.in, largest.out>>, Rate(o))
=============================================================================
