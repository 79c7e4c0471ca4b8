------------------------------ MODULE BestPrice ------------------------------
(***************************************************************************)
(* empirical_best_price_intent_optimizer.py: how much more the input of a  *)
(* transaction could have bought, and how much less its output could have  *)
(* cost, had it been split otherwise between the pool and the book.        *)
(*                                                                         *)
(* The split is located where the marginal price of the pool crosses the   *)
(* price of the book, the splits within a window of it are carried out,    *)
(* and the best of them and of what was done is claimed to be the best     *)
(* price.  What a part of a split gets is found by the router of Crossing, *)
(* run on the pool alone or on the book alone.  The optimizer asks only    *)
(* for the splits of the window; here all of them are asked for, so that   *)
(* the claim can be compared with them.                                    *)
(***************************************************************************)
EXTENDS Crossing, TLC

CONSTANT Window   \* --rounding-window-drops

ASSUME WindowAssumption == Window \in Nat

VARIABLES
  stage,     \* baseline, quotes, choose, done
  context,   \* TxContext: what the quotes start from
  asked,     \* the quote that is running
  pending,   \* the quotes still to run
  quotes,    \* what they came to
  found      \* the results for both measures

optVars == <<vars, stage, context, asked, pending, quotes, found>>

Ask(source, side, amount) == [source |-> source, side |-> side, amount |-> amount]

NoAsk == Ask("none", "none", 0)

-----------------------------------------------------------------------------
(* Quotes *)

\* The intents _quote_source_exact_in and _quote_source_exact_out run, held to
\* the limit of the transaction.
QuoteIntent(ask) ==
  IF OfferCrossing
  THEN IF ask.side = "in" THEN [context.intent EXCEPT !.kind = "sell", !.cap = ask.amount]
       ELSE [context.intent EXCEPT !.kind = "buy", !.deliver = ask.amount, !.limit = context.limit]
  ELSE IF ask.side = "in"
  THEN [context.intent EXCEPT !.send = ask.amount, !.deliver = Ceiling, !.least = 0, !.cap = Unknown]
  ELSE [context.intent EXCEPT !.deliver = ask.amount, !.least = 0]

\* The quotes for all splits of the input and of the output: of the pool's share
\* of the output only the most it can be, the rest being a formula.
Asks(all, budget) ==
  LET sources == IF pool = Unknown THEN {"CLOB"} ELSE {"CLOB", "AMM"}
  IN  {Ask(s, "in", x) : s \in sources, x \in 1 .. all.in}
      \cup {Ask("CLOB", "out", y) : y \in 1 .. all.out} \cup {Ask(s, "in", budget) : s \in sources}

\* What a baseline execution leaves for the optimizer to improve on.
Executed == phase = "done" /\ outcome # "rejected" /\ total.out > 0

\* _build_contexts
Build ==
  /\ stage = "baseline" /\ Executed
  /\ stage' = "quotes"
  /\ context' =
       [intent |-> intent, limit |-> LimitRate, budget |-> Budget, rows |-> rows, residual |-> residual,
        pool |-> IF pool = Unknown THEN Unknown
                 ELSE [x |-> pool.x - poolTrace.in, y |-> pool.y + poolTrace.out],
        base |-> total, amm |-> poolTrace]
  /\ pending' = Asks(total, Budget)
  /\ UNCHANGED <<vars, asked, quotes, found>>

\* A run of the router on one source.
BeginQuote ==
  /\ stage = "quotes" /\ phase = "done" /\ asked = NoAsk /\ pending # {}
  /\ LET ask     == CHOOSE a \in pending : TRUE
         ofBook == ask.source = "CLOB"
     IN  /\ asked' = ask /\ pending' = pending \ {ask}
         /\ intent' = QuoteIntent(ask)
         /\ rows' = IF ofBook THEN context.rows ELSE [o \in Offers |-> NoRow]
         /\ residual' = IF ofBook THEN context.residual ELSE [o \in Offers |-> NoResidual]
         /\ pool' = IF ofBook THEN Unknown ELSE context.pool
  /\ phase' = "allocate" /\ tiers' = rows'
  /\ ahead' = {} /\ takes' = NoTakes /\ deleted' = {}
  /\ filled' = Nothing /\ want' = 0 /\ adjusted' = FALSE /\ poolTake' = NoPoolTake
  /\ remainingOut' = 0 /\ remainingIn' = 0 /\ rounds' = 0 /\ poolRounds' = 0
  /\ total' = Nothing /\ trace' = NoTakes /\ poolTrace' = NoPoolTake /\ removed' = {}
  /\ outcome' = "none"
  /\ UNCHANGED <<book, funds, ownerPays, purse, unsorted, stage, context, quotes, found>>

\* _require_quote_totals.  The verdict on the transaction is not asked for.
EndQuote ==
  /\ stage = "quotes" /\ phase = "done" /\ asked # NoAsk
  /\ quotes' = quotes @@ (asked :> total)
  /\ asked' = NoAsk
  /\ UNCHANGED <<vars, stage, context, pending, found>>

Step == stage # "done" /\ Next /\ UNCHANGED <<stage, context, asked, pending, quotes, found>>

\* What a source gets for x, or pays for y.  A quote that misses its output is
\* none.
BoughtFor(source, x) ==
  IF x = 0 \/ Ask(source, "in", x) \notin DOMAIN quotes THEN Nothing ELSE quotes[Ask(source, "in", x)]

BookCost(y) ==
  IF y = 0 THEN 0
  ELSE LET q == quotes[Ask("CLOB", "out", y)]
       IN  IF q.out = y /\ q.in > 0 THEN q.in ELSE Unknown

\* _quote_amm_exact_out, held to the limit quality as a whole
PoolCost(y) ==
  IF y = 0 THEN 0
  ELSE IF context.pool = Unknown THEN Unknown
  ELSE LET gross == RoundUp(SwapIn(context.pool, y), InFee)
       IN  IF gross = 0 THEN Unknown
           ELSE IF TooDear(<<gross, y>>) THEN Unknown
           ELSE gross

-----------------------------------------------------------------------------
(* Splits *)

None == [out |-> Unknown, in |-> Unknown]

\* _evaluate_candidate: all of the input must be spent.
InputSplit(x) ==
  LET p == BoughtFor("AMM", x)
      b == BoughtFor("CLOB", context.base.in - x)
  IN  IF p.in + b.in = context.base.in THEN [out |-> p.out + b.out, in |-> p.in + b.in] ELSE None

\* _evaluate_fixed_output_candidate: all of the output must be delivered within
\* the budget.
OutputSplit(y) ==
  LET p == PoolCost(y)
      b == BookCost(context.base.out - y)
  IN  IF p # Unknown /\ b # Unknown /\ p + b \in 1 .. context.budget
      THEN [out |-> context.base.out, in |-> p + b] ELSE None

-----------------------------------------------------------------------------
(* Where the best split is *)

\* Mutants: the price of what the pool has given so far instead of the price
\* of the next quantum.
AverageAfterInput(x) ==
  <<context.pool.x * Keep[2] * InFee[1] + Keep[1] * x * InFee[2],
    Keep[1] * InFee[2] * context.pool.y>>
AverageAfterOutput(y) ==
  <<context.pool.x * InFee[1] * Keep[2], InFee[2] * Keep[1] * (context.pool.y - y)>>

\* What one more quantum costs of the pool once it has been paid x, fees
\* included: _amm_marginal_after_input.
MarginalAfterInput(x) ==
  LET raw == context.pool.x * Keep[2] * InFee[1] + Keep[1] * x * InFee[2]
  IN  <<raw * raw, Keep[2] * InFee[1] * InFee[2] * Keep[1] * context.pool.x * context.pool.y>>

\* The same once it has given y: _fixed_output_amm_marginal_input_per_output_unit.
MarginalAfterOutput(y) ==
  LET rest == context.pool.y - y
  IN  <<context.pool.x * context.pool.y * InFee[1] * Keep[2], InFee[2] * Keep[1] * rest * rest>>

InBookOrder(S) ==
  [n \in 1 .. Cardinality(S) |-> CHOOSE o \in S : Cardinality({p \in S : Before(p, o)}) = n - 1]

\* A stretch of splits in which the book's share ends in one row, at whose cost
\* the pool is compared with it.
Stretches(S, size, cost, all) ==
  LET order == InBookOrder(S)
      upTo(n) == MapThenSumSet(LAMBDA m : size[order[m]], 1 .. n)
  IN  {[lo |-> IF upTo(n) < all THEN all - upTo(n) ELSE 0, hi |-> all - upTo(n - 1), cost |-> cost[order[n]]] :
         n \in {m \in DOMAIN order : upTo(m - 1) < all}}

\* The part of a stretch that lies in the feasible domain.
Clipped(stretch, domain) ==
  [stretch EXCEPT !.lo = IF @ < domain.lo THEN domain.lo ELSE @, !.hi = AtMost(@, domain.hi)]

\* _fixed_input_structural_anchor, _fixed_output_structural_anchor: from the
\* splits with the least of the pool on, the first stretch in which the pool
\* becomes dearer than the book, or starts so.
Anchors(stretches, domain, marginal) ==
  LET clipped == {s \in {Clipped(t, domain) : t \in stretches} : s.lo <= s.hi}
      crosses(s) == ~Cheaper(s.cost, marginal[s.lo]) /\ ~Cheaper(marginal[s.hi], s.cost)
      dearer(s)  == Cheaper(s.cost, marginal[s.lo])
      stops      == {s \in clipped : crosses(s) \/ dearer(s)}
  IN  IF domain.lo > domain.hi THEN {}
      ELSE IF context.pool = Unknown THEN {domain.lo}
      ELSE IF stops = {} THEN {domain.hi}
      ELSE LET s == CHOOSE t \in stops :
                      \A u \in stops : t.lo < u.lo \/ (t.lo = u.lo /\ t.hi <= u.hi)
               left == Max({s.lo} \cup {m \in s.lo .. s.hi - 1 : ~Cheaper(s.cost, marginal[m])})
           IN  IF crosses(s) THEN {left, AtMost(left + 1, s.hi)} ELSE {s.lo}

\* _add_candidate
Around(anchors, domain) ==
  {x \in domain.lo .. domain.hi : \E a \in anchors : x \in a - Window .. a + Window}

-----------------------------------------------------------------------------
(* The input as it is, the most output *)

AtLeast0(x) == IF x < 0 THEN 0 ELSE x

\* _fixed_input_feasible_domain_units
InputDomain ==
  [lo |-> AtLeast0(context.base.in - BoughtFor("CLOB", context.base.in).in),
   hi |-> AtMost(BoughtFor("AMM", context.base.in).in, context.base.in)]

\* _executable_clob_segments, with the transfer fee of the input.
Executables == {o \in Candidates : ~OwnCross(o)}

\* _clob_segment_intervals
InputStretches ==
  Stretches(Executables, [o \in Executables |-> Prepared(o).gross],
            [o \in Executables |-> <<Prepared(o).gross, Prepared(o).out>>], context.base.in)

InputAnchors ==
  Anchors(InputStretches, InputDomain, [x \in 0 .. context.base.in |-> MarginalAfterInput(x)])

InputCandidates == Around(InputAnchors, InputDomain)

\* _optimize_fixed_input_tx: of the candidates that spend the input, and of what
\* was done, the one that buys most.
MostOutput == Max({InputSplit(x).out : x \in {y \in InputCandidates : InputSplit(y) # None}} \cup {context.base.out})

-----------------------------------------------------------------------------
(* The output as it is, the least input *)

\* _fixed_output_feasible_domain_units
OutputDomain ==
  [lo |-> AtLeast0(context.base.out - BoughtFor("CLOB", context.budget).out),
   hi |-> AtMost(BoughtFor("AMM", context.budget).out, context.base.out)]

\* _fixed_output_segment_intervals: the segments as they are, without the
\* transfer fee of the input.
OutputStretches ==
  LET segments == {o \in Offers : context.rows[o].out > 0}
  IN  Stretches(segments, [o \in segments |-> context.rows[o].out],
                [o \in segments |-> <<context.rows[o].in, context.rows[o].out>>], context.base.out)

OutputAnchors ==
  Anchors(OutputStretches, OutputDomain, [y \in 0 .. context.base.out |-> MarginalAfterOutput(y)])

OutputCandidates == Around(OutputAnchors, OutputDomain)

\* _optimize_fixed_output_tx: the candidate with all of the output that costs
\* least, or what was done.
LeastInput == Min({OutputSplit(y).in : y \in {x \in OutputCandidates : OutputSplit(x) # None}} \cup {context.base.in})

-----------------------------------------------------------------------------
\* With the last quote in, the splits are looked for in the book as it was.
Restore ==
  /\ stage = "quotes" /\ pending = {} /\ asked = NoAsk
  /\ stage' = "choose"
  /\ intent' = context.intent /\ pool' = context.pool
  /\ rows' = context.rows /\ residual' = context.residual /\ tiers' = context.rows
  /\ UNCHANGED <<book, funds, ownerPays, purse, unsorted, phase, passVars, remainingOut, remainingIn,
                 rounds, poolRounds, total, trace, poolTrace, removed, outcome>>
  /\ UNCHANGED <<context, asked, pending, quotes, found>>

Optimize ==
  /\ stage = "choose"
  /\ stage' = "done"
  /\ found' = [most |-> MostOutput, least |-> LeastInput]
  /\ UNCHANGED <<vars, context, asked, pending, quotes>>

OptInit ==
  /\ Init
  /\ stage = "baseline" /\ context = Unknown /\ asked = NoAsk /\ pending = {}
  /\ quotes = << >> /\ found = Unknown

OptNext == Step \/ Build \/ BeginQuote \/ EndQuote \/ Restore \/ Optimize

OptSpec == OptInit /\ [][OptNext]_optVars

-----------------------------------------------------------------------------
(* Properties *)

\* No limit, or one that not even the whole budget for one quantum would fail.
Unlimited == stage = "done" /\ ~TooDear(<<context.budget, 1>>)

InputSplits == {x \in 0 .. context.base.in : InputSplit(x) # None}

OutputSplits == {y \in 0 .. context.base.out : OutputSplit(y) # None}

\* "The optimum is therefore either the unique derivative crossing or the
\* relevant domain boundary" (_fixed_input_structural_anchor): of the splits of
\* the window, one buys as much as any split of the input does, save a quantum of
\* rounding.  Without a binding limit, which rounding may fail in one split and not in
\* the next.
InputAnchorIsBest ==
  Unlimited /\ InputSplits # {} =>
    \E z \in InputCandidates \cap InputSplits :
      \A x \in InputSplits : InputSplit(x).out <= InputSplit(z).out + 1

\* The same of the cost of the output, "the unique continuous optimum for
\* fixed-output min-input" (_fixed_output_structural_anchor).
OutputAnchorIsBest ==
  Unlimited /\ OutputSplits # {} =>
    \E z \in OutputCandidates \cap OutputSplits :
      \A y \in OutputSplits : OutputSplit(z).in <= OutputSplit(y).in + 1

\* The certificate of either side holds.
AnchorsAreBest == InputAnchorIsBest /\ OutputAnchorIsBest

\* What _optimize_fixed_output_tx reports as exact_discrete_best_price, be it a
\* split or what was done: no split within the budget has the same output for
\* less by over a quantum.
LeastInputFound ==
  Unlimited =>
    \A y \in OutputSplits : found.least <= OutputSplit(y).in + 1

\* The router sizes a slice of the pool by the price it leaves without the fee,
\* and what a slice pays of it makes the next one dearer, so a split may buy more
\* (amm_multi_slice_fee_compounding_gain, allocation_optimization_gain).  It can
\* be no more than the fee on what the router bought of the pool, save a quantum
\* of rounding: the pool is nowhere taken beyond the price of the rows it replaces.
OnlyTheFeeIsLost ==
  stage = "done" =>
    \A x \in InputSplits :
      (InputSplit(x).out - context.base.out - 1) * Keep[1] <= context.amm.out * (Keep[2] - Keep[1])
=============================================================================
