------------------------------- MODULE AmmPool -------------------------------
(***************************************************************************)
(* xrpl_router/amm.py: the quotes of one pool.  A pool holds x of the      *)
(* input currency and y of the output currency.  The quotes are exact      *)
(* products and quotients rounded once, in the direction the code asks     *)
(* for; the code rounds each step to 16 digits, which is the same as long  *)
(* as the amounts are short of that.                                       *)
(*                                                                         *)
(* A slice is an offer of the pool: what it gives, what it costs, and the  *)
(* rate it is compared by.                                                 *)
(***************************************************************************)
EXTENDS Amounts

CONSTANTS
  Keep,      \* one less the trading fee
  StartOut   \* the output is XRP: the size of a slice is found in output

ASSUME PoolAssumption ==
  /\ Keep \in Rates /\ Keep[1] <= Keep[2]
  /\ StartOut \in BOOLEAN

NoSlice == [out |-> 0, in |-> 0, rate |-> Unknown]

Slice(out, in, rate) ==
  IF out > 0 /\ in > 0 THEN [out |-> out, in |-> in, rate |-> rate] ELSE NoSlice

\* A slice compared by its own amounts.
AtItsRate(out, in) == Slice(out, in, <<in, out>>)

LargestOr0(S) == IF S = {} THEN 0 ELSE Max(S)

\* spq_quality_int
Spot(p) == <<p.x, p.y>>

-----------------------------------------------------------------------------
(* Swaps *)

\* swap_out_given_in_st
SwapOut(p, dx) ==
  p.y - RoundUp(p.x * p.y, <<Keep[2], p.x * Keep[2] + dx * Keep[1]>>)

\* Mutant of SwapIn: the input is rounded down.
SwapInDown(p, dy) ==
  IF dy \in 1 .. p.y - 1 THEN RoundDown(p.x * dy, <<Keep[2], (p.y - dy) * Keep[1]>>) ELSE 0

\* swap_in_given_out_st
SwapIn(p, dy) ==
  IF dy \in 1 .. p.y - 1 THEN RoundUp(p.x * dy, <<Keep[2], (p.y - dy) * Keep[1]>>) ELSE 0

\* apply_fill_st
Filled(p, in, out) == [x |-> p.x + in, y |-> p.y - out]

-----------------------------------------------------------------------------
(* Slices *)

LargestOut(p, cap) == AtMost((99 * p.y) \div 100, cap)

\* max_offer_segment: almost all of the output, or as much as is wanted, at the
\* rate of the pool as it stands.
MaxSlice(p, cap) == Slice(LargestOut(p, cap), SwapIn(p, LargestOut(p, cap)), Spot(p))

\* Giving out leaves a pool no dearer than r, and costs no more than r.
OutFits(p, r, out) ==
  LET rest == p.y - out
  IN  /\ p.x * (rest * Keep[1] + out * Keep[2]) * r[2] <= r[1] * rest * rest * Keep[1]
      /\ p.x * Keep[2] * r[2] <= r[1] * rest * Keep[1]

\* Mutant of InFits: what the slice leaves of the pool is not looked at.
InFitsOnAverage(p, r, in) == (p.x * Keep[2] + in * Keep[1]) * r[2] <= p.y * r[1] * Keep[1]

\* The same for taking in.
InFits(p, r, in) ==
  LET kept == p.x * Keep[2] + in * Keep[1]
  IN  /\ (p.x + in) * kept * r[2] <= p.x * p.y * r[1] * Keep[2]
      /\ kept * r[2] <= p.y * r[1] * Keep[1]

\* _solve_quality_crossing_units: the largest fill that fits, the roots of the
\* code's two quadratic equations and its two constraints being where a fill
\* stops to fit.
Start(p, r) ==
  IF StartOut THEN LargestOr0({out \in 1 .. p.y - 1 : OutFits(p, r, out)})
              ELSE LargestOr0({in \in 1 .. RoundDown(p.y, r) : InFits(p, r, in)})

\* build_segment_from_start
Built(p, start) ==
  IF StartOut THEN AtItsRate(start, SwapIn(p, start)) ELSE AtItsRate(SwapOut(p, start), start)

\* _reduce_offer_amount
Reduced(start) == (9999 * start) \div 10000

NoDearer(slice, r) == slice = NoSlice \/ ~Cheaper(r, slice.rate)

\* A slice that rounding made dearer than r is built again a little smaller.
BuiltFor(p, r, start) ==
  IF NoDearer(Built(p, start), r) THEN Built(p, start) ELSE Built(p, Reduced(start))

CutTo(p, slice, cap) ==
  IF cap = Unknown \/ slice.out <= cap THEN slice ELSE AtItsRate(cap, SwapIn(p, cap))

\* Mutant of StaysWithin: what the slice leaves of the pool is not checked.
PaysWithin(p, r, slice) == slice # NoSlice /\ ~Cheaper(r, slice.rate)

\* Neither the slice nor the pool it leaves is dearer than r.
StaysWithin(p, r, slice) ==
  /\ slice # NoSlice /\ ~Cheaper(r, slice.rate)
  /\ ~Cheaper(r, Spot(Filled(p, slice.in, slice.out)))

Kept(p, r, slice) == IF StaysWithin(p, r, slice) THEN slice ELSE NoSlice

\* synthetic_segment_for_quality: the slice that takes the pool to rate r and
\* not beyond.
SliceFor(p, r, cap) ==
  IF Cheaper(Spot(p), r) THEN Kept(p, r, CutTo(p, BuiltFor(p, r, Start(p, r)), cap))
  ELSE NoSlice

\* The largest slice will do if it is better than r as a whole.
OrLargest(slice, largest, r) ==
  IF slice # NoSlice THEN slice
  ELSE IF largest # NoSlice /\ Cheaper(<<largest.in, largest.out>>, r)
  THEN largest ELSE NoSlice

\* _amm_offer_for_clob_quality
SliceAgainst(p, r, cap) == OrLargest(SliceFor(p, r, cap), MaxSlice(p, cap), r)
=============================================================================
