------------------------------- MODULE Amounts -------------------------------
(***************************************************************************)
(* Amounts of both currencies are whole quanta.  A rate <<n, d>> asks n    *)
(* quanta of input for d of output, so the lower rate is the better        *)
(* quality; a fee <<n, d>> is an issuer's transfer rate.                   *)
(***************************************************************************)
EXTENDS Integers, FiniteSetsExt

CONSTANT Unknown    \* no amount is reported, no limit applies

ASSUME UnknownAssumption == Unknown \notin Int

Rates == {r \in Nat \X Nat : r[1] > 0 /\ r[2] > 0}

RoundDown(x, r) == (x * r[1]) \div r[2]

RoundUp(x, r) == (x * r[1] + r[2] - 1) \div r[2]

Flip(r) == <<r[2], r[1]>>

Parity == <<1, 1>>

Cheaper(r, s) == r[1] * s[2] < s[1] * r[2]

\* x, but no more than a bound that may be unknown.
AtMost(x, bound) == IF bound = Unknown THEN x ELSE IF x <= bound THEN x ELSE bound

\* Amounts added up.
Sum(f, S) == MapThenSumSet(LAMBDA x : f[x], S)
=============================================================================
