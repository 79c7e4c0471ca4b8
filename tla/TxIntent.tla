------------------------------- MODULE TxIntent -------------------------------
(***************************************************************************)
(* xrpl_router/tx_intent.py: from the fields and the metadata of a         *)
(* transaction to what execute_single_path_intent is asked to do.  Flags   *)
(* are a set of names, a field is an asset and a number of quanta.         *)
(***************************************************************************)
EXTENDS Amounts

CONSTANTS
  InAsset, OutAsset,  \* the pair the samples trade
  XrpIn,              \* the input is XRP
  EndRate,            \* transfer rate that the last step of a payment charges
  Ticks,              \* the rates a tick size allows, for each tick size
  ReserveBase, ReserveInc

ASSUME TxIntentAssumption ==
  /\ InAsset # OutAsset /\ XrpIn \in BOOLEAN
  /\ EndRate \in Rates
  /\ \A t \in DOMAIN Ticks : Ticks[t] \subseteq Rates
  /\ ReserveBase \in Nat /\ ReserveInc \in Nat

-----------------------------------------------------------------------------
(* What is accepted *)

IsOffer(tx) == tx.type = "OfferCreate"

\* _validate_supported_flags
ValidFlags(tx) ==
  IF IsOffer(tx)
  THEN tx.flags \subseteq {"passive", "ioc", "fok", "sell"} /\ ~ {"ioc", "fok"} \subseteq tx.flags
  ELSE tx.flags \subseteq {"partial", "noRippleDirect", "limitQuality"}

\* _derive_payment_sendmax
SendField(tx) == IF tx.send = Unknown THEN tx.deliver ELSE tx.send

\* DeliverMin is for partial payments, of the asset delivered and no more than it.
ValidLeast(tx) ==
  tx.least # Unknown =>
    /\ "partial" \in tx.flags /\ tx.least.asset = tx.deliver.asset
    /\ tx.least.amount \in 1 .. tx.deliver.amount

ValidOffer(tx) ==
  tx.send.asset # tx.deliver.asset /\ (tx.cancel # Unknown => tx.cancel > 0)

\* build_intent_from_metadata_result does not raise, and the pair is the one
\* that is sampled.
Accepted(tx) ==
  /\ ValidFlags(tx)
  /\ SendField(tx).amount > 0 /\ tx.deliver.amount > 0
  /\ IF IsOffer(tx) THEN ValidOffer(tx) ELSE ValidLeast(tx)
  /\ SendField(tx).asset = InAsset /\ tx.deliver.asset = OutAsset

\* What execute_single_path_intent refuses before it looks at the book.
InPathScope(tx) == "noRippleDirect" \in tx.flags => tx.paths = "own"

-----------------------------------------------------------------------------
(* What the source can pay *)

IfPositive(x) == IF x > 0 THEN x ELSE Unknown

\* The ticket of a transaction is gone before it is carried out.
OwnersCharged(tx, node) == IF tx.ticket /\ node.owners > 0 THEN node.owners - 1 ELSE node.owners

\* _extract_source_funds_cap_from_metadata, of the source's AccountRoot or trust
\* line before the transaction; nothing to spend is no cap.
SourceCap(tx, node) ==
  IF node = Unknown THEN Unknown
  ELSE IF XrpIn
  THEN IfPositive(node.balance - ReserveBase - OwnersCharged(tx, node) * ReserveInc - tx.fee)
  ELSE IfPositive(node.balance)

-----------------------------------------------------------------------------
(* The tick size *)

\* To the nearest quantum, halves to even.
Nearest(x, r) ==
  LET whole == (x * r[1]) \div r[2]
      twice == 2 * ((x * r[1]) % r[2])
  IN  IF twice > r[2] \/ (twice = r[2] /\ whole % 2 = 1) THEN whole + 1 ELSE whole

\* _round_quality_to_tick_size, of the quality the offer would be placed at.
TickRate(rate, tick) ==
  CHOOSE r \in Ticks[tick] : /\ ~Cheaper(r, rate)
                             /\ \A s \in Ticks[tick] : ~Cheaper(s, rate) => ~Cheaper(s, r)

\* apply_offer_tick_size_to_intent: a sell asks more, a buy offers less.
Ticked(tx, tick) ==
  LET send == SendField(tx).amount
      rate == TickRate(<<tx.deliver.amount, send>>, tick)
  IN  IF ~IsOffer(tx) \/ tick = Unknown
      THEN [send |-> send, deliver |-> tx.deliver.amount]
      ELSE IF "sell" \in tx.flags
      THEN [send |-> send, deliver |-> Nearest(send, rate)]
      ELSE [send |-> Nearest(tx.deliver.amount, Flip(rate)), deliver |-> tx.deliver.amount]

-----------------------------------------------------------------------------
\* _payment_book_output_target: what the book has to give for the destination to
\* be delivered out.
BookShare(out) == RoundUp(out, EndRate)

PaymentIntent(tx, cap) ==
  [kind |-> "payment", send |-> SendField(tx).amount, deliver |-> BookShare(tx.deliver.amount),
   least |-> IF tx.least = Unknown THEN 0 ELSE BookShare(tx.least.amount), cap |-> cap,
   limit |-> IF "limitQuality" \in tx.flags
             THEN <<SendField(tx).amount, tx.deliver.amount>> ELSE Unknown,
   partial |-> "partial" \in tx.flags, fok |-> FALSE, ioc |-> FALSE, passive |-> FALSE]

OfferIntent(tx, cap, tick) ==
  [kind |-> IF "sell" \in tx.flags THEN "sell" ELSE "buy",
   send |-> Ticked(tx, tick).send, deliver |-> Ticked(tx, tick).deliver,
   least |-> 0, cap |-> cap, limit |-> Unknown, partial |-> FALSE,
   fok |-> "fok" \in tx.flags, ioc |-> "ioc" \in tx.flags, passive |-> "passive" \in tx.flags]

\* build_intent_from_metadata_result and apply_offer_tick_size_to_intent
IntentOf(tx, cap, tick) == IF IsOffer(tx) THEN OfferIntent(tx, cap, tick) ELSE PaymentIntent(tx, cap)
=============================================================================
