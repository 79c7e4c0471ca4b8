----------------------------- MODULE MCCrossing -----------------------------
(* Small instances of Crossing: books of three offers, one of them possibly *)
(* the source's own.                                                        *)
EXTENDS Crossing

OfferRow(a, r, g, p) ==
  [owner |-> a, rate |-> r, gets |-> g, pays |-> p,
   fundedGets |-> Unknown, fundedPays |-> Unknown, nonFill |-> FALSE]

MCRates == {<<1, 2>>, <<3, 2>>}

Placed ==
  {OfferRow(a, r, g, RoundUp(g, r)) : a \in Accounts, r \in MCRates, g \in {1, 3}}

\* The source's own offer that the ledger deleted without a fill.
NonFill == {[x EXCEPT !.nonFill = TRUE] : x \in {OfferRow(Source, <<3, 2>>, 3, 5)}}

\* A third quality, for one round more than MaxRounds allows.
Between == {OfferRow("a", <<1, 1>>, 1, 1)}

\* Offers of which the snapshot says that they are funded in part, the last one
\* with less than its quality would ask for that.
PartFunded ==
  {[OfferRow("a", <<1, 2>>, 3, 2) EXCEPT !.fundedGets = 2, !.fundedPays = 1],
   [OfferRow("a", <<3, 2>>, 3, 5) EXCEPT !.fundedGets = 2]}

\* At most two of the source's own, one of the special ones.
MCBooks ==
  {b \in [Offers -> Placed \cup NonFill \cup Between \cup PartFunded] :
     /\ Cardinality({o \in Offers : b[o].owner = Source}) <= 2
     /\ Cardinality({o \in Offers : b[o] \notin Placed}) <= 1}

MCPurses == {f \in [Accounts -> {Unknown, 3}] : f[Source] = Unknown}

Base ==
  [kind |-> "payment", send |-> 3, deliver |-> 5, least |-> 0, cap |-> Unknown,
   limit |-> Unknown, partial |-> TRUE, fok |-> FALSE, ioc |-> FALSE, passive |-> FALSE]

MCIntents ==
  {[Base EXCEPT !.send = s, !.limit = q] : s \in {2, 8}, q \in {Unknown, <<1, 1>>}} \cup
  {[Base EXCEPT !.least = 4], [Base EXCEPT !.deliver = 2, !.partial = FALSE]} \cup
  {[Base EXCEPT !.kind = k, !.send = s, !.deliver = 4, !.passive = p, !.fok = p, !.ioc = ~p] :
     k \in {"sell", "buy"}, s \in {2, 6}, p \in BOOLEAN} \cup
  {[Base EXCEPT !.kind = "sell", !.send = 3, !.deliver = 1, !.cap = 2]}

MCFee == <<3, 2>>

MCKeep == <<99, 100>>

MCNoPools == {Unknown}

\* Beside a pool: two offers, dearer than, between and as cheap as the pools.
MCPools == {[x |-> 4, y |-> 20], [x |-> 12, y |-> 12], [x |-> 20, y |-> 9]}

MCPoolBooks ==
  [Offers -> {OfferRow(a, r, g, RoundUp(g, r)) :
                a \in Accounts, r \in {<<1, 2>>, <<1, 1>>, <<3, 2>>}, g \in {1, 4}}]

MCPoolIntents ==
  {[Base EXCEPT !.send = s, !.deliver = d, !.limit = q, !.partial = s = 4] :
     s \in {4, 12}, d \in {3, 9}, q \in {Unknown, <<1, 1>>, <<3, 2>>}} \cup
  {[Base EXCEPT !.kind = k, !.send = s, !.deliver = d, !.passive = p, !.fok = s = 4] :
     k \in {"sell", "buy"}, s \in {4, 12}, d \in {3, 9}, p \in BOOLEAN} \cup
  {[Base EXCEPT !.kind = "sell", !.send = 9, !.deliver = 4, !.passive = p] : p \in BOOLEAN}

MCPlainOffers == {[Base EXCEPT !.kind = "sell", !.send = s, !.deliver = 4] : s \in {4, 9, 12}}

MCPoolPurses == {f \in [Accounts -> {Unknown, 0, 3}] : f[Source] = Unknown}

MCUnit == <<1, 1>>
=============================================================================
