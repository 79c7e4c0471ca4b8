----------------------------- MODULE MCBestPrice -----------------------------
(* Small instances of BestPrice: books of two offers beside a pool.          *)
EXTENDS BestPrice

OfferRow(a, r, g) ==
  [owner |-> a, rate |-> r, gets |-> g, pays |-> RoundUp(g, r),
   fundedGets |-> Unknown, fundedPays |-> Unknown, nonFill |-> FALSE]

MCBooks ==
  {b \in [Offers -> {OfferRow("a", r, g) : r \in {<<1, 2>>, <<1, 1>>, <<3, 2>>}, g \in {4, 9, 14}}] :
     ~Cheaper(b[2].rate, b[1].rate)}

MCPurses == {f \in [Accounts -> {Unknown, 9}] : f[Source] = Unknown}

MCPools == {Unknown, [x |-> 20, y |-> 40], [x |-> 32, y |-> 32], [x |-> 40, y |-> 24],
           [x |-> 200, y |-> 300]}

Base ==
  [kind |-> "payment", send |-> 12, deliver |-> 10, least |-> 0, cap |-> Unknown,
   limit |-> Unknown, partial |-> TRUE, fok |-> FALSE, ioc |-> FALSE, passive |-> FALSE]

MCIntents ==
  {[Base EXCEPT !.send = s, !.deliver = d, !.limit = q] : s \in {25}, d \in {12, 25}, q \in {Unknown, <<3, 2>>, <<2, 1>>}} \cup
  {[Base EXCEPT !.kind = "sell", !.send = 25, !.deliver = 15, !.passive = p] : p \in BOOLEAN} \cup
  {[Base EXCEPT !.kind = "sell", !.send = 25, !.deliver = 1],
   [Base EXCEPT !.kind = "buy", !.send = 25, !.deliver = 12],
   [Base EXCEPT !.send = 150, !.deliver = 250]}

MCFee == <<3, 2>>
MCUnit == <<1, 1>>
MCKeep == <<9, 10>>
=============================================================================
