----------------------------- MODULE MCSingleFit -----------------------------
(* Small instances of SingleFit: XRP is paid for an issued currency, from    *)
(* books of two offers beside a pool.                                        *)
EXTENDS SingleFit

OfferRow(a, r, g) ==
  [owner |-> a, rate |-> r, gets |-> g, pays |-> RoundUp(g, r),
   fundedGets |-> Unknown, fundedPays |-> Unknown, nonFill |-> FALSE]

MCBooks ==
  [Offers -> {OfferRow(a, r, 4) : a \in Accounts, r \in {<<1, 2>>, <<1, 1>>, <<3, 2>>}}
             \cup {OfferRow(a, <<1, 1>>, 2) : a \in Accounts}]

MCPurses == {f \in [Accounts -> {Unknown, 0, 3}] : f[Source] = Unknown}

MCPools == {Unknown, [x |-> 4, y |-> 20], [x |-> 12, y |-> 12], [x |-> 20, y |-> 9]}

BaseTx ==
  [type |-> "Payment", flags |-> {"partial"}, send |-> [asset |-> "XRP", amount |-> 4],
   deliver |-> [asset |-> "USD", amount |-> 3], least |-> Unknown, paths |-> "none",
   cancel |-> Unknown, ticket |-> FALSE, spendable |-> 3, owners |-> 1, fee |-> 1, tick |-> Unknown]

Sends(s, d) == [BaseTx EXCEPT !.send.amount = s, !.deliver.amount = d]

MCTxs ==
  {[Sends(4, 3) EXCEPT !.ticket = TRUE], [Sends(12, 6) EXCEPT !.spendable = 12],
   [Sends(9, 6) EXCEPT !.spendable = 9, !.flags = {"limitQuality"}],
   [Sends(6, 4) EXCEPT !.spendable = 6, !.flags = {"partial", "noRippleDirect"}, !.paths = "own",
                       !.least = [asset |-> "USD", amount |-> 2]]}
  \cup {[Sends(s, 4) EXCEPT !.type = "OfferCreate", !.flags = f, !.spendable = 9] :
     s \in {4, 9}, f \in {{"sell"}, {"passive", "ioc"}, {"fok"}}}
  \cup {[Sends(15, 10) EXCEPT !.type = "OfferCreate", !.flags = {"sell"}, !.spendable = 15, !.tick = 1, !.cancel = 2],
        [Sends(4, 3) EXCEPT !.flags = {"hybrid"}]}

MCTicks == <<{<<1, 2>>, <<1, 1>>}>>

MCSequences == [o \in Offers |-> 3 - o]

MCFee == <<3, 2>>
MCUnit == <<1, 1>>
MCKeep == <<99, 100>>
MCIntents == {}
=============================================================================
