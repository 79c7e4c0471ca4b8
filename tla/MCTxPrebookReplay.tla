-------------------------- MODULE MCTxPrebookReplay --------------------------
(* Small instances of TxPrebookReplay. *)
EXTENDS TxPrebookReplay

\* Two offers of one owner on one side and one offer of another owner on the
\* other side.  o1 is older than o2 but has the larger ledger object index.
MCOffers == {"o1", "o2", "o3"}
MCAccounts == {"a", "b"}
MCOwner == [o \in MCOffers |-> IF o = "o3" THEN "b" ELSE "a"]
MCSideOf == [o \in MCOffers |-> IF o = "o3" THEN "getsrUSD" ELSE "getsXRP"]
TwoSides == [o \in MCOffers |-> IF o = "o3" THEN "getsXRP" ELSE "getsrUSD"]
OneSide == [o \in MCOffers |-> "getsXRP"]
MCObjectKey == [o \in MCOffers |-> IF o = "o1" THEN 3 ELSE IF o = "o2" THEN 2 ELSE 1]
OneQuality == [o \in MCOffers |-> 1]
TwoQualities == [o \in MCOffers |-> IF o = "o1" THEN 2 ELSE 1]

Opens(b1, b2, b3, f) ==
  [book |-> [o \in MCOffers |-> IF o = "o1" THEN b1 ELSE IF o = "o2" THEN b2 ELSE b3],
   dir  |-> [o \in MCOffers |-> IF o = "o1" THEN IF b1 > 0 THEN 1 ELSE 0
                                ELSE IF o = "o2" THEN IF b2 > 0 THEN 2 ELSE 0
                                ELSE IF b3 > 0 THEN 3 ELSE 0],
   placed |-> 3, funds |-> [k \in FundKeys |-> f]]

MCOpening == {Opens(2, 0, 0, 1), Opens(1, 2, 2, MaxFunds), Opens(2, 1, 1, 0)}

\* o1 is alone in its directory: o2 is placed behind it, or not, in the window.
TwoOpenings == {Opens(2, 0, 1, 1), Opens(1, 2, 2, 0)}

\* Alone again, with the other side empty: ties are placed, filled and deleted.
TieOpening == {Opens(2, 0, 0, 1)}
=============================================================================
