----------------------------- MODULE BookOffers -----------------------------
(***************************************************************************)
(* xrpl_router/book_offers.py, build_clob_segments_from_offers: one side   *)
(* of a snapshot becomes the rows the book step crosses.  Offers of one    *)
(* owner share its funds, which are handed out to them best offer first.   *)
(***************************************************************************)
EXTENDS Amounts, FiniteSets

CONSTANTS
  Offers,    \* positions of the offers in the snapshot
  Accounts,  \* offer owners
  Books,     \* the snapshots to consider
  Purses,    \* the owners' funds to consider
  OutFee     \* transfer rate of the issuer of TakerGets

\* An offer of the snapshot.  fundedGets and fundedPays are its
\* taker_gets_funded and taker_pays_funded; nonFill is non_fill_deleted.  One
\* that is not there gets and pays nothing.
Offer ==
  [owner : Accounts, rate : Rates, gets : Nat, pays : Nat,
   fundedGets : Nat \cup {Unknown}, fundedPays : Nat \cup {Unknown},
   nonFill : BOOLEAN]

ASSUME BookAssumption ==
  /\ Offers \subseteq Nat /\ IsFiniteSet(Offers)
  /\ Purses \subseteq [Accounts -> Nat \cup {Unknown}]
  /\ OutFee \in Rates /\ OutFee[1] >= OutFee[2]

\* What _parse_* and the checks on the funded amounts let through.
SnapshotBook ==
  {b \in [Offers -> Offer] : \A o \in Offers :
     /\ b[o].fundedGets # Unknown => b[o].fundedGets <= b[o].gets
     /\ b[o].fundedPays # Unknown => b[o].fundedPays <= b[o].pays
     /\ b[o].fundedGets = Unknown => b[o].fundedPays = Unknown}

ASSUME SnapshotAssumption == Books \subseteq SnapshotBook

VARIABLES
  book,       \* the offers of the snapshot
  funds,      \* _collect_owner_funds; Unknown for the issuer, who has no limit
  ownerPays,  \* owner_pays_transfer_fee: the transaction is an OfferCreate
  purse,      \* account_remaining
  unsorted,   \* parsed rows not yet turned into results
  rows,       \* the executable results
  residual    \* the book-visible results

bookVars == <<book, funds, ownerPays, purse, unsorted, rows, residual>>

-----------------------------------------------------------------------------
(* Order of the book: by quality, and offers of one quality as they came *)

Before(o, p) ==
  \/ Cheaper(book[o].rate, book[p].rate)
  \/ ~Cheaper(book[p].rate, book[o].rate) /\ o < p

\* Mutant of Leads: rows are taken in snapshot order.
FirstListed(o, S) == \A p \in S : o <= p

Leads(o, S) == \A p \in S \ {o} : Before(o, p)

-----------------------------------------------------------------------------
Fee == IF ownerPays THEN OutFee ELSE Parity

\* _owner_pays_for_out, _owner_funds_limit_out
Gives(out) == RoundDown(out, Fee)

\* Mutant of Spendable: the owner's transfer fee is forgotten.
SpendableWithoutFee(f) == f

Spendable(f) == IF f = Unknown THEN Unknown ELSE RoundDown(f, Flip(Fee))

EffectiveOut(o, f) == AtMost(AtMost(book[o].gets, book[o].fundedGets), Spendable(f))

\* An offer cut short asks what its quality asks for the rest.
EffectiveIn(o, out) ==
  LET asked == AtMost(book[o].pays, book[o].fundedPays)
  IN  IF out < book[o].gets THEN AtMost(asked, RoundDown(out, book[o].rate)) ELSE asked

NoRow == [out |-> 0, in |-> 0, funds |-> Unknown]

NoResidual == [out |-> 0, in |-> 0]

\* append_book_visible_only: an offer without funds stays visible to an
\* OfferCreate.
WholeResidual(o) ==
  IF ownerPays /\ purse[book[o].owner] # Unknown
  THEN [out |-> book[o].gets, in |-> book[o].pays] ELSE NoResidual

\* The part of an offer that its owner cannot fund.
CutResidual(o, out, in) ==
  IF /\ ownerPays /\ purse[book[o].owner] # Unknown /\ book[o].fundedGets = Unknown
     /\ out < book[o].gets /\ in < book[o].pays
  THEN [out |-> book[o].gets - out, in |-> book[o].pays - in] ELSE NoResidual

\* Mutant of Remaining: every row is given the owner's whole funds.
NothingUsed(f, out) == f

Remaining(f, out) ==
  IF f = Unknown THEN Unknown ELSE IF Gives(out) < f THEN f - Gives(out) ELSE 0

\* Nothing is allocated yet.
Unallocated ==
  /\ purse = funds
  /\ unsorted = Offers
  /\ rows = [o \in Offers |-> NoRow]
  /\ residual = [o \in Offers |-> NoResidual]

BookInit ==
  /\ book \in Books /\ funds \in Purses /\ ownerPays \in BOOLEAN
  /\ Unallocated

\* The next offer in quality order becomes a row, or is left out.
AllocateRow ==
  /\ \E o \in unsorted :
       LET owner == book[o].owner
           out   == EffectiveOut(o, purse[owner])
           in    == EffectiveIn(o, out)
       IN  /\ Leads(o, unsorted)
           /\ unsorted' = unsorted \ {o}
           /\ IF out > 0 /\ in > 0
                THEN /\ rows' = [rows EXCEPT ![o] = [out |-> out, in |-> in,
                                                     funds |-> purse[owner]]]
                     /\ residual' = [residual EXCEPT ![o] = CutResidual(o, out, in)]
                     /\ purse' = [purse EXCEPT ![owner] = Remaining(@, out)]
                ELSE /\ residual' = [residual EXCEPT ![o] = WholeResidual(o)]
                     /\ UNCHANGED <<rows, purse>>
  /\ UNCHANGED <<book, funds, ownerPays>>

BookSpec == BookInit /\ [][AllocateRow]_bookVars

-----------------------------------------------------------------------------
(* Properties *)

Row == [out : Nat, in : Nat, funds : Nat \cup {Unknown}]

BookTypeOK ==
  /\ book \in SnapshotBook /\ funds \in [Accounts -> Nat \cup {Unknown}]
  /\ ownerPays \in BOOLEAN
  /\ purse \in [Accounts -> Nat \cup {Unknown}]
  /\ unsorted \subseteq Offers
  /\ rows \in [Offers -> Row]
  /\ residual \in [Offers -> [out : Nat, in : Nat]]

\* Rows of one owner draw on separate parts of its funds: the part of a row
\* ends where the better row's part begins, and no part ends below zero.  So an
\* owner with any number of offers is never asked for more than it has.
SharesDisjoint ==
  \A o \in Offers : rows[o].out > 0 /\ rows[o].funds # Unknown =>
    /\ Gives(rows[o].out) <= rows[o].funds /\ rows[o].funds <= funds[book[o].owner]
    /\ \A p \in Offers :
         rows[p].out > 0 /\ book[p].owner = book[o].owner /\ Before(o, p) =>
           rows[p].funds <= rows[o].funds - Gives(rows[o].out)

\* Funds reach the better offer first: if an offer got less than it could take,
\* the owner's better offers left too little for one quantum more of it, or so
\* little that it would cost nothing.
CutOnlyByBetter ==
  \A o \in Offers \ unsorted :
    LET owner  == book[o].owner
        better == {p \in Offers : book[p].owner = owner /\ Before(p, o)}
        spared == funds[owner] - Sum([p \in better |-> Gives(rows[p].out)], better)
    IN  funds[owner] # Unknown /\ rows[o].out < AtMost(book[o].gets, book[o].fundedGets) =>
          \/ Spendable(spared) <= rows[o].out
          \/ rows[o].out = 0 /\ EffectiveIn(o, EffectiveOut(o, spared)) = 0
=============================================================================
