--------------------------- MODULE TxPrebookReplay ---------------------------
(***************************************************************************)
(* The tx-level prebook replay, empirical/rust/tx_prebook_replay/src/      *)
(* main.rs.  It reads the metadata file line by line, rebuilds the order   *)
(* book from the boundary snapshot at every new ledger, emits for each     *)
(* target transaction the book as that transaction saw it, and only then   *)
(* applies the transaction's own changes.                                  *)
(*                                                                         *)
(* The two IndexMaps state_getsxrp and state_getsrusd are one function     *)
(* here, because an offer's currencies, hence its side, never change.  An  *)
(* IndexMap's insertion order is kept as one increasing stamp per offer,   *)
(* top being no smaller than any of them.                                  *)
(* The fields owner_funds, taker_gets_funded and taker_pays_funded of a    *)
(* stored row are always read, kept and stripped together: they are one    *)
(* annotation.                                                             *)
(***************************************************************************)
EXTENDS LedgerFeed

CONSTANTS
  LedgerStart, LedgerEnd,  \* --ledger-start, --ledger-end
  Strict,            \* no --allow-filtered-ledger-metadata
  MaxOffersPerSide,  \* --max-offers-per-side, 0 for no limit
  Quality,           \* Quality[o]: rank of o's BookDirectory, lower is better
  DirectoryOrdered,  \* the prebook file lists equal qualities in sfIndexes order
  AnnotatedPrebook,  \* the prebook file has owner_funds, as book_offers gives it
  Unknown,           \* no funds are known
  NoLedger,          \* current_ledger before the first line
  NoSnapshot         \* the last step wrote no snapshot

ASSUME ReplayAssumption ==
  /\ LedgerStart \in Nat /\ LedgerEnd \in Nat
  /\ Strict \in BOOLEAN
  /\ MaxOffersPerSide \in Nat
  /\ Quality \in [Offers -> Nat]
  /\ DirectoryOrdered \in BOOLEAN /\ AnnotatedPrebook \in BOOLEAN
  /\ Unknown \notin Nat /\ NoLedger \notin Nat

VARIABLES
  status,             \* running, or the error that ended the program
  current_ledger,
  prev_order_key,     \* <<ledger, index>> of the last line in range
  expected_tx_index,
  state,              \* the book: amount, stamp and annotation of every offer
  running_funds,      \* xrp_owner_funds_by_account and iou_owner_funds_by_key
  snapshot            \* what the last step wrote to the snapshot file, if anything

replayVars == <<status, current_ledger, prev_order_key, expected_tx_index,
                state, running_funds, snapshot>>

vars == <<feedVars, replayVars>>

Status == {"running", "order_violation", "coverage_gap", "no_prebook"}

Known == Funds \cup {Unknown}

BookState ==
  [amount : [Offers -> Amounts], stamp : [Offers -> Nat], top : Nat,
   funds : [Offers -> Known]]

Snapshot ==
  [line : Line, amount : [Offers -> Amounts], stamp : [Offers -> Nat],
   owner_funds : [Offers -> Known]]

TypeOK ==
  /\ FeedTypeOK
  /\ status \in Status
  /\ current_ledger \in Nat \cup {NoLedger}
  /\ prev_order_key \in Nat \X Nat
  /\ expected_tx_index \in Nat
  /\ state \in BookState
  /\ running_funds \in [FundKeys -> Known]
  /\ snapshot \in Snapshot \cup {NoSnapshot}

EmptyBook ==
  [amount |-> [o \in Offers |-> 0], stamp |-> [o \in Offers |-> 0],
   top |-> 0, funds |-> [o \in Offers |-> Unknown]]

Init ==
  /\ FeedInit
  /\ status = "running"
  /\ current_ledger = NoLedger
  /\ prev_order_key = <<0, 0>>
  /\ expected_tx_index = 0
  /\ state = EmptyBook
  /\ running_funds = [k \in FundKeys |-> Unknown]
  /\ snapshot = NoSnapshot

-----------------------------------------------------------------------------
(* The boundary load *)

\* Place of an offer in the prebook file.  empirical_fetch_prebook_from_
\* ledger_data.py reads the offers in ledger object order and sorts them
\* stably by quality.
FileStamp(at, o) == IF DirectoryOrdered THEN at.dir[o] ELSE ObjectKey[o]

Precedes(stamp, o, p) ==
  Quality[o] < Quality[p] \/ (Quality[o] = Quality[p] /\ stamp[o] < stamp[p])

\* book_offers reports owner_funds with the first offer of each owner.
Annotated(at, o) ==
  /\ AnnotatedPrebook
  /\ at.book[o] > 0
  /\ \A p \in Offers : at.book[p] > 0 /\ FundKeyOf(p) = FundKeyOf(o) /\ p # o
                          => Precedes([q \in Offers |-> FileStamp(at, q)], o, p)

BoundaryBook(at) ==
  [amount |-> at.book,
   stamp  |-> [o \in Offers |-> IF at.book[o] > 0 THEN FileStamp(at, o) ELSE 0],
   top    |-> at.placed + KeyBound,
   funds  |-> [o \in Offers |-> IF Annotated(at, o) THEN at.funds[FundKeyOf(o)]
                                                    ELSE Unknown]]

\* Mutant of SeededFunds: the rows' owner_funds are not seeded.
SeededFromLinesOnly(b) ==
  [k \in FundKeys |-> IF k \in b.lines THEN b.at.funds[k] ELSE Unknown]

\* Seeded from the rows' owner_funds and from the account-line snapshot; the
\* code keeps the smaller, and both are the balance at the boundary.
SeededFunds(b) ==
  [k \in FundKeys |->
     IF k \in b.lines \/ \E o \in Offers : FundKeyOf(o) = k /\ Annotated(b.at, o)
     THEN b.at.funds[k] ELSE Unknown]

-----------------------------------------------------------------------------
(* The snapshot *)

\* Mutant of InsertStamp: every insertion goes to the end of the map.
StampAtEnd(book, o) == book.top + ObjectKey[o]

\* The stamp of o after it is inserted: its own if it is there, else behind all
\* others.  Nodes of one transaction come in ledger object order.
InsertStamp(book, o) ==
  IF book.amount[o] > 0 THEN book.stamp[o] ELSE book.top + ObjectKey[o]

\* merge_offer_preserving_funding: the stored annotation survives only if the
\* offer's amounts are unchanged.
MergedFunds(book, o, amount) ==
  IF book.amount[o] = amount THEN book.funds[o] ELSE Unknown

\* current_tx_pre_getsxrp, current_tx_pre_getsrusd: offers with a pre-image.
PreOffers(line) == {o \in line.offers : line.pre.book[o] > 0}

\* Mutant of Overlaid: only offers the book lacks are overlaid.
OverlaidIfMissing(book, line) ==
  LET P == {o \in PreOffers(line) : book.amount[o] = 0}
  IN  [amount |-> [o \in Offers |-> IF o \in P THEN line.pre.book[o] ELSE book.amount[o]],
       stamp  |-> [o \in Offers |-> IF o \in P THEN InsertStamp(book, o) ELSE book.stamp[o]],
       top    |-> book.top,
       funds  |-> book.funds]

Overlaid(book, line) ==
  LET P == PreOffers(line)
  IN  [amount |-> [o \in Offers |-> IF o \in P THEN line.pre.book[o] ELSE book.amount[o]],
       stamp  |-> [o \in Offers |-> IF o \in P THEN InsertStamp(book, o) ELSE book.stamp[o]],
       top    |-> book.top + KeyBound,
       funds  |-> [o \in Offers |-> IF o \in P
                     THEN MergedFunds(book, o, line.pre.book[o]) ELSE book.funds[o]]]

\* apply_running_owner_funds_to_state: known funds replace the annotation, and
\* a known zero leaves the row without one.
WithRunningFunds(book, funds) ==
  [o \in Offers |->
     IF book.amount[o] = 0 \/ funds[FundKeyOf(o)] = Unknown THEN book.funds[o]
     ELSE IF funds[FundKeyOf(o)] > 0 THEN funds[FundKeyOf(o)] ELSE Unknown]

\* metadata_pre_state_field of a balance.  A CreatedNode has neither
\* PreviousFields nor FinalFields, so its NewFields are read.
ReportedPre(line, k) == IF k \in line.created THEN line.post.funds[k] ELSE line.pre.funds[k]

\* extract_overlay_owner_funds_from_prebalance.
PrebalanceOffers(line) ==
  {o \in PreOffers(line) :
     FundKeyOf(o) \in line.keys /\ ReportedPre(line, FundKeyOf(o)) > 0}

WithPrebalances(rowFunds, line) ==
  [o \in Offers |-> IF o \in PrebalanceOffers(line) THEN ReportedPre(line, FundKeyOf(o))
                                                    ELSE rowFunds[o]]

\* normalize_account_owner_funds: an owner's rows take the smallest positive
\* value among them.
PositiveShares(amount, rowFunds, k) ==
  {rowFunds[p] : p \in {q \in Offers : amount[q] > 0 /\ FundKeyOf(q) = k
                                         /\ rowFunds[q] \notin {Unknown, 0}}}

\* Mutant of Normalised: each row keeps the funds it came with.
NotNormalised(amount, rowFunds) == rowFunds

Normalised(amount, rowFunds) ==
  [o \in Offers |->
     LET shares == PositiveShares(amount, rowFunds, FundKeyOf(o))
     IN  IF shares = {} THEN rowFunds[o]
         ELSE CHOOSE m \in shares : \A n \in shares : m <= n]

\* Mutant of SnapshotOf: the line's changes are applied before it is emitted.
SnapshotWithoutOverlay(book, funds, line) ==
  [line |-> line, amount |-> [o \in Offers |-> IF o \in line.offers THEN line.post.book[o]
                                                                  ELSE book.amount[o]],
   stamp |-> book.stamp, owner_funds |-> WithRunningFunds(book, funds)]

\* emit_snapshot, both sides.
SnapshotOf(book, funds, line) ==
  LET seen == Overlaid(book, line)
      rows == WithPrebalances(WithRunningFunds(seen, funds), line)
  IN  [line |-> line, amount |-> seen.amount, stamp |-> seen.stamp,
       owner_funds |-> Normalised(seen.amount, rows)]

\* Mutant of Emitted: the rows are truncated before they are sorted.
EmittedUnsorted(s) ==
  {o \in Offers :
     /\ s.amount[o] > 0
     /\ \/ MaxOffersPerSide = 0
        \/ Cardinality({p \in Offers : s.amount[p] > 0 /\ SideOf[p] = SideOf[o]
                                         /\ s.stamp[p] < s.stamp[o]}) < MaxOffersPerSide}

\* The rows of a snapshot after the sort and the truncation.
Emitted(s) ==
  {o \in Offers :
     /\ s.amount[o] > 0
     /\ \/ MaxOffersPerSide = 0
        \/ Cardinality({p \in Offers : s.amount[p] > 0 /\ SideOf[p] = SideOf[o]
                                         /\ Precedes(s.stamp, p, o)}) < MaxOffersPerSide}

-----------------------------------------------------------------------------
(* The line's own changes *)

\* The main loop's changes: a deleted offer leaves its map, a modified one
\* keeps its place, a new one goes to the end.
WithChanges(book, line) ==
  LET post == line.post.book
      T == line.offers
  IN  [amount |-> [o \in Offers |-> IF o \in T THEN post[o] ELSE book.amount[o]],
       stamp  |-> [o \in Offers |->
                     IF o \notin T THEN book.stamp[o]
                     ELSE IF post[o] = 0 THEN 0 ELSE InsertStamp(book, o)],
       top    |-> IF \E o \in T : book.amount[o] = 0 /\ post[o] > 0
                    THEN book.top + KeyBound ELSE book.top,
       funds  |-> [o \in Offers |->
                     IF o \notin T THEN book.funds[o]
                     ELSE IF post[o] = 0 THEN Unknown
                     ELSE MergedFunds(book, o, post[o])]]

\* Mutant of WithPostFunds: only owners of the touched offers are updated.
PostFundsOfTouched(funds, line) ==
  [k \in FundKeys |-> IF k \in line.keys /\ \E o \in line.offers : FundKeyOf(o) = k
                      THEN line.post.funds[k] ELSE funds[k]]

\* Mutant of WithPostFunds: the reserve is subtracted without a floor at zero.
PostFundsUnclamped(funds, line) ==
  [k \in FundKeys |-> IF k \notin line.keys THEN funds[k]
                      ELSE IF line.post.funds[k] = 0 THEN 0 - 1 ELSE line.post.funds[k]]

\* apply_post_funding_state_from_metadata: post balances of the owners' nodes;
\* a deleted AccountRoot or RippleState counts as zero.
WithPostFunds(funds, line) ==
  [k \in FundKeys |-> IF k \in line.keys THEN line.post.funds[k] ELSE funds[k]]

-----------------------------------------------------------------------------
(* The loop over the metadata lines *)

InRange(line) == line.ledger \in LedgerStart .. LedgerEnd

KeyLess(key, prev) == key[1] < prev[1] \/ (key[1] = prev[1] /\ key[2] < prev[2])

OrderKey(line) == <<line.ledger, line.index>>

OutOfOrder(line) == KeyLess(OrderKey(line), prev_order_key)

Expected(line) == IF current_ledger # line.ledger THEN 0 ELSE expected_tx_index

\* Mutant of CoverageGap: a line that comes too late goes unnoticed.
CoverageGapBackward(line) == Strict /\ line.index < Expected(line)

CoverageGap(line) == Strict /\ line.index # Expected(line)

\* Mutant of NeedsBoundary: only the first ledger of the window is loaded.
NeedsBoundaryOnce(line) == current_ledger = NoLedger

\* BookCursor.take_exact: the boundary before the line's ledger, or an error.
NeedsBoundary(line) == current_ledger # line.ledger

MissingBoundary(line) == NeedsBoundary(line) /\ ~boundary.prebook

\* A line outside the window is skipped before any check.
SkipLine ==
  /\ status = "running"
  /\ feed # NoLine
  /\ ~InRange(feed)
  /\ TakeLine
  /\ snapshot' = NoSnapshot
  /\ UNCHANGED <<status, current_ledger, prev_order_key, expected_tx_index,
                 state, running_funds>>

\* The program ends with an error and emits nothing more.
Stop(error) ==
  /\ status' = error
  /\ TakeLine
  /\ snapshot' = NoSnapshot
  /\ UNCHANGED <<current_ledger, prev_order_key, expected_tx_index,
                 state, running_funds>>

StopOnLine ==
  /\ status = "running"
  /\ feed # NoLine
  /\ InRange(feed)
  /\ \/ OutOfOrder(feed) /\ Stop("order_violation")
     \/ ~OutOfOrder(feed) /\ CoverageGap(feed) /\ Stop("coverage_gap")
     \/ ~OutOfOrder(feed) /\ ~CoverageGap(feed) /\ MissingBoundary(feed) /\ Stop("no_prebook")

\* Book and funds the line meets: the boundary's at a new ledger.
BookBefore(line) == IF NeedsBoundary(line) THEN BoundaryBook(boundary.at) ELSE state

FundsBefore(line) == IF NeedsBoundary(line) THEN SeededFunds(boundary) ELSE running_funds

ReplayLine ==
  /\ status = "running"
  /\ feed # NoLine
  /\ InRange(feed)
  /\ ~OutOfOrder(feed)
  /\ ~CoverageGap(feed)
  /\ ~MissingBoundary(feed)
  /\ snapshot' = IF feed.target
                   THEN SnapshotOf(BookBefore(feed), FundsBefore(feed), feed)
                   ELSE NoSnapshot
  /\ state' = WithChanges(BookBefore(feed), feed)
  /\ running_funds' = WithPostFunds(FundsBefore(feed), feed)
  /\ current_ledger' = feed.ledger
  /\ prev_order_key' = OrderKey(feed)
  /\ expected_tx_index' = feed.index + 1
  /\ TakeLine
  /\ UNCHANGED status

Read == SkipLine \/ StopOnLine \/ ReplayLine

Unread == OrderKey(feed) # prev_order_key \/ current_ledger = NoLedger

\* The history goes on only while somebody reads it.
Write ==
  /\ status = "running"
  /\ \/ LedgerTx
     \/ CloseLedger
     \/ LoseLine(feed # NoLine /\ Unread)
     \/ HoldLine(feed # NoLine /\ Unread)
     \/ LateLine(held # NoLine /\ KeyLess(OrderKey(held), prev_order_key))
  /\ snapshot' = NoSnapshot
  /\ UNCHANGED <<status, current_ledger, prev_order_key, expected_tx_index,
                 state, running_funds>>

Next == Read \/ Write

Spec == Init /\ [][Next]_vars

-----------------------------------------------------------------------------
(* Properties *)

\* A snapshot of a transaction whose ledger was read without a hole is the book
\* that transaction saw: the same offers with the same remaining amounts
\* (README 4.5), whatever was created, filled or deleted before it.
SnapshotIsPreState ==
  snapshot # NoSnapshot /\ ~snapshot.line.gap
    => snapshot.amount = snapshot.line.pre.book

\* Without --allow-filtered-ledger-metadata no transaction behind a lost, late
\* or repeated line gets a snapshot: the coverage check comes first.
NoSnapshotBehindGap ==
  Strict /\ snapshot # NoSnapshot => ~snapshot.line.gap

\* Offers of one quality are emitted in the order of their directory, the
\* order in which rippled would cross them (comment at emit_snapshot's sort).
SameQualityOrder ==
  snapshot # NoSnapshot /\ ~snapshot.line.gap =>
    \A o, p \in Emitted(snapshot) :
      SideOf[o] = SideOf[p] /\ Quality[o] = Quality[p] =>
        (snapshot.stamp[o] < snapshot.stamp[p]
           <=> snapshot.line.pre.dir[o] < snapshot.line.pre.dir[p])

\* Funds a row carries are what its owner had before the transaction, except
\* when the transaction itself creates the owner's trust line: then
\* metadata_pre_state_field reads the new balance as the one before.
FundsAreEarlier ==
  snapshot # NoSnapshot /\ ~snapshot.line.gap =>
    \A o \in Emitted(snapshot) :
      snapshot.owner_funds[o] = Unknown \/ FundKeyOf(o) \in snapshot.line.created
        \/ snapshot.owner_funds[o] = snapshot.line.pre.funds[FundKeyOf(o)]

\* Rows of one owner agree on the funds they share, in filtered mode too:
\* book_offers.py refuses a book in which they differ.
OwnersAgree ==
  snapshot # NoSnapshot =>
    \A o, p \in Emitted(snapshot) :
      FundKeyOf(o) = FundKeyOf(p) => snapshot.owner_funds[o] = snapshot.owner_funds[p]

\* Damage is local, in filtered mode too: a snapshot is wrong about an offer only
\* while the last line that touched the offer is one the reader never got.
\* Every other row is the ledger's, a new ledger or a line about the offer mends
\* it, and a line shown twice is wrong only about the offers it places itself.
DamageIsLocal ==
  snapshot # NoSnapshot =>
    \A o \in (Offers \ snapshot.line.doubt) \cup PreOffers(snapshot.line) :
      snapshot.amount[o] = snapshot.line.pre.book[o]

\* A boundary annotation never outlives the funds that replace it: a row that
\* still has one belongs to an owner whose running funds are known, so the
\* annotation is stripped before the row is emitted.
NoStaleAnnotation ==
  \A o \in Offers : state.funds[o] # Unknown => running_funds[FundKeyOf(o)] # Unknown

\* Once every line of the open ledger has been read, book and known funds are
\* the ledger's, so the next transaction starts from its true pre-state.
InStepWithLedger ==
  status = "running" /\ feed = NoLine /\ current_ledger = ledger /\ ~gap =>
    /\ state.amount = now.book
    /\ \A k \in FundKeys : running_funds[k] \in {Unknown, now.funds[k]}

\* Truncation drops only offers behind the ones it keeps, in the order of the
\* book the transaction saw.
TruncationKeepsBest ==
  snapshot # NoSnapshot /\ ~snapshot.line.gap =>
    \A o \in Emitted(snapshot), p \in Offers \ Emitted(snapshot) :
      SideOf[o] = SideOf[p] /\ snapshot.line.pre.book[p] > 0 => Quality[o] <= Quality[p]

-----------------------------------------------------------------------------
(* Refinement *)

InItsPlace(line) == line.ledger = ledger /\ line.index + 1 = txs

\* The line the reader may look at: the newest one, not one that comes late.
Waiting ==
  IF feed # NoLine /\ InItsPlace(feed)
  THEN {[key |-> OrderKey(feed), book |-> feed.pre.book, missed |-> feed.gap]} ELSE {}

Answer ==
  IF snapshot = NoSnapshot THEN {}
  ELSE {[key |-> OrderKey(snapshot.line), book |-> snapshot.amount]}

Oracle ==
  INSTANCE PrebookOracle WITH
    Books <- [Offers -> Amounts], Window <- LedgerStart .. LedgerEnd,
    book <- now.book, pending <- Waiting, missed <- gap, last <- prev_order_key,
    answer <- Answer, over <- status # "running"

\* The strict replay, of unfiltered metadata, implements the oracle: each transaction is
\* answered at most once, in order, with the book it met, and after a lost, late
\* or repeated line nothing is said of that ledger.
ImplementsOracle == Oracle!Spec
=============================================================================
