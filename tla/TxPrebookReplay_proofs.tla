------------------------ MODULE TxPrebookReplay_proofs ------------------------
(***************************************************************************)
(* Theorems about the tx-level prebook replay, for every set of offers,    *)
(* every bound on the ledger and every way the metadata file can be wrong. *)
(***************************************************************************)
EXTENDS TxPrebookReplay, FiniteSetTheorems, WellFoundedInduction, TLAPS

\* A set of numbers that is not empty has a smallest element.
LEMMA SmallestExists ==
  ASSUME NEW S, S \subseteq Nat, S # {}
  PROVE  \E m \in S : \A n \in S : m <= n
<1>1. IsWellFoundedOn(OpToRel(<, Nat), Nat)
  BY NatLessThanWellFounded
<1>2. PICK m \in S : \A n \in S : ~(<<n, m>> \in OpToRel(<, Nat))
  BY <1>1, WFMin
<1>3. \A n \in S : ~(n < m)
  BY <1>2 DEF OpToRel
<1> QED BY <1>3

-----------------------------------------------------------------------------
(* Types *)

\* A transaction takes the ledger to a ledger.
LEMMA AfterType ==
  ASSUME now \in LedgerState,
         NEW T \in SUBSET Offers, NEW F \in SUBSET FundKeys,
         NEW book \in [T -> Amounts], NEW funds \in [F -> Funds]
  PROVE  After(T, F, book, funds) \in LedgerState
<1>1. \A o \in Offers : (IF o \in T THEN book[o] ELSE now.book[o]) \in Amounts
  BY DEF LedgerState
<1>2. \A o \in Offers : (IF o \in T /\ now.dir[o] = 0 THEN now.placed + 1 ELSE now.dir[o]) \in Nat
  BY DEF LedgerState
<1>3. (IF \E o \in T : now.dir[o] = 0 THEN now.placed + 1 ELSE now.placed) \in Nat
  BY DEF LedgerState
<1>4. \A k \in FundKeys : (IF k \in F THEN funds[k] ELSE now.funds[k]) \in Funds
  BY DEF LedgerState
<1> QED BY <1>1, <1>2, <1>3, <1>4 DEF After, LedgerState

\* The book loaded at a ledger boundary is a book.
LEMMA BoundaryBookType ==
  ASSUME NEW at \in LedgerState
  PROVE  BoundaryBook(at) \in BookState
<1>1. \A o \in Offers : (IF at.book[o] > 0 THEN FileStamp(at, o) ELSE 0) \in Nat
  BY FeedAssumption DEF LedgerState, FileStamp
<1>2. \A o \in Offers : FundKeyOf(o) \in FundKeys
  BY DEF FundKeys
<1>3. \A o \in Offers :
        (IF Annotated(at, o) THEN at.funds[FundKeyOf(o)] ELSE Unknown) \in Known
  BY <1>2 DEF LedgerState, Known
<1>4. at.placed + KeyBound \in Nat /\ at.book \in [Offers -> Amounts]
  BY FeedAssumption DEF LedgerState
<1> QED BY <1>1, <1>3, <1>4 DEF BoundaryBook, BookState

\* So are the funds seeded there.
LEMMA SeededFundsType ==
  ASSUME NEW b \in Boundary
  PROVE  SeededFunds(b) \in [FundKeys -> Known]
BY DEF Boundary, LedgerState, SeededFunds, Known

\* An inserted offer gets a stamp.
LEMMA InsertStampType ==
  ASSUME NEW book \in BookState, NEW o \in Offers
  PROVE  InsertStamp(book, o) \in Nat
BY FeedAssumption DEF BookState, InsertStamp

\* The overlay of a line's pre-images on a book is a book.
LEMMA OverlaidType ==
  ASSUME NEW book \in BookState, NEW line \in Line
  PROVE  Overlaid(book, line) \in BookState
<1> DEFINE P == PreOffers(line)
<1>1. \A o \in Offers : (IF o \in P THEN line.pre.book[o] ELSE book.amount[o]) \in Amounts
  BY DEF BookState, Line, LedgerState
<1>2. \A o \in Offers : (IF o \in P THEN InsertStamp(book, o) ELSE book.stamp[o]) \in Nat
  BY InsertStampType DEF BookState
<1>3. \A o \in Offers : (IF o \in P THEN MergedFunds(book, o, line.pre.book[o])
                                     ELSE book.funds[o]) \in Known
  BY DEF BookState, MergedFunds, Known
<1>4. book.top + KeyBound \in Nat
  BY FeedAssumption DEF BookState
<1> HIDE DEF P
<1> QED BY <1>1, <1>2, <1>3, <1>4 DEF Overlaid, BookState, P

\* So is the book after the line's own changes.
LEMMA WithChangesType ==
  ASSUME NEW book \in BookState, NEW line \in Line
  PROVE  WithChanges(book, line) \in BookState
<1> DEFINE T == line.offers
           post == line.post.book
<1>1. post \in [Offers -> Amounts]
  BY DEF Line, LedgerState
<1>2. \A o \in Offers : (IF o \in T THEN post[o] ELSE book.amount[o]) \in Amounts
  BY <1>1 DEF BookState
<1>3. \A o \in Offers : (IF o \notin T THEN book.stamp[o]
                         ELSE IF post[o] = 0 THEN 0 ELSE InsertStamp(book, o)) \in Nat
  BY InsertStampType DEF BookState
<1>4. \A o \in Offers : (IF o \notin T THEN book.funds[o]
                         ELSE IF post[o] = 0 THEN Unknown
                         ELSE MergedFunds(book, o, post[o])) \in Known
  BY DEF BookState, MergedFunds, Known
<1>5. (IF \E o \in T : book.amount[o] = 0 /\ post[o] > 0
         THEN book.top + KeyBound ELSE book.top) \in Nat
  BY FeedAssumption DEF BookState
<1> HIDE DEF T, post
<1> QED BY <1>2, <1>3, <1>4, <1>5 DEF WithChanges, BookState, T, post

\* The balances after a line are balances.
LEMMA WithPostFundsType ==
  ASSUME NEW funds \in [FundKeys -> Known], NEW line \in Line
  PROVE  WithPostFunds(funds, line) \in [FundKeys -> Known]
BY DEF WithPostFunds, Line, LedgerState, Known

\* The smallest positive share of an owner is one of its shares.
LEMMA NormalisedType ==
  ASSUME NEW amount \in [Offers -> Amounts], NEW rowFunds \in [Offers -> Known]
  PROVE  Normalised(amount, rowFunds) \in [Offers -> Known]
<1> SUFFICES ASSUME NEW o \in Offers
             PROVE  Normalised(amount, rowFunds)[o] \in Known
  BY DEF Normalised
<1> DEFINE shares == PositiveShares(amount, rowFunds, FundKeyOf(o))
<1>1. shares \subseteq Funds
  BY DEF PositiveShares, Known
<1>2. CASE shares = {}
  BY <1>2 DEF Normalised
<1>3. CASE shares # {}
  <2>1. shares \subseteq Nat
    BY <1>1 DEF Funds
  <2> HIDE DEF shares
  <2>2. \E m \in shares : \A n \in shares : m <= n
    BY <1>3, <2>1, SmallestExists
  <2>3. (CHOOSE m \in shares : \A n \in shares : m <= n) \in Known
    BY <2>2, <1>1 DEF Known
  <2> QED BY <2>3, <1>3 DEF Normalised, shares
<1> QED BY <1>2, <1>3

\* What emit_snapshot writes for a line is a snapshot.
LEMMA SnapshotOfType ==
  ASSUME NEW book \in BookState, NEW funds \in [FundKeys -> Known], NEW line \in Line
  PROVE  SnapshotOf(book, funds, line) \in Snapshot
<1> DEFINE seen == Overlaid(book, line)
           rows == WithPrebalances(WithRunningFunds(seen, funds), line)
<1>1. seen \in BookState
  BY OverlaidType
<1>2. \A o \in Offers : FundKeyOf(o) \in FundKeys
  BY DEF FundKeys
<1> HIDE DEF seen
<1>3. WithRunningFunds(seen, funds) \in [Offers -> Known]
  BY <1>1, <1>2 DEF WithRunningFunds, BookState, Known
<1>4. \A k \in FundKeys : ReportedPre(line, k) \in Known
  BY DEF ReportedPre, Line, LedgerState, Known
<1>5. rows \in [Offers -> Known]
  BY <1>2, <1>3, <1>4 DEF WithPrebalances
<1> HIDE DEF rows
<1>6. Normalised(seen.amount, rows) \in [Offers -> Known]
  BY <1>1, <1>5, NormalisedType DEF BookState
<1>7. SnapshotOf(book, funds, line) =
        [line |-> line, amount |-> seen.amount, stamp |-> seen.stamp,
         owner_funds |-> Normalised(seen.amount, rows)]
  BY DEF SnapshotOf, seen, rows
<1> QED BY <1>1, <1>6, <1>7 DEF Snapshot, BookState

\* A transaction with its metadata line keeps the types.
LEMMA LedgerTxType ==
  ASSUME FeedTypeOK, LedgerTx
  PROVE  FeedTypeOK' /\ feed' \in Line
<1>1. PICK T \in SUBSET Offers, F \in SUBSET FundKeys, target \in TargetFlags :
        \E book \in [T -> Amounts], funds \in [F -> Funds] :
          /\ now' = After(T, F, book, funds)
          /\ \E created \in SUBSET NewLines(F, funds) :
               feed' = [ledger |-> ledger, index |-> txs, target |-> target,
                        gap |-> gap, doubt |-> doubt, offers |-> T, keys |-> F,
                        created |-> created, pre |-> now, post |-> now']
  BY DEF LedgerTx
<1>2. PICK book \in [T -> Amounts], funds \in [F -> Funds] :
          /\ now' = After(T, F, book, funds)
          /\ \E created \in SUBSET NewLines(F, funds) :
               feed' = [ledger |-> ledger, index |-> txs, target |-> target,
                        gap |-> gap, doubt |-> doubt, offers |-> T, keys |-> F,
                        created |-> created, pre |-> now, post |-> now']
  BY <1>1
<1>3. now' \in LedgerState
  BY <1>2, AfterType DEF FeedTypeOK
<1>4. NewLines(F, funds) \subseteq FundKeys /\ target \in BOOLEAN
  BY FeedAssumption DEF NewLines, LineKeys
<1>5. PICK created \in SUBSET FundKeys :
        feed' = [ledger |-> ledger, index |-> txs, target |-> target,
                 gap |-> gap, doubt |-> doubt, offers |-> T, keys |-> F,
                 created |-> created, pre |-> now, post |-> now']
  BY <1>2, <1>4
<1>6. feed' \in Line
  BY <1>3, <1>4, <1>5 DEF FeedTypeOK, Line
<1> QED BY <1>3, <1>6 DEF LedgerTx, FeedTypeOK

\* A line shown again is the same but for what the reader is in doubt about.
SameLine(line, again) ==
  /\ again.ledger = line.ledger /\ again.index = line.index
  /\ again.target = line.target /\ again.gap = line.gap
  /\ again.offers = line.offers /\ again.keys = line.keys /\ again.created = line.created
  /\ again.pre = line.pre /\ again.post = line.post

LEMMA AgainIsLine ==
  ASSUME NEW line \in Line
  PROVE  Again(line) \in Line /\ SameLine(line, Again(line))
<1>1. \A D : [line EXCEPT !.doubt = D] =
        [ledger |-> line.ledger, index |-> line.index, target |-> line.target,
         gap |-> line.gap, doubt |-> D, offers |-> line.offers, keys |-> line.keys,
         created |-> line.created, pre |-> line.pre, post |-> line.post]
  BY DEF Line
<1>2. {o \in Offers : IF o \in line.offers THEN line.pre.book[o] = 0 ELSE o \in line.doubt}
        \in SUBSET Offers
  BY Zenon
<1> QED BY <1>1, <1>2 DEF Again, SameLine, Line

\* So does every other step of the history, and a reader taking a line.
LEMMA FeedStepType ==
  ASSUME FeedTypeOK,
         \/ CloseLedger
         \/ \E u \in BOOLEAN : LoseLine(u) \/ HoldLine(u) \/ LateLine(u)
         \/ TakeLine
  PROVE  FeedTypeOK'
<1>1. CASE CloseLedger
  <2>1. PICK prebook \in BOOLEAN, lines \in SUBSET LineKeys :
          boundary' = Closed(now, prebook, lines)
    BY <1>1 DEF CloseLedger
  <2>2. boundary' \in Boundary
    BY <2>1 DEF Closed, Boundary, LineKeys, FeedTypeOK
  <2>3. gap' \in BOOLEAN /\ doubt' = {}
    BY <1>1, Zenon DEF CloseLedger
  <2>4. now' \in LedgerState /\ ledger' \in Nat /\ txs' \in Nat
    BY <1>1 DEF CloseLedger, FeedTypeOK
  <2>5. feed' \in Line \cup {NoLine} /\ held' \in Line \cup {NoLine}
    BY <1>1 DEF CloseLedger, FeedTypeOK
  <2> QED BY <2>2, <2>3, <2>4, <2>5, Zenon DEF FeedTypeOK
<1>2. ASSUME NEW u \in BOOLEAN, LoseLine(u) \/ HoldLine(u) \/ LateLine(u)
      PROVE  FeedTypeOK'
  <2>1. CASE LateLine(u)
    BY <2>1 DEF LateLine, FeedTypeOK
  <2>2. CASE LoseLine(u) \/ HoldLine(u)
    <3>1. feed \in Line /\ feed.offers \subseteq Offers /\ doubt' = doubt \cup feed.offers
      BY <2>2 DEF LoseLine, HoldLine, InPlace, FeedTypeOK, Line
    <3>2. doubt' \subseteq Offers
      BY <3>1 DEF FeedTypeOK
    <3> QED BY <2>2, <3>1, <3>2 DEF LoseLine, HoldLine, InPlace, FeedTypeOK
  <2> QED BY <1>2, <2>1, <2>2
<1>3. CASE TakeLine
  <2>1. feed \in Line /\ feed' \in {NoLine, Again(feed)} /\ doubt' \subseteq doubt \cup feed.offers
    BY <1>3 DEF TakeLine, FeedTypeOK
  <2>2. Again(feed) \in Line /\ feed.offers \subseteq Offers
    BY <2>1, AgainIsLine DEF Line
  <2> QED BY <1>3, <2>1, <2>2 DEF TakeLine, FeedTypeOK
<1> QED BY <1>1, <1>2, <1>3

\* A line that is taken is gone or is seen again.
LEMMA TakenLine ==
  ASSUME FeedTypeOK, TakeLine
  PROVE  /\ feed # NoLine /\ feed \in Line
         /\ feed' = NoLine \/ (feed' # NoLine /\ feed' = Again(feed) /\ SameLine(feed, feed'))
         /\ UNCHANGED <<now, ledger, txs, boundary, held, gap>>
<1>1. feed \in Line /\ feed' \in {NoLine, Again(feed)}
  BY DEF TakeLine, FeedTypeOK
<1>2. Again(feed) # NoLine /\ SameLine(feed, Again(feed))
  BY <1>1, AgainIsLine, NoLineAssumption
<1> QED BY <1>1, <1>2 DEF TakeLine

\* Book and funds a line meets have their types.
LEMMA BeforeType ==
  ASSUME TypeOK, NEW line \in Line
  PROVE  BookBefore(line) \in BookState /\ FundsBefore(line) \in [FundKeys -> Known]
<1>1. boundary \in Boundary /\ boundary.at \in LedgerState
  BY DEF TypeOK, FeedTypeOK, Boundary
<1> QED
  BY <1>1, BoundaryBookType, SeededFundsType DEF TypeOK, BookBefore, FundsBefore

\* The replay and its inputs start in their types.
LEMMA InitType == Init => TypeOK
<1> SUFFICES ASSUME Init PROVE TypeOK
  OBVIOUS
<1>1. now \in LedgerState
  BY OpeningAssumption DEF Init, FeedInit
<1>2. PICK lines \in SUBSET LineKeys : boundary = Closed(now, TRUE, lines)
  BY DEF Init, FeedInit
<1>3. boundary \in Boundary
  BY <1>1, <1>2 DEF Closed, Boundary, LineKeys
<1>4. FeedTypeOK
  <2>1. gap \in BOOLEAN /\ doubt \subseteq Offers
    BY Zenon DEF Init, FeedInit
  <2>2. ledger \in Nat /\ txs \in Nat
    BY DEF Init, FeedInit
  <2>3. feed \in Line \cup {NoLine} /\ held \in Line \cup {NoLine}
    BY DEF Init, FeedInit
  <2> QED BY <1>1, <1>3, <2>1, <2>2, <2>3, Zenon DEF FeedTypeOK
<1>5. EmptyBook \in BookState
  BY FeedAssumption DEF EmptyBook, BookState, Amounts, Known
<1> QED BY <1>4, <1>5 DEF Init, TypeOK, Status, Known

\* Every step keeps the types.
LEMMA NextType == TypeOK /\ [Next]_vars => TypeOK'
<1> SUFFICES ASSUME TypeOK, [Next]_vars PROVE TypeOK'
  OBVIOUS
<1> USE DEF TypeOK
<1>1. CASE SkipLine
  BY <1>1, FeedStepType DEF SkipLine
<1>2. CASE StopOnLine
  BY <1>2, FeedStepType DEF StopOnLine, Stop, Status
<1>3. CASE ReplayLine
  <2>1. feed \in Line
    BY <1>3 DEF ReplayLine, FeedTypeOK
  <2>2. FeedTypeOK'
    BY <1>3, FeedStepType DEF ReplayLine
  <2>3. BookBefore(feed) \in BookState /\ FundsBefore(feed) \in [FundKeys -> Known]
    BY <2>1, BeforeType
  <2>4. state' \in BookState
    BY <1>3, <2>1, <2>3, WithChangesType DEF ReplayLine
  <2>5. running_funds' \in [FundKeys -> Known]
    BY <1>3, <2>1, <2>3, WithPostFundsType DEF ReplayLine
  <2>6. snapshot' \in Snapshot \cup {NoSnapshot}
    BY <1>3, <2>1, <2>3, SnapshotOfType DEF ReplayLine
  <2>7. /\ current_ledger' \in Nat \cup {NoLedger}
        /\ prev_order_key' \in Nat \X Nat
        /\ expected_tx_index' \in Nat
        /\ status' \in Status
    BY <1>3, <2>1 DEF ReplayLine, Line, OrderKey
  <2> QED BY <2>2, <2>4, <2>5, <2>6, <2>7
<1>4. CASE Write
  <2>1. FeedTypeOK'
    <3>1. CASE LedgerTx
      BY <3>1, LedgerTxType
    <3>2. CASE ~LedgerTx
      <4>1. /\ (feed # NoLine /\ Unread) \in BOOLEAN
            /\ (held # NoLine /\ KeyLess(OrderKey(held), prev_order_key)) \in BOOLEAN
        BY DEF Unread, KeyLess
      <4> QED BY <1>4, <3>2, <4>1, FeedStepType DEF Write
    <3> QED BY <3>1, <3>2
  <2> QED BY <1>4, <2>1 DEF Write
<1>5. CASE UNCHANGED vars
  BY <1>5 DEF vars, feedVars, replayVars, FeedTypeOK
<1> QED BY <1>1, <1>2, <1>3, <1>4, <1>5 DEF Next, Read

\* The replay never leaves its types: balances stay naturals or unknown, the
\* book keeps one amount and one place per offer.
THEOREM TypeCorrect == Spec => []TypeOK
<1>1. Init => TypeOK
  BY InitType
<1>2. TypeOK /\ [Next]_vars => TypeOK'
  BY NextType
<1> QED BY <1>1, <1>2, PTL DEF Spec

-----------------------------------------------------------------------------
(* Snapshots are exact *)

\* The line waiting is the newest of the open ledger: it leads to the ledger as
\* it is now, and a ledger's first line starts from the boundary before it.
Newest(line) ==
  /\ line.ledger = ledger /\ line.index + 1 = txs
  /\ line.post = now /\ line.gap = gap
  /\ line.index = 0 => line.pre = boundary.at /\ ~line.gap

\* A line that waits is the newest or comes too late to be accepted.
LineInPlace ==
  feed # NoLine => Newest(feed) \/ KeyLess(OrderKey(feed), prev_order_key)

\* An offer that stays keeps its place in its directory, and the only one that
\* is new goes behind all others.
Placed(line) == {o \in Offers : line.pre.book[o] = 0 /\ line.post.book[o] > 0}

PlacesKept(line) ==
  /\ \A o \in Offers : line.post.book[o] > 0 =>
       IF line.pre.book[o] > 0 THEN line.post.dir[o] = line.pre.dir[o]
       ELSE o \in line.offers /\ line.post.dir[o] = line.pre.placed + 1
  /\ \A o, p \in Placed(line) : o = p

\* A transaction changes only what its metadata names.
LineFrame ==
  feed # NoLine /\ Newest(feed) =>
    /\ WellPlaced(feed.pre) /\ PlacesKept(feed)
    /\ \A o \in Offers \ feed.offers : feed.pre.book[o] = feed.post.book[o]
    /\ \A k \in FundKeys \ feed.keys : feed.pre.funds[k] = feed.post.funds[k]

\* The three variables that say how far the reader got agree with each other
\* and with the ledger.
ReaderBehind ==
  /\ current_ledger = NoLedger => prev_order_key = <<0, 0>>
  /\ current_ledger # NoLedger =>
       /\ current_ledger \in Nat
       /\ prev_order_key[1] = current_ledger
       /\ prev_order_key[2] + 1 = expected_tx_index
       /\ current_ledger <= ledger
       /\ current_ledger = ledger => expected_tx_index <= txs

\* Before its first transaction an open ledger is its boundary.
OpensAtBoundary == txs = 0 => boundary.at = now /\ ~gap

\* The book's stamps order the offers as the directories of at do.
Sorted(book, at) ==
  /\ \A o \in Offers : at.book[o] > 0 => book.stamp[o] <= book.top
  /\ \A o, p \in Offers : at.book[o] > 0 /\ at.book[p] > 0 =>
       (book.stamp[o] < book.stamp[p] <=> at.dir[o] < at.dir[p])

\* Book and known funds are those of the ledger state at.
InStep(at) ==
  /\ state.amount = at.book
  /\ DirectoryOrdered => Sorted(state, at)
  /\ \A k \in FundKeys : running_funds[k] \in {Unknown, at.funds[k]}

\* A reader that has everything of the open ledger is in step with it, one that
\* still lacks the waiting line is in step with the ledger before it.
ReaderInStep ==
  /\ current_ledger = ledger /\ expected_tx_index = txs => InStep(now) /\ ~gap
  /\ feed # NoLine /\ Newest(feed) /\ current_ledger = ledger
       /\ expected_tx_index = feed.index => InStep(feed.pre) /\ ~feed.gap

\* What a snapshot says is the state its transaction saw.
SnapshotExact ==
  snapshot # NoSnapshot =>
    snapshot.amount = snapshot.line.pre.book /\ ~snapshot.line.gap

\* What holds of file and reader in every mode.
FeedInv ==
  /\ TypeOK
  /\ status = "running" => LineInPlace /\ LineFrame /\ ReaderBehind /\ OpensAtBoundary
  /\ WellPlaced(now) /\ WellPlaced(boundary.at)

\* The inductive invariant of the strict mode.
StrictInv ==
  /\ FeedInv
  /\ status = "running" => ReaderInStep
  /\ SnapshotExact

\* Applying a line in step with its pre-state ends in step with its post-state.
LEMMA ChangesInStep ==
  ASSUME NEW line \in Line, NEW book, NEW funds,
         book.amount = line.pre.book,
         \A k \in FundKeys : funds[k] \in {Unknown, line.pre.funds[k]},
         \A o \in Offers \ line.offers : line.pre.book[o] = line.post.book[o],
         \A k \in FundKeys \ line.keys : line.pre.funds[k] = line.post.funds[k]
  PROVE  /\ WithChanges(book, line).amount = line.post.book
         /\ \A k \in FundKeys : WithPostFunds(funds, line)[k] \in {Unknown, line.post.funds[k]}
<1>1. line.pre.book \in [Offers -> Amounts] /\ line.post.book \in [Offers -> Amounts]
  BY DEF Line, LedgerState
<1>2. WithChanges(book, line).amount
        = [o \in Offers |-> IF o \in line.offers THEN line.post.book[o] ELSE book.amount[o]]
  BY DEF WithChanges
<1>3. \A o \in Offers : WithChanges(book, line).amount[o] = line.post.book[o]
  BY <1>2
<1>4. WithChanges(book, line).amount = line.post.book
  BY <1>1, <1>2, <1>3
<1>5. \A k \in FundKeys : WithPostFunds(funds, line)[k] \in {Unknown, line.post.funds[k]}
  BY DEF WithPostFunds
<1> QED BY <1>4, <1>5

\* Its offers then are in the order of their directories, too.
LEMMA ChangesSorted ==
  ASSUME NEW line \in Line, NEW book \in BookState,
         book.amount = line.pre.book, Sorted(book, line.pre),
         WellPlaced(line.pre), PlacesKept(line),
         \A o \in Offers \ line.offers : line.pre.book[o] = line.post.book[o]
  PROVE  Sorted(WithChanges(book, line), line.post)
<1> DEFINE new == WithChanges(book, line)
<1>1. /\ line.pre.book \in [Offers -> Nat] /\ line.post.book \in [Offers -> Nat]
      /\ line.pre.dir \in [Offers -> Nat] /\ line.post.dir \in [Offers -> Nat]
      /\ line.pre.placed \in Nat
  BY DEF Line, LedgerState, Amounts
<1>2. /\ book.stamp \in [Offers -> Nat] /\ book.top \in Nat
      /\ \A o \in Offers : ObjectKey[o] \in 1 .. KeyBound
      /\ KeyBound \in Nat
  BY FeedAssumption DEF BookState
<1>3. ASSUME NEW o \in Offers, line.post.book[o] > 0, line.pre.book[o] > 0
      PROVE  /\ new.stamp[o] = book.stamp[o] /\ book.stamp[o] <= book.top
             /\ line.post.dir[o] = line.pre.dir[o] /\ line.pre.dir[o] <= line.pre.placed
  BY <1>1, <1>3 DEF WithChanges, InsertStamp, Sorted, WellPlaced, PlacesKept, Placed
<1>4. ASSUME NEW o \in Offers, line.post.book[o] > 0, ~(line.pre.book[o] > 0)
      PROVE  /\ o \in line.offers /\ line.pre.book[o] = 0
             /\ new.stamp[o] = book.top + ObjectKey[o]
             /\ new.top = book.top + KeyBound
             /\ line.post.dir[o] = line.pre.placed + 1
  <2>1. o \in line.offers /\ line.pre.book[o] = 0 /\ line.post.dir[o] = line.pre.placed + 1
    BY <1>1, <1>4 DEF PlacesKept
  <2>2. book.amount[o] = 0 /\ line.post.book[o] # 0
    BY <1>4, <2>1
  <2> QED BY <1>4, <2>1, <2>2 DEF WithChanges, InsertStamp
<1>5. new.top \in {book.top, book.top + KeyBound}
  BY DEF WithChanges
<1>6. \A o \in Offers : line.post.book[o] > 0 => new.stamp[o] <= new.top
  BY <1>2, <1>3, <1>4, <1>5
<1>7. ASSUME NEW o \in Offers, NEW p \in Offers, line.post.book[o] > 0, line.post.book[p] > 0
      PROVE  new.stamp[o] < new.stamp[p] <=> line.post.dir[o] < line.post.dir[p]
  <2>1. CASE line.pre.book[o] > 0 /\ line.pre.book[p] > 0
    BY <1>3, <1>7, <2>1 DEF Sorted
  <2>2. CASE line.pre.book[o] > 0 /\ ~(line.pre.book[p] > 0)
    BY <1>1, <1>2, <1>3, <1>4, <1>7, <2>2
  <2>3. CASE ~(line.pre.book[o] > 0) /\ line.pre.book[p] > 0
    BY <1>1, <1>2, <1>3, <1>4, <1>7, <2>3
  <2>4. CASE ~(line.pre.book[o] > 0) /\ ~(line.pre.book[p] > 0)
    <3>1. o = p
      BY <1>4, <1>7, <2>4 DEF PlacesKept, Placed
    <3>2. new.stamp[o] \in Nat /\ line.post.dir[o] \in Nat
      BY <1>1, <1>2, <1>4, <1>7, <2>4
    <3> QED BY <3>1, <3>2
  <2> QED BY <2>1, <2>2, <2>3, <2>4
<1> QED BY <1>6, <1>7 DEF Sorted

\* The boundary's book is in the order of the directories if the file is.
LEMMA BoundarySorted ==
  ASSUME DirectoryOrdered, NEW at \in LedgerState, WellPlaced(at)
  PROVE  Sorted(BoundaryBook(at), at)
<1>1. \A o \in Offers : at.book[o] > 0 => BoundaryBook(at).stamp[o] = at.dir[o]
  BY DEF BoundaryBook, FileStamp
<1>2. \A o \in Offers : at.dir[o] \in Nat /\ at.dir[o] <= at.placed + KeyBound
  BY FeedAssumption DEF WellPlaced, LedgerState
<1>3. BoundaryBook(at).top = at.placed + KeyBound
  BY DEF BoundaryBook
<1> QED BY <1>1, <1>2, <1>3 DEF Sorted

\* The overlay changes nothing of a book that is in step.
LEMMA OverlayInStep ==
  ASSUME NEW line \in Line, NEW book \in BookState, book.amount = line.pre.book
  PROVE  Overlaid(book, line).amount = line.pre.book
<1>1. Overlaid(book, line).amount
        = [o \in Offers |-> IF o \in PreOffers(line) THEN line.pre.book[o] ELSE book.amount[o]]
  BY DEF Overlaid
<1>2. line.pre.book \in [Offers -> Amounts]
  BY DEF Line, LedgerState
<1> QED BY <1>1, <1>2

\* Shape of the line a transaction writes.
LEMMA LedgerTxLine ==
  ASSUME TypeOK, LedgerTx
  PROVE  /\ feed'.ledger = ledger /\ feed'.index = txs
         /\ feed'.gap = gap /\ feed'.doubt = doubt
         /\ feed'.pre = now /\ feed'.post = now' /\ feed' \in Line
         /\ \A o \in Offers \ feed'.offers : now.book[o] = now'.book[o]
         /\ \A k \in FundKeys \ feed'.keys : now.funds[k] = now'.funds[k]
         /\ WellPlaced(now) => WellPlaced(now') /\ PlacesKept(feed')
<1>1. PICK T \in SUBSET Offers, F \in SUBSET FundKeys, target \in TargetFlags :
        \E book \in [T -> Amounts], funds \in [F -> Funds] :
          /\ OfferMoves(T, book)
          /\ now' = After(T, F, book, funds)
          /\ \E created \in SUBSET NewLines(F, funds) :
               feed' = [ledger |-> ledger, index |-> txs, target |-> target,
                        gap |-> gap, doubt |-> doubt, offers |-> T, keys |-> F,
                        created |-> created, pre |-> now, post |-> now']
  BY DEF LedgerTx
<1>2. PICK book \in [T -> Amounts], funds \in [F -> Funds] :
        OfferMoves(T, book) /\ now' = After(T, F, book, funds)
  BY <1>1
<1>3. /\ feed'.ledger = ledger /\ feed'.index = txs
      /\ feed'.gap = gap /\ feed'.doubt = doubt
      /\ feed'.pre = now /\ feed'.post = now'
      /\ feed'.offers = T /\ feed'.keys = F
  BY <1>1
<1>4. feed' \in Line
  BY LedgerTxType DEF TypeOK
<1>5. ASSUME WellPlaced(now) PROVE WellPlaced(now') /\ PlacesKept(feed')
  <2>1. now \in LedgerState /\ now.placed \in Nat /\ now.dir \in [Offers -> Nat]
        /\ now.book \in [Offers -> Nat]
    BY DEF TypeOK, FeedTypeOK, LedgerState, Amounts
  <2>2. /\ \A o \in Offers : now'.book[o] = IF o \in T THEN book[o] ELSE now.book[o]
        /\ \A o \in Offers : now'.dir[o] = IF o \in T /\ now.dir[o] = 0
                                             THEN now.placed + 1 ELSE now.dir[o]
        /\ now'.placed = IF \E o \in T : now.dir[o] = 0 THEN now.placed + 1 ELSE now.placed
    BY <1>2 DEF After
  <2>3. /\ \A o, p \in T : now.dir[o] = 0 /\ now.dir[p] = 0 => o = p
        /\ \A o \in T : now.dir[o] # 0 => now.book[o] > 0
    BY <1>2 DEF OfferMoves
  <2>4. /\ \A o \in Offers : now.book[o] > 0 => now.dir[o] > 0
        /\ \A o \in Offers : now.dir[o] <= now.placed
        /\ \A o, p \in Offers : now.dir[o] = now.dir[p] => o = p \/ now.dir[o] = 0
    BY <1>5 DEF WellPlaced
  <2>5. WellPlaced(now')
    BY <2>1, <2>2, <2>3, <2>4 DEF WellPlaced
  <2>6. PlacesKept(feed')
    <3>1. \A o \in Offers : now.book[o] > 0 => now'.dir[o] = now.dir[o]
      BY <2>1, <2>2, <2>4
    <3>2. \A o \in Offers : ~(now.book[o] > 0) /\ now'.book[o] > 0 =>
            o \in T /\ now.dir[o] = 0 /\ now'.dir[o] = now.placed + 1
      BY <2>1, <2>2, <2>3
    <3>3. \A o \in Offers : now.book[o] = 0 => ~(now.book[o] > 0)
      BY <2>1
    <3>4. \A o, p \in Placed(feed') : o = p
      BY <1>3, <2>3, <3>2, <3>3 DEF Placed
    <3> QED BY <1>3, <3>1, <3>2, <3>4 DEF PlacesKept
  <2> QED BY <2>5, <2>6
<1> QED BY <1>2, <1>3, <1>4, <1>5 DEF After

\* The invariant of the file holds before the first line.
LEMMA FeedInvInit == Init => FeedInv
<1> SUFFICES ASSUME Init PROVE FeedInv
  OBVIOUS
<1>1. TypeOK
  BY InitType
<1>2. LineInPlace /\ LineFrame
  BY DEF Init, FeedInit, LineInPlace, LineFrame
<1>3. ReaderBehind
  BY DEF Init, ReaderBehind
<1>4. OpensAtBoundary
  BY DEF Init, FeedInit, OpensAtBoundary, Closed
<1>5. WellPlaced(now) /\ WellPlaced(boundary.at)
  BY OpeningAssumption DEF Init, FeedInit, Closed
<1> QED BY <1>1, <1>2, <1>3, <1>4, <1>5 DEF FeedInv

\* A line outside the window is taken and nothing else happens.
LEMMA FeedSkip ==
  ASSUME FeedInv, SkipLine PROVE FeedInv'
<1>1. TypeOK'
  BY NextType DEF FeedInv, Next, Read
<1>2. /\ feed # NoLine
      /\ feed' = NoLine \/ SameLine(feed, feed')
      /\ UNCHANGED <<now, ledger, txs, boundary, gap>>
  BY TakenLine DEF SkipLine, FeedInv, TypeOK
<1>3. /\ status = "running"
      /\ UNCHANGED <<status, current_ledger, prev_order_key, expected_tx_index>>
  BY DEF SkipLine
<1>4. LineInPlace'
  BY <1>2, <1>3 DEF FeedInv, LineInPlace, Newest, OrderKey, KeyLess, SameLine
<1>5. LineFrame'
  BY <1>2, <1>3 DEF FeedInv, LineFrame, Newest, WellPlaced, PlacesKept, Placed, SameLine
<1>6. ReaderBehind' /\ OpensAtBoundary'
  BY <1>2, <1>3 DEF FeedInv, ReaderBehind, OpensAtBoundary
<1>7. WellPlaced(now)' /\ WellPlaced(boundary.at)'
  BY <1>2 DEF FeedInv, WellPlaced
<1> QED BY <1>1, <1>4, <1>5, <1>6, <1>7 DEF FeedInv

\* An error ends the program.
LEMMA FeedStop ==
  ASSUME FeedInv, StopOnLine PROVE FeedInv'
<1>1. TypeOK'
  BY NextType DEF FeedInv, Next, Read
<1>2. status' # "running"
  BY DEF StopOnLine, Stop
<1>3. WellPlaced(now)' /\ WellPlaced(boundary.at)'
  BY DEF FeedInv, WellPlaced, StopOnLine, Stop, TakeLine
<1> QED BY <1>1, <1>2, <1>3 DEF FeedInv

\* A line that passes the order check is the newest.
LEMMA AcceptedLine ==
  ASSUME FeedInv, ReplayLine
  PROVE  /\ feed # NoLine /\ feed \in Line /\ Newest(feed) /\ LineFrame
         /\ feed' = NoLine \/ (feed' # NoLine /\ feed' = Again(feed) /\ SameLine(feed, feed'))
         /\ UNCHANGED <<now, ledger, txs, boundary, held, gap>>
         /\ current_ledger' = ledger /\ prev_order_key' = <<ledger, feed.index>>
         /\ expected_tx_index' = feed.index + 1 /\ expected_tx_index' = txs
         /\ ledger \in Nat /\ feed.index \in Nat /\ txs \in Nat
<1>1. /\ feed # NoLine /\ feed \in Line
      /\ feed' = NoLine \/ (feed' # NoLine /\ feed' = Again(feed) /\ SameLine(feed, feed'))
      /\ UNCHANGED <<now, ledger, txs, boundary, held, gap>>
  BY TakenLine DEF ReplayLine, FeedInv, TypeOK
<1>2. Newest(feed) /\ LineFrame
  BY <1>1 DEF ReplayLine, FeedInv, LineInPlace, OutOfOrder
<1>3. ledger \in Nat /\ feed.index \in Nat /\ txs \in Nat
  BY <1>1 DEF FeedInv, TypeOK, FeedTypeOK, Line
<1>4. /\ current_ledger' = ledger /\ prev_order_key' = <<ledger, feed.index>>
      /\ expected_tx_index' = feed.index + 1 /\ expected_tx_index' = txs
  BY <1>2 DEF ReplayLine, OrderKey, Newest
<1> QED BY <1>1, <1>2, <1>3, <1>4

\* A line that is replayed leaves file and reader as they should be.
LEMMA FeedReplay ==
  ASSUME FeedInv, ReplayLine PROVE FeedInv'
<1>1. TypeOK'
  BY NextType DEF FeedInv, Next, Read
<1>2. /\ feed # NoLine /\ Newest(feed) /\ LineFrame
      /\ feed' = NoLine \/ (feed' # NoLine /\ SameLine(feed, feed'))
      /\ UNCHANGED <<now, ledger, txs, boundary, held, gap>>
      /\ current_ledger' = ledger /\ prev_order_key' = <<ledger, feed.index>>
      /\ expected_tx_index' = feed.index + 1 /\ expected_tx_index' = txs
      /\ ledger \in Nat /\ feed.index \in Nat /\ txs \in Nat
  BY AcceptedLine
<1>3. LineInPlace'
  BY <1>2 DEF LineInPlace, Newest, SameLine
<1>4. LineFrame'
  BY <1>2 DEF LineFrame, Newest, PlacesKept, Placed, WellPlaced, SameLine
<1>5. ReaderBehind'
  BY <1>2, ReplayAssumption DEF ReaderBehind
<1>6. OpensAtBoundary'
  BY <1>2 DEF OpensAtBoundary, Newest
<1>7. WellPlaced(now)' /\ WellPlaced(boundary.at)'
  BY <1>2 DEF FeedInv, WellPlaced
<1> QED BY <1>1, <1>3, <1>4, <1>5, <1>6, <1>7 DEF FeedInv

\* A new transaction is the newest line.
LEMMA FeedLedgerTx ==
  ASSUME FeedInv, Write, LedgerTx PROVE FeedInv'
<1>1. TypeOK'
  BY NextType DEF FeedInv, Next
<1>2. TypeOK /\ ledger \in Nat /\ txs \in Nat
  BY DEF FeedInv, TypeOK, FeedTypeOK
<1>3. /\ feed'.ledger = ledger /\ feed'.index = txs /\ feed'.gap = gap
      /\ feed'.pre = now /\ feed'.post = now'
      /\ \A o \in Offers \ feed'.offers : now.book[o] = now'.book[o]
      /\ \A k \in FundKeys \ feed'.keys : now.funds[k] = now'.funds[k]
      /\ WellPlaced(now) /\ WellPlaced(now') /\ PlacesKept(feed')
  BY <1>2, LedgerTxLine DEF FeedInv
<1>4. /\ txs' = txs + 1 /\ UNCHANGED <<ledger, boundary, held, gap>>
      /\ UNCHANGED <<status, current_ledger, prev_order_key, expected_tx_index>>
      /\ status = "running"
  BY DEF Write, LedgerTx
<1>5. OpensAtBoundary /\ ReaderBehind
  BY <1>4 DEF FeedInv
<1>6. LineFrame'
  BY <1>3 DEF LineFrame, WellPlaced, PlacesKept, Placed
<1>7. OpensAtBoundary'
  BY <1>2, <1>4 DEF OpensAtBoundary
<1>8. LineInPlace'
  <2>1. txs = 0 => now = boundary.at /\ ~gap
    BY <1>5 DEF OpensAtBoundary
  <2> QED BY <1>2, <1>3, <1>4, <2>1 DEF LineInPlace, Newest
<1>9. ReaderBehind'
  <2>1. current_ledger # NoLedger /\ current_ledger = ledger => expected_tx_index <= txs + 1
    BY <1>2, <1>5 DEF ReaderBehind, TypeOK
  <2> QED BY <1>4, <1>5, <2>1 DEF ReaderBehind
<1>10. WellPlaced(now)' /\ WellPlaced(boundary.at)'
  BY <1>3, <1>4 DEF FeedInv, WellPlaced
<1> QED BY <1>1, <1>4, <1>6, <1>7, <1>8, <1>9, <1>10 DEF FeedInv

\* A ledger that opens has not been read.
LEMMA FeedCloseLedger ==
  ASSUME FeedInv, Write, CloseLedger PROVE FeedInv' /\ current_ledger # ledger'
<1>1. TypeOK'
  BY NextType DEF FeedInv, Next
<1>2. /\ ledger \in Nat /\ ledger' = ledger + 1 /\ txs' = 0
      /\ gap' = FALSE /\ feed = NoLine /\ status = "running"
      /\ UNCHANGED <<now, feed, held, status, current_ledger, prev_order_key,
                     expected_tx_index>>
  BY DEF Write, CloseLedger, FeedInv, TypeOK, FeedTypeOK
<1>3. boundary'.at = now
  BY DEF CloseLedger, Closed
<1>4. LineInPlace' /\ LineFrame'
  BY <1>2 DEF LineInPlace, LineFrame
<1>5. ReaderBehind' /\ current_ledger # ledger'
  <2>1. ReaderBehind
    BY <1>2 DEF FeedInv
  <2> QED BY <1>2, <2>1, ReplayAssumption DEF ReaderBehind
<1>6. OpensAtBoundary'
  BY <1>2, <1>3 DEF OpensAtBoundary
<1>7. WellPlaced(now)' /\ WellPlaced(boundary.at)'
  BY <1>2, <1>3 DEF FeedInv, WellPlaced
<1> QED BY <1>1, <1>4, <1>5, <1>6, <1>7 DEF FeedInv

\* A line that is lost or held is the newest, and the reader lacks it.
LEMMA FeedHole ==
  ASSUME FeedInv, Write, NEW u, u = (feed # NoLine /\ Unread),
         LoseLine(u) \/ HoldLine(u)
  PROVE  /\ FeedInv'
         /\ feed \in Line /\ Newest(feed)
         /\ ~(current_ledger = ledger /\ expected_tx_index = txs)
<1>1. TypeOK'
  BY NextType DEF FeedInv, Next
<1>2. /\ feed # NoLine /\ feed.ledger = ledger /\ feed.index + 1 = txs /\ u
      /\ feed' = NoLine /\ gap' = TRUE
      /\ UNCHANGED <<now, ledger, txs, boundary>>
  BY DEF LoseLine, HoldLine, InPlace
<1>3. /\ UNCHANGED <<status, current_ledger, prev_order_key, expected_tx_index>>
      /\ status = "running"
  BY DEF Write
<1>4. feed \in Line /\ ledger \in Nat /\ txs \in Nat /\ feed.index \in Nat
  BY <1>2 DEF FeedInv, TypeOK, FeedTypeOK, Line
<1>5. LineInPlace' /\ LineFrame'
  BY <1>2 DEF LineInPlace, LineFrame
<1>6. OpensAtBoundary'
  BY <1>2, <1>4 DEF OpensAtBoundary
<1>7. ReaderBehind /\ LineInPlace
  BY <1>3 DEF FeedInv
<1>8. ReaderBehind'
  BY <1>2, <1>3, <1>7 DEF ReaderBehind
<1>9. ASSUME current_ledger = ledger, expected_tx_index = txs PROVE FALSE
  <2>1. current_ledger # NoLedger
    BY <1>4, <1>9, ReplayAssumption
  <2>2. prev_order_key[1] = ledger /\ prev_order_key[2] + 1 = txs
    BY <1>7, <1>9, <2>1 DEF ReaderBehind
  <2>3. prev_order_key \in Nat \X Nat
    BY DEF FeedInv, TypeOK
  <2>4. prev_order_key = <<prev_order_key[1], prev_order_key[2]>>
    BY <2>3
  <2>5. prev_order_key[2] = feed.index
    BY <1>2, <1>4, <2>2, <2>3
  <2>6. prev_order_key = OrderKey(feed)
    BY <1>2, <2>2, <2>4, <2>5 DEF OrderKey
  <2> QED BY <1>2, <2>1, <2>6 DEF Unread
<1>10. Newest(feed)
  <2>1. ASSUME KeyLess(OrderKey(feed), prev_order_key) PROVE FALSE
    <3>1. prev_order_key \in Nat \X Nat
      BY DEF FeedInv, TypeOK
    <3>2. current_ledger # NoLedger
      <4> SUFFICES ASSUME current_ledger = NoLedger PROVE FALSE
        OBVIOUS
      <4>1. prev_order_key = <<0, 0>>
        BY <1>7 DEF ReaderBehind
      <4> QED BY <1>2, <1>4, <2>1, <4>1 DEF KeyLess, OrderKey
    <3>3. /\ prev_order_key[1] <= ledger
          /\ prev_order_key[1] = ledger => prev_order_key[2] + 1 <= txs
      BY <1>7, <3>2 DEF ReaderBehind
    <3> QED BY <1>2, <1>4, <2>1, <3>1, <3>3 DEF KeyLess, OrderKey
  <2> QED BY <1>2, <1>7, <2>1 DEF LineInPlace
<1>11. WellPlaced(now)' /\ WellPlaced(boundary.at)'
  BY <1>2 DEF FeedInv, WellPlaced
<1> QED BY <1>1, <1>3, <1>4, <1>5, <1>6, <1>8, <1>9, <1>10, <1>11 DEF FeedInv

\* A late line is one that the order check refuses.
LEMMA FeedLateLine ==
  ASSUME FeedInv, Write, NEW u,
         u = (held # NoLine /\ KeyLess(OrderKey(held), prev_order_key)),
         LateLine(u)
  PROVE  /\ FeedInv' /\ ~Newest(feed)'
         /\ feed = NoLine /\ UNCHANGED <<now, ledger, txs, boundary, gap, doubt>>
<1>1. TypeOK'
  BY NextType DEF FeedInv, Next
<1>2. /\ feed = NoLine /\ held # NoLine /\ u /\ feed' = held
      /\ UNCHANGED <<now, ledger, txs, boundary, gap, doubt>>
  BY DEF LateLine
<1>3. /\ UNCHANGED <<status, current_ledger, prev_order_key, expected_tx_index>>
      /\ status = "running"
  BY DEF Write
<1>4. held \in Line /\ held.ledger \in Nat /\ held.index \in Nat
      /\ ledger \in Nat /\ txs \in Nat
  BY <1>2 DEF FeedInv, TypeOK, FeedTypeOK, Line
<1>5. KeyLess(OrderKey(held), prev_order_key)
  BY <1>2
<1>6. LineInPlace'
  BY <1>2, <1>3, <1>5 DEF LineInPlace
<1>7. ReaderBehind /\ OpensAtBoundary
  BY <1>3 DEF FeedInv
<1>8. ReaderBehind' /\ OpensAtBoundary'
  BY <1>2, <1>3, <1>7 DEF ReaderBehind, OpensAtBoundary
<1>9. current_ledger # NoLedger
  <2> SUFFICES ASSUME current_ledger = NoLedger PROVE FALSE
    OBVIOUS
  <2>1. prev_order_key = <<0, 0>>
    BY <1>7 DEF ReaderBehind
  <2> QED BY <1>4, <1>5, <2>1 DEF KeyLess, OrderKey
<1>10. /\ current_ledger \in Nat /\ prev_order_key[1] = current_ledger
       /\ prev_order_key[2] + 1 = expected_tx_index /\ current_ledger <= ledger
       /\ current_ledger = ledger => expected_tx_index <= txs
       /\ prev_order_key[2] \in Nat
  BY <1>7, <1>9 DEF ReaderBehind, FeedInv, TypeOK
<1>11. \/ held.ledger < current_ledger
       \/ held.ledger = current_ledger /\ held.index < prev_order_key[2]
  BY <1>2, <1>5, <1>10 DEF KeyLess, OrderKey
<1>12. ~(held.ledger = ledger /\ held.index + 1 = txs)
  BY <1>4, <1>10, <1>11
<1>13. ~Newest(feed)'
  BY <1>2, <1>12 DEF Newest
<1>14. LineFrame'
  BY <1>13 DEF LineFrame
<1>15. WellPlaced(now)' /\ WellPlaced(boundary.at)'
  BY <1>2 DEF FeedInv, WellPlaced
<1> QED BY <1>1, <1>2, <1>6, <1>8, <1>13, <1>14, <1>15 DEF FeedInv

\* Every step of every mode keeps the invariant of the file.
LEMMA FeedInvNext == FeedInv /\ [Next]_vars => FeedInv'
<1> SUFFICES ASSUME FeedInv, [Next]_vars PROVE FeedInv'
  OBVIOUS
<1>1. CASE SkipLine
  BY <1>1, FeedSkip
<1>2. CASE StopOnLine
  BY <1>2, FeedStop
<1>3. CASE ReplayLine
  BY <1>3, FeedReplay
<1>4. CASE Write
  <2>1. CASE LedgerTx
    BY <1>4, <2>1, FeedLedgerTx
  <2>2. CASE CloseLedger
    BY <1>4, <2>2, FeedCloseLedger
  <2>3. CASE LoseLine(feed # NoLine /\ Unread) \/ HoldLine(feed # NoLine /\ Unread)
    BY <1>4, <2>3, FeedHole
  <2>4. CASE LateLine(held # NoLine /\ KeyLess(OrderKey(held), prev_order_key))
    BY <1>4, <2>4, FeedLateLine
  <2> QED BY <1>4, <2>1, <2>2, <2>3, <2>4 DEF Write
<1>5. CASE UNCHANGED vars
  <2> USE <1>5 DEF vars, feedVars, replayVars, FeedInv
  <2>1. TypeOK'
    BY NextType
  <2>2. LineInPlace => LineInPlace'
    BY DEF LineInPlace, Newest, OrderKey, KeyLess
  <2>3. LineFrame => LineFrame'
    BY DEF LineFrame, Newest, WellPlaced, PlacesKept, Placed
  <2>4. (ReaderBehind => ReaderBehind') /\ (OpensAtBoundary => OpensAtBoundary')
    BY DEF ReaderBehind, OpensAtBoundary
  <2>5. (WellPlaced(now) => WellPlaced(now)') /\ (WellPlaced(boundary.at) => WellPlaced(boundary.at)')
    BY DEF WellPlaced
  <2> QED BY <2>1, <2>2, <2>3, <2>4, <2>5
<1> QED BY <1>1, <1>2, <1>3, <1>4, <1>5 DEF Next, Read

-----------------------------------------------------------------------------
(* The strict mode *)

\* A line that passes the checks of the strict mode finds book and funds in
\* step with its pre-state, and nothing before it is missing.
LEMMA AcceptedLineInStep ==
  ASSUME Strict, StrictInv, ReplayLine
  PROVE  /\ feed \in Line /\ Newest(feed) /\ ~feed.gap
         /\ BookBefore(feed).amount = feed.pre.book
         /\ DirectoryOrdered => Sorted(BookBefore(feed), feed.pre)
         /\ \A k \in FundKeys : FundsBefore(feed)[k] \in {Unknown, feed.pre.funds[k]}
<1>1. feed # NoLine /\ feed \in Line /\ Newest(feed)
  BY AcceptedLine DEF StrictInv
<1>2. feed.index = Expected(feed)
  BY DEF ReplayLine, CoverageGap
<1>3. CASE current_ledger # feed.ledger
  <2>1. feed.pre = boundary.at /\ ~feed.gap
    BY <1>1, <1>2, <1>3 DEF Expected, Newest
  <2>2. BookBefore(feed).amount = feed.pre.book
    BY <1>3, <2>1 DEF BookBefore, NeedsBoundary, BoundaryBook
  <2>3. \A k \in FundKeys : FundsBefore(feed)[k] \in {Unknown, feed.pre.funds[k]}
    BY <1>3, <2>1 DEF FundsBefore, NeedsBoundary, SeededFunds
  <2>4. DirectoryOrdered => Sorted(BookBefore(feed), feed.pre)
    BY <1>3, <2>1, BoundarySorted
       DEF BookBefore, NeedsBoundary, StrictInv, FeedInv, TypeOK, FeedTypeOK, Boundary
  <2> QED BY <1>1, <2>1, <2>2, <2>3, <2>4
<1>4. CASE current_ledger = feed.ledger
  <2>1. current_ledger = ledger /\ expected_tx_index = feed.index
    BY <1>1, <1>2, <1>4 DEF Expected, Newest
  <2>2. InStep(feed.pre) /\ ~feed.gap
    BY <1>1, <2>1 DEF ReplayLine, StrictInv, ReaderInStep
  <2> QED BY <1>1, <1>4, <2>2 DEF InStep, BookBefore, FundsBefore, NeedsBoundary
<1> QED BY <1>3, <1>4

\* A line outside the window leaves the reader in step or behind.
LEMMA StrictSkip ==
  ASSUME StrictInv, SkipLine PROVE StrictInv'
<1>1. FeedInv'
  BY FeedSkip DEF StrictInv
<1>2. /\ feed # NoLine
      /\ feed' = NoLine \/ SameLine(feed, feed')
      /\ UNCHANGED <<now, ledger, txs, boundary, gap>>
  BY TakenLine DEF SkipLine, StrictInv, FeedInv, TypeOK
<1>3. ReaderInStep'
  BY <1>2 DEF SkipLine, StrictInv, ReaderInStep, InStep, Sorted, Newest, SameLine
<1>4. SnapshotExact'
  BY DEF SkipLine, SnapshotExact
<1> QED BY <1>1, <1>3, <1>4 DEF StrictInv

\* An error ends the program without a snapshot.
LEMMA StrictStop ==
  ASSUME StrictInv, StopOnLine PROVE StrictInv'
BY FeedStop DEF StrictInv, StopOnLine, Stop, SnapshotExact

\* A line that is replayed leaves the reader in step with the ledger.
LEMMA StrictReplay ==
  ASSUME Strict, StrictInv, ReplayLine PROVE StrictInv'
<1>1. FeedInv'
  BY FeedReplay DEF StrictInv
<1>2. /\ feed \in Line /\ Newest(feed) /\ ~feed.gap
      /\ BookBefore(feed).amount = feed.pre.book
      /\ DirectoryOrdered => Sorted(BookBefore(feed), feed.pre)
      /\ \A k \in FundKeys : FundsBefore(feed)[k] \in {Unknown, feed.pre.funds[k]}
  BY AcceptedLineInStep
<1>3. /\ feed # NoLine /\ LineFrame
      /\ feed' = NoLine \/ (feed' # NoLine /\ SameLine(feed, feed'))
      /\ UNCHANGED <<now, gap>>
      /\ expected_tx_index' = feed.index + 1 /\ feed.index \in Nat
  BY AcceptedLine DEF StrictInv
<1>4. /\ \A o \in Offers \ feed.offers : feed.pre.book[o] = feed.post.book[o]
      /\ \A k \in FundKeys \ feed.keys : feed.pre.funds[k] = feed.post.funds[k]
      /\ WellPlaced(feed.pre) /\ PlacesKept(feed)
  BY <1>2, <1>3 DEF LineFrame
<1>5. BookBefore(feed) \in BookState
  BY <1>2, BeforeType DEF StrictInv, FeedInv
<1>6. ReaderInStep'
  <2>1. InStep(now)'
    <3>1. /\ state' = WithChanges(BookBefore(feed), feed)
          /\ running_funds' = WithPostFunds(FundsBefore(feed), feed)
          /\ now' = feed.post
      BY <1>2, <1>3 DEF ReplayLine, Newest
    <3>2. DirectoryOrdered => Sorted(WithChanges(BookBefore(feed), feed), feed.post)
      BY <1>2, <1>4, <1>5, ChangesSorted
    <3> QED BY <1>2, <1>4, <3>1, <3>2, ChangesInStep DEF InStep, Sorted
  <2>2. ~gap'
    BY <1>2, <1>3 DEF Newest
  <2>3. feed' # NoLine => expected_tx_index' # feed'.index
    BY <1>3 DEF SameLine
  <2> QED BY <2>1, <2>2, <2>3 DEF ReaderInStep
<1>7. SnapshotExact'
  <2>1. Overlaid(BookBefore(feed), feed).amount = feed.pre.book
    BY <1>2, <1>5, OverlayInStep
  <2> QED BY <1>2, <2>1 DEF ReplayLine, SnapshotExact, SnapshotOf
<1> QED BY <1>1, <1>6, <1>7 DEF StrictInv

\* A new transaction starts from what a reader in step knows.
LEMMA StrictLedgerTx ==
  ASSUME StrictInv, Write, LedgerTx PROVE StrictInv'
<1>1. FeedInv'
  BY FeedLedgerTx DEF StrictInv
<1>2. TypeOK /\ ledger \in Nat /\ txs \in Nat
  BY DEF StrictInv, FeedInv, TypeOK, FeedTypeOK
<1>3. /\ feed'.ledger = ledger /\ feed'.index = txs /\ feed'.gap = gap
      /\ feed'.pre = now
  BY <1>2, LedgerTxLine
<1>4. /\ txs' = txs + 1 /\ UNCHANGED <<ledger, gap>>
      /\ UNCHANGED <<status, current_ledger, expected_tx_index, state, running_funds>>
      /\ snapshot' = NoSnapshot /\ status = "running"
  BY DEF Write, LedgerTx
<1>5. ReaderBehind /\ ReaderInStep
  BY <1>4 DEF StrictInv, FeedInv
<1>6. ReaderInStep'
  <2>1. current_ledger = ledger => expected_tx_index # txs'
    BY <1>2, <1>4, <1>5, ReplayAssumption DEF ReaderBehind, TypeOK
  <2>2. current_ledger = ledger /\ expected_tx_index = txs => InStep(now) /\ ~gap
    BY <1>5 DEF ReaderInStep
  <2>3. InStep(now) => InStep(feed.pre)'
    BY <1>3, <1>4 DEF InStep, Sorted
  <2> QED BY <1>3, <1>4, <2>1, <2>2, <2>3 DEF ReaderInStep
<1>7. SnapshotExact'
  BY <1>4 DEF SnapshotExact
<1> QED BY <1>1, <1>6, <1>7 DEF StrictInv

\* A ledger that opens has not been read.
LEMMA StrictCloseLedger ==
  ASSUME StrictInv, Write, CloseLedger PROVE StrictInv'
<1>1. FeedInv' /\ current_ledger # ledger'
  BY FeedCloseLedger DEF StrictInv
<1>2. feed' = NoLine /\ current_ledger' = current_ledger /\ snapshot' = NoSnapshot
  BY DEF Write, CloseLedger
<1>3. ReaderInStep' /\ SnapshotExact'
  BY <1>1, <1>2 DEF ReaderInStep, SnapshotExact
<1> QED BY <1>1, <1>3 DEF StrictInv

\* A reader that lacks the newest line is not taken to be in step once that
\* line is gone.
LEMMA StrictHole ==
  ASSUME StrictInv, Write, NEW u, u = (feed # NoLine /\ Unread),
         LoseLine(u) \/ HoldLine(u)
  PROVE  StrictInv'
<1>1. FeedInv' /\ ~(current_ledger = ledger /\ expected_tx_index = txs)
  BY FeedHole DEF StrictInv
<1>2. /\ feed' = NoLine /\ snapshot' = NoSnapshot
      /\ UNCHANGED <<ledger, txs, current_ledger, expected_tx_index>>
  BY DEF LoseLine, HoldLine, Write
<1>3. ReaderInStep' /\ SnapshotExact'
  BY <1>1, <1>2 DEF ReaderInStep, SnapshotExact
<1> QED BY <1>1, <1>3 DEF StrictInv

\* A late line is not taken for the newest.
LEMMA StrictLateLine ==
  ASSUME StrictInv, Write, NEW u,
         u = (held # NoLine /\ KeyLess(OrderKey(held), prev_order_key)),
         LateLine(u)
  PROVE  StrictInv'
<1>1. /\ FeedInv' /\ ~Newest(feed)'
      /\ UNCHANGED <<now, ledger, txs, gap>>
  BY FeedLateLine DEF StrictInv
<1>2. /\ UNCHANGED <<status, current_ledger, expected_tx_index, state, running_funds>>
      /\ snapshot' = NoSnapshot /\ status = "running"
  BY DEF Write
<1>3. InStep(now) => InStep(now)'
  BY <1>1, <1>2 DEF InStep, Sorted
<1>4. ReaderInStep'
  BY <1>1, <1>2, <1>3 DEF StrictInv, ReaderInStep
<1>5. SnapshotExact'
  BY <1>2 DEF SnapshotExact
<1> QED BY <1>1, <1>4, <1>5 DEF StrictInv

\* The invariant of the strict mode holds before the first line.
LEMMA StrictInit == Init => StrictInv
<1> SUFFICES ASSUME Init PROVE StrictInv
  OBVIOUS
<1>1. ReaderInStep
  BY ReplayAssumption DEF Init, FeedInit, ReaderInStep
<1>2. SnapshotExact
  BY DEF Init, SnapshotExact
<1> QED BY <1>1, <1>2, FeedInvInit DEF StrictInv

\* Every step of the strict mode keeps the invariant.
LEMMA StrictNext ==
  ASSUME Strict PROVE StrictInv /\ [Next]_vars => StrictInv'
<1> SUFFICES ASSUME StrictInv, [Next]_vars PROVE StrictInv'
  OBVIOUS
<1>1. CASE SkipLine
  BY <1>1, StrictSkip
<1>2. CASE StopOnLine
  BY <1>2, StrictStop
<1>3. CASE ReplayLine
  BY <1>3, StrictReplay
<1>4. CASE Write
  <2>1. CASE LedgerTx
    BY <1>4, <2>1, StrictLedgerTx
  <2>2. CASE CloseLedger
    BY <1>4, <2>2, StrictCloseLedger
  <2>3. CASE LoseLine(feed # NoLine /\ Unread) \/ HoldLine(feed # NoLine /\ Unread)
    BY <1>4, <2>3, StrictHole
  <2>4. CASE LateLine(held # NoLine /\ KeyLess(OrderKey(held), prev_order_key))
    BY <1>4, <2>4, StrictLateLine
  <2> QED BY <1>4, <2>1, <2>2, <2>3, <2>4 DEF Write
<1>5. CASE UNCHANGED vars
  <2>1. FeedInv'
    BY FeedInvNext DEF StrictInv
  <2>2. ReaderInStep => ReaderInStep'
    BY <1>5 DEF vars, feedVars, replayVars, ReaderInStep, InStep, Sorted, Newest
  <2>3. SnapshotExact => SnapshotExact'
    BY <1>5 DEF vars, replayVars, SnapshotExact
  <2> QED BY <1>5, <2>1, <2>2, <2>3 DEF vars, replayVars, StrictInv
<1> QED BY <1>1, <1>2, <1>3, <1>4, <1>5 DEF Next, Read

LEMMA StrictInvariance == ASSUME Strict PROVE Spec => []StrictInv
<1>1. Init => StrictInv
  BY StrictInit
<1>2. StrictInv /\ [Next]_vars => StrictInv'
  BY StrictNext
<1> QED BY <1>1, <1>2, PTL DEF Spec

\* In the strict mode every snapshot of a ledger read without a hole is the
\* book its transaction saw, whatever was lost, held back or repeated.
THEOREM SnapshotsExact == ASSUME Strict PROVE Spec => []SnapshotIsPreState
<1>1. StrictInv => SnapshotIsPreState
  BY DEF StrictInv, SnapshotExact, SnapshotIsPreState
<1> QED BY <1>1, StrictInvariance, PTL

\* In the strict mode no transaction behind a hole gets a snapshot.
THEOREM NothingBehindGap == Spec => []NoSnapshotBehindGap
<1>1. CASE Strict
  <2>1. StrictInv => NoSnapshotBehindGap
    BY DEF StrictInv, SnapshotExact, NoSnapshotBehindGap
  <2> QED BY <1>1, <2>1, StrictInvariance, PTL
<1>2. CASE ~Strict
  <2>1. NoSnapshotBehindGap
    BY <1>2 DEF NoSnapshotBehindGap
  <2> QED BY <2>1, PTL
<1> QED BY <1>1, <1>2

\* Nothing of the open ledger was passed over: the reader has all of it, or all
\* but the line that waits.
CaughtUp ==
  status = "running" =>
    /\ current_ledger # NoLedger => current_ledger \in LedgerStart .. LedgerEnd
    /\ current_ledger = ledger /\ ~gap =>
         \/ expected_tx_index = txs
         \/ feed # NoLine /\ Newest(feed) /\ expected_tx_index = feed.index

\* A reader that passed over nothing goes on so.
LEMMA CaughtUpNext ==
  ASSUME Strict, StrictInv, CaughtUp, [Next]_vars PROVE CaughtUp'
<1>1. CASE SkipLine
  <2>1. TakeLine /\ FeedTypeOK
    BY <1>1 DEF SkipLine, StrictInv, FeedInv, TypeOK
  <2> QED
    BY <1>1, <2>1, TakenLine, ReplayAssumption
       DEF SkipLine, CaughtUp, Newest, InRange, SameLine, FeedTypeOK
<1>2. CASE StopOnLine
  BY <1>2 DEF StopOnLine, Stop, CaughtUp
<1>3. CASE ReplayLine
  <2>1. feed \in Line /\ Newest(feed)
    BY <1>3, AcceptedLineInStep
  <2> QED
    BY <1>3, <2>1 DEF ReplayLine, TakeLine, InRange, Newest, CaughtUp, Line
<1>4. CASE Write
  <2>1. /\ status = "running" /\ CaughtUp
        /\ UNCHANGED <<status, current_ledger, expected_tx_index>>
    BY <1>4 DEF Write
  <2>2. CASE LedgerTx
    <3>1. TypeOK
      BY DEF StrictInv, FeedInv
    <3>2. /\ feed'.ledger = ledger /\ feed'.index = txs /\ feed'.gap = gap
          /\ feed'.pre = now /\ feed'.post = now' /\ feed' \in Line
      BY <2>2, <3>1, LedgerTxLine
    <3>3. feed = NoLine /\ txs' = txs + 1 /\ UNCHANGED <<ledger, boundary, gap>>
      BY <2>2 DEF LedgerTx
    <3>4. txs = 0 => now = boundary.at /\ ~gap
      BY <2>1 DEF StrictInv, FeedInv, OpensAtBoundary
    <3>5. feed' # NoLine
      BY <3>2, NoLineAssumption
    <3> QED BY <2>1, <3>2, <3>3, <3>4, <3>5 DEF CaughtUp, Newest
  <2>3. CASE CloseLedger
    BY <2>1, <2>3, ReplayAssumption
       DEF CloseLedger, CaughtUp, StrictInv, FeedInv, ReaderBehind, TypeOK, FeedTypeOK
  <2>4. CASE LoseLine(feed # NoLine /\ Unread) \/ HoldLine(feed # NoLine /\ Unread)
    BY <2>1, <2>4 DEF LoseLine, HoldLine, CaughtUp
  <2>5. CASE LateLine(held # NoLine /\ KeyLess(OrderKey(held), prev_order_key))
    BY <2>1, <2>5 DEF LateLine, CaughtUp
  <2> QED BY <1>4, <2>2, <2>3, <2>4, <2>5 DEF Write
<1>5. CASE UNCHANGED vars
  BY <1>5 DEF vars, feedVars, replayVars, CaughtUp, Newest
<1> QED BY <1>1, <1>2, <1>3, <1>4, <1>5 DEF Next, Read

\* In the strict mode a reader that has read every line of the open ledger has
\* the ledger's book, and no balance but the ledger's.
THEOREM ReplayInStep == ASSUME Strict PROVE Spec => []InStepWithLedger
<1>1. Init => StrictInv /\ CaughtUp
  BY StrictInit, ReplayAssumption DEF Init, FeedInit, CaughtUp
<1>2. StrictInv /\ CaughtUp /\ [Next]_vars => (StrictInv /\ CaughtUp)'
  BY StrictNext, CaughtUpNext
<1>3. StrictInv /\ CaughtUp => InStepWithLedger
  BY DEF StrictInv, CaughtUp, ReaderInStep, InStep, InStepWithLedger
<1> QED BY <1>1, <1>2, <1>3, PTL DEF Spec

-----------------------------------------------------------------------------
(* Damage is local, in every mode *)

\* The book the reader has of the open ledger, perhaps only its boundary.
ReadersBook == IF current_ledger = ledger THEN state.amount ELSE boundary.at.book

\* The newest line waits, and the reader has not seen it.
Waits ==
  /\ feed # NoLine /\ Newest(feed)
  /\ ~(current_ledger = ledger /\ expected_tx_index = txs)

\* Inside the window the reader's book is right about the offers it is not in
\* doubt about: as they were before the line that waits, or as they are now.
\* A line shown again says of which offers its pre-images are the old ones.
ReaderLocal ==
  ledger \in LedgerStart .. LedgerEnd =>
    /\ Waits => feed.doubt = doubt
    /\ Waits => \A o \in Offers \ doubt : ReadersBook[o] = feed.pre.book[o]
    /\ ~Waits => \A o \in Offers \ doubt : ReadersBook[o] = now.book[o]
    /\ feed # NoLine /\ Newest(feed) /\ ~Waits =>
         /\ doubt \ feed.offers \subseteq feed.doubt
         /\ \A o \in feed.offers : feed.pre.book[o] = 0 => o \in feed.doubt

\* The inductive invariant of every mode.
LocalInv == FeedInv /\ (status = "running" => ReaderLocal) /\ DamageIsLocal

\* A line that is replayed mends what it touches and harms nothing else.
LEMMA LocalReplay ==
  ASSUME LocalInv, ReplayLine PROVE LocalInv'
<1>1. FeedInv' /\ FeedInv
  BY FeedReplay DEF LocalInv
<1>2. /\ feed # NoLine /\ feed \in Line /\ Newest(feed) /\ LineFrame
      /\ feed' = NoLine \/ (feed' # NoLine /\ feed' = Again(feed) /\ SameLine(feed, feed'))
      /\ UNCHANGED <<now, ledger, txs, boundary>>
      /\ current_ledger' = ledger /\ expected_tx_index' = txs
  BY <1>1, AcceptedLine
<1>3. doubt' = doubt \ feed.offers /\ state' = WithChanges(BookBefore(feed), feed)
  BY <1>2 DEF ReplayLine, TakeLine, Newest
<1>4. ReaderLocal /\ ledger \in LedgerStart .. LedgerEnd
  BY <1>2 DEF LocalInv, ReplayLine, InRange, Newest
<1>5. \A o \in Offers \ feed.offers : feed.pre.book[o] = now.book[o]
  BY <1>2 DEF LineFrame, Newest
<1>6. BookBefore(feed).amount = ReadersBook
  BY <1>2 DEF BookBefore, NeedsBoundary, BoundaryBook, ReadersBook, Newest
<1>7. feed.offers \subseteq Offers /\ feed.doubt \subseteq Offers /\ doubt \subseteq Offers
  BY <1>1, <1>2 DEF Line, FeedInv, TypeOK, FeedTypeOK
<1>8. \A o \in Offers \ feed.offers : o \notin doubt => ReadersBook[o] = now.book[o]
  BY <1>2, <1>4, <1>5 DEF ReaderLocal
<1>9. doubt \ feed.offers \subseteq feed.doubt
  BY <1>2, <1>4, <1>7 DEF ReaderLocal
<1>10. ReaderLocal'
  <2>1. ~Waits'
    BY <1>2 DEF Waits
  <2>2. \A o \in Offers : state'.amount[o] =
          IF o \in feed.offers THEN now.book[o] ELSE ReadersBook[o]
    BY <1>2, <1>3, <1>6 DEF WithChanges, Newest
  <2>3. \A o \in Offers \ doubt' : ReadersBook'[o] = now'.book[o]
    BY <1>2, <1>3, <1>8, <2>2 DEF ReadersBook
  <2>4. ASSUME feed' # NoLine
        PROVE  /\ doubt' \ feed'.offers \subseteq feed'.doubt
               /\ \A o \in feed'.offers : feed'.pre.book[o] = 0 => o \in feed'.doubt
    <3>1. feed' = Again(feed) /\ feed'.offers = feed.offers /\ feed'.pre = feed.pre
      BY <1>2, <2>4 DEF SameLine
    <3>2. feed'.doubt = {o \in Offers : IF o \in feed.offers THEN feed.pre.book[o] = 0
                                                             ELSE o \in feed.doubt}
      BY <1>2, <3>1 DEF Again, Line
    <3> QED BY <1>3, <1>7, <1>9, <3>1, <3>2
  <2> QED BY <2>1, <2>3, <2>4 DEF ReaderLocal
<1>11. DamageIsLocal'
  <2> SUFFICES ASSUME snapshot' # NoSnapshot,
                      NEW o \in (Offers \ feed.doubt) \cup PreOffers(feed)
               PROVE  Overlaid(BookBefore(feed), feed).amount[o] = feed.pre.book[o]
    BY DEF ReplayLine, DamageIsLocal, SnapshotOf
  <2>1. o \in Offers
    BY <1>7 DEF PreOffers
  <2>2. Overlaid(BookBefore(feed), feed).amount[o]
          = IF o \in PreOffers(feed) THEN feed.pre.book[o] ELSE ReadersBook[o]
    BY <1>6, <2>1 DEF Overlaid
  <2>3. ASSUME o \notin PreOffers(feed), o \notin feed.doubt
        PROVE  ReadersBook[o] = feed.pre.book[o]
    <3>1. CASE Waits
      BY <1>4, <2>1, <2>3, <3>1 DEF ReaderLocal
    <3>2. CASE ~Waits
      <4>1. feed.pre.book[o] \in Nat
        BY <1>2, <2>1 DEF Line, LedgerState, Amounts
      <4>2. o \in feed.offers => feed.pre.book[o] = 0
        BY <2>3, <4>1 DEF PreOffers
      <4>3. o \notin feed.offers
        BY <1>2, <1>4, <2>3, <3>2, <4>2 DEF ReaderLocal
      <4> QED BY <1>5, <1>8, <1>9, <2>1, <2>3, <4>3
    <3> QED BY <3>1, <3>2
  <2> QED BY <2>2, <2>3
<1> QED BY <1>1, <1>10, <1>11 DEF LocalInv

\* A transaction is right about what it starts from, like the reader.
LEMMA LocalLedgerTx ==
  ASSUME LocalInv, Write, LedgerTx PROVE LocalInv'
<1>1. FeedInv' /\ FeedInv
  BY FeedLedgerTx DEF LocalInv
<1>2. feed'.pre = now /\ feed'.doubt = doubt /\ feed' \in Line
  BY <1>1, LedgerTxLine DEF FeedInv
<1>3. /\ feed = NoLine /\ status = "running" /\ txs' = txs + 1 /\ snapshot' = NoSnapshot
      /\ UNCHANGED <<ledger, boundary, doubt, status, current_ledger, expected_tx_index, state>>
  BY DEF Write, LedgerTx
<1>4. ReaderLocal /\ ReaderBehind /\ txs \in Nat /\ ledger \in Nat
  BY <1>1, <1>3 DEF LocalInv, FeedInv, TypeOK, FeedTypeOK
<1>5. Waits' /\ ~Waits
  <2>1. feed' # NoLine
    BY <1>2, NoLineAssumption
  <2>2. LineInPlace' /\ ReaderBehind'
    BY <1>1, <1>3 DEF FeedInv
  <2>3. ~(current_ledger' = ledger' /\ expected_tx_index' = txs')
    BY <1>3, <1>4, ReplayAssumption DEF ReaderBehind
  <2>4. Newest(feed)'
    <3>1. feed'.ledger = ledger /\ feed'.index = txs /\ feed'.gap = gap /\ feed'.post = now'
      BY <1>1, LedgerTxLine DEF FeedInv
    <3>2. txs = 0 => boundary.at = now /\ ~gap
      BY <1>1, <1>3 DEF FeedInv, OpensAtBoundary
    <3>3. gap' = gap
      BY DEF LedgerTx
    <3> QED BY <1>2, <1>3, <3>1, <3>2, <3>3 DEF Newest
  <2> QED BY <1>3, <2>1, <2>3, <2>4 DEF Waits
<1>6. ReaderLocal'
  BY <1>2, <1>3, <1>4, <1>5 DEF ReaderLocal, ReadersBook
<1>7. DamageIsLocal'
  BY <1>3 DEF DamageIsLocal
<1> QED BY <1>1, <1>6, <1>7 DEF LocalInv

\* A line that never comes leaves the reader in doubt about its offers.
LEMMA LocalHole ==
  ASSUME LocalInv, Write, NEW u, u = (feed # NoLine /\ Unread),
         LoseLine(u) \/ HoldLine(u)
  PROVE  LocalInv'
<1>1. /\ FeedInv' /\ FeedInv /\ feed \in Line /\ Newest(feed)
      /\ ~(current_ledger = ledger /\ expected_tx_index = txs)
  BY FeedHole DEF LocalInv
<1>2. /\ feed # NoLine /\ feed' = NoLine /\ doubt' = doubt \cup feed.offers
      /\ UNCHANGED <<now, ledger, txs, boundary>>
  BY DEF LoseLine, HoldLine, InPlace
<1>3. /\ UNCHANGED <<status, current_ledger, expected_tx_index, state>>
      /\ snapshot' = NoSnapshot /\ status = "running"
  BY DEF Write
<1>4. ReaderLocal /\ LineFrame
  BY <1>1, <1>3 DEF LocalInv, FeedInv
<1>5. Waits /\ ~Waits'
  BY <1>1, <1>2 DEF Waits
<1>6. \A o \in Offers \ feed.offers : feed.pre.book[o] = now.book[o]
  BY <1>1, <1>2, <1>4 DEF LineFrame, Newest
<1>7. ReaderLocal'
  BY <1>2, <1>3, <1>4, <1>5, <1>6 DEF ReaderLocal, ReadersBook
<1>8. DamageIsLocal'
  BY <1>3 DEF DamageIsLocal
<1> QED BY <1>1, <1>7, <1>8 DEF LocalInv

\* The other steps take nothing from what the reader knows.
LEMMA LocalOther ==
  ASSUME LocalInv, SkipLine \/ StopOnLine \/ (Write /\ CloseLedger)
                   \/ (Write /\ LateLine(held # NoLine /\ KeyLess(OrderKey(held), prev_order_key)))
  PROVE  LocalInv'
<1>1. FeedInv /\ FeedInv'
  BY FeedInvNext DEF LocalInv, Next, Read, Write
<1>2. DamageIsLocal'
  BY DEF SkipLine, StopOnLine, Stop, Write, DamageIsLocal
<1>3. CASE SkipLine
  <2>1. /\ feed # NoLine /\ feed \in Line /\ ~InRange(feed) /\ status = "running"
        /\ feed' = NoLine \/ SameLine(feed, feed')
        /\ UNCHANGED <<now, ledger, txs, boundary, current_ledger, expected_tx_index, state>>
        /\ feed.ledger # ledger => doubt' = doubt
    BY <1>1, <1>3, TakenLine DEF SkipLine, TakeLine, FeedInv, TypeOK
  <2>2. ASSUME ledger \in LedgerStart .. LedgerEnd PROVE ReaderLocal'
    <3>1. ~Newest(feed) /\ (feed' # NoLine => ~Newest(feed)') /\ doubt' = doubt
      BY <2>1, <2>2 DEF InRange, Newest, SameLine
    <3>2. ~Waits /\ ~Waits' /\ ReaderLocal
      BY <1>3, <3>1 DEF Waits, LocalInv, SkipLine
    <3> QED BY <2>1, <2>2, <3>1, <3>2 DEF ReaderLocal, ReadersBook
  <2>3. ReaderLocal'
    BY <2>1, <2>2 DEF ReaderLocal
  <2> QED BY <1>1, <1>2, <2>3 DEF LocalInv
<1>4. CASE StopOnLine
  BY <1>1, <1>2, <1>4 DEF StopOnLine, Stop, LocalInv
<1>5. CASE Write /\ CloseLedger
  <2>1. /\ feed' = NoLine /\ doubt' = {} /\ now' = now /\ boundary'.at = now
    BY <1>5 DEF CloseLedger, Closed
  <2>2. current_ledger' # ledger'
    BY <1>1, <1>5, FeedCloseLedger DEF Write
  <2>3. ReaderLocal'
    BY <2>1, <2>2 DEF ReaderLocal, ReadersBook, Waits
  <2> QED BY <1>1, <1>2, <2>3 DEF LocalInv
<1>6. CASE Write /\ LateLine(held # NoLine /\ KeyLess(OrderKey(held), prev_order_key))
  <2>1. /\ ~Newest(feed)' /\ feed = NoLine
        /\ UNCHANGED <<now, ledger, txs, boundary, doubt>>
    BY <1>1, <1>6, FeedLateLine
  <2>2. status = "running" /\ UNCHANGED <<current_ledger, expected_tx_index, state>>
    BY <1>6 DEF Write
  <2>3. ReaderLocal /\ ~Waits /\ ~Waits'
    BY <2>1, <2>2 DEF LocalInv, Waits
  <2>4. ReaderLocal'
    BY <2>1, <2>2, <2>3 DEF ReaderLocal, ReadersBook
  <2> QED BY <1>1, <1>2, <2>4 DEF LocalInv
<1> QED BY <1>3, <1>4, <1>5, <1>6

\* In every mode, under every fault of the file, a snapshot is wrong about an
\* offer only if the last line about that offer never reached the reader.
THEOREM DamageConfined == Spec => []DamageIsLocal
<1>1. Init => LocalInv
  <2> SUFFICES ASSUME Init PROVE LocalInv
    OBVIOUS
  <2>1. feed = NoLine /\ boundary.at = now /\ current_ledger # ledger /\ snapshot = NoSnapshot
    BY ReplayAssumption DEF Init, FeedInit, Closed
  <2>2. ReaderLocal /\ DamageIsLocal
    BY <2>1 DEF ReaderLocal, ReadersBook, Waits, DamageIsLocal
  <2> QED BY <2>2, FeedInvInit DEF LocalInv
<1>2. LocalInv /\ [Next]_vars => LocalInv'
  <2> SUFFICES ASSUME LocalInv, [Next]_vars PROVE LocalInv'
    OBVIOUS
  <2>1. CASE Read
    BY <2>1, LocalReplay, LocalOther DEF Read
  <2>2. CASE Write
    BY <2>2, LocalLedgerTx, LocalHole, LocalOther DEF Write
  <2>3. CASE UNCHANGED vars
    <3>1. FeedInv'
      BY FeedInvNext DEF LocalInv
    <3>2. Waits' = Waits /\ ReadersBook' = ReadersBook
      BY <2>3 DEF vars, feedVars, replayVars, Waits, Newest, ReadersBook
    <3>3. ReaderLocal => ReaderLocal'
      BY <2>3, <3>2 DEF vars, feedVars, replayVars, ReaderLocal, Newest
    <3>4. DamageIsLocal'
      BY <2>3 DEF vars, replayVars, LocalInv, DamageIsLocal, PreOffers
    <3> QED BY <2>3, <3>1, <3>3, <3>4 DEF vars, replayVars, LocalInv
  <2> QED BY <2>1, <2>2, <2>3 DEF Next
<1>3. LocalInv => DamageIsLocal
  BY DEF LocalInv
<1> QED BY <1>1, <1>2, <1>3, PTL DEF Spec

-----------------------------------------------------------------------------
(* Owner funds *)

\* Every row that still has the boundary's annotation has running funds.
Annotations(book, funds) ==
  \A o \in Offers : book.funds[o] # Unknown => funds[FundKeyOf(o)] # Unknown

\* The boundary's annotations are seeded, and a line keeps it so.
LEMMA AnnotationsBefore ==
  ASSUME TypeOK, NoStaleAnnotation, NEW line \in Line
  PROVE  Annotations(BookBefore(line), FundsBefore(line))
<1>1. Annotations(BoundaryBook(boundary.at), SeededFunds(boundary))
  BY DEF Annotations, BoundaryBook, SeededFunds, TypeOK, FeedTypeOK, Boundary, LedgerState,
         FundKeys
<1> QED
  BY <1>1 DEF BookBefore, FundsBefore, NoStaleAnnotation, Annotations

LEMMA AnnotationsNext ==
  ASSUME TypeOK, NoStaleAnnotation, [Next]_vars PROVE NoStaleAnnotation'
<1>1. CASE ReplayLine
  <2> DEFINE book == BookBefore(feed)
             funds == FundsBefore(feed)
  <2>1. feed \in Line
    BY <1>1 DEF ReplayLine, TypeOK, FeedTypeOK
  <2>2. Annotations(book, funds)
    BY <2>1, AnnotationsBefore
  <2>3. \A k \in FundKeys : feed.post.funds[k] # Unknown
    BY <2>1, ReplayAssumption DEF Line, LedgerState, Funds
  <2>4. \A o \in Offers : FundKeyOf(o) \in FundKeys
    BY DEF FundKeys
  <2>5. state' = WithChanges(book, feed) /\ running_funds' = WithPostFunds(funds, feed)
    BY <1>1 DEF ReplayLine
  <2> HIDE DEF book, funds
  <2>6. \A o \in Offers : state'.funds[o] # Unknown => book.funds[o] # Unknown
    BY <2>5 DEF WithChanges, MergedFunds
  <2>7. \A k \in FundKeys : funds[k] # Unknown => running_funds'[k] # Unknown
    BY <2>3, <2>5 DEF WithPostFunds
  <2> QED BY <2>2, <2>4, <2>6, <2>7 DEF NoStaleAnnotation, Annotations
<1>2. CASE ~ReplayLine
  <2>1. UNCHANGED <<state, running_funds>>
    BY <1>2 DEF Next, Read, SkipLine, StopOnLine, Stop, Write, vars, replayVars
  <2> QED BY <2>1 DEF NoStaleAnnotation
<1> QED BY <1>1, <1>2

\* An annotation never outlives the funds that replace it, in any mode.
THEOREM AnnotationsFresh == Spec => []NoStaleAnnotation
<1>1. Init => TypeOK /\ NoStaleAnnotation
  BY InitType DEF Init, EmptyBook, NoStaleAnnotation
<1>2. TypeOK /\ NoStaleAnnotation /\ [Next]_vars => (TypeOK /\ NoStaleAnnotation)'
  BY NextType, AnnotationsNext
<1> QED BY <1>1, <1>2, PTL DEF Spec

\* The rows before normalize_account_owner_funds.
RawRows(book, funds, line) ==
  WithPrebalances(WithRunningFunds(Overlaid(book, line), funds), line)

\* A row of an offer in the book is without funds, or has a positive amount that
\* is the running or the reported balance of its owner.
LEMMA RawRow ==
  ASSUME NEW book \in BookState, NEW funds \in [FundKeys -> Known], NEW line \in Line,
         Annotations(book, funds),
         NEW o \in Offers, Overlaid(book, line).amount[o] > 0,
         RawRows(book, funds, line)[o] # Unknown
  PROVE  /\ RawRows(book, funds, line)[o] \in Funds \ {0}
         /\ RawRows(book, funds, line)[o] \in {funds[FundKeyOf(o)], ReportedPre(line, FundKeyOf(o))}
<1> DEFINE seen == Overlaid(book, line)
           k == FundKeyOf(o)
<1>1. k \in FundKeys /\ ReportedPre(line, k) \in Funds
  BY DEF FundKeys, ReportedPre, Line, LedgerState
<1>2. seen.funds[o] # Unknown => funds[k] # Unknown
  BY DEF Overlaid, MergedFunds, Annotations
<1>3. seen.amount[o] # 0 /\ funds[k] \in Known
  BY <1>1
<1> HIDE DEF seen, k
<1>4. WithRunningFunds(seen, funds)[o] # Unknown =>
        WithRunningFunds(seen, funds)[o] = funds[k] /\ funds[k] \in Funds \ {0}
  BY <1>2, <1>3, ReplayAssumption DEF WithRunningFunds, Known, Funds, k
<1>5. CASE o \in PrebalanceOffers(line)
  <2>1. RawRows(book, funds, line)[o] = ReportedPre(line, k)
    BY <1>5 DEF RawRows, WithPrebalances, k
  <2>2. ReportedPre(line, k) > 0
    BY <1>5 DEF PrebalanceOffers, k
  <2> QED BY <1>1, <2>1, <2>2 DEF Funds, k
<1>6. CASE o \notin PrebalanceOffers(line)
  <2>1. RawRows(book, funds, line)[o] = WithRunningFunds(seen, funds)[o]
    BY <1>6 DEF RawRows, WithPrebalances, seen
  <2> QED BY <1>4, <2>1 DEF k
<1> QED BY <1>5, <1>6

\* emit_snapshot gives every owner's rows one value.
LEMMA SnapshotAgrees ==
  ASSUME NEW book \in BookState, NEW funds \in [FundKeys -> Known], NEW line \in Line,
         Annotations(book, funds),
         NEW s, s = SnapshotOf(book, funds, line),
         NEW o \in Offers, NEW p \in Offers,
         s.amount[o] > 0, s.amount[p] > 0, FundKeyOf(o) = FundKeyOf(p)
  PROVE  s.owner_funds[o] = s.owner_funds[p]
<1> DEFINE amount == Overlaid(book, line).amount
           rows == RawRows(book, funds, line)
           shares == PositiveShares(amount, rows, FundKeyOf(o))
<1>1. s.amount = amount /\ s.owner_funds = Normalised(amount, rows)
  BY DEF SnapshotOf, RawRows
<1>2. shares = PositiveShares(amount, rows, FundKeyOf(p))
  OBVIOUS
<1>3. CASE shares # {}
  BY <1>1, <1>2, <1>3 DEF Normalised
<1>4. CASE shares = {}
  <2>1. ASSUME NEW q \in {o, p} PROVE rows[q] = Unknown
    <3>1. rows[q] # Unknown => rows[q] \in Funds \ {0}
      BY <1>1, RawRow
    <3>2. rows[q] \notin {Unknown, 0} => rows[q] \in shares
      BY <1>1 DEF PositiveShares
    <3> QED BY <1>4, <3>1, <3>2
  <2> QED BY <1>1, <1>2, <1>4, <2>1 DEF Normalised
<1> QED BY <1>3, <1>4

\* Each row of a book in step with its line carries its owner's funds before
\* the line, unless the line creates the trust line they are in.
LEMMA SnapshotFunds ==
  ASSUME NEW book \in BookState, NEW funds \in [FundKeys -> Known], NEW line \in Line,
         Annotations(book, funds),
         \A k \in FundKeys : funds[k] \in {Unknown, line.pre.funds[k]},
         NEW s, s = SnapshotOf(book, funds, line),
         NEW o \in Offers, s.amount[o] > 0, FundKeyOf(o) \notin line.created
  PROVE  s.owner_funds[o] \in {Unknown, line.pre.funds[FundKeyOf(o)]}
<1> DEFINE amount == Overlaid(book, line).amount
           rows == RawRows(book, funds, line)
           v == line.pre.funds[FundKeyOf(o)]
           shares == PositiveShares(amount, rows, FundKeyOf(o))
<1>1. s.amount = amount /\ s.owner_funds = Normalised(amount, rows)
  BY DEF SnapshotOf, RawRows
<1>2. ASSUME NEW q \in Offers, amount[q] > 0, FundKeyOf(q) = FundKeyOf(o)
      PROVE  rows[q] \in {Unknown, v}
  <2>1. FundKeyOf(o) \in FundKeys
    BY DEF FundKeys
  <2>2. ReportedPre(line, FundKeyOf(o)) = v /\ funds[FundKeyOf(o)] \in {Unknown, v}
    BY <2>1 DEF ReportedPre
  <2>3. rows[q] # Unknown => rows[q] \in {funds[FundKeyOf(q)], ReportedPre(line, FundKeyOf(q))}
    BY <1>2, RawRow
  <2> QED BY <1>2, <2>2, <2>3
<1>3. shares \subseteq {v}
  BY <1>2 DEF PositiveShares
<1>4. v \in Nat
  BY DEF Line, LedgerState, FundKeys, Funds
<1>5. rows[o] \in {Unknown, v}
  BY <1>1, <1>2
<1>6. CASE shares = {}
  BY <1>1, <1>5, <1>6 DEF Normalised
<1>7. CASE shares # {}
  <2> HIDE DEF shares, v
  <2>1. shares = {v}
    BY <1>3, <1>7
  <2>2. (CHOOSE m \in shares : \A n \in shares : m <= n) = v
    BY <1>4, <2>1
  <2>3. s.owner_funds[o] = (CHOOSE m \in shares : \A n \in shares : m <= n)
    BY <1>1, <1>7 DEF Normalised, shares
  <2> QED BY <2>2, <2>3 DEF v
<1> QED BY <1>6, <1>7

\* A step that writes no snapshot leaves none, or the one that was there.
LEMMA SnapshotKept ==
  ASSUME [Next]_vars, ~(ReplayLine /\ feed.target)
  PROVE  snapshot' \in {snapshot, NoSnapshot}
BY DEF Next, Read, ReplayLine, SkipLine, StopOnLine, Stop, Write, vars, replayVars

\* Rows of one owner agree, in any mode.
THEOREM OwnersShareFunds == Spec => []OwnersAgree
<1>1. Init => TypeOK /\ NoStaleAnnotation /\ OwnersAgree
  BY InitType DEF Init, EmptyBook, NoStaleAnnotation, OwnersAgree
<1>2. ASSUME TypeOK, NoStaleAnnotation, OwnersAgree, [Next]_vars PROVE OwnersAgree'
  <2>1. CASE ReplayLine /\ feed.target
    <3>1. feed \in Line
      BY <1>2, <2>1 DEF ReplayLine, TypeOK, FeedTypeOK
    <3>2. Annotations(BookBefore(feed), FundsBefore(feed))
      BY <1>2, <3>1, AnnotationsBefore
    <3>3. BookBefore(feed) \in BookState /\ FundsBefore(feed) \in [FundKeys -> Known]
      BY <1>2, <3>1, BeforeType
    <3>4. snapshot' = SnapshotOf(BookBefore(feed), FundsBefore(feed), feed)
      BY <2>1 DEF ReplayLine
    <3>5. Emitted(snapshot') \subseteq {o \in Offers : snapshot'.amount[o] > 0}
      BY DEF Emitted
    <3>6. \A o, p \in Emitted(snapshot') :
            FundKeyOf(o) = FundKeyOf(p) => snapshot'.owner_funds[o] = snapshot'.owner_funds[p]
      BY <3>1, <3>2, <3>3, <3>4, <3>5, SnapshotAgrees
    <3> QED BY <3>6 DEF OwnersAgree
  <2>2. CASE ~(ReplayLine /\ feed.target)
    <3>1. snapshot' \in {snapshot, NoSnapshot}
      BY <1>2, <2>2, SnapshotKept
    <3> QED BY <1>2, <3>1 DEF OwnersAgree, Emitted, Precedes
  <2> QED BY <2>1, <2>2
<1>3. TypeOK /\ NoStaleAnnotation /\ OwnersAgree /\ [Next]_vars
        => (TypeOK /\ NoStaleAnnotation /\ OwnersAgree)'
  BY <1>2, NextType, AnnotationsNext
<1> QED BY <1>1, <1>3, PTL DEF Spec

\* In the strict mode a row carries funds its owner had before the transaction.
THEOREM FundsBeforeTransaction == ASSUME Strict PROVE Spec => []FundsAreEarlier
<1> DEFINE Inv == StrictInv /\ NoStaleAnnotation /\ FundsAreEarlier
<1>1. Init => Inv
  BY StrictInit DEF Init, EmptyBook, NoStaleAnnotation, FundsAreEarlier
<1>2. ASSUME Inv, [Next]_vars PROVE FundsAreEarlier'
  <2>1. CASE ReplayLine /\ feed.target
    <3>1. /\ feed \in Line
          /\ \A k \in FundKeys : FundsBefore(feed)[k] \in {Unknown, feed.pre.funds[k]}
      BY <1>2, <2>1, AcceptedLineInStep
    <3>2. Annotations(BookBefore(feed), FundsBefore(feed))
      BY <1>2, <3>1, AnnotationsBefore DEF StrictInv, FeedInv
    <3>3. BookBefore(feed) \in BookState /\ FundsBefore(feed) \in [FundKeys -> Known]
      BY <1>2, <3>1, BeforeType DEF StrictInv, FeedInv
    <3>4. snapshot' = SnapshotOf(BookBefore(feed), FundsBefore(feed), feed)
      BY <2>1 DEF ReplayLine
    <3>5. Emitted(snapshot') \subseteq {o \in Offers : snapshot'.amount[o] > 0}
      BY DEF Emitted
    <3>6. snapshot'.line = feed
      BY <3>4 DEF SnapshotOf
    <3>7. \A o \in Emitted(snapshot') : FundKeyOf(o) \notin feed.created =>
            snapshot'.owner_funds[o] \in {Unknown, feed.pre.funds[FundKeyOf(o)]}
      BY <3>1, <3>2, <3>3, <3>4, <3>5, SnapshotFunds
    <3> QED BY <3>6, <3>7 DEF FundsAreEarlier
  <2>2. CASE ~(ReplayLine /\ feed.target)
    <3>1. snapshot' \in {snapshot, NoSnapshot}
      BY <1>2, <2>2, SnapshotKept
    <3> QED BY <1>2, <3>1 DEF FundsAreEarlier, Emitted, Precedes
  <2> QED BY <2>1, <2>2
<1>3. Inv /\ [Next]_vars => Inv'
  BY <1>2, StrictNext, AnnotationsNext DEF StrictInv, FeedInv
<1>4. Inv => FundsAreEarlier
  OBVIOUS
<1> QED BY <1>1, <1>3, <1>4, PTL DEF Spec

-----------------------------------------------------------------------------
(* Order and truncation *)

\* In the strict mode offers of one quality are emitted in the order of their
\* directory, if the prebook file lists them so.
THEOREM OrderKept == ASSUME Strict, DirectoryOrdered PROVE Spec => []SameQualityOrder
<1>1. Init => StrictInv /\ SameQualityOrder
  BY StrictInit DEF Init, SameQualityOrder
<1>2. ASSUME StrictInv, SameQualityOrder, [Next]_vars PROVE SameQualityOrder'
  <2>1. CASE ReplayLine /\ feed.target
    <3> DEFINE book == BookBefore(feed)
    <3>1. feed \in Line /\ book.amount = feed.pre.book /\ Sorted(book, feed.pre)
      BY <1>2, <2>1, AcceptedLineInStep
    <3>2. book \in BookState
      BY <1>2, <3>1, BeforeType DEF StrictInv, FeedInv
    <3>3. /\ snapshot'.line = feed
          /\ snapshot'.amount = Overlaid(book, feed).amount
          /\ snapshot'.stamp = Overlaid(book, feed).stamp
      BY <2>1 DEF ReplayLine, SnapshotOf
    <3>4. snapshot'.amount = feed.pre.book
      BY <3>1, <3>2, <3>3, OverlayInStep
    <3> HIDE DEF book
    <3>5. \A o \in Offers : snapshot'.stamp[o] = book.stamp[o]
      BY <3>1, <3>3 DEF Overlaid, PreOffers, InsertStamp
    <3>6. \A o \in Emitted(snapshot') : o \in Offers /\ feed.pre.book[o] > 0
      BY <3>4 DEF Emitted
    <3> QED BY <3>1, <3>3, <3>5, <3>6 DEF SameQualityOrder, Sorted
  <2>2. CASE ~(ReplayLine /\ feed.target)
    <3>1. snapshot' \in {snapshot, NoSnapshot}
      BY <1>2, <2>2, SnapshotKept
    <3> QED BY <1>2, <3>1 DEF SameQualityOrder, Emitted, Precedes
  <2> QED BY <2>1, <2>2
<1>3. StrictInv /\ SameQualityOrder /\ [Next]_vars => (StrictInv /\ SameQualityOrder)'
  BY <1>2, StrictNext
<1> QED BY <1>1, <1>3, PTL DEF Spec

\* Whatever precedes the better of two offers precedes the worse.
LEMMA BetterFirst ==
  ASSUME NEW stamp, NEW o \in Offers, NEW p \in Offers, NEW q \in Offers,
         Quality[p] < Quality[o], Precedes(stamp, q, p)
  PROVE  Precedes(stamp, q, o)
BY ReplayAssumption DEF Precedes

\* --max-offers-per-side drops no offer that is better than one it keeps.
THEOREM TruncationSound == ASSUME Strict PROVE Spec => []TruncationKeepsBest
<1>1. ASSUME SnapshotIsPreState PROVE TruncationKeepsBest
  <2> SUFFICES ASSUME snapshot # NoSnapshot, ~snapshot.line.gap,
                      NEW o \in Emitted(snapshot), NEW p \in Offers \ Emitted(snapshot),
                      SideOf[o] = SideOf[p], snapshot.line.pre.book[p] > 0,
                      ~(Quality[o] <= Quality[p])
               PROVE  FALSE
    BY DEF TruncationKeepsBest
  <2> DEFINE Before(r) == {q \in Offers : /\ snapshot.amount[q] > 0 /\ SideOf[q] = SideOf[r]
                                          /\ Precedes(snapshot.stamp, q, r)}
  <2>1. o \in Offers /\ p \in Offers /\ Quality[p] < Quality[o]
    BY ReplayAssumption DEF Emitted
  <2>2. snapshot.amount[p] > 0
    BY <1>1 DEF SnapshotIsPreState
  <2>3. MaxOffersPerSide # 0 /\ ~(Cardinality(Before(p)) < MaxOffersPerSide)
    BY <2>1, <2>2 DEF Emitted
  <2>4. Cardinality(Before(o)) < MaxOffersPerSide
    BY <2>3 DEF Emitted
  <2>5. Before(p) \subseteq Before(o)
    BY <2>1, BetterFirst
  <2>6. IsFiniteSet(Before(o))
    BY FS_Subset, FeedAssumption
  <2>7. IsFiniteSet(Before(p)) /\ Cardinality(Before(p)) <= Cardinality(Before(o))
    BY <2>5, <2>6, FS_Subset
  <2>8. Cardinality(Before(p)) \in Nat /\ Cardinality(Before(o)) \in Nat
    BY <2>6, <2>7, FS_CardinalityType
  <2> HIDE DEF Before
  <2> QED BY <2>3, <2>4, <2>7, <2>8, ReplayAssumption
<1> QED BY <1>1, SnapshotsExact, PTL

-----------------------------------------------------------------------------
(* The strict replay implements PrebookOracle: every step of the replay is  *)
(* a step of the oracle or leaves it as it is.                              *)

\* What the oracle sees before anything has been read.
LEMMA OracleInit == Init => Oracle!Init
<1> SUFFICES ASSUME Init PROVE Oracle!Init
  OBVIOUS
<1>1. now.book \in [Offers -> Amounts]
  BY InitType DEF TypeOK, FeedTypeOK, LedgerState
<1>2. Waiting = {} /\ Answer = {}
  BY DEF Init, FeedInit, Waiting, Answer
<1> QED BY <1>1, <1>2 DEF Init, FeedInit, Oracle!Init

\* The oracle sees nothing new of a line that is taken.
LEMMA WaitingTaken ==
  ASSUME FeedTypeOK, TakeLine PROVE Waiting' \in {Waiting, {}}
<1>1. UNCHANGED <<now, ledger, txs, gap>>
  BY TakenLine
<1>2. CASE feed' = NoLine
  BY <1>2 DEF Waiting
<1>3. CASE feed' # NoLine
  <2>1. feed # NoLine /\ SameLine(feed, feed')
    BY <1>3, TakenLine
  <2> QED BY <1>1, <1>3, <2>1 DEF Waiting, InItsPlace, OrderKey, SameLine
<1> QED BY <1>2, <1>3

\* A step that emits nothing says nothing.
LEMMA NothingSaid ==
  ASSUME snapshot' = NoSnapshot PROVE Answer' = {}
BY DEF Answer

\* A line outside the window is one the oracle is not asked about.
LEMMA OracleSkip ==
  ASSUME FeedTypeOK, SkipLine PROVE Oracle!Pass
<1>1. Waiting' \in {Waiting, {}} /\ Answer' = {}
  BY WaitingTaken, NothingSaid DEF SkipLine
<1>2. \A tx \in Waiting : tx.key[1] \notin LedgerStart .. LedgerEnd
  BY DEF SkipLine, Waiting, OrderKey, InRange
<1> QED BY <1>1, <1>2 DEF SkipLine, TakeLine, Oracle!Pass

\* An error ends the oracle too.
LEMMA OracleStop ==
  ASSUME FeedTypeOK, StopOnLine PROVE Oracle!GiveUp
<1>1. PICK error \in {"order_violation", "coverage_gap", "no_prebook"} : Stop(error)
  BY DEF StopOnLine
<1>2. Waiting' \in {Waiting, {}} /\ Answer' = {}
  BY <1>1, WaitingTaken, NothingSaid DEF Stop
<1> QED BY <1>1, <1>2 DEF StopOnLine, Stop, TakeLine, Oracle!GiveUp

\* Ledgers are counted from one.
Counted == ledger \in Nat /\ ledger > 0

LEMMA CountedNext ==
  ASSUME Counted, [Next]_vars PROVE Counted'
<1> SUFFICES ledger' \in {ledger, ledger + 1}
  BY DEF Counted
<1>1. CASE Read
  BY <1>1 DEF Read, SkipLine, StopOnLine, Stop, ReplayLine, TakeLine
<1>2. CASE Write
  <2>1. CASE LedgerTx \/ CloseLedger
    BY <2>1 DEF LedgerTx, CloseLedger
  <2>2. ASSUME NEW u, LoseLine(u) \/ HoldLine(u) \/ LateLine(u) PROVE ledger' = ledger
    BY <2>2 DEF LoseLine, HoldLine, LateLine
  <2> QED BY <1>2, <2>1, <2>2 DEF Write
<1>3. CASE UNCHANGED vars
  BY <1>3 DEF vars, feedVars
<1> QED BY <1>1, <1>2, <1>3 DEF Next

\* A line that is accepted comes behind the last one.
LEMMA AcceptedIsLater ==
  ASSUME Strict, StrictInv, Counted, ReplayLine
  PROVE  Oracle!Earlier(prev_order_key, OrderKey(feed))
<1>1. feed \in Line /\ feed.ledger \in Nat /\ feed.index \in Nat
  BY AcceptedLineInStep DEF Line
<1>2. prev_order_key \in Nat \X Nat
  BY DEF StrictInv, FeedInv, TypeOK
<1>3. ~KeyLess(OrderKey(feed), prev_order_key) /\ feed.index = Expected(feed)
  BY DEF ReplayLine, OutOfOrder, CoverageGap
<1>4. ReaderBehind
  BY DEF ReplayLine, StrictInv, FeedInv
<1>5. CASE current_ledger = feed.ledger
  <2>1. current_ledger # NoLedger
    BY <1>1, <1>5, ReplayAssumption
  <2>2. prev_order_key[1] = feed.ledger /\ prev_order_key[2] + 1 = feed.index
    BY <1>3, <1>4, <1>5, <2>1 DEF ReaderBehind, Expected
  <2> QED BY <1>1, <1>2, <2>2 DEF Oracle!Earlier, OrderKey
<1>6. CASE current_ledger # feed.ledger
  <2>1. CASE current_ledger # NoLedger
    <3>1. prev_order_key[1] # feed.ledger
      BY <1>4, <1>6, <2>1 DEF ReaderBehind
    <3> QED BY <1>1, <1>2, <1>3, <3>1 DEF Oracle!Earlier, OrderKey, KeyLess
  <2>2. CASE current_ledger = NoLedger
    <3>1. prev_order_key = <<0, 0>>
      BY <1>4, <2>2 DEF ReaderBehind
    <3>2. feed.ledger > 0
      BY AcceptedLineInStep DEF Newest, Counted
    <3> QED BY <1>1, <3>1, <3>2 DEF Oracle!Earlier, OrderKey
  <2> QED BY <2>1, <2>2
<1> QED BY <1>5, <1>6

\* A line that is replayed is one the oracle looks at, and what is emitted is
\* the book before it.
LEMMA OracleReplay ==
  ASSUME Strict, StrictInv, StrictInv', Counted, ReplayLine PROVE Oracle!Look
<1> DEFINE tx == [key |-> OrderKey(feed), book |-> feed.pre.book, missed |-> feed.gap]
<1>1. feed # NoLine /\ feed \in Line /\ Newest(feed) /\ ~feed.gap
  BY AcceptedLineInStep DEF ReplayLine
<1>2. Waiting = {tx}
  BY <1>1 DEF Waiting, InItsPlace, Newest
<1>3. Oracle!Earlier(prev_order_key, tx.key)
  BY AcceptedIsLater
<1>4. tx.key[1] \in LedgerStart .. LedgerEnd
  BY DEF ReplayLine, InRange, OrderKey
<1>5. Answer' \in {{}, {[key |-> tx.key, book |-> tx.book]}}
  <2>1. CASE snapshot' = NoSnapshot
    BY <2>1, NothingSaid
  <2>2. CASE snapshot' # NoSnapshot
    <3>1. snapshot' = SnapshotOf(BookBefore(feed), FundsBefore(feed), feed)
      BY <2>2 DEF ReplayLine
    <3>2. snapshot'.line = feed
      BY <3>1 DEF SnapshotOf
    <3>3. snapshot'.amount = feed.pre.book
      BY <2>2, <3>2 DEF StrictInv, SnapshotExact
    <3> QED BY <2>2, <3>2, <3>3 DEF Answer, OrderKey
  <2> QED BY <2>1, <2>2
<1>6. Waiting' \in {Waiting, {}}
  BY WaitingTaken DEF ReplayLine, StrictInv, FeedInv, TypeOK
<1>7. /\ status = "running" /\ status' = status /\ prev_order_key' = tx.key
      /\ UNCHANGED <<now, ledger, txs, gap>>
  BY DEF ReplayLine, TakeLine
<1> QED BY <1>1, <1>2, <1>3, <1>4, <1>5, <1>6, <1>7 DEF Oracle!Look

\* A transaction of the ledger is one of the oracle's.
LEMMA OracleLedgerTx ==
  ASSUME TypeOK, Write, LedgerTx PROVE Oracle!Transaction
<1>1. /\ feed'.ledger = ledger /\ feed'.index = txs /\ feed'.gap = gap
      /\ feed'.pre = now /\ feed' \in Line
  BY LedgerTxLine
<1>2. feed' # NoLine
  BY <1>1, NoLineAssumption
<1>3. /\ feed = NoLine /\ txs' = txs + 1 /\ UNCHANGED <<ledger, gap>>
      /\ status = "running" /\ UNCHANGED <<status, prev_order_key>>
      /\ snapshot' = NoSnapshot
  BY DEF Write, LedgerTx
<1>4. Waiting = {} /\ Answer' = {}
  BY <1>3, NothingSaid DEF Waiting
<1>5. Waiting' = {[key |-> <<ledger, txs>>, book |-> now.book, missed |-> gap]}
  BY <1>1, <1>2, <1>3 DEF Waiting, InItsPlace, OrderKey
<1>6. now'.book \in [Offers -> Amounts]
  <2>1. FeedTypeOK'
    BY LedgerTxType DEF TypeOK
  <2> QED BY <2>1 DEF FeedTypeOK, LedgerState
<1> QED BY <1>3, <1>4, <1>5, <1>6 DEF Oracle!Transaction

\* The other steps of the ledger and of the file.
LEMMA OracleFeed ==
  ASSUME StrictInv, Write, ~LedgerTx PROVE Oracle!OpenLedger \/ Oracle!Miss \/ Oracle!Pass
<1>1. /\ status = "running" /\ UNCHANGED <<status, prev_order_key>>
      /\ snapshot' = NoSnapshot
  BY DEF Write
<1>2. Answer' = {}
  BY <1>1, NothingSaid
<1>3. CASE CloseLedger
  <2>1. Waiting = {} /\ Waiting' = {}
    BY <1>3 DEF CloseLedger, Waiting
  <2> QED BY <1>1, <1>2, <1>3, <2>1 DEF CloseLedger, Oracle!OpenLedger
<1>4. ASSUME NEW u, LoseLine(u) \/ HoldLine(u) PROVE Oracle!Miss
  <2>1. /\ feed # NoLine /\ InItsPlace(feed) /\ feed' = NoLine /\ gap' = TRUE
        /\ UNCHANGED <<now, ledger, txs>>
    BY <1>4 DEF LoseLine, HoldLine, InPlace, InItsPlace
  <2>2. Waiting # {} /\ Waiting' = {}
    BY <2>1 DEF Waiting
  <2> QED BY <1>1, <1>2, <2>1, <2>2 DEF Oracle!Miss
<1>5. CASE LateLine(held # NoLine /\ KeyLess(OrderKey(held), prev_order_key))
  <2>1. /\ feed = NoLine /\ held # NoLine /\ KeyLess(OrderKey(held), prev_order_key)
        /\ feed' = held /\ UNCHANGED <<now, ledger, txs, gap>>
    BY <1>5 DEF LateLine
  <2>2. Waiting = {}
    BY <2>1 DEF Waiting
  <2>3. ~InItsPlace(feed)'
    <3>1. held \in Line /\ held.ledger \in Nat /\ held.index \in Nat
      BY <2>1 DEF StrictInv, FeedInv, TypeOK, FeedTypeOK, Line
    <3>2. prev_order_key \in Nat \X Nat /\ ledger \in Nat /\ txs \in Nat
      BY DEF StrictInv, FeedInv, TypeOK, FeedTypeOK
    <3>3. ReaderBehind
      BY <1>1 DEF StrictInv, FeedInv
    <3>4. current_ledger # NoLedger
      BY <2>1, <3>1, <3>3 DEF ReaderBehind, KeyLess, OrderKey
    <3>5. /\ prev_order_key[1] <= ledger
          /\ prev_order_key[1] = ledger => prev_order_key[2] < txs
      BY <3>2, <3>3, <3>4 DEF ReaderBehind
    <3> QED BY <2>1, <3>1, <3>2, <3>5 DEF KeyLess, OrderKey, InItsPlace
  <2>4. Waiting' = {}
    BY <2>3 DEF Waiting
  <2> QED BY <1>1, <1>2, <2>1, <2>2, <2>4 DEF Oracle!Pass
<1> QED BY <1>3, <1>4, <1>5 DEF Write

\* Every step of the strict replay is a step of the oracle.
LEMMA OracleStep ==
  ASSUME Strict, StrictInv, StrictInv', Counted, [Next]_vars
  PROVE  [Oracle!Next]_(Oracle!oracleVars)
<1>1. CASE SkipLine
  BY <1>1, OracleSkip DEF StrictInv, FeedInv, TypeOK, Oracle!Next
<1>2. CASE StopOnLine
  BY <1>2, OracleStop DEF StrictInv, FeedInv, TypeOK, Oracle!Next
<1>3. CASE ReplayLine
  BY <1>3, OracleReplay DEF Oracle!Next
<1>4. CASE Write
  <2>1. CASE LedgerTx
    BY <1>4, <2>1, OracleLedgerTx DEF StrictInv, FeedInv, Oracle!Next
  <2>2. CASE ~LedgerTx
    BY <1>4, <2>2, OracleFeed DEF Oracle!Next
  <2> QED BY <2>1, <2>2
<1>5. CASE UNCHANGED vars
  <2>1. Waiting' = Waiting /\ Answer' = Answer
    BY <1>5 DEF vars, feedVars, replayVars, Waiting, Answer, InItsPlace, OrderKey
  <2> QED BY <1>5, <2>1 DEF vars, feedVars, replayVars, Oracle!oracleVars
<1> QED BY <1>1, <1>2, <1>3, <1>4, <1>5 DEF Next, Read

\* The replay of unfiltered metadata implements the oracle, whatever lines of
\* the file are lost, misplaced or repeated.
THEOREM ReplayImplementsOracle == ASSUME Strict PROVE Spec => ImplementsOracle
<1>1. Init => Counted
  BY DEF Init, FeedInit, Counted
<1>2. Counted /\ [Next]_vars => Counted'
  BY CountedNext
<1>3. StrictInv /\ StrictInv' /\ Counted /\ [Next]_vars => [Oracle!Next]_(Oracle!oracleVars)
  BY OracleStep
<1>4. Spec => []StrictInv
  BY StrictInvariance
<1> QED BY <1>1, <1>2, <1>3, <1>4, OracleInit, PTL DEF Spec, ImplementsOracle, Oracle!Spec
=============================================================================
