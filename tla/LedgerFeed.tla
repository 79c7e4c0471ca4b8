----------------------------- MODULE LedgerFeed -----------------------------
(***************************************************************************)
(* The two input files of the tx-level prebook replay, generated while     *)
(* they are read: the XRP ledger's history (the order book of one pair and *)
(* the funds of the offer owners), the boundary snapshot of the book at    *)
(* every ledger close, and the NDJSON file with the metadata of every      *)
(* transaction.  All of it is external to the repository: it is modelled   *)
(* from how empirical/rust/tx_prebook_replay reads it.  The replay never   *)
(* influences the ledger, so generating the file one line ahead of the     *)
(* reader is the same as reading a file that is complete.                  *)
(***************************************************************************)
EXTENDS Naturals, FiniteSets

CONSTANTS
  Offers,      \* the offer ids (ledger object indexes); an id is used once
  Accounts,    \* the offer owners
  Owner,       \* Owner[o]: the account that placed o
  SideOf,      \* SideOf[o]: the book side o is on, fixed by its currencies
  ObjectKey,   \* ObjectKey[o]: rank of o among the ledger object indexes
  KeyBound,    \* an upper bound on the ranks
  MaxAmount,   \* bound on an offer's remaining TakerGets
  MaxFunds,    \* bound on an owner's spendable funds
  MaxLedger,   \* bound on the ledgers that close
  MaxTx,       \* bound on the transactions of a ledger
  MaxNodes,    \* bound on the nodes of a transaction, beside its offers' owners'
  TargetFlags, \* {TRUE} when every transaction is a target, else BOOLEAN
  Opening,     \* the ledgers the replayed window may open with
  Faults,      \* what may be wrong with the files, a subset of FaultKinds
  NoLine       \* no metadata line is waiting

Sides == {"getsXRP", "getsrUSD"}

FaultKinds == {"lost", "late", "twice", "no_prebook"}

\* Funds are kept per owner and domain: XRP for getsXRP, the IOU for getsrUSD.
FundKeyOf(o) == <<Owner[o], SideOf[o]>>

FundKeys == {FundKeyOf(o) : o \in Offers}

ASSUME FeedAssumption ==
  /\ IsFiniteSet(Offers)
  /\ Owner \in [Offers -> Accounts]
  /\ SideOf \in [Offers -> Sides]
  /\ KeyBound \in Nat
  /\ ObjectKey \in [Offers -> 1 .. KeyBound]
  /\ \A o, p \in Offers : ObjectKey[o] = ObjectKey[p] => o = p
  /\ MaxAmount \in Nat \ {0} /\ MaxFunds \in Nat
  /\ MaxLedger \in Nat /\ MaxTx \in Nat /\ MaxNodes \in Nat
  /\ TargetFlags \subseteq BOOLEAN
  /\ Faults \subseteq FaultKinds

Amounts == 0 .. MaxAmount    \* 0: the offer is not in the book

Funds == 0 .. MaxFunds

\* The part of the ledger the replay is about: remaining amount of every
\* offer, the order in which the offers were placed (0: never), how many were,
\* and the owners' funds.
LedgerState ==
  [book : [Offers -> Amounts], dir : [Offers -> Nat], placed : Nat,
   funds : [FundKeys -> Funds]]

\* Every placed offer has a place of its own.
WellPlaced(state) ==
  /\ \A o \in Offers : state.book[o] > 0 => state.dir[o] > 0
  /\ \A o \in Offers : state.dir[o] <= state.placed
  /\ \A o, p \in Offers : state.dir[o] = state.dir[p] => o = p \/ state.dir[o] = 0

ASSUME OpeningAssumption ==
  Opening \subseteq LedgerState /\ \A state \in Opening : WellPlaced(state)

\* A ledger close as the fetchers record it: the state, whether the prebook
\* file has it, and the owners whose trust line was fetched.
Boundary ==
  [at : LedgerState, prebook : BOOLEAN, lines : SUBSET FundKeys]

\* One metadata line.  offers and keys are the Offer and the AccountRoot or
\* RippleState nodes among AffectedNodes; created are the keys whose node is a
\* CreatedNode; pre and post are the ledger around the transaction (a node
\* reports pre and post values of what it is about); target says whether the
\* hash is in the target set.  gap and doubt are history: some earlier line of
\* the same ledger never reached the reader, and what such lines touched and no
\* line read since did.
Line ==
  [ledger : Nat, index : Nat, target : BOOLEAN, gap : BOOLEAN, doubt : SUBSET Offers,
   offers : SUBSET Offers, keys : SUBSET FundKeys, created : SUBSET FundKeys,
   pre : LedgerState, post : LedgerState]

ASSUME NoLineAssumption == NoLine \notin Line

VARIABLES
  now,       \* the ledger after the last transaction
  ledger,    \* index of the open ledger
  txs,       \* transactions of the open ledger so far
  boundary,  \* the close of the ledger before it
  feed,      \* the metadata line the reader sees next, or NoLine
  held,      \* a line that will appear out of place, or NoLine
  gap,       \* history: a line of the open ledger was lost or held
  doubt      \* history: the offers such lines touched and no later line did

feedVars == <<now, ledger, txs, boundary, feed, held, gap, doubt>>

FeedTypeOK ==
  /\ now \in LedgerState
  /\ ledger \in Nat /\ txs \in Nat
  /\ boundary \in Boundary
  /\ feed \in Line \cup {NoLine}
  /\ held \in Line \cup {NoLine}
  /\ gap \in BOOLEAN
  /\ doubt \subseteq Offers

LineKeys == {k \in FundKeys : k[2] = "getsrUSD"}

Closed(state, prebook, lines) == [at |-> state, prebook |-> prebook, lines |-> lines]

FeedInit ==
  /\ now \in Opening
  /\ ledger = 1 /\ txs = 0
  /\ \E lines \in SUBSET LineKeys : boundary = Closed(now, TRUE, lines)
  /\ feed = NoLine /\ held = NoLine
  /\ gap = FALSE /\ doubt = {}

(***************************************************************************)
(* What one transaction may do to the offers T and the owners' nodes F.    *)
(* An offer in the book keeps its amount, loses some of it or disappears;  *)
(* an id that was never used may be placed, one per transaction.  A fill   *)
(* and every change of an XRP offer show in the owner's own node too.      *)
(***************************************************************************)
OfferMoves(T, book) ==
  /\ \A o, p \in T : now.dir[o] = 0 /\ now.dir[p] = 0 => o = p
  /\ \A o \in T :
       IF now.dir[o] = 0 THEN book[o] > 0
                         ELSE now.book[o] > 0 /\ book[o] <= now.book[o]

OwnersShow(T, F, book, funds) ==
  \A o \in T :
    /\ book[o] # now.book[o] /\ SideOf[o] = "getsXRP" => FundKeyOf(o) \in F
    /\ 0 < book[o] /\ book[o] < now.book[o] =>
          FundKeyOf(o) \in F /\ funds[FundKeyOf(o)] < now.funds[FundKeyOf(o)]

\* The ledger after offers T took the amounts of book and nodes F those of
\* funds.  A new offer goes to the end of its directory.
After(T, F, book, funds) ==
  [book  |-> [o \in Offers |-> IF o \in T THEN book[o] ELSE now.book[o]],
   dir   |-> [o \in Offers |-> IF o \in T /\ now.dir[o] = 0
                                 THEN now.placed + 1 ELSE now.dir[o]],
   placed |-> IF \E o \in T : now.dir[o] = 0 THEN now.placed + 1 ELSE now.placed,
   funds |-> [k \in FundKeys |-> IF k \in F THEN funds[k] ELSE now.funds[k]]]

\* Trust lines that this transaction creates: CreatedNode, not ModifiedNode.
NewLines(F, funds) ==
  {k \in F \cap LineKeys : now.funds[k] = 0 /\ funds[k] > 0}

\* A transaction is applied and its metadata becomes the next line.
LedgerTx ==
  /\ feed = NoLine
  /\ txs < MaxTx
  /\ \E T \in SUBSET Offers, F \in SUBSET FundKeys, target \in TargetFlags :
       /\ Cardinality(T) + Cardinality({k \in F : \A o \in T : FundKeyOf(o) # k}) <= MaxNodes
       /\ \E book \in [T -> Amounts], funds \in [F -> Funds] :
            /\ OfferMoves(T, book)
            /\ OwnersShow(T, F, book, funds)
            /\ now' = After(T, F, book, funds)
            /\ \E created \in SUBSET NewLines(F, funds) :
                 feed' = [ledger |-> ledger, index |-> txs, target |-> target,
                          gap |-> gap, doubt |-> doubt, offers |-> T, keys |-> F,
                          created |-> created, pre |-> now, post |-> now']
  /\ txs' = txs + 1
  /\ UNCHANGED <<ledger, boundary, held, gap, doubt>>

\* The open ledger closes and the next one opens.
CloseLedger ==
  /\ feed = NoLine
  /\ ledger < MaxLedger
  /\ ledger' = ledger + 1
  /\ txs' = 0
  /\ \E prebook \in {TRUE} \cup (IF "no_prebook" \in Faults THEN {FALSE} ELSE {}),
        lines \in SUBSET LineKeys :
       boundary' = Closed(now, prebook, lines)
  /\ gap' = FALSE /\ doubt' = {}
  /\ UNCHANGED <<now, feed, held>>

\* The line waiting is the newest and was not read before.
InPlace(unread) ==
  /\ feed # NoLine
  /\ feed.ledger = ledger /\ feed.index + 1 = txs
  /\ unread

\* The line is missing from the file, or is not JSON (main.rs skips both).
LoseLine(unread) ==
  /\ "lost" \in Faults
  /\ InPlace(unread)
  /\ feed' = NoLine
  /\ gap' = TRUE /\ doubt' = doubt \cup feed.offers
  /\ UNCHANGED <<now, ledger, txs, boundary, held>>

\* The line is in the file, but further down than its place.
HoldLine(unread) ==
  /\ "late" \in Faults
  /\ held = NoLine
  /\ InPlace(unread)
  /\ held' = feed
  /\ feed' = NoLine
  /\ gap' = TRUE /\ doubt' = doubt \cup feed.offers
  /\ UNCHANGED <<now, ledger, txs, boundary>>

\* A line that was held turns up: only here after lines that belong behind it,
\* since it is out of place for no reader otherwise.
LateLine(newer) ==
  /\ feed = NoLine
  /\ held # NoLine
  /\ newer
  /\ feed' = held
  /\ held' = NoLine
  /\ UNCHANGED <<now, ledger, txs, boundary, gap, doubt>>

\* The line as a file that has it twice shows it again: the offers it places
\* are in the reader's book already.
Again(line) ==
  [line EXCEPT !.doubt = {o \in Offers : IF o \in line.offers THEN line.pre.book[o] = 0
                                                           ELSE o \in line.doubt}]

\* The reader takes the line, perhaps to see it again.  Lines of a closed ledger
\* are late ones, of which the reader applies nothing.
TakeLine ==
  /\ feed # NoLine
  /\ feed' \in {NoLine} \cup (IF "twice" \in Faults THEN {Again(feed)} ELSE {})
  /\ doubt' = IF feed.ledger = ledger THEN doubt \ feed.offers ELSE doubt
  /\ UNCHANGED <<now, ledger, txs, boundary, held, gap>>
=============================================================================
