---------------------------- MODULE PrebookOracle ----------------------------
(***************************************************************************)
(* What the tx-level prebook replay promises: an observer of the ledger    *)
(* that looks at every transaction of its window at most once, in order,   *)
(* and answers with the book that transaction met, or not at all.  It can  *)
(* look only while a transaction is the newest one, and once it has missed *)
(* one it says nothing more about that ledger.                             *)
(***************************************************************************)
EXTENDS Naturals

CONSTANTS
  Books,     \* what a book may be
  Window     \* the ledgers the observer is asked about

VARIABLES
  book,      \* of the ledger, after its last transaction
  ledger, txs,  \* the open ledger and the number of its transactions
  pending,   \* the newest transaction, if it can be looked at: at most one
  missed,    \* a transaction of the open ledger can no longer be looked at
  last,      \* the last transaction looked at
  answer,    \* what the observer has just said, if anything: at most one
  over       \* the observer has given up

oracleVars == <<book, ledger, txs, pending, missed, last, answer, over>>

\* A transaction is named by its ledger and its place in it.
Earlier(k, l) == k[1] < l[1] \/ (k[1] = l[1] /\ k[2] < l[2])

Init ==
  /\ book \in Books /\ ledger = 1 /\ txs = 0
  /\ pending = {} /\ missed = FALSE
  /\ last = <<0, 0>> /\ answer = {} /\ over = FALSE

\* The ledger applies a transaction.
Transaction ==
  /\ ~over /\ pending = {}
  /\ book' \in Books /\ txs' = txs + 1
  /\ pending' = {[key |-> <<ledger, txs>>, book |-> book, missed |-> missed]}
  /\ answer' = {}
  /\ UNCHANGED <<ledger, missed, last, over>>

\* Another ledger opens: what was missed in this one is of no account there.
OpenLedger ==
  /\ ~over /\ pending = {}
  /\ ledger' = ledger + 1 /\ txs' = 0
  /\ missed' = FALSE /\ answer' = {}
  /\ UNCHANGED <<book, pending, last, over>>

\* The chance to look at a transaction passes.
Miss ==
  /\ ~over /\ pending # {}
  /\ pending' = {} /\ missed' = TRUE /\ answer' = {}
  /\ UNCHANGED <<book, ledger, txs, last, over>>

\* The observer looks at a transaction, for the first time and with none of its
\* ledger missed, and says nothing or the book before it.
Look ==
  /\ ~over
  /\ \E tx \in pending :
       /\ tx.key[1] \in Window /\ ~tx.missed /\ Earlier(last, tx.key)
       /\ last' = tx.key
       /\ answer' \in {{}, {[key |-> tx.key, book |-> tx.book]}}
  /\ pending' \in {pending, {}}
  /\ UNCHANGED <<book, ledger, txs, missed, over>>

\* A transaction that it is not asked about, or a time without one.
Pass ==
  /\ ~over
  /\ \/ pending' = pending
     \/ pending' = {} /\ \A tx \in pending : tx.key[1] \notin Window
  /\ answer' = {}
  /\ UNCHANGED <<book, ledger, txs, missed, last, over>>

\* The observer gives up, for good.
GiveUp ==
  /\ ~over /\ over' = TRUE
  /\ pending' \in {pending, {}} /\ answer' = {}
  /\ UNCHANGED <<book, ledger, txs, missed, last>>

Next == Transaction \/ OpenLedger \/ Miss \/ Look \/ Pass \/ GiveUp

Spec == Init /\ [][Next]_oracleVars
=============================================================================
