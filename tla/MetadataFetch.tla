--------------------------- MODULE MetadataFetch ---------------------------
(* empirical_fetch_full_ledger_metadata.py: a pool of threads asks a server *)
(* for the transactions of every ledger of --ledger-list, writes the answer *)
(* to one shard file per ledger, and the main thread then merges the shards *)
(* into tx_metadata_full_merged.ndjson, the file the replay reads. A run    *)
(* that was stopped is started again and skips the ledgers it already has.  *)
EXTENDS Naturals, FiniteSets, Sequences, SequencesExt

CONSTANTS
  Ledgers,    \* ledger indices named by --ledger-list
  TxOf,       \* TxOf[l]: the TransactionIndex values of the validated ledger l
  Required,   \* Required[l]: those of l that --required-tx-csv names
  Checked,    \* the choices a run has of giving --required-tx-csv or not
  Workers,    \* --workers
  Retries,    \* --retries
  Faults,     \* which of "crash" and "disk" may happen
  MaxRuns     \* bound: how often the operator starts the program

ASSUME FetchAssumption ==
  /\ Ledgers \subseteq Nat /\ IsFiniteSet(Ledgers) /\ Ledgers # {}
  /\ TxOf \in [Ledgers -> SUBSET Nat] /\ \A l \in Ledgers : IsFiniteSet(TxOf[l])
  /\ Required \in [Ledgers -> SUBSET Nat]
  /\ Checked \subseteq BOOLEAN
  /\ Workers \in Nat \ {0} /\ Retries \in Nat /\ MaxRuns \in Nat
  /\ Faults \subseteq {"crash", "disk"}

VARIABLES
  \* files
  shard,      \* lines of raw_ledgers/ledger_<l>.ndjson, none if absent or empty
  failed,     \* ledgers named in ledger_fetch_fail.ndjson
  merged,     \* lines of the merged file
  \* the process
  pc,         \* "off", "fetching", "merging" or "done"
  checking,   \* this run was given --required-tx-csv
  todo,       \* ledgers not yet submitted to the pool
  inflight,   \* ledgers whose future the main thread waits for
  phase,      \* what the thread of a ledger does
  attempt,    \* how many calls it has made for it
  rows,       \* the rows of the last answer it accepted
  lock,       \* the ledger whose thread holds write_lock, if any
  unmerged,   \* ledgers whose shard is still to be merged
  runs,       \* how often the program was started
  spoilt      \* history: some run was "killed" or not given the list, "unchecked"

files   == <<shard, failed, merged>>
threads == <<phase, attempt, rows, lock>>
main    == <<pc, checking, todo, inflight, unmerged, runs, spoilt>>
vars    == <<files, threads, main>>

Phases == {"idle", "calling", "storing", "writing", "reporting", "finished"}

(* Variants of the definitions above, each with one plausible mistake.      *)

(* fill() compares with <= *)
RoomForOneMore(busy) == Workers + 1 - Cardinality(busy)

(* rows are kept in the order of the answer *)
AsAnswered(answer) == answer

(* the shards of earlier runs are ignored *)
NoneDone == {}

(* the exception is swallowed *)
NotNamed(l) == failed

(* required and present are swapped *)
NotRequired(l, s) == IF checking THEN ToSet(s) \ Required[l] ELSE {}

(* the except clause runs inside the with block of write_lock *)
StillHeld == lock
-----------------------------------------------------------------------------
(* A line of a shard is the row of one transaction, whole or cut short.     *)
Lines(l, s) == [k \in DOMAIN s |-> [ledger |-> l, index |-> s[k], whole |-> TRUE]]

(* What a file may hold when the write of these lines did not end.          *)
Cut(lines) ==
  Prefixes(lines) \cup
  {[SubSeq(lines, 1, k) EXCEPT ![k].whole = FALSE] : k \in DOMAIN lines}

Ascending(s) == \A i, j \in DOMAIN s : i < j => s[i] < s[j]
InOrder(S) == CHOOSE s \in SetToSeqs(S) : Ascending(s)

(* The rows of an answer, sorted by TransactionIndex.                       *)
Normalised(answer) == InOrder(ToSet(answer))

(* What the server may say of a validated ledger: its transactions, in any  *)
(* order, some of them possibly missing.                                    *)
Answers(l) == UNION {SetToSeqs(S) : S \in SUBSET TxOf[l]}

MissingRequired(l, s) == IF checking THEN Required[l] \ ToSet(s) ELSE {}

(* _load_done_ledgers: any shard with something in it is done.              *)
DoneLedgers == {l \in Ledgers : shard[l] # <<>>}

(* fill(): ledgers leave todo for the pool while it has room.               *)
Room(busy) == Workers - Cardinality(busy)
Submitted(busy, list) ==
  ToSet(SubSeq(list, 1, IF Len(list) < Room(busy) THEN Len(list) ELSE Room(busy)))
Unsubmitted(busy, list) == SubSeq(list, Room(busy) + 1, Len(list))

Init ==
  /\ shard = [l \in Ledgers |-> <<>>] /\ failed = {} /\ merged = <<>>
  /\ pc = "off" /\ checking \in Checked /\ todo = <<>> /\ inflight = {}
  /\ phase = [l \in Ledgers |-> "idle"] /\ attempt = [l \in Ledgers |-> 0]
  /\ rows = [l \in Ledgers |-> <<>>]
  /\ lock = {} /\ unmerged = <<>> /\ runs = 0 /\ spoilt = {}

(* The operator starts the program: pending is what no shard holds yet, and *)
(* the first fill() submits as many of them as there are workers.           *)
Start ==
  /\ pc \in {"off", "done"} /\ runs < MaxRuns
  /\ runs' = runs + 1 /\ checking' \in Checked
  /\ LET pending == InOrder(Ledgers \ DoneLedgers)
         first   == Submitted({}, pending)
     IN /\ todo' = Unsubmitted({}, pending)
        /\ inflight' = first
        /\ phase' = [l \in Ledgers |-> IF l \in first THEN "calling" ELSE "idle"]
  /\ attempt' = [l \in Ledgers |-> 0]
  /\ pc' = "fetching" /\ unmerged' = <<>>
  /\ spoilt' = spoilt \cup (IF checking' THEN {} ELSE {"unchecked"})
  /\ UNCHANGED <<files, rows, lock>>

Becomes(l, p) == phase' = [phase EXCEPT ![l] = p]

(* A call that ends in a timeout, an http or an rpc error is made again     *)
(* after a backoff, --retries times at most.                                *)
CallFails(l) ==
  /\ phase[l] = "calling"
  /\ IF attempt[l] < Retries
       THEN attempt' = [attempt EXCEPT ![l] = @ + 1] /\ UNCHANGED phase
       ELSE Becomes(l, "reporting") /\ UNCHANGED attempt
  /\ UNCHANGED <<files, rows, lock, main>>

(* An answer is normalised and, with --required-tx-csv, refused when it     *)
(* lacks a required transaction: that is not retried.                       *)
CallReturns(l) ==
  /\ phase[l] = "calling"
  /\ \E answer \in Answers(l) :
       LET taken == Normalised(answer)
       IN IF MissingRequired(l, taken) = {}
            THEN Becomes(l, "storing") /\ rows' = [rows EXCEPT ![l] = taken]
            ELSE Becomes(l, "reporting") /\ UNCHANGED rows
  /\ UNCHANGED <<files, attempt, lock, main>>

(* Path.write_text, under write_lock, first truncates the shard ...         *)
OpenShard(l) ==
  /\ phase[l] = "storing" /\ lock = {}
  /\ lock' = {l} /\ Becomes(l, "writing")
  /\ shard' = [shard EXCEPT ![l] = <<>>]
  /\ UNCHANGED <<failed, merged, attempt, rows, main>>

(* ... and then writes all of it, or fails part way: the exception leaves   *)
(* the with block, which releases write_lock, before fetch_one handles it.  *)
CloseShard(l) ==
  /\ phase[l] = "writing"
  /\ lock' = {} /\ Becomes(l, "finished")
  /\ shard' = [shard EXCEPT ![l] = Lines(l, rows[l])]
  /\ UNCHANGED <<failed, merged, attempt, rows, main>>

AfterFailure == {}
ShardFails(l) ==
  /\ "disk" \in Faults
  /\ phase[l] = "writing"
  /\ lock' = AfterFailure /\ Becomes(l, "reporting")
  /\ \E lines \in Cut(Lines(l, rows[l])) : shard' = [shard EXCEPT ![l] = lines]
  /\ UNCHANGED <<failed, merged, attempt, rows, main>>

(* Every failure of fetch_one appends one line to the fail file.            *)
Named(l) == failed \cup {l}
Report(l) ==
  /\ phase[l] = "reporting" /\ lock = {}
  /\ failed' = Named(l) /\ Becomes(l, "finished")
  /\ UNCHANGED <<shard, merged, attempt, rows, lock, main>>

(* The main thread takes every finished future and fills the pool again.    *)
Collect ==
  /\ pc = "fetching"
  /\ LET ready == {l \in inflight : phase[l] = "finished"}
         busy  == inflight \ ready
         next  == Submitted(busy, todo)
     IN /\ ready # {}
        /\ inflight' = busy \cup next
        /\ todo' = Unsubmitted(busy, todo)
        /\ phase' = [l \in Ledgers |->
                       CASE l \in next  -> "calling"
                         [] l \in ready -> "idle"
                         [] OTHER       -> phase[l]]
  /\ UNCHANGED <<files, attempt, rows, lock, pc, checking, unmerged, runs, spoilt>>

(* The merged file is always rebuilt, from the shards in ledger order.      *)
OpenMerged ==
  /\ pc = "fetching" /\ inflight = {}
  /\ pc' = "merging" /\ merged' = <<>> /\ unmerged' = InOrder(Ledgers)
  /\ UNCHANGED <<shard, failed, threads, checking, todo, inflight, runs, spoilt>>

MergeShard ==
  /\ pc = "merging" /\ unmerged # <<>>
  /\ merged' = merged \o shard[Head(unmerged)]
  /\ unmerged' = Tail(unmerged)
  /\ UNCHANGED <<shard, failed, threads, pc, checking, todo, inflight, runs, spoilt>>

CloseMerged ==
  /\ pc = "merging" /\ unmerged = <<>>
  /\ pc' = "done"
  /\ UNCHANGED <<files, threads, checking, todo, inflight, unmerged, runs, spoilt>>

(* The process dies: its threads are gone, and a file it was writing holds  *)
(* some part of what it was to hold.                                        *)
Crash ==
  /\ "crash" \in Faults
  /\ pc \in {"fetching", "merging"}
  /\ \/ lock = {} /\ UNCHANGED shard
     \/ \E l \in lock : \E lines \in Cut(Lines(l, rows[l])) :
          shard' = [shard EXCEPT ![l] = lines]
  /\ merged' \in IF pc = "merging" THEN Cut(merged) ELSE {merged}
  /\ pc' = "off" /\ todo' = <<>> /\ inflight' = {} /\ unmerged' = <<>>
  /\ phase' = [l \in Ledgers |-> "idle"] /\ lock' = {}
  /\ spoilt' = spoilt \cup {"killed"}
  /\ UNCHANGED <<failed, attempt, rows, checking, runs>>

Fetch(l) ==
  \/ CallFails(l) \/ CallReturns(l)
  \/ OpenShard(l) \/ CloseShard(l) \/ ShardFails(l) \/ Report(l)

Main == Collect \/ OpenMerged \/ MergeShard \/ CloseMerged

Next == Start \/ Main \/ Crash \/ \E l \in Ledgers : Fetch(l)

(* A request has a timeout, so every call ends; a thread that waits for     *)
(* write_lock gets it, as every other thread takes it at most once a task.  *)
Fairness == WF_vars(Main) /\ \A l \in Ledgers : WF_vars(Fetch(l))

Spec == Init /\ [][Next]_vars /\ Fairness
-----------------------------------------------------------------------------
Line == [ledger : Ledgers, index : Nat, whole : BOOLEAN]

(* Types, the size of the pool and the exclusion write_lock gives: one      *)
(* thread at most is inside write_text, and it is the one that holds it.    *)
TypeOK ==
  /\ shard \in [Ledgers -> Seq(Line)] /\ failed \subseteq Ledgers
  /\ merged \in Seq(Line)
  /\ pc \in {"off", "fetching", "merging", "done"} /\ checking \in BOOLEAN
  /\ todo \in Seq(Ledgers) /\ unmerged \in Seq(Ledgers) /\ runs \in 0..MaxRuns
  /\ spoilt \subseteq {"killed", "unchecked"}
  /\ inflight \subseteq Ledgers /\ Cardinality(inflight) <= Workers
  /\ phase \in [Ledgers -> Phases] /\ attempt \in [Ledgers -> 0..Retries]
  /\ rows \in [Ledgers -> Seq(Nat)]
  /\ lock = {l \in Ledgers : phase[l] = "writing"} /\ Cardinality(lock) <= 1

Before(a, b) == a.ledger < b.ledger \/ (a.ledger = b.ledger /\ a.index < b.index)

(* The merged file never has a line out of (ledger, index) order, or twice, *)
(* whatever order answers come in, shards are written in and runs are       *)
(* stopped in: the order the replay requires of it.                         *)
MergedSorted ==
  \A i, j \in DOMAIN merged : i < j => Before(merged[i], merged[j])

(* A shard that holds something is changed by the thread that is writing it *)
(* and by no later run: a resume neither loses nor duplicates a ledger.     *)
ShardsKept ==
  [][\A l \in Ledgers : shard[l] # <<>> /\ l \notin lock => shard'[l] = shard[l]]_vars

LinesOf(l) == {line \in ToSet(merged) : line.ledger = l}

(* When a run ends, a ledger whose accepted rows are not all in the merged  *)
(* file is named in the fail file: nothing goes missing in silence unless   *)
(* a process was killed.                                                    *)
MissingIsReported ==
  pc = "done" /\ "killed" \notin spoilt =>
    \A l \in Ledgers : l \in failed \/ LinesOf(l) = ToSet(Lines(l, rows[l]))

(* When a run with --required-tx-csv ends, every ledger has all expected    *)
(* transactions in the merged file or is named in the fail file (the help   *)
(* text of the option).                                                     *)
RequiredMerged ==
  pc = "done" /\ checking =>
    \A l \in Ledgers \ failed :
      \A i \in Required[l] : [ledger |-> l, index |-> i, whole |-> TRUE] \in ToSet(merged)

(* The same of runs none of which was killed and that all were given the    *)
(* option: neither a failing disk nor a second run hides a required         *)
(* transaction.                                                             *)
RequiredUnlessSpoilt == spoilt = {} => RequiredMerged

(* A run ends, by itself or by a crash: no retry, lock or full pool keeps   *)
(* the main thread waiting for ever.                                        *)
RunEnds == pc = "fetching" ~> pc \in {"done", "off"}
=============================================================================
