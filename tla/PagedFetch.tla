----------------------------- MODULE PagedFetch -----------------------------
(***************************************************************************)
(* The scripts that ask a server page by page: account lines and account   *)
(* offers (threads that append to one file, resumed from it), tick sizes   *)
(* (threads, all files written at the end) and the boundary prebook (one   *)
(* thread, two files, begun afresh by every run).  A job is one RPC group, *)
(* and what it writes are its parts: a currency, a list of offers, a side. *)
(***************************************************************************)
EXTENDS Naturals, FiniteSets, Sequences, SequencesExt

CONSTANTS
  Scripts,    \* those considered of "lines", "offers", "ticks" and "prebook"
  Jobs,       \* numbered in the order of the pending list
  Pages,      \* Pages[s][j]: the pages of the answer to job j of script s
  Parts,      \* Parts[s][j]: what the script writes of it, in order
  LedgerOf,   \* the ledger of a tick-size job
  Workers,    \* --workers of each script; the prebook has one thread
  Retries,    \* --retries
  Limit,      \* --limit of the prebook, 0 for none
  Stops,      \* the choices of --stop-getsxrp-at, 0 for none
  Faults,     \* which of "crash" and "disk" may happen
  MaxRuns,    \* bound: how often the operator starts the program
  MaxBreaks   \* bound: how many writes are cut

\* All that is on some page of the answer.
Answers(s, j) == UNION {ToSet(Pages[s][j][n]) : n \in DOMAIN Pages[s][j]}

ASSUME PagedAssumption ==
  /\ Jobs \subseteq Nat /\ IsFiniteSet(Jobs)
  /\ Scripts \subseteq {"lines", "offers", "ticks", "prebook"}
  /\ \A s \in Scripts, j \in Jobs :
       /\ Pages[s][j] \in Seq(Seq(Answers(s, j))) /\ Len(Pages[s][j]) > 0
       /\ Parts[s][j] \in Seq(ToSet(Parts[s][j]))
       /\ s = "prebook" => \A x \in Answers(s, j) : x.rate \in Nat
  /\ Workers \in [Scripts -> Nat \ {0}] /\ Retries \in Nat /\ Limit \in Nat /\ MaxRuns \in Nat /\ MaxBreaks \in Nat
  /\ Stops \subseteq Nat /\ Faults \subseteq {"crash", "disk"}

VARIABLES
  script, stopAt,
  \* files
  ok,         \* the lines of each file of results
  failed,     \* parts named in the fail file
  ticks,      \* the tick-size file of each ledger: the jobs it has answers of
  \* the process
  pc,         \* "off", "fetching", "writing" or "done"
  phase,      \* of each job
  page,       \* the page it asks for
  attempt,    \* calls of this page that failed
  items,      \* what it has gathered
  parts,      \* what it is to write in this run
  left,       \* of these, what it has still to write
  answered,   \* mapping: tick-size jobs that have an answer
  runs,
  \* history
  breaks,     \* how often a write was cut
  rewritten   \* jobs that asked again because a write failed

files   == <<ok, failed, ticks>>
threads == <<phase, page, attempt, items, parts, left, answered>>
history == <<breaks, rewritten>>
vars    == <<script, stopAt, files, pc, threads, runs, history>>

Phases == {"idle", "todo", "queued", "calling", "storing", "reporting", "finished"}

Files == {"ok", "second"}

-----------------------------------------------------------------------------
(* Sequences *)

\* The positions K, put into an order of them.
Ranked(K, order) ==
  CHOOSE f \in SetToSeqs(K) : \A m, n \in DOMAIN f : m < n => <<f[m], f[n]>> \in order

\* The members of s at these positions, in that order.
Arranged(s, K, order) ==
  LET f == Ranked(K, order) IN [n \in DOMAIN f |-> s[f[n]]]

\* Those at K as they come.
Those(s, K) == Arranged(s, K, {r \in K \X K : r[1] < r[2]})

-----------------------------------------------------------------------------
(* Files *)

\* A line may be readable but lack its newline, or be cut; what is appended to
\* such a line becomes part of it, and then nobody can read either.
Ends == {"whole", "unended", "cut", "spoiled"}

TickLedgers == {LedgerOf[j] : j \in Jobs}

Readable(line) == line.end \in {"whole", "unended"}

Open(file) == file # <<>> /\ Last(file).end \in {"unended", "cut"}

Appended(file, line) ==
  IF Open(file)
  THEN [file EXCEPT ![Len(file)].end = IF line.end = "whole" THEN "spoiled" ELSE "cut"]
  ELSE Append(file, line)

NoFile == [state |-> "none", jobs |-> {}]

\* The prebook script has a file for each side.
FileOf(part) == IF part = "getsrUSD" THEN "second" ELSE "ok"

Written(j, part) ==
  \E k \in DOMAIN ok[FileOf(part)] :
    LET line == ok[FileOf(part)][k]
    IN  Readable(line) /\ line.job = j /\ line.part = part

\* Mutant of Pending: a group is done when any part of it is.
PendingGroups(j) ==
  IF \E k \in DOMAIN Parts[script][j] : Written(j, Parts[script][j][k]) THEN <<>>
  ELSE Parts[script][j]

\* _load_done_keys, _group_pending_targets
Pending(j) ==
  LET all == Parts[script][j] IN Those(all, {k \in DOMAIN all : ~Written(j, all[k])})

\* Only the scripts that append look at what is there.
Due(j) == IF script \in {"lines", "offers"} THEN Pending(j) ELSE Parts[script][j]

-----------------------------------------------------------------------------
(* Answers *)

Before(x, y) == x.rate < y.rate

InOrder(s, k, l) == Before(s[k], s[l]) \/ (~Before(s[l], s[k]) /\ k < l)

Sorted(s) ==
  Arranged(s, DOMAIN s, {r \in (DOMAIN s) \X (DOMAIN s) : InOrder(s, r[1], r[2])})

Kept(s) == IF Limit > 0 /\ Limit < Len(s) THEN SubSeq(s, 1, Limit) ELSE s

OnSide(s, side) == Those(s, {k \in DOMAIN s : s[k].side = side})

\* Mutant of Side: the limit is applied before the sort.
SideAsScanned(s, side) == Sorted(Kept(OnSide(s, side)))

\* gather_offers_for_ledger: one side of a ledger, best first, cut to the limit
Side(s, side) == Kept(Sorted(OnSide(s, side)))

Enough(s) == stopAt > 0 /\ Len(OnSide(s, "getsXRP")) >= stopAt

\* A page of the prebook is left as soon as enough offers are found.
Taken(s, p) ==
  IF script # "prebook" THEN s \o p
  ELSE LET stops == {n \in 0 .. Len(p) : Enough(s \o SubSeq(p, 1, n))}
       IN  IF stops = {} THEN s \o p
           ELSE s \o SubSeq(p, 1, CHOOSE n \in stops : \A m \in stops : n <= m)

Matches(s, currency) == Those(s, {k \in DOMAIN s : s[k] = currency})

\* A part of the answer: a trust line or none, all offers, or one side.
ValueOf(part, s) ==
  CASE script = "lines"   -> Matches(s, part)
    [] script = "prebook" -> Side(s, part)
    [] OTHER              -> s

LastPage(j) == page[j] = Len(Pages[script][j])

-----------------------------------------------------------------------------
Init ==
  /\ script \in Scripts /\ stopAt \in IF script = "prebook" THEN Stops ELSE {0}
  /\ ok = [f \in Files |-> <<>>] /\ failed = {} /\ ticks = [l \in TickLedgers |-> NoFile]
  /\ pc = "off"
  /\ phase = [j \in Jobs |-> "idle"] /\ page = [j \in Jobs |-> 1]
  /\ attempt = [j \in Jobs |-> 0] /\ items = [j \in Jobs |-> <<>>]
  /\ parts = [j \in Jobs |-> <<>>] /\ left = parts /\ answered = {}
  /\ runs = 0 /\ breaks = 0 /\ rewritten = {}

-----------------------------------------------------------------------------
(* The pool: jobs wait in it for a thread, and the main thread hands it more *)

Threads == IF script = "prebook" THEN 1 ELSE Workers[script]

Window == IF script \in {"lines", "offers"} THEN 2 * Threads ELSE Cardinality(Jobs)

In(phases) == {j \in Jobs : phase[j] \in phases}

Busy == In({"calling", "storing", "reporting"})

\* The first n of a set of jobs.
FirstOf(S, n) == {j \in S : Cardinality({i \in S : i < j}) < n}

Start ==
  /\ pc \in {"off", "done"} /\ runs < MaxRuns
  /\ runs' = runs + 1 /\ pc' = "fetching"
  /\ ok' = IF script = "prebook" THEN [f \in Files |-> <<>>] ELSE ok
  /\ failed' = IF script = "prebook" THEN {} ELSE failed
  /\ LET due == {j \in Jobs : Due(j) # <<>>}
     IN  phase' = [j \in Jobs |-> IF j \in FirstOf(due, Window) THEN "queued"
                                  ELSE IF j \in due THEN "todo" ELSE "idle"]
  /\ parts' = [j \in Jobs |-> Due(j)] /\ left' = parts'
  /\ page' = [j \in Jobs |-> 1] /\ attempt' = [j \in Jobs |-> 0]
  /\ items' = [j \in Jobs |-> <<>>] /\ answered' = {}
  /\ UNCHANGED <<script, stopAt, ticks, history>>

Becomes(j, p) == phase' = [phase EXCEPT ![j] = p]

\* Mutant of HasRoom: one thread too many.
HasRoomForOneMore == Cardinality(Busy) <= Threads

HasRoom == Cardinality(Busy) < Threads

Take(j) ==
  /\ j \in FirstOf(In({"queued"}), 1) /\ HasRoom
  /\ Becomes(j, "calling")
  /\ UNCHANGED <<script, stopAt, files, pc, page, attempt, items, parts, left, answered, runs, history>>

\* Mutant of Fails: attempts are counted afresh once they are used up.
FailsForever(j) ==
  /\ attempt' = [attempt EXCEPT ![j] = IF @ < Retries THEN @ + 1 ELSE 0] /\ Becomes(j, "calling")
  /\ UNCHANGED <<page, items, answered>>

\* An error, of the call or of what is done with its answer, is tried again
\* from the same page, and then given up.
Fails(j) ==
  /\ IF attempt[j] < Retries
       THEN attempt' = [attempt EXCEPT ![j] = @ + 1] /\ Becomes(j, "calling")
       ELSE Becomes(j, IF script = "ticks" THEN "finished" ELSE "reporting") /\ UNCHANGED attempt
  /\ UNCHANGED <<page, items, answered>>

CallFails(j) ==
  /\ phase[j] = "calling" /\ Fails(j)
  /\ UNCHANGED <<script, stopAt, files, pc, parts, left, runs, history>>

\* Mutant of Gathered: a page takes the place of the one before.
LastGathered(j) == Taken(<<>>, Pages[script][j][page[j]])

Gathered(j) == Taken(items[j], Pages[script][j][page[j]])

CallReturns(j) ==
  /\ phase[j] = "calling"
  /\ items' = [items EXCEPT ![j] = Gathered(j)]
  /\ IF LastPage(j) \/ (script = "prebook" /\ Enough(Gathered(j)))
       THEN /\ Becomes(j, IF script = "ticks" THEN "finished" ELSE "storing")
            /\ answered' = IF script = "ticks" THEN answered \cup {j} ELSE answered
            /\ UNCHANGED <<page, attempt>>
       ELSE /\ page' = [page EXCEPT ![j] = @ + 1] /\ attempt' = [attempt EXCEPT ![j] = 0]
            /\ UNCHANGED <<phase, answered>>
  /\ UNCHANGED <<script, stopAt, files, pc, parts, left, runs, history>>

LineOf(j, end) ==
  [job |-> j, part |-> Head(left[j]), value |-> ValueOf(Head(left[j]), items[j]), end |-> end]

AppendTo(j, end) ==
  ok' = [ok EXCEPT ![FileOf(Head(left[j]))] = Appended(@, LineOf(j, end))]

\* A currency with two trust lines is an error, and tried again like one.
Ambiguous(j) == script = "lines" /\ Len(Matches(items[j], Head(left[j]))) > 1

Store(j) ==
  /\ phase[j] = "storing" /\ ~Ambiguous(j)
  /\ AppendTo(j, "whole")
  /\ left' = [left EXCEPT ![j] = Tail(@)]
  /\ IF Len(left[j]) = 1 THEN Becomes(j, "finished") ELSE UNCHANGED phase
  /\ UNCHANGED <<script, stopAt, failed, ticks, pc, page, attempt, items, parts, answered, runs, history>>

\* What was gathered is kept when the page is asked for again.
StoreFails(j) ==
  /\ phase[j] = "storing"
  /\ \/ Ambiguous(j) /\ UNCHANGED <<ok, breaks, rewritten>>
     \/ /\ ~Ambiguous(j) /\ "disk" \in Faults /\ breaks < MaxBreaks
        /\ \/ UNCHANGED ok
           \/ \E end \in {"unended", "cut"} : AppendTo(j, end)
        /\ breaks' = breaks + 1 /\ rewritten' = rewritten \cup {j}
  /\ IF script = "prebook"
       THEN Becomes(j, "reporting") /\ UNCHANGED <<page, attempt, items, answered>>
       ELSE Fails(j)
  /\ left' = [left EXCEPT ![j] = parts[j]]
  /\ UNCHANGED <<script, stopAt, failed, ticks, pc, parts, runs>>

Named(j) == {<<j, parts[j][k]>> : k \in DOMAIN parts[j]}

Report(j) ==
  /\ phase[j] = "reporting"
  /\ failed' = failed \cup Named(j)
  /\ Becomes(j, "finished")
  /\ UNCHANGED <<script, stopAt, ok, ticks, pc, page, attempt, items, parts, left, answered, runs, history>>

\* The locals of a job that is over are gone.
Ended(gone) ==
  /\ page' = [j \in Jobs |-> IF j \in gone THEN 1 ELSE page[j]]
  /\ attempt' = [j \in Jobs |-> IF j \in gone THEN 0 ELSE attempt[j]]
  /\ items' = [j \in Jobs |-> IF j \in gone THEN <<>> ELSE items[j]]
  /\ parts' = [j \in Jobs |-> IF j \in gone THEN <<>> ELSE parts[j]]
  /\ left' = [j \in Jobs |-> IF j \in gone THEN <<>> ELSE left[j]]

\* The main thread takes finished futures and submits as many jobs.
Collect ==
  /\ pc = "fetching"
  /\ LET ready == In({"finished"})
         next  == FirstOf(In({"todo"}), Cardinality(ready))
     IN  /\ ready # {}
         /\ phase' = [j \in Jobs |-> IF j \in ready THEN "idle"
                                     ELSE IF j \in next THEN "queued" ELSE phase[j]]
         /\ Ended(ready)
  /\ UNCHANGED <<script, stopAt, files, pc, answered, runs, history>>

\* Mutant of AllAnswered: a job that raised is left out of the mapping.
AnyAnswered == answered # {}

\* future.result() of a tick-size job that failed ends the program.
AllAnswered == answered = Jobs

FinishRun ==
  /\ pc = "fetching" /\ In(Phases \ {"idle", "todo"}) = {}
  /\ pc' = IF script = "ticks" /\ AllAnswered THEN "writing" ELSE "done"
  /\ UNCHANGED <<script, stopAt, files, threads, runs, history>>

TickFile(l) == [state |-> "whole", jobs |-> {j \in answered : LedgerOf[j] = l}]

Unwritten == {l \in TickLedgers : ticks[l] # TickFile(l)}

\* The tick-size files are written in ledger order.
WriteTicks ==
  /\ pc = "writing"
  /\ IF Unwritten = {} THEN pc' = "done" /\ UNCHANGED ticks
     ELSE /\ ticks' = [l \in TickLedgers |->
                         IF l \in FirstOf(Unwritten, 1) THEN TickFile(l) ELSE ticks[l]]
          /\ UNCHANGED pc
  /\ UNCHANGED <<script, stopAt, ok, failed, threads, runs, history>>

\* The process dies, and one write with it.
Crash ==
  /\ "crash" \in Faults /\ pc \in {"fetching", "writing"}
  /\ pc' = "off" /\ phase' = [j \in Jobs |-> "idle"]
  /\ \/ UNCHANGED <<ok, ticks, breaks>>
     \/ /\ \E j \in In({"storing"}), end \in {"unended", "cut"} :
             ~Ambiguous(j) /\ AppendTo(j, end)
        /\ breaks < MaxBreaks /\ breaks' = breaks + 1 /\ UNCHANGED ticks
     \/ /\ pc = "writing"
        /\ \E l \in FirstOf(Unwritten, 1) : ticks' = [ticks EXCEPT ![l].state = "cut"]
        /\ breaks < MaxBreaks /\ breaks' = breaks + 1 /\ UNCHANGED ok
  /\ Ended(Jobs) /\ answered' = {}
  /\ UNCHANGED <<script, stopAt, failed, runs, rewritten>>

Fetch(j) == CallFails(j) \/ CallReturns(j) \/ Store(j) \/ StoreFails(j) \/ Report(j)

Main == Collect \/ FinishRun \/ WriteTicks

Next == Start \/ Main \/ Crash \/ \E j \in Jobs : Take(j) \/ Fetch(j)

\* A request has a timeout, and a thread that is done takes the next job.
Fairness == WF_vars(Main) /\ \A j \in Jobs : WF_vars(Take(j)) /\ WF_vars(Fetch(j))

Spec == Init /\ [][Next]_vars /\ Fairness

-----------------------------------------------------------------------------
(* Properties *)

\* Types, the bound on the pool and on the calls of one page.
TypeOK ==
  /\ script \in Scripts /\ stopAt \in Nat
  /\ failed \subseteq UNION {Jobs \X ToSet(Parts[script][j]) : j \in Jobs}
  /\ pc \in {"off", "fetching", "writing", "done"}
  /\ phase \in [Jobs -> Phases] /\ Cardinality(Busy) <= Threads
  /\ \A j \in Jobs : page[j] \in DOMAIN Pages[script][j] /\ attempt[j] \in 0 .. Retries
  /\ answered \subseteq Jobs /\ rewritten \subseteq Jobs
  /\ runs \in 0 .. MaxRuns /\ breaks \in Nat
  /\ \A f \in Files : \A line \in ToSet(ok[f]) : line.end \in Ends

\* All that a script would gather of a job if nothing failed.
Whole(j) == Taken(<<>>, FlattenSeq(Pages[script][j]))

\* A line that can be read says what the server had, whatever calls failed, in
\* which order jobs ended and in which runs parts were written; only an account
\* whose write failed may have offers listed twice, as its last page was
\* gathered twice.  A tick-size file that is there has an answer for every
\* issuer of its ledger.
RecordsFaithful ==
  /\ \A f \in Files : \A line \in ToSet(ok[f]) : Readable(line) =>
       \/ line.value = ValueOf(line.part, Whole(line.job))
       \/ /\ script = "offers" /\ line.job \in rewritten
          /\ ToSet(line.value) = ToSet(Whole(line.job))
  /\ \A l \in TickLedgers : ticks[l].state = "whole" =>
       \A j \in Jobs : LedgerOf[j] = l => j \in ticks[l].jobs

\* A side of the prebook is in crossing order, and what the limit leaves out is
\* no better than anything it keeps, whichever page it was on.
KeepsBest ==
  \A f \in Files : \A line \in ToSet(ok[f]) : script = "prebook" /\ Readable(line) =>
    /\ \A k, l \in DOMAIN line.value : k < l => ~Before(line.value[l], line.value[k])
    /\ \A x \in ToSet(OnSide(Whole(line.job), line.part)) :
         \/ x \in ToSet(line.value)
         \/ Len(line.value) = Limit /\ \A y \in ToSet(line.value) : ~Before(x, y)

Missing == {t \in UNION {Jobs \X ToSet(Parts[script][j]) : j \in Jobs} :
              /\ t[2] \in ToSet(Parts[script][t[1]])
              /\ ~Written(t[1], t[2]) /\ t \notin failed}

Lost(file) == {k \in DOMAIN file : ~Readable(file[k])}

\* At the end of a run every part is in a file or named in the fail file, but
\* for two with each write that was ever cut: the line that lacks its end, and
\* the one appended to it.
LossIsBounded ==
  /\ Cardinality(Lost(ok["ok"])) + Cardinality(Lost(ok["second"])) <= breaks
  /\ pc = "done" /\ script # "ticks" => Cardinality(Missing) <= 2 * breaks

\* A run ends, by itself or by a crash: retries are bounded, and no job waits in
\* the pool for ever.
RunEnds == pc = "fetching" ~> pc # "fetching"
=============================================================================
