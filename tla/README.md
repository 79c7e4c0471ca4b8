# OpenRoute artifact: a verification project

The repository replays real trades of the XRP ledger (XRPL) on ten pairs of
XRP and an issued currency, one pair and window at a time (the names of the code,
`getsXRP` and `getsrUSD`, stay from the first). It fetches what a public server knows (boundary order books, AMM
states, trust lines, transaction metadata), rebuilds the exact order book that
every target transaction met, runs that transaction through a Python router
that imitates rippled's payment engine, compares, and then asks how much better
the transaction could have been split. This directory holds TLA+ models of its
stateful parts, the TLC runs that check them and proofs that the TLA+ proof
system checks.

## The system

| component | state | operations | talks to | hard behaviour | correct when |
|---|---|---|---|---|---|
| tx-level prebook replay (`rust/tx_prebook_replay/src/main.rs`) | both book sides as insertion-ordered maps, running owner funds, ledger / order-key / expected-index cursors | load a boundary, overlay a line's pre-images, annotate, sort, truncate, emit, apply the line's changes, stop with an error | reads the prebook, account-line and metadata files; writes snapshots for the fit | lines lost, late or repeated; funds known for some owners only; order within a quality; two kinds of truth (boundary, metadata) for one row | a snapshot is the book its transaction met, or there is no snapshot |
| metadata fetcher (`empirical_fetch_full_ledger_metadata.py`) | shard files, fail file, merged file; thread pool, pending list, `write_lock` | submit, call with retries, check required hashes, write a shard, report, merge, resume | writes the file the replay reads | threads, retries, crash part way through a write, disk errors, resume | the merged file is in (ledger, index) order and nothing is missing in silence |
| boundary prebook fetcher (`empirical_fetch_prebook_from_ledger_data.py`) | one record per ledger and side | page through `ledger_data`, stop early, sort by quality, cut | writes the prebook file | paging, order of equal qualities, what is cut | a record holds the best offers of its side in crossing order |
| account-lines, account-offers, tick-size fetchers | append files, pools | group, page, retry, append, resume | feed the replay, the fit and the optimizer | retry in the middle of paging, append cut short and appended to | what can be read is what the server had |
| book offers, book step, execution semantics (`book_offers.py`, `book_step.py`, `execution_semantics.py`) | a working book of segments with shared owner funds, a working pool, remaining input and output, traces | allocate funds, cross one quality or one slice of the pool per round, reverse then forward, commit, accept or refuse the result | called by the fit and the optimizer with a replayed book | many rounds on a mutable book; rounding; limits checked before commit; funds shared by rows; pool and book taking turns | never over budget, over limit, over an owner's funds |
| AMM (`amm.py`), amounts and qualities (`core/`) | pool reserves | quotes, swaps, rounding | book step, optimizer | square roots on bounded mantissas | the product of the reserves never falls |
| transaction intents (`tx_intent.py`) | none | transaction to intent | fit | flag combinations, what the source can pay | the intent is what the transaction asked for |
| fit of single transactions (`empirical_fit_single_direct.py`) | dictionaries per transaction | materialise a snapshot, run the router, build the legs of both sides, compare | all of the above | a snapshot that is wrong or silent about some offers; funds derived from metadata | a right router matches, a match is no coincidence |
| best-price optimizer (`empirical_best_price_intent_optimizer.py`) | contexts and candidates per transaction | quote parts of a split, locate the best split, carry out a window of splits, choose | router | a continuous optimum of integer splits; fees in one price and not in the other | what is claimed to be the best price is |
| multi-strand flow (`flow.py`) | sandboxes per strand | reverse, forward, apply the best strand | steps | sandbox discarded or applied | - (called by tests only) |
| drivers, builders, summaries | none | command lines, filters, tables | files | none | - |

The components run as separate processes and meet only through files: the
fetchers write, the replay and then the Python router read. Concurrency exists
inside the fetchers (thread pools); the replay and the router are sequential
state machines fed by a history they do not control.
`PROJECT.json` lists every component with its status, and every hazard at its
line.

## Modules

```
LedgerFeed <- TxPrebookReplay <- MCTxPrebookReplay            (constants of the runs)
                              <- TxPrebookReplay_proofs
PrebookOracle  <-INSTANCE-  TxPrebookReplay                    (refinement mapping)
MetadataFetch <- MCMetadataFetch
              <- MetadataFetch_proofs
PagedFetch    <- MCPagedFetch
              <- PagedFetch_proofs
Amounts <- BookOffers, AmmPool <- Crossing <- MCCrossing
Crossing, TxIntent <- SingleFit <- MCSingleFit
Crossing <- BestPrice <- MCBestPrice
Amounts <- Amounts_proofs                                      (rounding; sums)
Amounts_proofs <- BookOffers_proofs <- Crossing_proofs          (the pool included)
Crossing_proofs <- CrossingOrder_proofs, SingleFit_proofs
```

(`A <- B`: B EXTENDS A. Each `M_proofs` also EXTENDS `M`.) `BestPrice` and `SingleFit` run the router by the very
actions of `Crossing`: the fit runs them twice, once as the ledger and once as
the model, the optimizer once as the baseline and once for every quote.

### `LedgerFeed`: the ledger and the two input files (external)

The history behind the files: remaining amount of each offer, order of
placement within a directory, owners' funds; `LedgerTx` lets one transaction
place, fill or delete offers and change balances, `CloseLedger` opens the next
ledger and records the boundary. `LoseLine`, `HoldLine`/`LateLine` and
`TakeLine` (which may leave the line in place for a second read) are the
faults a file can have. The replay cannot influence the history, so the file
is generated one line ahead of the reader. Of these faults only "lost" can
come from this repository's own fetcher: `MetadataFetch` shows its merged file
sorted and free of repeats (`MergedSorted`).

A line is not arbitrary: `OfferMoves` lets an offer only shrink and an id be
placed once; `OwnersShow` says that a fill shows in the owner's own balance
node, which is how XRPL metadata is written.

### `TxPrebookReplay`: the replay

| TLA+ | main.rs |
|---|---|
| `state` (amount, insertion stamp, annotation per offer) | `state_getsxrp`, `state_getsrusd` (`IndexMap`s): a side is fixed by an offer's currencies, so both are one function |
| `running_funds` | `xrp_owner_funds_by_account`, `iou_owner_funds_by_key` |
| `BoundaryBook`, `SeededFunds` | boundary load and seeding at a new ledger |
| `Overlaid`, `WithRunningFunds`, `WithPrebalances`, `Normalised`, `SnapshotOf`, `Emitted` | `emit_snapshot` and its helpers, in the order of the calls |
| `WithChanges`, `WithPostFunds` | the changes of the line, after the emission |
| `SkipLine`, `StopOnLine`, `ReplayLine` | one pass of the line loop: out of range; the three errors in the order of their checks; the rest |

The variables `gap` and `doubt` of the feed and the fields `gap`, `doubt`, `pre`,
`post` of a line are history and metadata, never read by the guards of the replay
except through the values a metadata node reports. `doubt` is what a hole does to
the book: the offers that lines lost or held up touched and no line read since
did. `DamageIsLocal` says that a snapshot of the filtered mode is wrong about
these only. A line that is in the file twice doubts the offers it places
(`Again`): they are in the book already when it is read again.

### `PrebookOracle`: what the replay promises

An observer of the ledger that may look at a transaction only while it is the
newest, looks at each at most once and in order, says nothing about a ledger
once it has missed part of it, and answers with the book before the
transaction or not at all. `Oracle!Spec` is a property of `Replay_strict`:
`Waiting` maps the line at the head of the file to the transaction that can be
looked at, `Answer` maps the snapshot just emitted to the answer, and the
reader's cursor to `last`. A lost, late or repeated line maps to `Miss` or to a
stutter, an error to `GiveUp`.

### `MetadataFetch`: the fetcher of the metadata file

One action per point at which threads can interleave: a call fails or returns,
a thread takes `write_lock` and truncates its shard, the write ends or fails
part way, a failure is appended to the fail file, the main thread collects
finished futures and refills the pool, the merge goes shard by shard. `Crash`
kills the process at any of these points, leaving any prefix of what was being
written, the last line possibly cut; `Start` resumes. Disk errors of the shard
write are modelled; those of the fail file and of the merged file are not.
`spoilt` is a history variable: the shards a killed run or a run without the
check of required hashes may have left incomplete.

### `PagedFetch`: the four scripts that page

`empirical_fetch_account_lines_snapshots.py`,
`empirical_fetch_account_offers_snapshots.py`,
`empirical_fetch_offer_tick_sizes.py` and
`empirical_fetch_prebook_from_ledger_data.py` (the boundary prebook) are one
state machine with a `script` that says which: threads call page after page
with retries, and what a job gathered is written as one or more *parts* (a
currency, a list of offers, a tick size, a side of a ledger). The guards and
the functions `Due`, `Taken`, `ValueOf`, `FileOf` hold what the scripts differ
in. The first two append and resume from what is on disk, the tick sizes are
written when every issuer has answered, the prebook starts its two files
afresh and may stop a scan early (`--stop-getsxrp-at`).

A crash or a full disk may cut a line. The files of the appending scripts
therefore have lines that are whole, complete but without their newline, cut,
or *spoiled*: a later append became part of a line that had not ended, and
then neither can be read.

### `BookOffers`: from a snapshot to rows

`AllocateRow` is one pass of the second loop of `build_clob_segments_from_offers`:
the best offer left (`Leads`) becomes a row as large as its funded amount and
its owner's funds allow, and the funds it needs are taken off `purse`
(`account_remaining`). `residual` holds the book-visible rows that an
OfferCreate keeps beside the executable ones.

### `Amounts`, `AmmPool`: quanta, rates, and one pool

Amounts are whole quanta and a quality is a rational rate, lower is better.
The 16-digit decimals of the code are replaced by exact products with the
rounding direction the code asks for (`RoundUp`, `RoundDown`); that is the same
wherever the amounts have fewer than 16 digits.

`AmmPool` gives the quotes of a pool of constant product: `SwapIn` and
`SwapOut` (`swap_in_given_out_st` and `swap_out_given_in_st` with their rounding
against the taker), `SliceAgainst` (the slice that leaves the spot price at the quality of
the book), `SliceFor` (at a limit), `MaxSlice`. The code finds the size of a
slice by the root of a quadratic equation; the model characterises it as the
largest number of quanta for which the equation's inequality holds and rounds as
the code does, on the side that `StartOut` (the output is XRP) chooses.

### `Crossing`: one transaction against the book and the pool

EXTENDS `BookOffers` and `AmmPool`: the flow begins when every offer is
allocated.

| TLA+ | code |
|---|---|
| `SendMax`, `Budget`, `Target`, `LimitRate`, `TooDear` | the parameters `execute_single_path_intent` computes for payments, sells and buys |
| `tiers`, `pool`, `remainingOut`, `remainingIn`, `rounds`, `poolRounds`, `total`, `trace`, `poolTrace` | the variables of `run_payment_constrained_quote`, `poolRounds` being `amm_iters` against `MaxPoolRounds` = `MAX_AMM_FLOW_ITERS` |
| `BeginRound`, `StopFlow`, `RunForward`, `RunFallback`, `CommitRound`, `EndFlow` | its loop: the tests before a round, the reverse pass, the forward pass if SendMax binds, the forward pass after a dry reverse pass, the limit, the commit |
| `PoolIsTip`, `LimitOut`, `PromisesEnough` | the cap of an offer crossing's output and its estimate of a round's quality |
| `PoolSlice` = `SliceAlone` or `SliceBeside` | `_competing_amm_segment`: what the pool offers where the book has nothing, and where it has a best offer |
| `PassWith`, `ExactOut`, `UnderBudget` | `_amm_take_exact_out_with_rate`, `_amm_take_under_budget`: a pass takes a slice or goes on to the book |
| `ahead`, `takes`, `deleted`, `filled`, `want`, `poolTake` | the locals of one pass of `BookStep` |
| `Candidates`, `LeadingOwn`, `Blocked` | `_execute_one_iteration` before it consumes |
| `DeleteOwn`, `TakeReverse`, `TakeForward` | one row of `_consume_clob_exact_out` / `_consume_clob_exact_in` |
| `Consumed`, `Replaced` | `_consume_clob_slices_inplace` |
| `Settle` | the verdict, an exception of the code being `"rejected"` |

What is simplified: book-visible rows matter only where the code asks what the
book shows; a fee that does not apply because the transaction's account is the
issuer is an `InFee` or `OutFee` of parity; the limit of a passive offer, one
encoded unit better, is "strictly better". `deliver` of a payment is the
amount on the book's side of the endpoint fee. The relative tolerance of 1e-7
in comparisons of qualities is an equality, which is the same for the rates of
the small amounts considered.

### `TxIntent`: from a transaction to an intent

`Accepted`, `IntentOf`, `SourceCap`: the cases of
`build_intent_from_metadata_result`, the flags, the pair, the endpoint fee, the
spendable balance before the transaction out of the metadata after it (for XRP
with the reserve, the fee and a ticket), and the tick size of an OfferCreate.

### `SingleFit`: the fit of one transaction

In the stage `ledger` the ledger (external) crosses the book by the rules of
`Crossing`, and notes in `Metadata` what a ledger notes: the fields of touched
offers before and after, trust lines, pool, offers deleted without a fill.
`Prepare` then chooses a snapshot that is wrong in up to `MaxFaults` places (a
row stale or missing, the note of an owner's funds stale or missing, an
`account_offers` list that has each offer as it was, older, or not at all), that
has funded amounts of its own or none (`OwnFunded`, the `taker_gets_funded` of
`book_offers`), and with the tick size or without. It materialises the book
as `_materialize_snapshot_book_offers` does (`MaterialRow`: overlay of the
pre-images, cancelled and dropped offers, funded amounts, the cap of
`account_offers` before the row's own; `RowFunds`: the funds the metadata imply,
else those of the row) and starts the router on it. Rows of one owner with
different funds end the fit (`Ambiguous`, an exception of `_collect_owner_funds`).
`Compare` builds the legs of both trades and classifies.

The list is handed out as `_build_external_funded_caps_for_snapshot` does
(`FundsLeft`, `PassedOver`, `ExternalCap`): from the funds of the first row that
has any (a row appended from metadata has none, `Noted`), by sequence number, each
listed offer using up what it is funded with, whether the book has it or not. But
an offer with less left in the book than the list would fund is passed over (line
791): it uses up nothing and stays without a cap.

`sound` says that what the snapshot has wrong is about offers or owners for
which the metadata speaks; nothing can be promised otherwise. `LeftDust` marks
the one known exception of the legs: an offer deleted with something left on
one side counts that as traded.

### `BestPrice`: the split between pool and book

Stages: `baseline` (the router as the transaction was), `quotes` (a run on one
source for each part of each split), `choose`, `done`. `Anchors` is the search
of `_fixed_input_structural_anchor` and `_fixed_output_structural_anchor`:
stretches of splits in which the book's share ends in one row, clipped to the
feasible domain, the first in which the pool's marginal price meets the row's.
`Around` is the window, `MostOutput` and `LeastInput` the choices. The
optimizer quotes the splits of the window only; the model quotes all of them,
which is what the claim of the best price is measured against. Payments and
OfferCreates are optimised on both sides, as with
`--layer1-measurement-policy both`: a part of the output of an OfferCreate is
bought by a flow of the same mode, limit and budget (`QuoteIntent`).
`--max-clob-segments` is at least the size of the book.

That the router's own split is not the best one is what the repository measures.
`OnlyTheFeeIsLost` says how far from it: a slice is sized to leave the spot price,
without the fee, at the price of the row beside it (`amm.py:886`), where the best
split balances prices with the fee, and each slice pays its fee into the pool that
the next one meets. Both are paid for out of the fee on what was bought of the
pool; no other split of the same input buys more than that on top.

## Runs

No symmetry is used. Every bound is a CONSTANT of the `.cfg` or a definition of
the MC module.

| run | bounds | asks |
|---|---|---|
| `Replay_strict` | 3 offers of one quality (two of one owner on one side, one of them in the book at the start), amounts up to 2, funds up to 1, 2 ledgers of 2 transactions, each with one offer and its owner's node or one node of another owner, all of them targets, all four faults | is every snapshot the book its transaction met, in crossing order, with funds that were true before it, or is there none; does the replay implement `PrebookOracle`? |
| `Replay_filtered` | not strict, up to 3 transactions in a ledger, targets or not, with one offer or one other node each, lines lost and repeated, annotated prebook, three offers on one side with `--max-offers-per-side 2`, window from ledger 2 on | what is a snapshot behind a hole wrong about; does truncation keep the best? |
| `Replay_key_order` | prebook in object order | violation, see Findings |
| `Fetch_faults` | ledgers with 2, 1 and 0 transactions, 2 workers, 1 retry, 2 starts, crash and disk faults, required hashes checked or not | is the merged file sorted and are finished shards kept, is everything that is missing named, does every run end? |
| `Fetch_resume` | two ledgers, crash, 2 starts | violation, see Findings |
| `Paged_faults` | all four scripts, 3 jobs with answers of one and two pages, 2 workers (1 for account offers), 1 retry, limit 2, early stop or none, 2 starts, crash and disk faults, one write cut | can only what the server had be read, is the loss bounded by the cuts, are the best offers of a side kept, does every run end? |
| `Cross_limits` | 3 offers of 2 accounts, one of them the source, three qualities, sizes 1 and 3, fees of 3/2 on both sides, 2 rounds, no pool | do shares of funds, limit, funds, accounts and book order hold over all rounds? |
| `Cross_amm` | 2 offers beside one of three pools (better than, among, worse than the offers), fee 3/2, pool fee 1/100, 3 rounds, 2 of them of the pool | do budget and accounts hold with slices of the pool, is the pool paid? |
| `Cross_fallback` | the same with 30 rounds and plain offers | violation, see Findings |
| `Fit_pool` | 2 offers of three qualities and sizes 2 and 4, the same pools or none, 12 transactions of all flags, XRP paid for a currency with a fee of 3/2, one wrong place in the snapshot (a list of `account_offers` counts as one), funded amounts and tick size there or not | does a right router match whenever it should, is a match a match, does the trade stay within the funds that are handed out? |
| `Best_split` | 2 offers of three qualities and sizes 4, 9, 14, four pools (the largest 200 and 300) with a fee of 1/10 or none, 25 or 150 quanta of input, window 1, no transfer fee | is the split that the certificate names the best of all, and is no split better than the router's own by more than the fee of the pool? |
| `Best_fee` | the same with a transfer fee of 3/2 on the input | violation, see Findings |

Why these bounds are enough: the replay compares a line with one other line
(the last) and one boundary, so two ledgers and two transactions
reach every relation between them; an owner's rows interact pairwise, so two
offers of one owner and one of another reach them; amounts only matter as
absent, unchanged, reduced. In `Replay_strict` the second offer of a quality is
placed behind the first, and each is then filled, deleted and, with a new ledger,
inserted again; transactions with several offers are left to the theorems. The fetchers' threads meet at one lock and one
pool: two workers and three jobs give a full pool with one job waiting,
and two starts give one resume. In the crossing three offers over two or
three qualities give a bucket of two rows and a bucket behind it, own and foreign
rows in each order, and a row taken in part in one round and again in the
next; with rates 1/2 and 3/2 and fees of 3/2 every rounding goes both ways.
`MaxRounds` (1000 in the code) is 2 there, so that books of three qualities meet
the cap, and `MaxPoolRounds` (30) is 2 in `Cross_amm`, so that the pool is
given up before the flow ends. `Ceiling` stands for the 10^17 drops (or the
largest IOU) a sell may deliver: it only has to be more than any book holds.
In `Best_split` the amounts are large enough for each of the anchor's cases: a
crossing inside the first or the second row, a pool that never meets the book
and one that is dearer from the start. The theorems below lift the bounds of
the replay, of the metadata fetcher, of the allocation and, where they state a
property of it, of the crossing.

`CHECK_DEADLOCK FALSE` is used throughout because all of these programs end.

Fairness: `MetadataFetch` and `PagedFetch` assume weak fairness of the main
thread and of the thread of every job. Each request has a timeout and the
retries are bounded, so a call always ends; `write_lock` is held for one write
and each task takes it at most twice, so a waiting thread gets it. Crashes and
starts are not fair. The replay and the router have no liveness property and
no fairness: that the router's loop ends is the invariant `RoundsSuffice`.

## Proofs

`TxPrebookReplay_proofs` proves, for all values of the constants that the
ASSUMEs allow, every property of the passing replay runs. `TypeCorrect` needs
nothing else. `DamageConfined` (`DamageIsLocal`) holds in every mode: `LocalInv`
says that outside `doubt` the book of the reader is the ledger's once it has
loaded the open ledger, and `FeedInv` what a line waiting, held or shown again
says of the ledger around it. The others rest on `StrictInv`. The snapshot's correctness is
not inductive alone: that a snapshot equals the pre-state needs that the book
held *before* the line was the ledger's, which needs that the reader is either
in step with the ledger (`ReaderInStep`) or at a boundary that is
(`OpensAtBoundary`), which needs that the line waiting is the newest one or
is flagged as behind a gap (`LineInPlace`, `ReaderBehind`) and describes
exactly the difference between `pre` and `post` (`LineFrame`). The order of
equal qualities needs `WellPlaced`: places in a directory are unique and only
grow. Each conjunct is proved over each action; the theorems about strict mode
assume `Strict`, `OrderKept` assumes `DirectoryOrdered` and is false without
it (finding 1). `ReplayInStep` (a strict reader that has read all of the open
ledger has the ledger's book and balances) is proved without a run of its own.

The refinement is the last part of the module, `ReplayImplementsOracle`: in strict mode, with the
whole book emitted, every behaviour of the replay is one of the observer. The
step simulation uses `StrictInv` for the content of an answer and one more
invariant, `Counted` (ledgers are numbered from 1, so that no transaction is
earlier than the cursor's start); it has one step per action of the replay and
of the feed, each mapped to one action of the observer or a stutter.

`MetadataFetch_proofs` proves every safety property of `Fetch_faults` for all
lists of ledgers, pool sizes, retries and starts. `FetchInv` adds to the types:
where a ledger is (`QueueInv`: in the queue, in the pool or neither, so a
collected future never meets a second one of its ledger); that a shard about to
be written is empty and every shard in order (`ShardInv`), which is what
`ShardsKept` needs of a resume; that what is merged lies before what is left
(`MergeInv`); and that a ledger neither waiting nor named as failed has exactly
its accepted rows on disk (`SettledInv`). That `InOrder` is defined at all, that
every finite set of numbers can be put in order, is `OrderExists`.

`Amounts_proofs` has the arithmetic: what rounding up and down bounds, that both
are monotone, that a fee taken off and put on again never exceeds the amount
(`FeeRoundTrip`), that parts rounded down add up to no more than the whole
rounded down (`RoundDownParts`); and that a sum over a finite set does not
depend on the order in which its summands are chosen, by induction on a family
of subsets (`AllSubsets`).

`BookOffers_proofs` proves `SharesDisjoint` and `CutOnlyByBetter` for every
book, funds and fee. The first rests on `FeeRoundTrip`: the clamp at zero in the
code is never used. Its invariant adds that rows come out in book order
(`InBookOrder`) and that an owner's purse lies below the share of each of its
rows (`PurseBelow`); without the latter nothing relates a new row to the old
ones. The second needs that purse and gifts of an owner add up to its funds
(`PurseCovers`), so that the purse of the next offer is what the better ones
have spared. `AllocationTypeCorrect` is the type invariant.

`Crossing_proofs` first shows that whatever way a slice is sized, cut and
rounded, the pool is paid for it (`PaidSlice`). It then proves of `CrossingInv`, for every book, pool, fee and
transaction: `TypeOK`, `TraceAccounts`, `PoolPaid`, `StaysFunded`, `FundsKept`
and the first part of `BudgetKept` (`NeverOverspends`); and that the book side is
a run of `BookOffers` (`CrossingRefinesAllocation`), so that `SharesDisjoint` and
`CutOnlyByBetter` hold while the rows are crossed. A commit is only as right as
what the pass has found, hence `PassInv`: takes lie within their rows, add up to
`filled`, a slice is one the pool is paid for, and a forward pass stays within
what is left. `TraceInv` and `BudgetInv` say the same of the committed rounds.
`FundsKept` follows from `PurseCovers` (an owner's rows give no more than its
funds) and `RoundDownParts` (a row taken in parts gives no more than at once).
`PoolNotOverdrawn` proves `PoolKeepsRank`: however a slice was found, from the
input or the output, cut, reduced or bound by the budget, it asks no less than
the curve (`Fair`), so a part of a slice moves the price no further than the
whole, and the whole was sized to stop at the offer it was preferred to. The
exception is a pool that is better, taken as a whole, than that offer
(`WholeBetter`). `RankInv` carries this from the choice of the slice through the
passes. The proof corrected the property: the exception compared the offer with
the slice taken, and of the largest slice a small part, its input rounded up to
one quantum, may cost more than the offer (a pool of 1 and 10, no fee, a row at
28/25, 7 wanted).
`LimitNeverExceeded` proves `LimitKept` where there is no pool. A fallback is not
held against the limit, so the invariant `LimitInv` says that without a pool a
round dry in reverse is dry in its fallback; finding 3 is what happens with one.

`CrossingOrder_proofs` proves what a flow as a whole does to the book, again for
every book and transaction, in six parts. Its invariants start from any state
in which a flow may begin (`Ready`), so they hold of both flows of `SingleFit` too.

- `BetterOffersFirst` (`BetterOfferFirst`, with or without a pool): nothing is
  taken while a better offer that could be crossed is still affordable.
  `VisitInv` says where a pass is: it goes through the candidates in order, and
  what it has passed over is an own offer, which it deletes, or one that the
  rest of the input buys nothing of.
- `RoundsBounded` (`RoundsSuffice`, for payments beside any pool and for every
  transaction without one, `Unadjusted`): a round uses up the quality it took
  from, whatever rounding has left of its rows (`UsedUp`), so no later round
  comes back to it (`RoundInv`), and the rounds are no more than the qualities
  and the rounds that drew on the pool. What a round wants is what is left of
  the target (`WantedInv`); only for an offer crossing beside a pool may it be
  less, cut by the limit, and such a round may leave some of a quality behind.
- `OffersTakenOnce` and `OffersNotExceeded` (under `Unadjusted` too): no round
  comes back to an offer either, though what rounding leaves of one stays in the
  book (`_consume_clob_slices_inplace`). So an offer gives and gets no more than
  it said, over all rounds, and its owner is charged the fee of the whole,
  rounded once (`WithinOffers`); `OnceInv` says that a quality not taken from
  keeps its rows as the book had them.
- `OwnersGetTheirAsk` (`AskKept`): `ShareInv` says that what is left of a row
  asks no less than its share of the row, `PaidInv` that what was taken of it
  was paid. Needs the amendment (`FixReduced`) and offers that ask no more than
  their own quality does (`AskedAtQuality`); TLC refutes it without either.
- `CompleteSellsAreSoldOut` (`SoldOut`): the verdict compares what is left of
  the budget with prices of *before* the flow. That these stand for the prices
  after it needs that the price of the pool only rises (`PoolGrown`) and that
  of a row stays what its quality and its size make it (`ShareInv`, hence
  `AskedAtQuality` here too).
- `NeverOverdelivers` (both parts of `BudgetKept`, beside a pool too): the
  forward pass of a round finds no more than the reverse pass before it. The
  invariant `OutInv` keeps what the reverse pass took as the history of the
  forward pass (`Follows`): until the forward pass runs short it takes the same
  of each row, and where it does what it has left pays for no more than the
  reverse pass took there (`BuysNoMore`). It may then skip rows that the rest
  of the input buys nothing of, and still find, by rounding, one quantum in a
  later one; `Crumb` says that it is one, that it takes the whole rest, and that
  it was still wanted. That needs rows that ask no less than their quality
  rounded down (`PricedAtQuality`, kept by what is left of a row: `NearInv`);
  TLC finds a flow that passes its target in a book where an offer asks less.
  It also needs one fee for all that is crossed (`OneFee`): an own offer at the
  very limit of a passive transaction would be crossed without one. Beside a
  pool `Drawn` and `Beside` say what the forward pass starts from: the input
  left asks the pool for no more than the reverse pass took (`LessForward`), and
  if it buys nothing of the pool it buys nothing of the rows behind it either
  (`DryForward`). That needs that no candidate lies behind the limit the pool's
  slice is sized by (`FloorIsLimit`: no pool, no `fixAMMv1_1`, or nothing
  passive). Without it there is a passive buy (a pool of 1000 and 2, a limit of
  5013/10, one quantum wanted) where the pool, dry in the forward pass, leaves the
  whole of a row at the limit to be taken.

`PagedFetch_proofs` proves every safety property of `Paged_faults` for all
accounts, pages, faults and pool sizes. `PagedInv` has the types and the jobs.
The rest goes by what a job holds halfway: the items of the first pages, or of
all of them with the last one gathered again after a failed write
(`GatherInv`). A trust line on a page gathered twice is found twice, which the
script refuses, so nothing wrong is picked (`OneMatch`), and every line that can
be read is right (`LinesRight`, `TicksRight`). `LossIsBounded` is an account: a write that is cut
leaves a file open, the next write to it spoils one more line (`Damage`), and
what is neither on a line nor still to be written by a job (`Adrift`) is at most two
parts for each such write. `RunEnds` is liveness and stays with TLC.

`SingleFit_proofs` proves `TradeWithinNoted` (`ListedFundsKept`), for any number
of faults of snapshot and list: where `account_offers` is used, whatever rounds
the router takes, all it takes of an owner is at most the funds that were handed
out and the amounts of the rows left without a cap, or what the metadata says the
owner had. Of any set of an owner's capped offers the one placed last gets at most
what the others leave of the funds, since what is listed in between, unless it was
passed over, has used its part (`PromisesFit`); that needs that an account uses a
sequence number once (`OwnSequences`). `NotedInv` carries the caps from `Prepare`
into the rows (`RowsPromised`) and `TakenOfRow` from there to the trace of all
rounds; sums over offers become sums over their places in the book by `SumPlaced`.
Like the next theorem it assumes `OfferPerTrade`.

`StrictIsNoCoincidence` proves `StrictMeansSameTrade`: for any books, funds and
transactions, and whatever the snapshot has wrong, a strict match means that the
router took from each offer, and from the pool, what the ledger took (unless a
deleted offer had something left on one side, `LeftDust`). `StrictInv` carries the ledger's flow as a `FlowInv`
to its end, then says that the metadata in `meta` is of that flow (`Recorded`),
that the book put together is one the parser takes (`MaterialBook`), hence the
router's run a flow again, and what the verdict compared. The match itself
compares sums and lines of the metadata, in which offers without a change do not
appear and an offer's give is a difference of its owner's funds. That it still
tells every offer's take needs that each offer was taken from once at most, so
that its give is the one its output asks for (`OnceInv`, `GivesApart`), and that a
pool that gives nothing gets nothing (`PoolPairs`). Hence the hypothesis
`OfferPerTrade`: every transaction pays, or there is no pool. Amounts of
transactions are positive where the ledger wants them to be (`TxAssumption`).

Only model-checked: `RoundsSuffice` and `StrictMeansSameTrade` for offer
crossings beside a pool; `RightRouterMatches`, which says that two flows of the
same inputs end alike (each is determined by its inputs, but one ends before the
other begins, and the final state is a recursion over rounds and rows); the
properties of `BestPrice`, which compare sums over all splits of the input; and
all liveness, which the prover cannot do. `LimitKept` is false beside a pool (finding 3).

## Findings

1. `Replay_key_order`: the boundary fetcher reads offers in ledger-object
   order and sorts them by quality only (`empirical_fetch_prebook_from_ledger_data.py:254`),
   so equal qualities are emitted in key order, where the comment at
   `main.rs:1852` wants directory order.
2. `Fetch_resume`: any non-empty shard counts as done
   (`empirical_fetch_full_ledger_metadata.py:225`), so a shard cut short by a
   crash is never checked again, where the help text of `--required-tx-csv`
   (line 50) says each fetched ledger must contain all expected hashes.
3. `Cross_fallback`: a round that is dry in reverse is run forward without the
   cap on its output and without the test of its result against the limit
   (`execution_semantics.py:935`), so a sell can take a slice of the pool that
   is as a whole beyond its limit; the comment at `book_step.py:2077` leaves
   the enforcement to the cap.
4. `Best_fee`: on the output side the optimizer compares the pool's price with
   the transfer fee (`empirical_best_price_intent_optimizer.py:1897`) to the
   book's without it (line 1851), so with a fee the anchor misses the optimum
   that the docstring at line 2079 promises. With the fee in the cost of
   `OutputStretches` the property holds in the whole of the run. (`AnchorsAreBest`
   is checked without a fee: what is charged for the fee is rounded as well, and
   at a price of half a quantum that costs two quanta of output.)

Met on the way, not findings of a run:

- `main.rs:1258`: for a trust line that the transaction creates the
  pre-balance falls back to `NewFields`, a value from after the transaction;
  `FundsAreEarlier` excepts such lines.
- `book_step.py:1884`: the ordinary forward call does not pass
  `fix_reduced_offers_v2_enabled`, so before that amendment it still rounds
  the output down, where the comment at line 889 says up.
- `book_step.py:540`: the floor of the candidates lies one encoded unit behind
  the limit and the own-offer test does not.
- `execution_semantics.py:1331`: an order to fill or kill that sells is
  measured against an amount the source's funds have already cut.
- The fit appends touched offers that the snapshot misses at the end of the
  book: exact only if no offer of the same quality follows, which `Sound` says.
- `empirical_fit_single_direct.py:791`: an owner's offer with less left in the book
  than the list would fund is skipped before the funds it needs are taken off,
  while `owner_funds` is stripped from all rows of the owner. It then counts as
  fully funded and the later offers are given its funds too, where the help text
  of `--account-offers-snapshots` (line 70) speaks of "cross-book owner-funds
  occupancy". Only funds derived from metadata bound it again; `TradeWithinNoted`
  allows for such rows. The caps also leave out the owner's transfer fee.
- The optimizer's `exact_discrete_best_price` can be beaten by one quantum
  outside the window; its properties allow one. Under a limit that is nearly
  reached rounding may fail every split of the window, so both are stated for a
  limit that not even the whole budget for one quantum would fail (`Unlimited`).
- `flow.py:100` compares strands with the limit through a rate whose order is
  the reverse of quality; no script calls it.

## Plan

Done: the replay with its proofs and its abstract specification; the five
fetchers, the metadata fetcher with its proofs; the allocation and the crossing
with book and pool with their proofs; the paged fetchers with theirs; intents; the fit of one transaction; the
optimizer of one transaction.

Left, by weight:

1. Proofs: that a right router matches (`RightRouterMatches`), and the optimizer
   (`BestPrice`).
2. An abstract promise of a transaction (a budget, a target, a limit, funds
   that only go down) and `Crossing` shown to implement it.
3. The router's preview (`RouterQuoteView`) against an execution.

## Not modelled

- `flow.py`: strands and sandboxes are exercised by tests only; the scripts run
  single paths through `run_payment_constrained_quote`.
- The numbers below a quantum: mantissas of 16 and 19 digits, encoded qualities,
  guard digits and the float shadow of the reserves. Qualities that differ by
  one unit in the last place of an encoding are not told apart.
- In the optimizer: books longer than `--max-clob-segments`, the choice of
  targets, the decompositions of a gain.
- In the fit: statistics over many transactions, relative errors, the roles of
  predictions, the files they go to.
- The summaries and tables: sequential reporting over finished results.
- Target selection, window building, the pipeline drivers, dataset assembly
  and pair configuration: filters, command lines and file copies without state
  of their own.
- Parsing, number formats, progress output and debug records everywhere; rate
  limiters and backoff times of the fetchers; failures of their fail files and
  of the merged file.
