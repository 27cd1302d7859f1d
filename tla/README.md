# TLA+ models of osmium-lab

osmium-lab downloads recorded market data, replays it and backtests strategies on it. The result
of a backtest is only worth something if it is deterministic and traceable to its data, if the
strategy never acts on what it could not have known, and if no quantity is traded, charged or
counted twice. This directory models the code those claims rest on, from the run file and the
archive to the published run, checks it with TLC on small instances and proves, with TLAPS and for
every instance, what both backtests, the market state, the replay core, the ledger and the commands
on the data directory promise.

## 1. The system

| Component (crate) | State it keeps | Operations | Hard behaviour |
| --- | --- | --- | --- |
| Scheduled simulator (`execution-sim/src/scheduled.rs`, `depth.rs`) | newest visible book per instrument with the depth already consumed, newest trading state, orders, client-id index, fills | publish, submit, cancel, expire, activate, evaluate resting orders, auction match, interruption | orders sharing one snapshot; replacement; identity collisions; a refused price in the middle of a sweep |
| Scheduled coordinator and control queue (`osmium-runner/src/scheduled.rs`, `control.rs`) | control queue, second (visible) replay core, timers, open positions, marks | commit an event, pop due controls, process a control, call the strategy | delayed visibility, same-time phases, controls scheduled while a batch is processed |
| Subsequent-event simulator and runner (`execution-sim/src/lib.rs`, `osmium-runner/src/lib.rs`) | orders and fills per instrument, current segment and last context | submit, evaluate an event, interrupt, end a segment, end the run, settle, report | orders made and matched in one event; latency; segment changes |
| Ledger (`execution-sim/src/accounting.rs`) | cash, positions, basis, applied charges, fills | apply fill, apply charges, reconcile, mark, performance | atomic batches, rounding, re-priced tax |
| Replay core (`replay-engine`) | last key, per-instrument state, checksum | merge streams, validate order, commit | independence of binding order; collisions |
| Market state (`market-state`) | book, last trade, volume, phase, auction evidence | propose, commit | stale proposals, segment carry and reset |
| Trading context (`strategy-api/src/context.rs`) | none | session phase and entry rule of an event | auctions, warm-up, cool-down |
| Data sync and cache (`data-sync`) | staging attempts, revisions, `current.yaml`, caches | stage, resume, seal, publish, verify, build, catalog, read | a crash between two file operations; files of another configuration |
| Provider (`providers/teralion`) | cursor checkpoint | request, accept, commit a page; normalise records | repeated or foreign answers; records of one match time spread over pages |
| Planner, config, registry (`run-planner`, `osmium-config`, `strategy-api/src/registry.rs`) | none that changes | load, resolve, plan, session windows, identity | the same rule written in two crates; weekends and midnights |
| CLI (`osmium-cli`) and artifacts (`osmium-runner/src/artifacts.rs`) | output directories | sync, verify, prepare, replay, backtest, run, inspect | a plan used after the disk changed |
| Market types (`market-types`) | values | encode, decode | canonical encodings |

How they interact. A command loads the run file, resolves it against the registered strategies and
plans: each instrument and date is a partition with session windows, classified by what is on disk.
`data sync` downloads the partitions that are missing, `cache prepare` normalises and orders a
verified revision into a cache, `replay` merges the caches the plan binds, and `backtest` assembles
core, schedule, ledger and simulator, replays, and publishes the run's files.

In a subsequent-event backtest each committed event ends the orders of a segment that is over, calls
the strategy, submits its intents, matches the event with the eligible orders, settles the fills and
reports them. In a scheduled backtest the coordinator runs the controls due before an event, commits
it, buffers it as a `ReleaseObservation` control at `match_time + latency`, and runs the controls due
at the match time. Releasing an observation applies it to a second core, publishes trading state and
book to the simulator and calls the strategy. The strategy's orders and timers become further
controls; so does every outcome, as a `DeliverFeedback` control that calls the strategy again.

A process is one thread. The concurrency is that of the control queue, in which work scheduled by a
handler interleaves with work already popped; of proposals kept while others are committed; and of
commands that die and are started again on files their predecessors left.

Correctness, per component:

- scheduled simulator: a displayed quantity is sold once; status, filled quantity and fill records
  agree; a client id has one live order; terminal is terminal.
- coordinator: observations reach the strategy in replay order; no decision uses later
  information; orders trade inside their lifetime; every outcome is reported; the run ends.
- subsequent-event backtest: a fill is caused by a later event; an event's evidence is sold once;
  a fill is settled and reported once; orders end with their segment.
- ledger: cash, basis, tax and equity are explained by what was applied, each thing once.
- replay and market state: one total order whatever the binding order, nothing lost or repeated;
  the state shows the last observation of its segment and nothing of another auction or date.
- data: what is published is complete, verified, immutable, and the archive's own.
- preparation: what is planned can be assembled, one identity is one run, a tick belongs to one
  session, and grouping and ordering of records lose nothing.

## 2. Modules

| Module | Models | State and actions |
| --- | --- | --- |
| `ScheduledDepth` | `ScheduledDepthSimulator` | `books`, `trading_states`, `orders`, `client_orders`, `fills` as in the struct; one action per public operation |
| `ScheduledRunner` (extends it) | `run_scheduled_multi_backtest`, `ScheduledCoordinator`, `ControlTimeQueue` | main-loop position, `queue` and popped `batch`, `timers`, `position`, `marks`; one action per control payload and per step of the main loop |
| `MarketReducer` | `MarketState`, `propose`, the auction evidence of `market-types` | operators only |
| `MarketState` (extends it) | `MarketStateReducer`'s public calls on one state | `state`, the `proposals` a caller keeps, the `log` of commits; `ProposeEvent`, `Commit`, `Apply` |
| `Replay` (extends `MarketReducer`) | `ReplayCore` and the coordinator's fork of it | `streams` and their `heads`, `core`, `visible`, `buffered`; one action per turn of the merge loop, per way to fail, and per release |
| `OrderedReplay` | what a replay promises | `input`, `log`, `status`; implemented by `Replay` |
| `TradingContext` (extends `MarketReducer`) | `MarketTradingContextEvaluator` | operators only |
| `SubsequentSim` (extends it) | `Simulator` of one instrument | operators from a simulator to the next one |
| `SubsequentRun` (extends it) | `run_multi_backtest`, `MultiSimulator` | position in the event loop (`pc`), `states`, current segments and contexts, `sims`, `ledger`, feedback `pending` and `told`; one action per call of the loop |
| `Ledger` | `MultiLedger` and its instrument ledgers | `ledgers`, `cash`, `cash_charges` as in the struct; `ApplyFill` and `ApplyCashCharges`; reconciliation and performance as operators |
| `DataStore` | the files under `data_root` and what the code reads off them | an operation is a sequence of file-system calls |
| `CursorPaging` | the provider's cursor machine and checkpoint | operators only |
| `Commands` (extends both) | the CLI's commands, sync, cache building, artifacts | `disk`, `remote`, `job`, `outcome`, `faults`; one action per stage, per answer, and `FileCall` for the next call on the disk; crashes, archive changes and damage |
| `SessionPlan` | calendar, profiles and session windows | operators only |
| `RunConfig` (extends it) | loading, resolution, planner checks, plan identity | operators only |
| `Normalizer` (extends `SessionPlan`) | the TWSE/TPEx quote and TAIFEX normalisers | operators only |
| `Preparation` (extends the last two) | run file to replay | `config`, `archive`, `stage`, `caches`, `left`, `states`; `Load`, `Plan`, `PrepareCache`, `Assemble`, `Replay`, `Complete` |
| `MCScheduledDepth`, `MCScheduledRunner`, `MCMarketState`, `MCReplay`, `MCLedger`, `MCSubsequentRun`, `MCCommands`, `MCPreparation` | instances for TLC | |
| `Totals` | the total of a sequence of integers, for `Ledger` and `SubsequentRun` | operator |
| `ScheduledRunnerProofs`, `MarketReducerProofs`, `MarketStateProofs`, `ReplayProofs`, `LedgerProofs`, `CommandsProofs`, `SubsequentRunProofs` | theorems about the module of that name, and about `ScheduledDepth` | |
| `InductionLemmas` | induction over the naturals, sequences, totals | lemmas |

### ScheduledDepth

An operation that returns `Err` before it changes anything is an action that is not enabled.
`evaluate_active` loops over the resting orders in acceptance order and lets them share the book:
the model takes one step per order (`BeginEvaluateActive`, then `EvaluateNext`), with `evaluating`
holding the orders left, and admits no other call meanwhile. `depth.rs`' loop over at most five
levels is `Sweep`, written without recursion so that it can be proved about.

Abstracted: prices are integers and quantities naturals of one unit; the order id (a hash of
origin, decision time, output sequence and request) is the position of the first order equal in
these, which is exactly what `order_index` finds; acceptance sequences are positions. `snapshot`
numbers the books of an instrument and exists only so that a property can tell them apart.
u64 overflow is not modelled: each checked sum is bounded by a displayed or a requested quantity,
which `DepthNeverOversold` and `StatusAndFillAgree` prove.

`SimSpec` lets any caller make any call at any time of `Times`. It assumes one thing of the caller:
resting orders are not evaluated at a time before their activation. `ScheduledRunner` does not
guarantee it (finding 1); there an early fill ends the run, as in the code.

### ScheduledRunner

`SelectEvent`, `PopBatch`, `CommitEvent`, `EventDone`, `EndOfData` and `Finish` are the main loop;
`ReleaseObservation`, `StrategyTimer`, `ExpireOrder`, `ActivateOrder`, `AllocateVisibleDepth` with
`EvaluateOrder`, `AllocateAuctionMatch` and `DeliverFeedback` are the arms of `process_control`,
each with everything its handler does: publication, the strategy call, the timers and orders it
asks for, settlement in the ledger's position, and the feedback scheduled. `Pop` takes a whole
batch out of the queue, as `pop_before` and `pop_at` do.

The strategy is nondeterministic: each callback asks for nothing, a timer, an order, or both. An
error ends the run and `failed` names the call; the caller of a failed run gets nothing, so the
other variables stay as they were.

Abstracted: an event is what the coordinator reads of it; the session lookup always succeeds;
cash charges are `Ledger`'s matter and output records are left out; the ledger is the position per
instrument and a mark either exists or not.

### MarketReducer and MarketState

`Propose` is `propose` line by line: the checks in their order (`FirstError`), then segment entry,
payload, signal, and the list of changed fields. It returns the error or the proposal, and `Stale`
is `commit`'s test. `MarketState` lets a caller propose, keep proposals, commit them later or apply
at once; the context of an event follows from its match time.

Abstracted: a book or a trade in the state is the event that showed it (the reducer copies them
and never looks inside); raw values of unknown observations and warning codes are left out; one
realtime format stands for TWSE's and TPEx's.

### Replay and OrderedReplay

A plan is opened binding by binding, each stream contributes one head, `MergeHead` commits the
least one (`ApplyOrdered`: state, checksum, ordinal and clock together, or nothing), hands it to the
callback and reads the stream's next item; reading, ordering, applying and the callback can each
fail. The merge loop is in the code twice, in `replay_frozen_multi_with` and in
`run_scheduled_multi_backtest`; the second one also buffers the event, which `Release` applies to
the fork later. The model releases at any later moment; when exactly is `ScheduledRunner`'s matter.
The checksum is the sequence of hashed events, so the properties about it do not rest on a hash.

`ReplaysInOrder` is the refinement: `input` is the item at every place of every stream of the plan,
`log` the core's checksum sequence, `status` the phase.

### TradingContext, SubsequentSim and SubsequentRun

`TradingContext` computes session phase, matching and new-order rule from the segment, the event
and the reducer's state. `SubsequentSim` has `Submit`, `Evaluate` and the cancellations of one
`Simulator`; `SubsequentRun` is the event loop. `BeginEvent` commits the event and cancels the
orders of a segment that is over, `BoundaryFeedback` tells the strategy, `OnEvent` is the callback
with everything up to the settlement of the fills, `OnFeedback` reports them; `EndOfTape`,
`CloseSegment`, `CloseRun`, `TellClosing`, `TakeMarks` and `Finish` are the end of the run. Every
callback returns one of `Outputs` or fails, and the ledger may refuse any fill.

Abstracted: order ids are the tuple that is hashed, collisions included; prices are integers; the
replay core is `Propose` on the tape, whose order is `Replay`'s matter.

### Ledger

`Init` is `MultiLedger::new` on the lists it accepts (others are tried and refused); `ApplyFill` and
`ApplyCashCharges` are one call each, with the first error of the code's checks or the whole
change. Decimals are integers of atoms, so that every rounding is the code's (`DivideRound`,
`Quantum`), and `Limit` stands for the range of `i128`: overflow is an outcome, not a bound.
`Reconcile`, `Performance` and `MarkToMarketAdjustment` return what the code returns, the first error
included, and add in the code's order, so that a sum which leaves the range on its way is an
`Overflow` although its end may be in range. The
day-trade tax keeps open buys and sells of each date and re-prices earlier sells, as
`tax_for_fill` does. `batches` is a ghost.

### DataStore, CursorPaging and Commands

A disk is a partial function from paths to contents; renames of directories move their files. An
operation of `data-sync` is the sequence of calls it makes, `FileCall` performs one, and `Crash`
may come between any two. `Begin` starts a command with its stages; `PlanStage`, `SyncStage`,
`FetchSingles`, `OpenStaging`, `FetchPage`, `SavePage`, `PublishRevision`, `PreparePartition`,
`ReplayStage` and `InspectStage` are what it does in between. A plan is made once and used
afterwards, so it can be stale by then.

Abstracted: an identity is what is hashed; a page's body is its items; the archive is an external
function of its version; file contents written by one call appear at once (a torn write ends in a
temporary file that nothing reads, which is the state before the rename). One process runs at a
time: the code takes no lock. Only process death is modelled, not the loss of unsynced writes.

### SessionPlan, RunConfig, Normalizer and Preparation

A run file is a record of the values its text stands for. `ConfigProblem` and `PlanProblem` are the
first refusal of the loader and of the planner, in their order; `PlanIdentity` is the encoded text,
as nested tuples, that the plan's checksum covers. `SessionPlan` works on minutes and day numbers
with the real calendar. `Normalizer` classifies records, accepts or skips them, finds their auction
phase, groups a match time's intermediate prints with their final record and sorts. A record has two
clocks: the archive answers a download window by `received_at` (`QueriedBy`;
`docs/interfaces/teralion.md:38`, `:60`, `:101`), windows and sessions are decided by match time, and
no relation between the two is assumed (`:104`). `Preparation`
runs the pipeline: `Trade` lets the archive grow, then one action per stage. Its assembly checks
(`CoreProblem`, `ScheduleProblem`, `LedgerProblem`, `SimulatorProblem`) are those of the crates that
own the parts, written from their code and not from the planner's; both look at the provenance of
charges and day-trade rules.

Abstracted: YAML and JSON syntax, decimal parsing and free text ("given" or not).

## 3. Runs

| Run | Shows | Bounds |
| --- | --- | --- |
| `sim_depth` | `ConsumedWithinDisplayed`, `DepthSoldOnce`, `StatusMatchesFilled`, `OneLiveOrderPerClient`, `ActivationFollowsAcceptance`, `OrdersOnlyAdvance` | 3 orders of 3 clients (market, limit, auction, both sides, activation and resting, two requests of two clients), 2 snapshots out of 2 books, one with a price refused only after slippage, 2 times, 2 clearing prices |
| `runner` | `ReleasesFollowCommits`, `OnlyExplainedFailures`, `SettledWhenDone`, `FillsWithinLifetime`, and `RunFinishes` under fairness | 4 events out of 6, 3 orders, 1 timer, latency 1, strategies silent after 6 controls |
| `batch_look_ahead` | finding 1 | 3 events, 1 order, latency 3 |
| `market` | `FirmFieldsComeFromLastObservation`, `VolumeNeverFallsWithinSegment`, `EvidenceIsOfThisRound`, `NoLostUpdate` | 3 commits out of 14 events at each of 4 times in 3 segments, one entered with a reset and one without, 1 kept proposal |
| `replay` | `ReplaysInOrder` (the refinement, with its liveness), `OrderChecksAgree`, `StatesHoldTheirOwnEvents`, `VisibleIsCommittedPast` | 3 bindings of 2 instruments and 2 dates with up to 2 items each, unsorted, repeated, colliding, unreadable and foreign ones included; with and without fork |
| `ledger` | `CashIsExplained`, `ChargesAreWholeBatches` (with what `reconcile` returns), `DayTradeTaxIsFifo`, `MarkedEquityReconciles` | 4 fills out of 17 and 3 charges; stock with and without day-trade tax over 3 dates, a spread with negative prices and a fractional multiplier, an option; overflow at 30 atoms |
| `subsequent` | `FillsAreCausal`, `EvidenceSoldOnce`, `FillsSettledOnce`, `EveryTransitionIsTold`, `OrdersEndWithTheirSegment` | 8 set-ups of up to 5 events of 2 instruments, 3 orders, refused intents and fills, failing callbacks |
| `day_orders` | finding 2 | 2 events on 2 dates, 2 orders |
| `commands` | `CurrentAlwaysVerifies`, `RevisionsAreTheArchive`, `CheckpointIsBacked`, `RunsMatchTheirLineage`, `RunsUseTheirOwnMapping`, `PublishedIsImmutable` | any sequence of commands of 2 configurations and 2 mappings over 3 partitions (two in one directory), 2 versions of the archive, 2 faults, 1 output name |
| `interrupted_sync` | finding 3 | the same with 1 fault |
| `preparation` | `PlannedRunsAssemble`, `SameIdentitySameRun`, `TicksHaveOneSession`, `TapeOrderIsIrrelevant`, `PrintsConserved`, `CleanTapesReplay` | about 540 run files: every combination of contract terms, one file changed in each single place, three traded ones; archives of up to 3 records, over a weekend, received with their match time, later or earlier |
| `warrant_order` | finding 4 | a warrant, up to 3 records |

Why the bounds are enough: two orders are needed to share a level and a third to meet what they
left; two snapshots to see consumption reset; three orders let a replaced order, its replacement
and a competitor coexist. In the runner instance an expiry falls between a release and the next,
an auction is decided before the expiry and reported at its time, an interruption cancels a resting
market order, a timer is superseded, and a fill meets a missing mark (each was seen to occur by
checking its negation). Three commits let evidence be observed, its round end and a later event read
what is left. In `replay` two items per stream let one stream regress, repeat or end while another
still has a head. Four fills let a position open, grow, reverse and close, and a sell be re-priced
by a later buy. Two faults let a resumed sync crash again, or meet a changed archive after a crash.
Three records let two intermediate prints meet their final record in every order. `MaxControls` only
bounds how long the strategy keeps asking; after it the queue runs to its end.

What the instances do not show: in `runner` no expiry shares its time with a book, and in `subsequent`
no event falls into a cool-down; `NoFillOutsideLifetime` and `NoLookAhead` (`FillsAreCausal`) cover
both. `EvidenceIsOfThisRound` separates rounds, so evidence that survives a change of purpose inside
one round is seen only where the change ends the round. `SameIdentitySameRun` says nothing of
rounding, currency and allocation, which neither the identity nor the assembly of the models has.
`TicksHaveOneSession` asks for a record only if the archive received it while its session was open.

Deadlock checking is off because the models stop: a run ends, a bounded account, archive or
simulator can run out of calls.

Fairness: the coordinator's `Spec` and the replay's `FairSpec` have weak fairness of the whole
next-state relation and nothing else. The code is one thread that loops until the queue is empty, so
a step that can be taken is taken; no fairness among controls or towards the strategy is assumed,
nor between the merge and the releases. The other specifications state none.

Every checked property has a seeded fault: an operator marked "Seeded fault" that replaces one
mapped definition and must make the property fail.

## 4. Findings

1. `process_before` pops all controls due before the next event. A feedback callback with decision
   time t1 that is scheduled meanwhile runs after the strategy has seen an observation visible at
   t2 > t1 (`NoLookAhead`). The same cause makes an order that activates at t1 fail with
   `MissingVisibleDepth` though a book was visible at t1; lets an `AllocateVisibleDepth` of t1 fill
   an order activated at t2, which `ExecutionFillFeedback::new` refuses, so that the run aborts; and
   confines the documented order of the phases of one control time to one popped batch. Processing
   one control at a time (pop the first key, process it, look again) removes all four.
2. Orders are cancelled when the segment id of their instrument changes, and the regular session has
   the same id on every date: an order that the documents call a Day order is live on the next date.
3. A process that dies between creating and renaming a temporary file leaves a source `Building`
   that the documented remedy, to sync again, cannot resume: the file is opened with `create_new`.
4. Only `STOCK_REALTIME` has a source-phase rank, so a warrant's intermediate prints sort after the
   final quote of their match time and the replay stops with a falling volume.

### Observations that contradict no document, or only a neighbouring one

Files left by a dead process: a crash after the revision was renamed and before `current.yaml` was
written makes later syncs fail with `RevisionAlreadyExists`; a left `cache-build` directory makes
every build fail with `BuildAlreadyExists`, and with its descriptor already written the catalog
reports it as corrupt; a left `.osmium-staging` makes a backtest fail with `OutputExists`. A download
that is resumed after the archive changed may hold pages of both versions (or stop with
`InterruptedPageChanged`). `execute_sync_plan` refuses `Incomplete` and `Corrupt` sources, for which
`docs/operations/local-data.md` recommends to sync again. `partition.yaml` is not looked at by
`verify_current` and `plan_sync`. `effective-config.yaml` has the plan identity under
`config_checksum`.

Subsequent-event backtest: an intent for instrument B made in a callback of A is judged by A's
context and bound to A's segment; an order for an instrument without any event makes the end of the
run fail with `Sequence`; intents of the event, boundary and feedback callbacks of one event number
from 1 and can share an order id; outcomes of intents made in feedback are not reported; a price that
slippage makes invalid aborts the run; print evidence is the first print of a batch and the final
mark the last one; a position without a mark is `MissingFinalMark`.

Ledger: amounts are rounded to atoms and then to the precision, twice under `HalfUp`; a minimum
charge on both parts of a split sell can raise its tax when it is re-priced. `reconcile` adds the
cash of all ledgers before it subtracts the charges (`accounting.rs:1240`, `:1247`), an order in which
no call did: near the end of the range it can return `Overflow` for an account every call of which was
accepted. With a range of 30 atoms, 20 of initial cash less charges of 2 and 1, then sales of 8, 2
and 2 make 29, and `reconcile` passes 32. `performance` and the marks can overflow in the same way.

Market state: after an explicitly unknown purpose, `merge` can build an auction with another purpose
and a volatility direction, which `AuctionObservation::from_parts` and the decoder refuse; no
provider emits an unknown purpose. Under the carry policy a segment whose first event shows no volume
has its next one compared with the previous segment's; the CLI only resets.

Preparation: `config check` only loads, so weekend dates and unsupported session kinds are found by
`plan`; several final records of one match time are ordered by fingerprint and may regress in volume;
equity trials before 08:55 are outside the replay window; a record whose match time is in a session
and which the archive received outside the download window of that trading date is never cached, and
nothing reports it; the after-hours session of a Monday opens on
Friday and its window spans the weekend.

## 5. Proofs

Everything below holds for every value of the constants that meets the assumptions of the modules,
which TLC evaluates in the runs. A recursive definition cannot be unfolded by the prover, so the
models write recursion as functions on `0..n`; induction is done in a first-order form, over the set
of numbers for which a statement holds (`InductionLemmas!SetInduction`).

### ScheduledDepth (`ScheduledRunnerProofs`, first part)

- `TypeCorrect`, `DepthNeverOversold`, `StatusAndFillAgree`, `ReplacementIsExclusive`,
  `ActivationOrderKept`: `SimSpec => []P` for `SimTypeOK`, `ConsumedWithinDisplayed`,
  `StatusMatchesFilled`, `OneLiveOrderPerClient`, `ActivationFollowsAcceptance`;
- `StepsOnlyAdvance`: `SimSpec => OrdersOnlyAdvance`;
- `DepthIsSoldOnce`: `SimSpec => []DepthSoldOnce`.

The inductive invariant `IndInv` is their conjunction with two facts none of them states:
`ClientIndexOK` (the client index points at an order of that client, and every client with an order
has an entry) without which a replacement could miss the live order, and `TodoIsActive` (the orders
a running evaluation has left are active) without which its next step could touch a terminal order.
The argument: `AvailableType` and `SweepBounds` bound a sweep by what is left on each level, so
`ConsumeWithin` keeps every account within its display; every operation but submit changes orders
only along `Advances`, from which `AdvanceKeeps` derives the order invariants once; submit is
`SubmitStep`, where the replaced order, being live, is the client's last.

`DepthIsSoldOnce` needs `SoldInv`: `IndInv`, `DepthSoldOnce` itself and `RecordsInv`, that a record
belongs to an order that no longer waits to be matched and to a snapshot already shown. So the
records a step adds are the first of their order, and a new snapshot has none. `TotalWith` (adding
one record adds its quantity, whatever order the sum is taken in) rests on an induction over the
subsets of a finite set (`SubsetInduction`); `SweepTotal` adds up the five levels of a sweep, and
`SweepExplained` enters a sweep's records and its consumption together.

### ScheduledRunner (`ScheduledRunnerProofs`, second part)

`SimulatorInRun` carries `IndInv` over to the coordinator's own specification. On top of it:

- `ReleasesKeepCommitOrder` (`ReleasesFollowCommits`) and `NoFillOutsideLifetime`
  (`FillsWithinLifetime`), by `RunInv`: `IndInv`, the queue and the popped batch hold only due and
  well-formed controls, each order identity belongs to one order, activation precedes expiry, an
  evaluation looks at the orders it was started for, and every fill lies in its order's lifetime;
- `NothingLeftWhenDone` (`SettledWhenDone`), by `SettlingInv`: an order that is not settled has a
  control that will settle it (`OriginInv`), a status that was not told has a `DeliverFeedback`
  pending (`ToldInv`), the newest request of a timer is pending or fired (`TimersInv`), and
  nothing is pending once the run is over (`DoneInv`);
- `FailuresAreExplained` (`OnlyExplainedFailures`), by `FailInv`: activations are ordered as
  acceptances, and the visible core is the committed one less the pending releases, so that the
  calls the coordinator makes on its own never fail.

All of them go through `Shapes`, which reduces each action to one of a few shapes of change to the
queue, the orders and the timers. `NothingLeftWhenDone` and `FailuresAreExplained` are about
distinct events (`~Duplicates`), since byte-identical events share an order identity, and
`FailuresAreExplained` also about prices the instruments' policies accept (`PricesAdmissible`).

### MarketState (`MarketReducerProofs`, `MarketStateProofs`)

`CommitsAreSerial` (`NoLostUpdate`), `FirmFieldsTraced` (`FirmFieldsComeFromLastObservation`),
`VolumeMonotone` (`VolumeNeverFallsWithinSegment`) and `EvidenceStaysInItsRound`
(`EvidenceIsOfThisRound`). `MarketReducerProofs` says once what an accepted proposal does to each
field; the invariant then relates the state to the `log` of commits (`LogInv`), keeps every stored
proposal equal to what `Propose` would make of its base state (`ProposalInv`), and traces the firm
fields and the evidence back to the event that set them (`FirmInv`, `EvidenceInv`). Segment windows
are in the order of the calendar; `VolumeMonotone` is about the policies that check volume
(`VolumePolicy # "Unconstrained"`).

### Replay (`ReplayProofs`)

`OrderChecksNeverDisagree` (`OrderChecksAgree`), `StatesAreTheirOwn` (`StatesHoldTheirOwnEvents`),
`VisibleIsPast` (`VisibleIsCommittedPast`) and `DigestIsSorted`: what the core has committed is
sorted by the global key, whatever the plan and the binding order. The invariant has the digest
sorted and below every head, each state equal to the count and last event of its own part of the
digest, and the visible core at the end of a `History` of cores that the committed one `Follows`.

`ReplayRefinesOrdered`: `Spec => Ordered!SafeSpec`, the refinement of `OrderedReplay` without its
liveness. `TakenInv` says how many items each stream has given (`Read`) and keeps a one-to-one map
from the commits to the places of the plan they came from (`Took`); a merge step adds the place of
its head, which no earlier commit used, and when the streams are empty there are as many commits as
places, so the abstract specification may say "completed".

### SubsequentRun (`SubsequentRunProofs`)

All five properties of the `subsequent` run are proved for every tape, schedule, set of fill models
and strategy. The loops of the simulator over orders, levels and intents are recursive functions;
each is characterised once by what it has done after n turns (`CancelFacts`, `EvaluateFacts`,
`SubmitFacts`), and the steps of the run use only that. The assumption (`InputsAssumption`) is what
the types of the code give: quantities are naturals, a side is buy or sell, the events are of the
instruments of the run, and these are numbered in the order of their identities.

- `NoLookAhead` (`FillsAreCausal`), by `CausalInv`: every order was placed by an event that has been
  committed and is eligible from that event's time plus the latency, and every fill is explained by
  one of the simulator's orders and the event it names (`CausalIn`). A later step changes of an order
  only its fill and status (`Later`), so explanations stay valid.
- `SegmentsEndOrders` (`OrdersEndWithTheirSegment`), by `SegmentInv`: between the events the live
  orders an instrument's own events placed are of its current segment, the trading context of the
  event at hand is of that segment too, and of the instruments that the last loop has passed none
  has a live order (`Closed`).
- `EveryFillIsSettled` (`FillsSettledOnce`) and `EvidenceIsNotOversold` (`EvidenceSoldOnce`), by
  `BalanceInv`: filled quantities and fills have the same total (`Balanced`), the ledger is a prefix
  of the fills and all of them unless the run failed (`LedgerOK`), no event gave a side more than it
  showed (`SoldIn`), and before the event at hand is matched nothing was filled from it (`NoFillAt`).
  The match conserves the evidence: what the first n orders took and what is left for the next add
  up to what was shown (`CountedTo`, `LeftTaken`).
- `StrategyHearsEverything` (`EveryTransitionIsTold`), by `ToldInv`: of every identity, what was told
  and what is pending add up to its orders (`AllHeard`), and nothing is pending between callbacks
  (`Quiet`). Two orders can share an identity, so this is about sums per identity and not about
  orders. `Reported` says of a match or of a cancellation that its feedback is the difference it
  made; answers to intents tell of no fill and no end (`AnswersTell`).

### Ledger (`LedgerProofs`)

`CashAlwaysExplained` (`CashIsExplained`), `AccountAlwaysReconciles` (`ChargesAreWholeBatches`),
`MarkedEquityAlwaysReconciles` (`MarkedEquityReconciles`) and `DayTradeTaxAlwaysFifo`
(`DayTradeTaxIsFifo`), for every scale, quantum, charge model and multiplier. The arithmetic is in `TransitionExact`: extending, reducing, closing or reversing a
position by `delta` at `price`, with whatever rounding of the allocated basis,
`Sign' * basis' = Sign * basis + price * delta + difference`. Since only exactly scalable prices and
differences are accepted (`ScaledExact`), no atom is lost, and `FillExplained` carries the identity
of cash, realized P&L, costs and open basis over an accepted fill. `AccountInv` adds that each
ledger is what replaying its fills makes of a new one (`Replayed`, so that `reconcile` never finds a
disagreement: it returns `Ok`, or `Overflow` exactly when one of its sums leaves the range), and
`MoneyInv` that the charges are the accepted batches, one after the other and every identity once
(`Flat`, `ChargesOK`), and that the balance is the sum of its parts (`Balanced`, by `SumUpdate` and
`TotalConcat`). Marked equity follows instrument by instrument (`MarkedLedger`) and is summed up;
its theorem also says that a valid, exact mark is refused for nothing but `Overflow`.

For the day-trade tax, `DayTradeTaxIsFifo` alone is not inductive: a buy re-prices sells that are
still open, so the invariant must say what each of them is matched with. `TaxExplained(l, c, off)`
gives every open sell `m` an offset `off[m]`, what its date had sold before it. With `bought` and
`sold` what each date traded (`Traded`),

- `SellsMatched`: sell `m` is matched with `bought[date] - off[m]`, cut to `0..quantity`, and the open
  sells of a date before it still lack what `off[m]` exceeds `bought[date]` by; `BuysLeft`: the open
  buys of a date hold what it bought beyond what it sold. The loops of `tax_for_fill` (`MatchFifo`)
  take from the first open entries of a date first (`FifoTaken`, over prefix sums), and so keep both
  for a buy (`BuyKeepsSells`, `BuyKeepsBuys`) and for a sell (`SellKeepsSells`, `SellKeepsBuys`);
- `Assessments`: an open sell is assessed at the tax of its match;
- for every `buying` that is at least `bought`, not only for what was bought so far, the taxes of all
  fills if dates bought `buying` are the tax booked plus the gaps of the open sells (`Gaps`). A buy
  only closes gaps (`BuyTaxes`), a sell opens one or is matched for good (`SellTaxes`). The
  quantifier is what makes the statement survive a later buy of the same date.

At `buying = bought` there are no gaps (`NoGap`), and the taxes are `ReferenceTax` (`ReferenceIs`).

### Commands (`CommandsProofs`)

`PublishedNeverRewritten` (`PublishedIsImmutable`): no step of any command, and no crash between two
calls, removes or changes a `current.yaml`, the manifest of a revision or a file of a run. The calls a command still has
to make are part of the invariant (`CommandInv`): each of them is harmless to published files
(`Harmless`), a directory is moved only after a call that fails if its target exists, with nothing
made there in between (`Guarded`), and `current.yaml` is renamed into place at most once and only for
a partition that has none (`Fresh`). The last needs the plan: only partitions the plan found without
`current.yaml` are downloaded (`Wanted`, `Reused`), and no two of a plan share a place
(`ConfigAssumption`), so a plan that is stale by the time it is used is stale in the safe direction.
Every operation's list of calls is shown to be of that form once (`CreateOK`, `PublishOK`, `CacheOK`,
`ArtifactsOK`), and `CallOK` carries the form over to the calls left after one has been made.

`CurrentVerifies` (`CurrentAlwaysVerifies`) and `CheckpointAlwaysBacked` (`CheckpointIsBacked`) are the
crash safety of a download: a crash may come between any two calls, so the disk must be right after
each of them. Their invariant is `FitInv`. Of the disk it says that staged metadata has its object,
that a saved checkpoint has the metadata of every page it counts, in one cursor chain (`DiskFits`,
`Linked`), and, unless something was damaged from outside, that `current.yaml` names a revision with
its manifest and all its objects (`CurrentFit`, `Whole`). Of every call still to be made it says what
the disk will hold when its turn comes (`Fits`, with `Comes` for "is there and stays, or is made by an
earlier call"): objects come before their metadata and metadata before the checkpoint; a checkpoint is
removed before the metadata it counts; a revision is moved only when it is whole, and `current.yaml`
is renamed into place only after that move. `FitsTail` carries all of it over a call; `SaveKnown`,
`SaveNew` and `PublishFits` show it of the calls of `stage_page`, `CursorCheckpoint::save` and
`publish`; `ResumedAre` shows that `open_or_create`, which counts staged metadata, reads back exactly
the pages a checkpoint counts. Damage from outside touches published objects only, so
`CheckpointIsBacked` needs no such exception.

`RevisionsFromTheArchive` (`RevisionsAreTheArchive`) follows the pages to where they came from. The
archive's versions are a parameter of the invariant: `Source` is the one version it has had, or none
once it has changed, and `Asked` says that pages are what each of these versions answers to the query
of their checkpoint. `RootInv` adds that `partition.yaml`, once there, names the partition for good,
and that it is there before a checkpoint is saved or a revision published under it (`Named`,
`Rooted`), so that the revision is of the partition a reader takes it for.

`RunsFromTheirLineage` (`RunsMatchTheirLineage`), by `RunInv`: a descriptor tells how its events were
made (`Described`), the plan's revisions are the archive's (`PlanKnown`), and a directory appears
under `output` only with all its files, each of which was put in place before the move and not
touched since (`Brought`, `FitsRun`). `RunsOfTheirOwnMapping` (`RunsUseTheirOwnMapping`), by `OwnInv`:
a command plans to reuse only caches of its own mapping, which no step changes, and the events of the
run it moves carry it.

### Only model-checked

- `RunFinishes` and the liveness of `ReplaysInOrder`: liveness is out of the prover's reach, and so
  is `ENABLED`.
- The properties of `Preparation`: its model folds and selects over sequences with library operators
  the prover knows nothing of.

## 6. Plan

What is left: `Preparation`, after its folds are written as recursive functions, with
`PrintsConserved` and `TapeOrderIsIrrelevant` first.

## 7. Not modelled

- Atomic depth legs (`execute_atomic_depth`) and `strategy-api`'s `run_strategy`: no caller outside
  their tests.
- The visibility buffer type of `osmium-runner/src/visibility.rs`: its time arithmetic is the
  `+ Latency` of `ScheduledRunner`, and the buffer itself is used by its tests only.
- Canonical byte encodings, hashes (taken as injective), the contents of artifact files, error texts,
  exit codes and report layout: data conversion without state.
- HTTP transport, YAML, JSON and decimal parsing: what they yield is an input of the models.
- Two processes on one `data_root`, and the loss of unsynced writes.
- The example strategy and the tools: instances of the nondeterministic strategy.
