# A model of Kno's paid runs

Kno measures which pieces of context help an agent.  Every measurement is a
paid call to a provider, so the questions that matter about this code are
about money and evidence: can concurrent workers, retries, crashes and resumes
spend more than was agreed; can something that was paid for get lost, counted
twice, or silently left out of a denominator.  This directory holds TLA+
modules of the code that answers for that, the TLC configurations that check
them, and TLAPS proofs of what most of them claim.

All paths below are relative to the repository's root.

## Inventory

| Component | State it keeps | Operations | Talks to |
| --- | --- | --- | --- |
| Budget guard, `stats/budget/budget.go` | settled and reserved sums, open reservations, the answer to the prompt, two mutexes | `Authorize`, `Settle`, `Release`, `Restore`, `PreConfirm`, `Overshoot` | every worker, through `core/invoke.go`; the human, through `ConfirmFunc` |
| Executor, `executor/executor.go` | two unbuffered channels, four contexts, the first error, two failure latches, statistics | `Run`: producer, workers, sink, grace timer, join | work, sink, `Skip`, `IsFatal` and `AfterRecord` supplied by a stage |
| Invoker, `core/invoke.go` | nothing between calls | estimate, reserve, call, settle, retry | guard, agent |
| Baseline stage, `core/baseline*.go` | aggregator (counts, sequence, stop reason, emit failure), model gate, ticker | open or resume, work, sink, close | executor, guard, store, events |
| Event stream, `core/baseline_record.go` | the run's sequence number, `closed` | `appendEvent`, heartbeats, opening and `RunFinished` | store, TUI |
| Store, `store/sqlite.go` and its siblings | runs, outcomes, orphan charges, events, measurements, portfolios, valuations, holdout uses, tuning jobs, scores | inserts that ignore duplicates, aggregates, `Purge`, migrations | every stage |
| Value, `core/value*.go` | arms, pairs, valuations | measure each asset's arms, write its valuation | executor, guard, store |
| Validate, `core/validate*.go` | the holdout ledger | record the use, measure, compare | executor, guard, store |
| Bridge, `bridge/*.go` | tuning-job rows: submission, adoption, endpoint, serve minutes, verdict | submit or resume, poll, reconcile, deploy, serve ticks, teardown, sweep | tuner, guard, store |
| Select, export, gaps, `core/select*.go`, `core/export*.go`, `core/gaps*.go` | none | functions of stored rows | store |
| Statistics and judge calibration, `stats/`, `judge/` | none | intervals, agreement | the stages |
| Adapters, `adapters/` | connections | network, files, subprocesses | providers |
| Command line and TUI, `cli/`, `tui/`, `observe/` | flags, a rendering | | the stages |

### What is hard here, and what makes each part correct

* **Guard.** Workers race for the same headroom, wait for one human, and
  settle in any order for amounts other than they asked for.  Correct: the
  running totals are those of the open reservations; caps hold up to what
  settlements exceed their estimates by; overshoot is reported once; a prompt
  is never shown twice at once, never after a yes, and a refusal is final;
  nobody waits for ever behind somebody else's prompt.
* **Executor.** Four kinds of goroutine, two channels and any of six ways to
  end.  Correct: what was paid for is delivered exactly once; the statistics
  and the error returned say what is missing; shutting down dispatches no new
  work but the item already on offer; `Run` returns.
* **Baseline.** A run is longer than a process.  Retries charge more than
  once; a case may be charged and have no outcome; a stop cancels cases in
  flight; a resume reads back what the last process left.  Correct: money is
  conserved between guard and store; the cap holds over all the processes; a
  case is measured and counted once; COMPLETED means whole; a resume does not
  mix models.
* **Events.** Sink, workers, ticker and close all append.  Correct: sequence
  numbers grow over resumes, a hole is reported, `RunFinished` is last,
  positions never go back.
* **Store.** What is written survives; duplicates are ignored; several
  processes may open and migrate one file.
* **Value.**  The same machinery on arms of every asset and trials of every
  case, with a routing plan that is not part of what a resume is compared by.
  Correct: a valuation is computed from whole arms and is what the rows say; a
  completed run has everything its plan quoted, and nothing is paid for twice.
* **Validate.**  The holdout may be looked at once, whatever is killed, refused,
  resumed or started beside it.  Correct: the use record is written before the
  holdout is read, one run reads it, and what closes a case nobody paid for is a
  fault of the case.
* **Select.**  A greedy choice under four caps and eight reasons to reject.
  Correct: what is selected fits, and who is turned away had to be.
* **Bridge.** Jobs and endpoints live at a provider and bill until stopped,
  whatever happens to this process.  Correct: a job is submitted once, an
  endpoint is torn down or found by a sweep, hosting spend is counted once.

## The plan

Modules, in the order they were written.  All but the last are done.

1. `Ledger`, `Guard`: the abstract promise of a budget, and the guard that
   implements it.  `Sums` holds the one operator the modules share.
2. `Executor`: one call of `executor.Run`, any stage.
3. `BaselineRun`: a run over its processes.  It composes the guard and the
   executor in the simplest form their own modules justify.
4. `EventStream`: the same run seen from the events table.
5. `Bridge`: a bridge run over its processes, against a provider with jobs and
   endpoints of its own.
6. `Routing`, `ValueRun`: which cases measure which asset, and a Value run over
   its processes.  `ValueRun` EXTENDS `Routing`.
7. `HoldoutUse`: any number of Validate processes over one holdout.
8. `Selection`: the Select stage.
9. `Migrate`: looked at and left out.  A migration is one transaction that
   re-reads the version under the write lock (`store/sqlite.go:563`), so several
   openers do what one does, in some order: there is nothing for a checker in it.

Theorems: everything the passing runs check is proved, but for liveness.  One
proof module stands beside each module it is about, except that Select and the
bridge share `PortfolioProofs`.  What is left: `Routing`'s promises about a plan
as a property of their own (the reserve is disjoint from the samples, a plan
prices what it schedules), which `ValueProofs` holds as lemmas; and an abstract
specification of a resumable stage, pay each key at most once and complete only
when all are paid, that `BaselineRun`, `ValueRun` and `HoldoutUse` could each be
shown to implement.

## What is modelled

### Guard (`stats/budget/budget.go`)

| Code | Model |
| --- | --- |
| `g.spent`, `g.reserved`, `g.open`, `g.nextID > 0`, `g.confirmed`, `g.declined` | `spent`, `reserved`, `open`, `issued`, `confirmed`, `declined` |
| `g.confirmMu` | `confirmMu`, the caller that holds it |
| `g.mu` | no variable: each critical section is one action |
| `Reservation.once` | `once` |
| `Authorize`, `tryReserve`, `askOnce` | `Authorize`, `AskLock`, `AnswerYes`, `AnswerNo`, `Retry` |
| `Settle`, `Release`, `releaseLocked` | the same names |
| `Restore`, `PreConfirm` | `Restore`; `PreConfirm`, `QuoteYes`, `QuoteNo` |
| `addSpend`, `fitsLocked`, `needsConfirm`, `remainingLocked`, permitted quote | operators of those names |

A caller has one reservation at a time, as `core/invoke.go` does.  Amounts are
integers with the code's saturation at `MaxInt`, so nonsense reports (negative,
or near the bound) are inputs like others.  An `Authorize` that returns an error
changes nothing and is no step.

`Ledger` is what the guard promises without counters: holds are taken while
spend and holds stay within the caps and end as spend or given back.  `Guard`
implements it with `settled <- spent` and `holds <- open`; that `reserved`
equals the sum of the holds is an invariant of `Guard`, which is what the
refinement turns on.

### Executor (`executor/executor.go`)

Producer, each worker and the sink goroutine have a program counter; a send and
its receive on an unbuffered channel are one step.  `runDone`, `ctxDone` and
`graceDone` are the three contexts that end; `firstErr`, `sinkBroken`,
`gateFired` and `stats` are the code's variables.  The stage's callbacks may
return anything, and a panic is a failure, as the code's recover makes it.
History variables count what was started, delivered and recorded.

### BaselineRun (`core/baseline*.go`, `core/invoke.go`, `store/sqlite.go`)

`row`, `orphan`, `status` and `recordedModels` are the store; everything else
dies with the process (`Crash`), and `Start` is the first start and each
`--resume`.  `at` and `task` are where each worker is and what it has of its
case.  The case that needs care is a charge without an outcome: a budget
refusal after a billed retry, an unpriceable case, a rejected credential or a
stop.  `LeftOpen` is the sink's decision about them, `recordOrphanSpend` what it
does with the money.  The unit of money is the call.  The four statuses of a
close, a failed close, a failed insert and a failed append are all there, and so
is a source that fails (`SourceFails`).  A panic in the agent gives the call's
headroom back with nothing settled, although the provider may have been called
by then: `Panics` leaves that open, and `unsettled` counts such calls.

Two things are simpler than the code on purpose: `Authorize` is one step that
sees the context before the budget and reserves one call (its races are `Guard`'s), and the results of workers reach
the sink as in `Executor` without its statistics.  The counts the stage keeps
are in `EventStream`.

### EventStream (`core/baseline_record.go`, `core/baseline.go`)

An append takes its number and writes under `emitMu`, so it is one step with
three outcomes: written, failed with the number burned, or refused after
`RunFinished`.  What an emitter reads before it appends (the ticker's counts,
the sink's increment) is a step of its own.  The ticker writes two events per
tick and is joined before the close.  A process seeds its counts and its
sequence from the store, which is where a killed predecessor left them.

### Bridge (`bridge/run.go`, `submit.go`, `hosting.go`, `reconcile.go`)

| Code | Model |
| --- | --- |
| a `tuning_jobs` row (`store.TuningJobRecord`) | `row[g]`; its suffix is the group |
| `runs.orphan_cost_usd_micros`, scores, `BridgeGroupMeasured` events | `orphan`, `scored`, `verdicts` |
| jobs and endpoints at the provider | `job`, `over`, `endpoint` |
| the goroutine of `Run`, where in which group | `pc`, `cur` |
| `rec`, `ep`, `ep.ReadyAt`, `scores`, `retErr` of a group's measurement | `rec`, `mine`, `clock`, `got`, `failed` |
| the goroutine of `startServeTicker` | `ticker`, `tickErr` |

One action per store or provider call, so that a kill (`Crash`), a failed call
(`Fails`) or a cancellation (`Cancel`) falls between any two of them.  A request
to the provider is sent by one action and takes effect by another, at any later
time and with its sender dead or alive.  The deferred calls of
`deployAndMeasure` run in the code's order: the ticker stops, then the teardown,
then the error.  A cancelled context fails every call that takes it, the
database's included, which is why most actions need `~ctxDone`; what runs on
without it is `MeasureReturns`, `recordScores` of nothing, and the end of the ticker.
A tick settles with the guard before it writes its row, so `SettleServeTick` has
an outcome in which the one is done and the other is not; `charged` is what the
guards have settled, `unwritten` the part of it that no row write followed.

`Start` is a call of `bridge.Run` for a run that may exist, which is what `Run`
and its tests mean by a resume.  The `kno bridge` command creates its run first
and refuses one that exists, so from the command line only the first process of
a run is reachable today; the two findings below need no second one.

### Routing and ValueRun (`core/value/route.go`, `core/value_loop.go`, `core/value_measure.go`)

| Code | Model |
| --- | --- |
| `measurements`, `valuations`, `runs.status`, `runs.value_plan`, `events` | `row`, `valuation`, `status`, `runPlan`, `log` |
| the routing options of a command line, the plan they give | `opts`, `plan` |
| the loop over assets, and in it over arms and trials | `next`; `arm`, `trial`, `CasesOf` |
| `completed`, the table the resume's `Skip` reads | `completed` |
| the executor of one arm: cases not handed over, calls out, refused workers | `left`, `calling`, `refusing` |
| `stopReason`, the model gate, a broken sink, the caller's context | `stopReason`, `tripped`, `broken`, `ctxDone` |

`Routing` is `Route` as operators: the reserve is drawn before any outcome is
looked at, the clusters come from tags of failed cases, sizes round and clamp
as the code's do, and a shuffle is known by the cases it puts first, so that
any generator is covered.  `ValueRun` goes through the schedule of its plan
asset by asset; each pass is an executor run in small (`Begin`, `IsFatal`,
`StopOffering`, `EndPass`).  Every process brings its own options and cap.

Simpler than the code: a measurement is one call (retries are `BaselineRun`'s,
through the same invoker), a result is a row when its call returns (the way
there is `Executor`'s), appends succeed (`EventStream` is about those that do
not), and scores are scored or errored.  A panic, or an estimate that is refused
or cancelled, is an error without a charge: `Unpriced` for the case that gets no
further than its estimate, a `Measured` that charges nothing for the others.
The gate may trip on any charged result, also on errors that carry no response,
which is more than the code's gate sees.  `Dies` covers the kill and every store
error outside the sink.

### HoldoutUse (`core/validate.go`, `core/validate_loop.go`, `core/validate_measure.go`)

`use`, `status`, `owner`, `row` and `validation` are the store of one holdout;
everything else is a function of the process, since any number run at once and
nothing but single statements excludes them from each other.  `Check` is
`oneShot`; `CreateRun`, `RecordHoldoutUse` and `OpenCheckpoint` are the two ways
through `openRun`, one statement each.  The arms are those of `ValueRun` with
one difference that matters: a measurement that a stop kept from its call leaves
no row (`AfterStop`).  A panic and an estimate that cannot be had do leave one,
with no call (`"panic"`, `"unpriced"`), and a stop that catches a call in flight
leaves an error with the call charged (`Returns`, `Unpriced`).  `raced` and
`shared` are history: runs whose use was recorded after the uses had changed
since their check, and runs two processes had open at once.  Run ids are not
reused, and no two uses fall into one second, which is all `created_at` keeps.

### Selection (`core/select.go`, `stats/portfolio`)

One process, since nothing resumes a Select run: it refuses a partial source
unless told otherwise, then `decide` takes the best ranked asset that is left
through the rules in the code's order, charges what it selects to the caps, and
`WritePortfolio` and `FinishRun` record it; `Dies` may end it anywhere.  An
interval is known by its side of zero after the correction for the number of
assets screened, contents by which pairs overlap, costs by whole units.

## Runs

| Run | What it shows | Bounds | States |
| --- | --- | --- | --- |
| `guard` | caps, totals, overshoot, prompts, refusals, no caller stuck, and the refinement of `Ledger` | 3 callers, cost cap 4, 3 calls, threshold 2, `MaxInt` 6 | 11 946 |
| `executor` | exactly-once delivery, honest error, one late handoff, `Run` returns, no deadlock | 2 workers, 4 items, one already complete | 203 425 |
| `baseline` | money conserved, cap over the restart, cases measured once, COMPLETED is whole, models of a gated resume, who may cut a case short | 3 cases (one unpriceable), 2 workers, 3 calls, 2 attempts, 2 models, 2 processes | 6 242 615 |
| `events` | holes reported, `RunFinished` last by joining, one run in one stream | 2 cases, 1 hot-path report, 1 tick per process, 2 processes | 1 608 719 |
| `bridge` | one submission per group, jobs and overshoot in the recorded spend, endpoints found by the sweep, minutes recorded once and settled again only after a failed write, verdicts final | 2 groups, 1 case each, 2 processes, 2 minutes billed in all, cap of 2 minutes, 2 minutes settled without a row | 2 011 898 |
| `bridge_stale` | finding: the hosting cost is overwritten with the verdict | the same, 1 process | |
| `bridge_cancel` | finding: an interrupted run never calls `Teardown` | the same, 1 process | |
| `value` | valuations match their rows, completed runs are whole and cost their quote, resumes pay once, stops cost few, processes end | 2 assets, 6 cases (5 pairable), 2 routings (of 1 and 2 trials), 2 workers, 3 calls, 2 processes | 941 854 |
| `value_plan` | finding: a killed run is resumed, and completed, under another routing | the same | |
| `value_stream` | finding: the events of a resumed process are dropped | the same with one routing | |
| `validate` | one look unless two processes raced, whole and dated validations, unpaid rows are faults, resumes read the rest | 2 processes, 2 portfolios, 2 run ids, 1 case in 2 arms, caps 1 and 2, 3 starts | 1 712 323 |
| `select` | what is selected fits, what is turned away would not have | 4 assets with any of 8 valuations each, 3 pools, 3 sets of caps, partial and whole sources | 1 033 488 |

Why the bounds are enough to mean something: three callers are one that holds,
one that prompts and one that waits, and the amounts reach the cap, the
threshold and the saturated sum; two workers and three dispatchable items
allow a result in each worker's hands and one with the sink while the producer
still offers; a cap equal to the number of cases with two attempts each makes
retries exhaust it; two processes are a kill and the resume that pays for it,
and a third adds no new relation between store and memory; two groups are
the baseline all others need and one that needs it, and two minutes are one a
tick settles and one it does not, and two settled without a row are one minute
settled again after a failed write, and again.  In `value` the two assets are
one that nothing routes and one routed by its tags, the two routings share keys
and differ in reserve and trials (one measures 1 routed and 2 reserved cases
once, the other 1 and 1 twice), and the cap ends a run in the middle of an arm,
while a measurement that errs without a charge lets a run complete below it.
An underpowered valuation and one with an interval for the reserved cases both
occur, as do completed runs under either routing.  A plan without routing or without a fresh control
arm is not in the instance; the proofs cover it.  In `validate` two processes are enough to race through
the check and to share a run, and three starts are a kill, a resume and a
rival.  In `select`
four assets hold every rule at once: an overlapping pair, a mixture of
destinations, and caps that two assets fill.  `baseline` and `validate` use
symmetry, with invariants and one action property (no liveness), all of them
symmetric.

Deadlock is checked in `executor`, whose only terminal state is a returned
`Run`.  The other configurations turn it off because their systems really end:
a guard with nobody calling, a run that may be resumed no further, a bridge
run that has returned, a portfolio that has been written.

### Fairness

Three runs check liveness.  `guard` assumes that a goroutine that can run
does, that prompts are answered or fail and calls return, and strong fairness
of `AskLock`: a `sync.Mutex` hands itself to a waiter that has starved for a
millisecond.  `executor` assumes that goroutines that can run do and that the
stage's callbacks return, and strong fairness of each worker's send, since the
workers contend for one receiver and a Go channel queues its senders; nobody is
obliged to cancel.  `value` assumes weak fairness of `Step`, the process doing
something whenever it can and calls coming back; being cancelled, killed or
started again is not part of it.  The other modules have no fairness and claim
only safety.

## Proofs

Each component has one inductive invariant (`IInv`, `BridgeInv` for the bridge)
in its own module; TLC checks it on the instance of the run before it is
proved.  The proof has a lemma for each part of the invariant, with one step per
action or, where many actions leave a part alone, lemmas that say once which
steps change which variable.

* `GuardProofs`: for every finite set of callers and all caps, thresholds,
  estimates and reports that `GuardAssumption` admits, every invariant of the
  run, and that the guard implements the ledger (`GuardImplementsLedger`).
  `GuardAssumption` asks for finitely many callers, caps below `MaxInt`, integer
  amounts (negative ones included) and a `None` that is none of them.  None of
  the invariants is inductive alone: that a release returns no more than was
  taken needs to know that whoever is `"holding"` and has not settled has an open
  reservation, and nobody else has (`HoldersAreOpen`); that only one prompt is up
  needs `AskersHoldTheLock`; that a refusal is final needs `RefusalIsRecorded`;
  and `Restore`, which sets the history of overshoot anew, is sound because it
  precedes the first reservation (`NothingBeforeTheFirst`).  The refinement
  follows from `ReservedIsOpenSum`: what fits the counters fits the sum of the
  holds, because a saturated sum that stays below a cap below `MaxInt` was never
  clamped.
* `ExecutorProofs`: for any number of workers and items.  The invariant says
  where each item that was paid for is (`started`, with a worker, with the sink,
  recorded), which goroutine can have ended before which, and what each error
  and each cancelled context imply.  `StatisticsAccount` is proved only: the run
  does not repeat it.
* `BaselineProofs`: for every set of cases, any number of workers, attempts and
  processes and any cap.  The invariant keeps every case in one place
  (`CasesOK`), every call with a worker, the sink, a row, the orphan column or
  what is lost (`MoneyOK`), a reason for every case that has left the process
  without an outcome (`WholeOK`), and at most one outcome of another model that
  the gate has not yet looked at (`ModelsOK`).  `CapSurvivesRestart` follows
  since spend and calls that are out stay within the cap, and what the store
  does not know is counted: in `dark` what a kill or a failed store made
  invisible, in `unsettled` the calls an agent panicked in.
* `EventStreamProofs`: for any number of cases, reports, ticks and processes.
  The sequence number is at least every stored one, so no append is ignored;
  each emitter ends before the next is allowed to (`EndOK`); a burned number
  leaves a mark on what the process returns (`FailureOK`); and every claimed
  position is behind the counts (`CountOK`).
* `HoldoutProofs`: for any processes, portfolios, run ids, cases, trials and
  caps.  Who has a run open holds its portfolio's use or raced (`LookersHold`),
  and an index found by a check is at most the number of uses at any later
  moment (`ChecksAreDated`); what is ahead of a process is unread unless the run
  is shared (`AheadIsUnread`), what is behind it is in the store
  (`BehindIsRead`), so that the validation is computed from everything.
  `OnlyFaultsCostACase` is about the kinds of row a step can write without a
  charge.
* `ValueProofs`: for any pool, dev set, tags, shuffle, routings, caps, workers
  and processes.  A process walks assets, arms and trials in order, and the
  invariant is about where it stands: every measurement behind it has its row,
  and what has a row ahead of it had one when the process opened the run
  (`PassOK`, `AssetsOK`).  So nothing is paid for twice, a run that reaches its
  end is whole, and a valuation is computed from full arms.  What is out and
  what is settled stay within the cap (`MoneyOK`); the rows a stop keeps from an
  answer are counted against the workers that were busy (`StopsOK`).  That a
  completed run cost exactly its quote takes a sum over assets of the sizes of
  disjoint sets of keys (`SumOfDisjoint`), whose disjointness is that of arms and
  reserve in `Route`.  `RowsAreFinal` is proved only.
* `PortfolioProofs`, Select: for any pool, valuations and caps.  What is decided
  ranks above what is left, and the spend of each resource is the sum of `Use`
  over the selected assets.
* `PortfolioProofs`, bridge: for any number of groups, cases, minutes and
  processes.  None of the run's invariants is inductive alone, because `Run`
  relies at each call on what it has seen to at the calls before: a request is
  sent only from a row still `"submitting"` whose job does not exist, and every
  earlier group is counted (`PlaceOK`, `JobOK`).  `OvershootOK` counts the group
  that is between the two writes of a reconciliation as recorded.  `EndpointsOK`
  carries an endpoint from the request to the row and to the variable the
  deferred teardown uses, and says that the one endpoint of a group which is
  not gone is sweepable, by the row and by the copy of it that will be written
  back with the verdict; that copy is why `RecOK` is needed.  `MinutesOK` needs the
  row's minutes as well as its cost: a tick settles what is past the minutes
  recorded, and a sweep only ever raises them.  What the guards settled is the
  row's cost and `unwritten`, so that the row alone is bounded by what the
  provider billed.  `VerdictsAreFinal` is an action
  property, from `RecOK`: who measures has a row without a verdict.
* `SumsProofs`: a finite sum is a natural number, grows with its terms, changes
  by the change of one term, and counts a union of disjoint sets; sums are
  cardinalities because induction over data is out of reach.

Each of these proofs rests on the named assumptions of its module about the
constants and on nothing else.

Model-checked only: liveness (`AuthorizeReturns`, `RunReturns`, `ProcessEnds`),
since liveness under fairness and ENABLED are out of the prover's reach, and
the four violated properties below, which are counterexamples.

## Where the code and its own words differ

Four are runs of their own, with the counterexample TLC prints.

* `UpdateTuningJob` promises that "the caller always writes the record's full
  current state" (`store/store.go:293`).  `emitVerdict` writes the record it was
  given before the deployment, so the serve cost, minutes, endpoint and teardown
  recorded since are lost, and `SettledSpend` with them (`bridge_stale`).  The
  `bridge` run shows that until then the row holds exactly what ticks settled and
  could write.
* Teardown "runs on success, on eval-pass failure, on the serve-minute cap, and
  on cancellation" (`bridge/run.go:344`).  `TeardownGroup` reads the row first, on
  the cancelled context, and returns that error without having called the
  provider (`bridge_cancel`).
* "Resume consumes the RECORDED Plan rather than re-running routing"
  (`core/value_loop.go:407`).  The plan is recorded by the close, so a run whose
  process was killed has none, and its resume routes anew under the options of
  its own command line, which the fingerprint leaves out (`value_plan`).
* "A resumed Run continues from max(sequence) already recorded"
  (`proto/kno/v1/event.proto:38`).  Value and Validate start their emitter at 0,
  and the store ignores a number it holds (`value_stream`).  Baseline does
  continue it, which `events` checks.

Others were met while modelling, are in the models, and are what keeps some
properties as weak as they are:

* Guard: `askOnce` "invokes ConfirmFunc at most once across all callers"
  (`stats/budget/budget.go:328`); it remembers a yes, not a no, so a caller that
  waited behind a refusal asks again.
* Baseline: a case in flight when the model gate stops the run is recorded as
  errored and never attempted again, unlike one that any other stop cut short
  (`core/baseline_record.go:835`, `:865`): hence `OnlyTheGateClosesCases`.  The
  gate reads models that only a close writes (`core/baseline_gate.go:72`), so the
  resume of a killed first process is not gated: hence the `armed` of
  `GatedRunIsOneModel`.
  An agent that panics in a call has its reservation released and nothing settled
  (`core/invoke.go:126-133`, `:245-247`): if the provider was called, that call is
  under no cap and in no record, hence the `unsettled` of `CapSurvivesRestart`,
  for which the code has no remedy and no words.
* Events: the heartbeat reads its counts before it waits for the lock
  (`core/baseline_record.go:704`), so it may claim fewer cases than the stream
  holds; positions still never go back against each other.
* Bridge: "the caller is responsible for waiting until the returned Endpoint is
  ready" (`core/ring0.go:274`), and `deployAndMeasure` does not wait.  A group
  deployed again keeps the first endpoint's teardown mark, so the sweep no
  longer looks at it: hence `OnlyARedeployHides`.  A kill between the two writes
  of `ReconcileTerminal` records an overshoot twice, and so does every resume
  over a row that has ended, which reconciles it again (`bridge/run.go:226-235`):
  `OvershootIsRecorded` is an inequality.  A tick that settled and failed to write
  its row leaves the minutes on the row as they were, and the next or the final
  tick settles the same minutes again with the guard (`bridge/hosting.go:175-185`,
  `bridge/run.go:636-647`), where `bridge/hosting.go:147` says that such a caller
  "settles exactly one minute per call": the row is charged once, the guard's spend is high by
  them until the process ends.  Hence the `unwritten` of `HostingIsAccounted`.  A kill between the two writes of a sweep leaves minutes nobody
  is charged for; nothing is claimed of them.
* Value: a refused or cancelled measurement is recorded as done, so each stop
  takes a few away for ever: hence `StopCostsFew`.  When every routed measurement
  errored, a valuation has neither an interval nor a reason
  (`core/value_measure.go:118`).  A COMPLETED run may be resumed and end as
  INTERRUPTED, or a whole valuation be replaced by BUDGET_EXHAUSTED.  A
  recomputed valuation "must produce the row that matches what is now recorded"
  (`store/measurement.go:459`), but a killed run resumed with more trials adds
  rows for cases whose valuation is stored, and until it comes to that asset
  again the two differ: hence the clause on trials of `StoredValuationIsCurrent`.
* Validate: the sink spares a case that a stop kept from its call, since "the
  marker buys no protection and costs a holdout Case"
  (`core/validate_loop.go:449`).  Under a cost cap an estimate that the stop cancels
  comes to the sink as an invalid input, which it does not spare (`:508-518`,
  `:438-462`), so such a stop does cost the case it meets there; a panic costs its
  case as well.  Hence `UnpaidRowsAreFaults`, which allows a row without a call for
  these two only.  Two processes may both pass `oneShot` (`core/validate.go:634`, "exactly
  once" at `:621`), and two portfolios that race both get use index 1 and need
  no `--allow-repeat-holdout`: hence the `raced` of `OneLookUnlessRacing`.  A kill
  between `CreateRun` and `RecordHoldoutUse` leaves a run that can neither be
  resumed nor hold a use.  With more than one trial `n_dropped` counts trials where
  the proto says cases (`core/validate_measure.go:80`).
* Select: the source's status is read before its valuations, so a Value resume
  beside it is not noticed.  A lone measured asset can never be selected, since
  the correction for screening needs two.  An asset with an unpowered control
  test can be (`core/select.go:440`).  A killed run stays RUNNING.
* Export and gaps: a pool that lacks a selected asset is an error only after
  the run row was created, and a kill between artifact and manifest splits the
  pair; a gap's verdict is that of the covering asset with the largest delta
  alone (`core/gaps.go:78`).

## What is not modelled

* Export and gaps: sequential renderings of rows already stored, that call no
  agent and that no other component reads back.
* Statistics and judge calibration: intervals and agreement in floating point,
  which these tools do not do.  What other modules need of them is their
  decision (an interval exists, which side of zero it is on), taken from any.
* Adapters, command line and TUI: input and output.  Adapters appear as the
  answers an agent may give, flags as constants and as the options a process is
  started with.
* The store's migrations (see the plan), `Purge` and the retry of a busy
  database: one transaction each.
* Of Baseline, the feasibility arithmetic and the fingerprint checks of a
  resume, and the mean; of Value, the generator behind a shuffle, score values
  and intervals, and the money events; of Validate, the chain of checks back to
  Baseline, the seal and the context budget; of Select, gains and the wording of a
  rejection; of the bridge, the money of the evaluation pass, the limiter (a
  single goroutine never waits for it) and the arithmetic of a verdict.
* Generated protobuf code, which is types; wherever a field of it matters, it is
  a field of a record here.

Inside the modelled components wording, timings (a backoff's length, the
ticker's period) and the contents of an answer are left out, and the billed
cost takes the path of the call count.
