---------------------------- MODULE BaselineRun -----------------------------
(***************************************************************************)
(* A baseline run over its processes: core.Baseline with its work          *)
(* function, its sink, its model gate and its close, over the run, outcome *)
(* and orphan-spend records of the store.  A process may be killed between *)
(* any two steps; --resume starts the next one from what the store holds.  *)
(*                                                                         *)
(* The unit of money is the provider call, the dimension every settlement  *)
(* counts; the billed cost takes the same path.  What module Guard says of *)
(* racing for a cap and module Executor of handing results over is used    *)
(* here in its simplest form: Authorize is one step, and the goroutines    *)
(* share one set of cases.                                                 *)
(***************************************************************************)
EXTENDS Integers, FiniteSets, Sums

CONSTANTS
    Case,          \* the dev cases
    Worker,        \* the executor's workers
    Cap,           \* --max-calls
    MaxAttempts,   \* calls per case and process
    Unpriceable,   \* cases whose estimate is refused under a cost cap
    Model,         \* what the provider's alias may resolve to
    MaxProcesses,  \* bound: how often the run is started or resumed
    None

(* What a worker has of a case, and the sink is given.                      *)
Result == [case : Case \cup {None}, calls : 0..MaxAttempts,
           err : {"none", "score", "budget", "unpriceable", "fatal", "cancelled", "provider",
                  "panic"},
           model : Model \cup {None}, byStop : BOOLEAN]

ASSUME BaselineAssumption ==
    /\ IsFiniteSet(Case) /\ IsFiniteSet(Worker)
    /\ Cap \in Nat /\ MaxAttempts \in Nat \ {0} /\ MaxProcesses \in Nat
    /\ Unpriceable \subseteq Case
    /\ None \notin Case \cup Model \cup Result

VARIABLES
    \* The store.
    row,            \* outcomes: [kind, calls, model] of each case, kind "none" for no row
    orphan,         \* runs.orphan_calls
    status,         \* runs.status, "ABSENT" before CreateRun
    recordedModels, \* the run record's resolved_models, written by closeRun
    \* The process.
    up,
    left,           \* cases the producer has not offered
    offered,        \* the case in the producer's send, or None
    sourceErr,      \* producerErr: what reading the dev cases came to
    at,             \* where each worker is
    task,           \* [case, calls, err, model, byStop]: what it has of its case so far
    sink,           \* the result the sink goroutine has, or None
    recordedNow,    \* the sink has returned and AfterRecord is next
    sinkBroken,
    gateFired,
    runDone,        \* the executor's context is cancelled
    userDone,       \* the caller's context is cancelled
    stopReason,     \* what the sink reads to tell a stop from a timeout
    firstErr,
    emitFailed,     \* agg.emitFailure
    spent,          \* guard.Spent().Calls
    armed,          \* modelGate.recorded
    \* History variables.
    processes,
    measured,       \* the models of the rows the process started from
    made,           \* calls the provider answered or may have answered
    dark,           \* those of them that a kill or a failed store made invisible
    unsettled,      \* those of them during which the agent panicked
    cutShort,       \* cases recorded though it was the run that cancelled them
    darkBefore      \* dark when the process started

store == <<row, orphan, status, recordedModels>>
producer == <<left, offered, sourceErr>>
sinkVars == <<sink, recordedNow, sinkBroken, gateFired, emitFailed>>
ctx == <<runDone, userDone, stopReason, firstErr>>
fixed == <<up, armed, processes, measured, darkBefore, unsettled>>
money == <<spent, made, dark>>
work == <<at, task>>
vars == <<store, producer, work, sinkVars, ctx, fixed, money, cutShort>>

Of(c, calls, err, model, byStop) ==
    [case |-> c, calls |-> calls, err |-> err, model |-> model, byStop |-> byStop]
Idle == Of(None, 0, "none", None, FALSE)
NoRow == [kind |-> "none", calls |-> 0, model |-> None]

Rows(kind) == {c \in Case : row[c].kind = kind}
Completed == {c \in Case : row[c].kind # "none"}            \* CompletedCases
ModelsOf(rows) == {rows[c].model : c \in Case} \ {None}
RowCalls == SumOver([c \in Case |-> row[c].calls], Case)
SettledSpend == RowCalls + orphan
InCall == {w \in Worker : at[w] = "call"}

Init ==
    /\ row = [c \in Case |-> NoRow] /\ orphan = 0
    /\ status = "ABSENT" /\ recordedModels = {}
    /\ up = FALSE /\ left = {} /\ offered = None /\ sourceErr = "none"
    /\ at = [w \in Worker |-> "idle"] /\ task = [w \in Worker |-> Idle]
    /\ sink = None /\ recordedNow = FALSE /\ sinkBroken = FALSE /\ gateFired = FALSE
    /\ runDone = FALSE /\ userDone = FALSE /\ stopReason = "none" /\ firstErr = "none"
    /\ emitFailed = FALSE
    /\ spent = 0 /\ armed = {}
    /\ processes = 0 /\ measured = {} /\ made = 0 /\ dark = 0 /\ darkBefore = 0
    /\ cutShort = {} /\ unsettled = 0

-----------------------------------------------------------------------------
(* Opening. *)

\* Mutant: the resumed process's guard starts from nothing.
BugRestore == 0

Restore == SettledSpend

\* Mutant: a resume skips only the cases that were scored.
BugToMeasure == Case \ Rows("scored")

ToMeasure == Case \ Completed

(* A first start creates the run; a later one is a --resume with the same   *)
(* inputs, which leaves the stored record as it is.                         *)
Start ==
    /\ ~up /\ processes < MaxProcesses
    /\ up' = TRUE /\ processes' = processes + 1
    /\ status' = IF status = "ABSENT" THEN "RUNNING" ELSE status
    /\ left' = ToMeasure /\ offered' = None /\ sourceErr' = "none"
    /\ at' = [w \in Worker |-> "idle"] /\ task' = [w \in Worker |-> Idle]
    /\ sink' = None /\ recordedNow' = FALSE /\ sinkBroken' = FALSE /\ gateFired' = FALSE
    /\ runDone' = FALSE /\ userDone' = FALSE /\ stopReason' = "none" /\ firstErr' = "none"
    /\ emitFailed' = FALSE
    /\ spent' = Restore
    /\ armed' = recordedModels
    /\ measured' = ModelsOf(row) /\ darkBefore' = dark
    /\ UNCHANGED <<row, orphan, recordedModels, made, dark, unsettled, cutShort>>

-----------------------------------------------------------------------------
(* The executor's producer, and the work of one case. *)

Offer(c) ==
    /\ up /\ c \in left /\ offered = None /\ ~runDone
    /\ left' = left \ {c} /\ offered' = c
    /\ UNCHANGED <<store, sourceErr, work, sinkVars, ctx, fixed, money, cutShort>>

StopOffering ==
    /\ up /\ runDone /\ left \cup {offered} # {None}
    /\ left' = {} /\ offered' = None
    /\ UNCHANGED <<store, sourceErr, work, sinkVars, ctx, fixed, money, cutShort>>

\* The cases cannot be read on, for a reason of the source or because the caller cancelled
\* its read: what is in flight finishes.
SourceFails ==
    /\ up /\ left # {} /\ offered = None
    /\ sourceErr' \in {"source"} \cup (IF userDone THEN {"cancelled"} ELSE {})
    /\ left' = {}
    /\ UNCHANGED <<store, offered, work, sinkVars, ctx, fixed, money, cutShort>>

\* Worker w goes to a place with a task.
To(w, place, t) == at' = [at EXCEPT ![w] = place] /\ task' = [task EXCEPT ![w] = t]

\* estimate refuses an unpriceable case before Authorize is reached.
Handoff(w) ==
    /\ offered # None /\ at[w] = "idle"
    /\ IF offered \in Unpriceable
       THEN To(w, "deliver", Of(offered, 0, "unpriceable", None, FALSE))
       ELSE To(w, "authorize", Of(offered, 0, "none", None, FALSE))
    /\ offered' = None
    /\ UNCHANGED <<store, left, sourceErr, sinkVars, ctx, fixed, money, cutShort>>

\* The case fails without a call of its own.
GivesUp(w, err, byStop) == To(w, "deliver", Of(task[w].case, task[w].calls, err, None, byStop))

Fits == spent + Cardinality(InCall) + 1 <= Cap

\* A cancelled context is seen before the budget is.
Authorize(w) ==
    /\ at[w] = "authorize"
    /\ \/ runDone /\ GivesUp(w, "cancelled", TRUE)
       \/ ~runDone /\ Fits /\ To(w, "call", task[w])
       \/ ~runDone /\ ~Fits /\ GivesUp(w, "budget", FALSE)
    /\ UNCHANGED <<store, producer, sinkVars, ctx, fixed, money, cutShort>>

\* The call is settled with the guard and counted for the case.
Settled(w, place, err, model, byStop) ==
    /\ at[w] = "call"
    /\ spent' = spent + 1 /\ made' = made + 1
    /\ To(w, place, Of(task[w].case, task[w].calls + 1, err, model, byStop))
    /\ UNCHANGED <<store, producer, sinkVars, ctx, fixed, dark, cutShort>>

Answers(w) ==
    \E m \in Model, err \in {"none", "score"} : Settled(w, "deliver", err, m, FALSE)

\* A failed call: run-fatal, terminal, cancelled or timed out, or one that may be
\* retried unless the attempts or the retry budget are used up.
Fails(w) ==
    \/ \E err \in {"fatal", "provider", "panic"} : Settled(w, "deliver", err, None, FALSE)
    \/ Settled(w, "deliver", "cancelled", None, runDone)
    \/ task[w].calls + 1 < MaxAttempts /\ Settled(w, "wait", "none", None, FALSE)

(* A panic in the agent: the deferred Release returns the headroom with     *)
(* nothing settled, though the provider may have been called by then.       *)
Panics(w) ==
    /\ at[w] = "call" /\ GivesUp(w, "panic", FALSE)
    /\ \E calls \in {0, 1} : made' = made + calls /\ unsettled' = unsettled + calls
    /\ UNCHANGED <<store, producer, sinkVars, ctx, up, armed, processes, measured, darkBefore,
                   spent, dark, cutShort>>

Backoff(w) ==
    /\ at[w] = "wait"
    /\ \/ To(w, "authorize", task[w])
       \/ runDone /\ GivesUp(w, "cancelled", TRUE)
    /\ UNCHANGED <<store, producer, sinkVars, ctx, fixed, money, cutShort>>

Deliver(w) ==
    /\ at[w] = "deliver" /\ sink = None
    /\ sink' = task[w]
    /\ IF task[w].err \in {"budget", "fatal"}
       THEN To(w, "isFatal", Of(None, 0, task[w].err, None, FALSE))
       ELSE To(w, "idle", Idle)
    /\ UNCHANGED <<store, producer, recordedNow, sinkBroken, gateFired, emitFailed, ctx, fixed,
                   money, cutShort>>

fail(err) ==
    /\ firstErr' = IF firstErr = "none" THEN err ELSE firstErr
    /\ runDone' = TRUE

IsFatal(w) ==
    /\ at[w] = "isFatal"
    /\ stopReason' = IF stopReason = "none" THEN task[w].err ELSE stopReason
    /\ fail(task[w].err)
    /\ To(w, "gone", Idle)
    /\ UNCHANGED <<store, producer, sinkVars, userDone, fixed, money, cutShort>>

-----------------------------------------------------------------------------
(* The sink. *)

HasResponse(r) == r.err \in {"none", "score"}

\* Mutant: the sink asks only the caller's context whether the run is ending.
BugShuttingDown == userDone

shuttingDown == userDone \/ stopReason # "none"

\* Mutant: a case that timed out is left for a resume, whatever the run is doing.
BugLeftOpen(r) ==
    r.err \in {"budget", "unpriceable", "fatal"} \/ (r.err = "cancelled" /\ ~HasResponse(r))

(* The cases that get no row, so that a resume attempts them again. *)
LeftOpen(r) ==
    \/ r.err \in {"budget", "unpriceable", "fatal"}
    \/ shuttingDown /\ r.err = "cancelled" /\ ~HasResponse(r)

Discard ==
    /\ sink # None /\ sinkBroken
    /\ sink' = None /\ dark' = dark + sink.calls
    /\ UNCHANGED <<store, producer, work, recordedNow, sinkBroken, gateFired, emitFailed,
                   ctx, fixed, spent, made, cutShort>>

\* The write itself fails, and what it was to make durable is lost.
StoreFails ==
    /\ sink # None /\ ~sinkBroken /\ ~recordedNow
    /\ LeftOpen(sink) => sink.calls > 0
    /\ sinkBroken' = TRUE /\ fail(IF userDone THEN "cancelled" ELSE "sink")
    /\ sink' = None /\ dark' = dark + sink.calls
    /\ UNCHANGED <<store, producer, work, recordedNow, gateFired, emitFailed, userDone,
                   stopReason, fixed, spent, made, cutShort>>

\* Mutant: a case without an outcome leaves no trace of its calls.
BugRecordOrphanSpend ==
    /\ sink # None /\ ~sinkBroken /\ ~recordedNow /\ LeftOpen(sink)
    /\ sink' = None
    /\ UNCHANGED <<store, producer, work, recordedNow, sinkBroken, gateFired, emitFailed,
                   ctx, fixed, money, cutShort>>

recordOrphanSpend ==
    /\ sink # None /\ ~sinkBroken /\ ~recordedNow /\ LeftOpen(sink)
    /\ orphan' = orphan + sink.calls
    /\ emitFailed' \in {emitFailed, emitFailed \/ sink.calls > 0}
    /\ sink' = None
    /\ UNCHANGED <<row, status, recordedModels, producer, work, recordedNow, sinkBroken,
                   gateFired, ctx, fixed, money, cutShort>>

\* INSERT OR IGNORE, then the event, whose append may fail.  The counts in between are
\* module EventStream's.
RecordOutcome ==
    /\ sink # None /\ ~sinkBroken /\ ~recordedNow /\ ~LeftOpen(sink)
    /\ row' = [row EXCEPT ![sink.case] =
          IF @.kind # "none" THEN @
          ELSE [kind  |-> IF sink.err = "none" THEN "scored" ELSE "errored",
                calls |-> sink.calls, model |-> sink.model]]
    /\ \/ recordedNow' = TRUE /\ UNCHANGED <<sink, sinkBroken, runDone, firstErr>>
       \/ /\ sinkBroken' = TRUE /\ fail(IF userDone THEN "cancelled" ELSE "sink")
          /\ sink' = None /\ UNCHANGED recordedNow
    /\ cutShort' = IF sink.byStop THEN cutShort \cup {sink.case} ELSE cutShort
    /\ UNCHANGED <<orphan, status, recordedModels, producer, work, gateFired, emitFailed,
                   userDone, stopReason, fixed, money>>

\* Mutant: only a scored result is compared with the record.
BugModelChanged(m) == sink.err = "none" /\ armed # {} /\ m # None /\ m \notin armed

modelChanged(m) == armed # {} /\ m # None /\ m \notin armed

AfterRecord ==
    /\ sink # None /\ recordedNow
    /\ IF modelChanged(sink.model) /\ ~gateFired
       THEN gateFired' = TRUE /\ fail("gate")
       ELSE UNCHANGED <<gateFired, runDone, firstErr>>
    /\ sink' = None /\ recordedNow' = FALSE
    /\ UNCHANGED <<store, producer, work, sinkBroken, emitFailed, userDone, stopReason,
                   fixed, money, cutShort>>

-----------------------------------------------------------------------------
(* The end of a process. *)

Cancel ==
    /\ up /\ ~userDone
    /\ userDone' = TRUE /\ runDone' = TRUE
    /\ UNCHANGED <<store, producer, work, sinkVars, stopReason, firstErr, fixed, money, cutShort>>

runErr == IF firstErr # "none" THEN firstErr
          ELSE IF sourceErr # "none" THEN sourceErr
          ELSE IF userDone THEN "cancelled"
          ELSE IF emitFailed THEN "emit" ELSE "none"

statusFor(err) ==
    IF err = "none" THEN "COMPLETED"
    ELSE IF err = "budget" THEN "BUDGET_STOPPED"
    ELSE IF err = "cancelled" THEN "INTERRUPTED" ELSE "FAILED"

\* FinishRun may fail, and so may the read behind resolved_models.
closeRun ==
    /\ up /\ left = {} /\ offered = None /\ sink = None
    /\ \A w \in Worker : at[w] \in {"idle", "gone"}
    /\ \/ /\ status' = statusFor(runErr)
          /\ recordedModels' \in {recordedModels, ModelsOf(row)}
       \/ UNCHANGED <<status, recordedModels>>
    /\ up' = FALSE
    /\ UNCHANGED <<row, orphan, producer, work, sinkVars, ctx, armed, processes, measured,
                   darkBefore, unsettled, money, cutShort>>

TaskCalls == SumOver([w \in Worker |-> task[w].calls], Worker)
InFlight == TaskCalls + (IF sink = None \/ recordedNow THEN 0 ELSE sink.calls)

(* The process is killed.  A call that was out may have been answered.      *)
Crash ==
    /\ up
    /\ up' = FALSE
    /\ made' = made + Cardinality(InCall)
    /\ dark' = dark + InFlight + Cardinality(InCall)
    /\ UNCHANGED <<store, producer, work, sinkVars, ctx, armed, processes, measured,
                   darkBefore, unsettled, spent, cutShort>>

Process ==
    \/ \E c \in Case : Offer(c)
    \/ StopOffering \/ SourceFails
    \/ \E w \in Worker :
        \/ Handoff(w) \/ Authorize(w) \/ Answers(w) \/ Fails(w) \/ Panics(w)
        \/ Backoff(w) \/ Deliver(w) \/ IsFatal(w)
    \/ Discard \/ StoreFails \/ recordOrphanSpend \/ RecordOutcome \/ AfterRecord
    \/ Cancel \/ closeRun \/ Crash

Next == Start \/ (up /\ Process)

Spec == Init /\ [][Next]_vars

-----------------------------------------------------------------------------
(* Properties. *)

(* The records hold what their Go counterparts can hold; no case makes more *)
(* calls in a process than it has attempts.                                 *)
TypeOK ==
    /\ row \in [Case -> [kind : {"none", "scored", "errored"}, calls : 0..MaxAttempts,
                        model : Model \cup {None}]]
    /\ status \in {"ABSENT", "RUNNING", "COMPLETED", "BUDGET_STOPPED", "INTERRUPTED", "FAILED"}
    /\ recordedModels \subseteq Model /\ armed \subseteq Model /\ measured \subseteq Model
    /\ left \subseteq Case /\ cutShort \subseteq Case /\ offered \in Case \cup {None}
    /\ at \in [Worker -> {"idle", "authorize", "call", "wait", "deliver", "isFatal", "gone"}]
    /\ task \in [Worker -> Result] /\ sink \in Result \cup {None}
    /\ up \in BOOLEAN /\ recordedNow \in BOOLEAN /\ sinkBroken \in BOOLEAN
    /\ gateFired \in BOOLEAN /\ runDone \in BOOLEAN /\ userDone \in BOOLEAN
    /\ emitFailed \in BOOLEAN
    /\ stopReason \in {"none", "budget", "fatal"}
    /\ firstErr \in {"none", "budget", "fatal", "sink", "cancelled", "gate"}
    /\ spent \in 0..Cap /\ orphan \in Nat /\ processes \in 0..MaxProcesses
    /\ made \in Nat /\ dark \in Nat /\ darkBefore \in Nat /\ unsettled \in Nat
    /\ sourceErr \in {"none", "source", "cancelled"}

(* Whatever a case comes to (an answer, a refusal after a billed retry, a   *)
(* panic, a cancellation in the middle of a backoff), every call the guard  *)
(* settled is in the store, or with the worker or the sink on its way       *)
(* there, or was lost with a sink that failed: what SettledSpend will       *)
(* return to a resume is what this process spent                            *)
(* (baseline_record.go:402-437, 779-930; store/sqlite.go:899).              *)
SpendConserved == up => spent = SettledSpend + InFlight + (dark - darkBefore)

(* Over all processes of the run the provider is called no oftener than the *)
(* cap allows, but for the calls that a crash or a failed store made        *)
(* invisible, and the one call out when an agent panics, which is settled   *)
(* nowhere (Guard.Restore, baseline.go:391; invoke.go:126-133, 245-247;     *)
(* docs/debt.md#20).                                                        *)
CapSurvivesRestart == made <= Cap + dark + unsettled

(* A run recorded as completed has an outcome for every case it could       *)
(* price: no way of leaving a case open for a resume goes with an outcome   *)
(* of the run that asks for none (baseline_record.go:779-900,               *)
(* baseline_close.go:253).                                                  *)
CompletedIsWhole == status = "COMPLETED" => Case \ Unpriceable \subseteq Completed

(* A case with an outcome is never measured again, in this process or after *)
(* a resume, and no case is measured by two workers at once.                *)
MeasuredOnce ==
    up => \A w \in Worker :
              task[w].case # None =>
                  /\ task[w].case \notin Completed
                  /\ \A v \in Worker \ {w} : task[v].case # task[w].case

(* A case that the run itself cut short is recorded as errored, and so      *)
(* skipped by every resume, only when it was the model gate that stopped    *)
(* the run: a human's stop, a budget stop and a rejected credential leave   *)
(* it open.                                                                 *)
OnlyTheGateClosesCases == [][cutShort' # cutShort => gateFired]_vars

(* A process that resumes with a record of the run's models, and completes, *)
(* has added no outcome of another model (baseline_gate.go:72-123).         *)
GatedRunIsOneModel ==
    ~up /\ status = "COMPLETED" /\ armed # {} => ModelsOf(row) \subseteq armed \cup measured

(* What makes them inductive: what each worker and the sink may hold, ...   *)
Held(t) ==
    /\ t.case \in Case
    /\ t.case \in Unpriceable <=> t.err = "unpriceable"
    /\ t.byStop => t.err = "cancelled" /\ runDone

Placed(place, t) ==
    /\ place \in {"idle", "gone"} => t = Idle
    /\ place \in {"authorize", "call", "wait"} =>
          Held(t) /\ t.err = "none" /\ t.calls < MaxAttempts
    /\ place = "deliver" => Held(t)
    /\ place = "isFatal" => t.case = None /\ t.calls = 0 /\ t.err \in {"budget", "fatal"}

PlacesOK ==
    /\ \A w \in Worker : Placed(at[w], task[w])
    /\ sink # None => Held(sink)
    /\ recordedNow => sink # None /\ ~sinkBroken

(* ... that a case is in one place only, ...                                *)
CasesOK ==
    /\ \A c \in Case \ Completed : row[c] = NoRow
    /\ left \cap Completed = {} /\ offered \notin Completed \cup left
    /\ \A w \in Worker : task[w].case # None =>
          /\ task[w].case \notin Completed \cup left \cup {offered}
          /\ \A v \in Worker \ {w} : task[v].case # task[w].case
    /\ sink # None =>
          /\ sink.case \notin left \cup {offered}
          /\ \A w \in Worker : task[w].case # sink.case
          /\ recordedNow <=> sink.case \in Completed

(* ... where the money of this process and of the earlier ones is, ...      *)
MoneyOK ==
    /\ up => /\ made = spent + darkBefore + unsettled /\ darkBefore <= dark
             /\ spent + Cardinality(InCall) <= Cap
             /\ spent + darkBefore = SettledSpend + InFlight + dark
    /\ ~up => /\ made = SettledSpend + dark + unsettled
              /\ made <= Cap + dark + unsettled

(* ... what the ways to stop say of each other, ...                         *)
StopsOK ==
    /\ runDone => firstErr # "none" \/ userDone
    /\ stopReason # "none" \/ sinkBroken \/ gateFired => firstErr # "none"
    /\ firstErr \in {"budget", "fatal"} => stopReason # "none"
    /\ firstErr = "sink" => sinkBroken
    /\ firstErr = "cancelled" => userDone
    /\ firstErr = "gate" => gateFired

(* ... where a case without an outcome still is, if nothing explains it,    *)
Stopping == firstErr # "none" \/ sourceErr # "none" \/ userDone \/ \E w \in Worker : at[w] = "isFatal"

WholeOK ==
    /\ sink # None /\ sink.err \in {"budget", "fatal"} => Stopping
    /\ up => \A c \in Case \ (Unpriceable \cup Completed \cup left \cup {offered}) :
          Stopping \/ (\E w \in Worker : task[w].case = c) \/ (sink # None /\ sink.case = c)

(* ... and the outcome the gate has not looked at yet.                      *)
ModelsOK ==
    armed # {} =>
        /\ status = "COMPLETED" => ModelsOf(row) \subseteq armed \cup measured
        /\ up /\ firstErr = "none" => \A c \in Case :
              \/ row[c].model \in armed \cup measured \cup {None}
              \/ recordedNow /\ sink.case = c /\ sink.model = row[c].model

IInv ==
    /\ TypeOK /\ PlacesOK /\ CasesOK /\ MoneyOK /\ StopsOK /\ WholeOK /\ CompletedIsWhole
    /\ ModelsOK

=============================================================================
