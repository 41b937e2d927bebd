------------------------------ MODULE ValueRun ------------------------------
(***************************************************************************)
(* A Value run over its processes: core.ValueOptions.Value with its        *)
(* openRun, measureAsset, measureArm, valuationFor and finishRun, over the *)
(* measurements, valuations, events and run row of the store.  A process   *)
(* may be killed between any two steps; --resume starts the next one, with *)
(* the routing options and the cap of its own command line.                *)
(*                                                                         *)
(* A measurement is one call: its retries are those of BaselineRun, which  *)
(* shares the invoker.  Module Executor says how results travel; here a    *)
(* result is recorded as its call comes back.  Appends to the event stream *)
(* succeed (EventStream is about those that do not), and a row and the     *)
(* event that reports it are written in one step.                          *)
(***************************************************************************)
EXTENDS Routing, Sequences

CONSTANTS
    AssetOrder,    \* the pool as sortedAssets returns it
    Workers,       \* --concurrency
    Caps,          \* the values --max-calls may have
    MaxProcesses,  \* bound: how often the run is started or resumed
    None

ASSUME ValueAssumption ==
    /\ AssetOrder \in Seq(Asset)
    /\ \A a \in Asset : \E i \in DOMAIN AssetOrder : AssetOrder[i] = a
    /\ \A i, j \in DOMAIN AssetOrder : AssetOrder[i] = AssetOrder[j] => i = j
    /\ IsFiniteSet(Options)
    /\ Workers \in Nat \ {0} /\ Caps \subseteq Nat /\ MaxProcesses \in Nat
    /\ None \notin Asset \cup Options
    /\ Case \subseteq Nat                      \* the ids, in their order

VARIABLES
    \* The store.
    row,          \* measurements: [kind, calls] of each key, kind "none" for no row
    valuation,    \* valuations: the record of each asset, or None; opts is a history field
    status,       \* runs.status, "ABSENT" before CreateRun
    runPlan,      \* the run record's value_plan, written by finishRun
    log,          \* events: what the run's event at each position says
    \* The process.
    at,           \* "down", or the step of Value it is at
    opts,         \* its routing options
    cap,
    completed,    \* the keys that had a row when it opened the run
    next,         \* the asset being measured, as an index into AssetOrder
    arm, trial,   \* the arm being measured, as an index into ArmKind, and its trial
    left,         \* cases the producer has not handed over
    calling,      \* keys whose call is out
    refusing,     \* workers refused by the budget, which end in IsFatal
    stopReason,
    tripped,      \* the model gate ended the executor's run
    broken,       \* the sink failed
    ctxDone,      \* the caller's context is cancelled
    spent,        \* guard.Spent().Calls
    seq,          \* stageEmitter.seq
    \* History variables.
    processes,
    stopped       \* the rows of measurements that a stop kept from an answer

store == <<row, valuation, status, runPlan, log>>
place == <<at, next, arm, trial>>
work == <<left, calling, refusing>>
stops == <<stopReason, tripped, broken, ctxDone>>
fixed == <<opts, cap, completed, processes>>
vars == <<store, place, work, stops, fixed, spent, seq, stopped>>

Plans == [o \in Options |-> Route(o)]
plan == Plans[opts]
Schedule == [o \in Options |-> [a \in Asset |-> measurementsFor(Plans[o], a)]]
Scheduled(o) == UNION {Schedule[o][a] : a \in Asset}
Key == UNION {Scheduled(o) : o \in Options}

NoRow == [kind |-> "none", calls |-> 0]
Done == {k \in Key : row[k].kind # "none"}                     \* CompletedMeasurements
SettledSpend == SumOver([k \in Key |-> row[k].calls], Key)

Init ==
    /\ row = [k \in Key |-> NoRow]
    /\ valuation = [a \in Asset |-> None]
    /\ status = "ABSENT" /\ runPlan = None /\ log = <<>>
    /\ at = "down" /\ opts = None /\ cap = 0 /\ completed = {}
    /\ next = 1 /\ arm = 1 /\ trial = 1 /\ left = {} /\ calling = {} /\ refusing = 0
    /\ stopReason = "none" /\ tripped = FALSE /\ broken = FALSE /\ ctxDone = FALSE
    /\ spent = 0 /\ seq = 0
    /\ processes = 0 /\ stopped = 0

\* The process is gone, and with it all but the store.
Ends ==
    /\ at' = "down" /\ opts' = None /\ cap' = 0 /\ completed' = {}
    /\ next' = 1 /\ arm' = 1 /\ trial' = 1 /\ left' = {} /\ calling' = {} /\ refusing' = 0
    /\ stopReason' = "none" /\ tripped' = FALSE /\ broken' = FALSE /\ ctxDone' = FALSE
    /\ spent' = 0 /\ seq' = 0
    /\ UNCHANGED processes

\* INSERT OR IGNORE at the position the emitter holds.
appended(kind) ==
    IF seq + 1 \in DOMAIN log THEN log ELSE Append(log, [kind |-> kind, by |-> processes])
append(kind) == seq' = seq + 1 /\ log' = appended(kind)

-----------------------------------------------------------------------------
(* Opening. *)

equalPlans(p, q) ==
    /\ p.mode = q.mode /\ p.trials = q.trials /\ p.seed = q.seed
    /\ p.eligible = q.eligible /\ p.control = q.control
    /\ p.routed = q.routed /\ p.fresh = q.fresh

Restore == SettledSpend

CompletedMeasurements == Done

(* A first start creates the run; any later one is a --resume.              *)
openRun(o, c) ==
    /\ at = "down" /\ processes < MaxProcesses
    /\ status # "ABSENT" /\ runPlan # None => equalPlans(runPlan, Plans[o])
    /\ status' = IF status = "ABSENT" THEN "RUNNING" ELSE status
    /\ opts' = o /\ cap' = c /\ completed' = CompletedMeasurements
    /\ at' = "asset" /\ spent' = Restore
    /\ processes' = processes + 1
    /\ seq' = 1
    /\ log' = IF log # <<>> THEN log
              ELSE <<[kind |-> IF status = "ABSENT" THEN "RunStarted" ELSE "RunResumed",
                      by   |-> processes + 1]>>
    /\ UNCHANGED <<row, valuation, runPlan, next, arm, trial, work, stops, stopped>>

-----------------------------------------------------------------------------
(* One asset: the treatment arm, the fresh control arm, and the treatment   *)
(* arm over the reserved cases, each trial by trial.                        *)

Asked == AssetOrder[next]

Arms == 1..3
ArmKind == <<"treatment", "control", "treatment">>

\* Mutant: the reserved cases are measured only when there is no fresh control arm.
BugCasesOf(p, a, i) ==
    IF p.fresh THEN <<p.routed[a], p.routed[a], {}>>[i] ELSE <<p.routed[a], {}, p.control>>[i]

CasesOf(p, a, i) ==
    <<p.routed[a], IF p.fresh THEN p.routed[a] ELSE {}, p.control>>[i]

KeyOf(a, i, t, c) == [asset |-> a, case |-> c, arm |-> ArmKind[i], trial |-> t]

\* The cases of an arm that the executor's Skip does not leave out.
ToMeasure(a, i, t) == {c \in CasesOf(plan, a, i) : KeyOf(a, i, t, c) \notin completed}

\* An arm without cases is passed over.
LaterArms == {i \in Arms : i > arm /\ CasesOf(plan, Asked, i) # {}}

StartAsset ==
    /\ at = "asset" /\ next <= Len(AssetOrder)
    /\ IF ctxDone
       THEN /\ at' = "close" /\ stopReason' = "INTERRUPTED"
            /\ UNCHANGED <<log, seq, arm, trial, left, tripped, broken, ctxDone>>
       ELSE /\ append("AssetRouted")
            /\ IF plan.routed[Asked] = {}
               THEN at' = "valuation" /\ UNCHANGED <<arm, trial, left>>
               ELSE at' = "pass" /\ arm' = 1 /\ trial' = 1 /\ left' = ToMeasure(Asked, 1, 1)
            /\ UNCHANGED stops
    /\ UNCHANGED <<row, valuation, status, runPlan, next, calling, refusing, fixed, spent, stopped>>

Stopped == ctxDone \/ stopReason # "none" \/ tripped \/ broken

\* The done-marker of a measurement that made no call.
Mark(k) ==
    /\ row' = IF broken \/ row[k].kind # "none" THEN row
              ELSE [row EXCEPT ![k] = [kind |-> "errored", calls |-> 0]]
    /\ stopped' = IF broken THEN stopped ELSE stopped + 1

Fits == spent + Cardinality(calling) + 1 <= cap

(* A worker takes the next case: its call goes out, or the budget refuses   *)
(* it, or - the one handoff that may win against the stop - it is cancelled *)
(* at once.                                                                 *)
Begin ==
    /\ at = "pass" /\ Cardinality(calling) + refusing < Workers
    /\ \E c \in left :
          LET k == KeyOf(Asked, arm, trial, c) IN
          /\ \A d \in left : c <= d
          /\ \/ /\ ~Stopped /\ Fits
                /\ calling' = calling \cup {k} /\ left' = left \ {c}
                /\ UNCHANGED <<row, stopped, refusing>>
             \/ /\ ~Stopped /\ ~Fits
                /\ Mark(k) /\ refusing' = refusing + 1 /\ left' = left \ {c}
                /\ UNCHANGED calling
             \/ /\ Stopped
                /\ Mark(k) /\ left' = {}
                /\ UNCHANGED <<calling, refusing>>
    /\ UNCHANGED <<valuation, status, runPlan, log, place, stops, fixed, spent, seq>>

\* INSERT OR IGNORE.
RecordMeasurement(k, kind, charge) ==
    row' = IF row[k].kind # "none" THEN row ELSE [row EXCEPT ![k] = [kind |-> kind, calls |-> charge]]

(* The worker gets no further than the estimate of the case: it is refused  *)
(* or panics, and the row is that of an error, unless the sink fails on it. *)
Unpriced ==
    /\ at = "pass" /\ Cardinality(calling) + refusing < Workers /\ ~Stopped
    /\ \E c \in left :
          /\ \A d \in left : c <= d
          /\ \/ RecordMeasurement(KeyOf(Asked, arm, trial, c), "errored", 0) /\ UNCHANGED broken
             \/ broken' = TRUE /\ UNCHANGED row
          /\ left' = left \ {c}
    /\ UNCHANGED <<valuation, status, runPlan, log, place, calling, refusing, stopReason, tripped,
                   ctxDone, fixed, spent, seq, stopped>>

StopOffering ==
    /\ at = "pass" /\ Stopped /\ left # {}
    /\ left' = {}
    /\ UNCHANGED <<store, place, calling, refusing, stops, fixed, spent, seq, stopped>>

\* Mutant: a refusal that finds the context cancelled is not recorded.
BugIsFatal ==
    /\ at = "pass" /\ refusing > 0 /\ stopReason = "none" /\ ~ctxDone
    /\ stopReason' = "BUDGET_STOPPED"
    /\ UNCHANGED <<store, place, work, tripped, broken, ctxDone, fixed, spent, seq, stopped>>

\* IsFatal records the stop, and the worker that was refused is gone.
IsFatal ==
    /\ at = "pass" /\ refusing > 0 /\ stopReason = "none"
    /\ stopReason' = "BUDGET_STOPPED"
    /\ UNCHANGED <<store, place, work, tripped, broken, ctxDone, fixed, spent, seq, stopped>>

(* A call comes back, answered and scored or failed, and is charged - but   *)
(* a panic in the agent is not, nor an estimate that the stop cancelled.    *)
(* Whatever it is, it becomes a row.  The gate may find another model in an *)
(* answer, scored or not.                                                   *)
Measured(k, kind, charge) ==
    /\ k \in calling /\ ~broken /\ (charge = 0 => kind = "errored")
    /\ calling' = calling \ {k} /\ spent' = spent + charge
    /\ RecordMeasurement(k, kind, charge)
    /\ stopped' = IF Stopped /\ kind = "errored" THEN stopped + 1 ELSE stopped
    /\ tripped' \in {tripped, tripped \/ charge = 1}
    /\ UNCHANGED <<valuation, status, runPlan, log, place, left, refusing, stopReason, broken,
                   ctxDone, fixed, seq>>

\* The sink fails on this result, or failed before and drops it.
Unrecorded(k) ==
    /\ k \in calling
    /\ calling' = calling \ {k} /\ spent' \in {spent, spent + 1}
    /\ broken' = TRUE
    /\ UNCHANGED <<store, place, left, refusing, stopReason, tripped, ctxDone, fixed, seq, stopped>>

\* Mutant: an arm that a stop cut short is taken for a finished one.
BugStopOf == IF stopReason # "none" THEN stopReason ELSE "none"

StopOf == IF stopReason # "none" THEN stopReason ELSE IF ctxDone THEN "INTERRUPTED" ELSE "none"

(* executor.Run returns, and measureArm sorts its error into a stop, which  *)
(* is no error, and a failure, which leaves the run open.                   *)
EndPass ==
    /\ at = "pass" /\ left = {} /\ calling = {}
    /\ refusing > 0 => stopReason # "none"
    /\ \/ /\ StopOf # "none"
          /\ at' = "truncated" /\ stopReason' = StopOf
          /\ UNCHANGED <<next, arm, trial, work, tripped, broken, ctxDone, fixed, spent, seq>>
       \/ /\ StopOf = "none" /\ (tripped \/ broken)
          /\ Ends
       \/ /\ StopOf = "none" /\ ~tripped /\ ~broken
          /\ \/ /\ trial < plan.trials
                /\ trial' = trial + 1 /\ left' = ToMeasure(Asked, arm, trial + 1)
                /\ UNCHANGED <<at, arm>>
             \/ /\ trial = plan.trials
                /\ \E i \in LaterArms :
                      /\ \A later \in LaterArms : i <= later
                      /\ arm' = i /\ trial' = 1 /\ left' = ToMeasure(Asked, i, 1)
                /\ UNCHANGED at
             \/ /\ trial = plan.trials /\ LaterArms = {}
                /\ at' = "valuation" /\ UNCHANGED <<arm, trial, left>>
          /\ UNCHANGED <<next, calling, refusing, stops, fixed, spent, seq>>
    /\ UNCHANGED <<store, stopped>>

-----------------------------------------------------------------------------
(* The valuation, from the rows: pairs joined on the trial number. *)

Trials(a, c, side) ==
    {k.trial : k \in {j \in Done : /\ j.asset = a /\ j.case = c /\ j.arm = side
                                   /\ row[j].kind = "scored"}}

PairedTrials(a, c, fresh) ==
    IF fresh THEN Trials(a, c, "treatment") \cap Trials(a, c, "control")
    ELSE Trials(a, c, "treatment")

\* A case without a side counts once; a trial without its partner counts as one.
DroppedOf(a, c, fresh) ==
    LET tr == Trials(a, c, "treatment")
        ct == Trials(a, c, "control")
    IN IF tr = {} \/ (fresh /\ ct = {}) THEN 1
       ELSE IF fresh THEN Cardinality((tr \cup ct) \ (tr \cap ct)) ELSE 0

PairedCases(a, cases, fresh) == {c \in cases : PairedTrials(a, c, fresh) # {}}

\* stats/interval: two cases at least, each with as many trials as the other.
HasInterval(a, cases, fresh) ==
    /\ Cardinality(cases) >= 2
    /\ \A c, d \in cases :
          Cardinality(PairedTrials(a, c, fresh)) = Cardinality(PairedTrials(a, d, fresh))

\* An asset without a case has a reason and nothing else.
Irrelevant(o) == [reason |-> "IRRELEVANT", opts |-> o, pairs |-> 0, dropped |-> 0,
                  delta |-> FALSE, control |-> FALSE]

MeasuredValuation(o, a) ==
    LET p == Plans[o]
        goal == PairedCases(a, p.routed[a], p.fresh)
        harm == PairedCases(a, p.control, FALSE)
        reason == IF \/ goal # {} /\ ~HasInterval(a, goal, p.fresh)
                     \/ harm # {} /\ ~HasInterval(a, harm, FALSE)
                  THEN "UNDERPOWERED" ELSE "none"
    IN [reason  |-> reason,
        opts    |-> o,
        pairs   |-> Cardinality(goal),
        dropped |-> SumOver([c \in p.routed[a] |-> DroppedOf(a, c, p.fresh)], p.routed[a])
                      + SumOver([c \in p.control |-> DroppedOf(a, c, FALSE)], p.control),
        delta   |-> reason = "none" /\ goal # {},
        control |-> reason = "none" /\ harm # {}]

valuationFor(o, a) ==
    IF Plans[o].routed[a] = {} THEN Irrelevant(o) ELSE MeasuredValuation(o, a)

Truncated == [reason |-> "BUDGET_EXHAUSTED", opts |-> opts, pairs |-> 0, dropped |-> 0,
              delta |-> FALSE, control |-> FALSE]

\* The read and the write are under the caller's context, the event is not.
WriteValuation ==
    /\ at = "valuation"
    /\ \/ /\ ctxDone
          /\ Ends /\ UNCHANGED <<valuation, log>>
       \/ /\ ~ctxDone
          /\ valuation' = [valuation EXCEPT ![Asked] = valuationFor(opts, Asked)]
          /\ append("AssetValued")
          /\ next' = next + 1 /\ arm' = 1 /\ trial' = 1
          /\ at' = IF next = Len(AssetOrder) THEN "close" ELSE "asset"
          /\ UNCHANGED <<work, stops, fixed, spent>>
    /\ UNCHANGED <<row, status, runPlan, stopped>>

WriteTruncated ==
    /\ at = "truncated"
    /\ valuation' = [valuation EXCEPT ![Asked] = Truncated]
    /\ append("AssetValued")
    /\ at' = "close"
    /\ UNCHANGED <<row, status, runPlan, next, arm, trial, work, stops, fixed, spent, stopped>>

-----------------------------------------------------------------------------
(* The end of a process. *)

\* finishRun, detached from the caller's context.
finishRun ==
    /\ at = "close"
    /\ runPlan' = plan
    /\ status' = IF stopReason = "none" THEN "COMPLETED" ELSE stopReason
    /\ log' = appended("RunFinished")
    /\ Ends
    /\ UNCHANGED <<row, valuation, stopped>>

Cancel ==
    /\ at # "down" /\ ~ctxDone
    /\ ctxDone' = TRUE
    /\ UNCHANGED <<store, place, work, stopReason, tripped, broken, fixed, spent, seq, stopped>>

(* The process is killed, or a store call outside the sink fails and ends   *)
(* it.  What the calls that are out bring is lost.                          *)
Dies == at # "down" /\ Ends /\ UNCHANGED <<store, stopped>>

Step ==
    \/ StartAsset \/ Begin \/ Unpriced \/ StopOffering \/ IsFatal \/ EndPass
    \/ \E k \in calling :
          \/ \E kind \in {"scored", "errored"}, charge \in {0, 1} : Measured(k, kind, charge)
          \/ Unrecorded(k)
    \/ WriteValuation \/ WriteTruncated \/ finishRun

Next ==
    \/ \E o \in Options, c \in Caps : openRun(o, c)
    \/ Step \/ Cancel \/ Dies

(* The machine keeps running the process, and every call comes back.        *)
Spec == Init /\ [][Next]_vars /\ WF_vars(Step)

-----------------------------------------------------------------------------
(* Properties. *)

(* Whatever was stopped, killed or resumed in between, a valuation that     *)
(* claims to have measured its asset was computed when both its arms were   *)
(* in, and is what a reader would compute from the rows now - unless a      *)
(* resume under more trials than the plan it was computed for has since     *)
(* measured that asset (value_loop.go:638, store/measurement.go:449-461).   *)
StoredValuationIsCurrent ==
    \A a \in Asset :
        valuation[a] # None /\ valuation[a].reason # "BUDGET_EXHAUSTED" =>
            LET o == valuation[a].opts IN
            /\ Schedule[o][a] \subseteq Done
            /\ (\A k \in Done : k.asset = a => k.trial <= Plans[o].trials)
                  => valuation[a] = valuationFor(o, a)

(* A run about to be closed as completed has a row for every measurement of *)
(* its plan, and of each asset a valuation under that plan that no stop cut *)
(* short (value_loop.go:243-297, 601-651).                                  *)
CompletesWhole ==
    at = "close" /\ stopReason = "none" =>
        /\ Scheduled(opts) \subseteq Done
        /\ \A a \in Asset : valuation[a].opts = opts /\ valuation[a].reason # "BUDGET_EXHAUSTED"

(* A process pays only for what no process has recorded - the arms of an    *)
(* asset never meet in a key, and done-markers count - and what the run     *)
(* settled in all its processes, with what is out now, stays within the     *)
(* cap of this one (value_loop.go:470-478, 716-720; core/value/route.go:584). *)
ResumePaysOnce ==
    /\ \A k \in calling : row[k].kind = "none"
    /\ calling # {} => SettledSpend + Cardinality(calling) <= cap

(* The measurements a stop takes from the run, since a resume does not      *)
(* attempt them again, are at most one for each worker and the one handoff  *)
(* that won against the stop (value_loop.go:721-731, 861-885).              *)
StopCostsFew == stopped <= processes * (Workers + 1)

(* A run that completes under one plan has made exactly the measurements    *)
(* that plan was quoted at (core/value/route.go:381, value_measure.go:393). *)
QuoteIsExact ==
    at = "close" /\ stopReason = "none" /\ Done \subseteq Scheduled(opts) =>
        Cardinality(Done) = Measurements(plan)

(* A process comes to an end: neither the stop of a worker nor that of the  *)
(* run leaves an arm that waits for a handoff (value_loop.go:667).          *)
ProcessEnds == []<>(at = "down")

(* Resume consumes the recorded plan: a completed run holds measurements of *)
(* its plan only (value_loop.go:407-409).                                   *)
CompletedUnderItsPlan == status = "COMPLETED" => \A k \in Done : \E a \in Asset :
    k.asset = a /\ k \in Schedule[CHOOSE o \in Options : equalPlans(Plans[o], runPlan)][a]

(* A resumed process continues the sequence: its latest event stands at the *)
(* position it was given (event.proto:38-42).                               *)
SequenceContinues == at # "down" => log[seq].by = processes

-----------------------------------------------------------------------------
(* The inductive invariant. *)

Valuation == [reason : {"none", "IRRELEVANT", "UNDERPOWERED", "BUDGET_EXHAUSTED"},
              opts : Options, pairs : Nat, dropped : Nat, delta : BOOLEAN, control : BOOLEAN]

Row == {NoRow} \cup [kind : {"scored", "errored"}, calls : 0..1]

Event == [kind : {"RunStarted", "RunResumed", "AssetRouted", "AssetValued", "RunFinished"},
          by : Nat]

TypeOK ==
    /\ row \in [Key -> Row]
    /\ valuation \in [Asset -> Valuation \cup {None}]
    /\ status \in {"ABSENT", "RUNNING", "COMPLETED", "BUDGET_STOPPED", "INTERRUPTED"}
    /\ runPlan \in {Plans[o] : o \in Options} \cup {None}
    /\ log \in Seq(Event)
    /\ at \in {"down", "asset", "pass", "valuation", "truncated", "close"}
    /\ opts \in Options \cup {None} /\ cap \in Nat /\ completed \subseteq Key
    /\ next \in 1..(Len(AssetOrder) + 1) /\ arm \in Arms /\ trial \in Nat \ {0}
    /\ left \subseteq Case /\ calling \subseteq Key /\ refusing \in 0..Workers
    /\ stopReason \in {"none", "BUDGET_STOPPED", "INTERRUPTED"}
    /\ tripped \in BOOLEAN /\ broken \in BOOLEAN /\ ctxDone \in BOOLEAN
    /\ spent \in Nat /\ seq \in Nat /\ processes \in 0..MaxProcesses /\ stopped \in Nat

\* What a process that is at a step of Value has.
ProcessOK ==
    /\ at = "down" => next = 1 /\ refusing = 0 /\ ~Stopped
    /\ at # "down" => opts \in Options /\ completed \subseteq Done /\ processes > 0
    /\ at \in {"pass", "valuation", "truncated"} => next \in DOMAIN AssetOrder
    /\ at = "pass" => plan.routed[Asked] # {} /\ trial <= plan.trials
    /\ at # "pass" => left = {} /\ calling = {}
    /\ at \in {"asset", "valuation"} => stopReason = "none" /\ ~tripped /\ ~broken
    /\ at = "truncated" => stopReason # "none"
    /\ at = "close" /\ stopReason = "none" => next = Len(AssetOrder) + 1

\* The passes of the asset being measured, against the one it is at.
Earlier(i, t) == i < arm \/ (i = arm /\ t < trial)
Later(i, t) == i > arm \/ (i = arm /\ t > trial)

\* What is behind has its rows, what is ahead has those it was opened with.
PassOK ==
    at = "pass" =>
        /\ left \subseteq CasesOf(plan, Asked, arm)
        /\ \A c \in left : KeyOf(Asked, arm, trial, c) \notin Done \cup calling
        /\ \A k \in calling : /\ k \notin Done
                              /\ \E c \in CasesOf(plan, Asked, arm) : k = KeyOf(Asked, arm, trial, c)
        /\ ~Stopped => \A c \in CasesOf(plan, Asked, arm) \ left :
                           KeyOf(Asked, arm, trial, c) \in Done \cup calling
        /\ \A i \in Arms, t \in 1..plan.trials : \A c \in CasesOf(plan, Asked, i) :
              /\ Earlier(i, t) => KeyOf(Asked, i, t, c) \in Done
              /\ Later(i, t) /\ KeyOf(Asked, i, t, c) \in Done => KeyOf(Asked, i, t, c) \in completed

AssetsOK ==
    at # "down" =>
        /\ \A j \in DOMAIN AssetOrder :
              /\ j < next => /\ Schedule[opts][AssetOrder[j]] \subseteq Done
                             /\ valuation[AssetOrder[j]].opts = opts
                             /\ valuation[AssetOrder[j]].reason # "BUDGET_EXHAUSTED"
              /\ j > next \/ (j = next /\ at = "asset") =>
                    Schedule[opts][AssetOrder[j]] \cap Done \subseteq completed
        /\ at = "valuation" => Schedule[opts][Asked] \subseteq Done

MoneyOK ==
    at # "down" =>
        /\ SettledSpend <= spent
        /\ calling # {} => spent + Cardinality(calling) <= cap

\* What the stop of this process has taken, and may still take.
StopsOK ==
    IF at = "down" THEN StopCostsFew
    ELSE LET before == (processes - 1) * (Workers + 1) IN
         IF ~Stopped
         THEN /\ stopped <= before + refusing
              /\ Cardinality(calling) + refusing <= Workers
         ELSE stopped + Cardinality(calling)
                <= before + Workers + (IF left = {} THEN 1 ELSE 0)

IInv ==
    /\ TypeOK /\ ProcessOK /\ PassOK /\ AssetsOK /\ MoneyOK /\ StopsOK
    /\ StoredValuationIsCurrent

=============================================================================
