----------------------------- MODULE HoldoutUse -----------------------------
(***************************************************************************)
(* One holdout and the Validate runs that measure Portfolios on it:        *)
(* core.ValidateOptions.Validate with its oneShot, openRun,                *)
(* measureHoldoutArm, sinkFunc, validationFor and finishRun, over the      *)
(* holdout_uses, runs, measurements and validations of the store.  Any     *)
(* number of processes work on one store, and nothing locks it between     *)
(* their statements; any of them may be killed between two steps.          *)
(*                                                                         *)
(* A measurement is one call: its retries are those of BaselineRun, which  *)
(* shares the invoker.  Module Executor says how results travel; here a    *)
(* result is recorded as its call comes back.  Run ids are not reused.     *)
(***************************************************************************)
EXTENDS Naturals, FiniteSets, Sums

CONSTANTS
    Proc,
    Portfolio,   \* Select runs, each with something to validate
    RunId,       \* the Validate runs
    Case,        \* the holdout
    Trials,
    Workers,     \* --concurrency
    Caps,        \* the values --max-calls may have
    MaxStarts,   \* bound: processes admitted, those beside others counted twice
    None

Jobs == [portfolio : Portfolio, run : RunId, resume : BOOLEAN]
UseRecord == [run : RunId, nth : Nat]

ASSUME HoldoutAssumption ==
    /\ IsFiniteSet(Case) /\ Case \subseteq Nat /\ Case # {} /\ IsFiniteSet(Portfolio)
    /\ Trials \in Nat \ {0} /\ Workers \in Nat \ {0}
    /\ Caps \subseteq Nat /\ MaxStarts \in Nat
    /\ None \notin Portfolio /\ None \notin Jobs /\ None \notin UseRecord

VARIABLES
    \* The store.
    use,         \* holdout_uses: [run, nth] of each Portfolio, or None; nth is its place
    status,      \* runs.status, "ABSENT" before CreateRun
    owner,       \* runs.input_fingerprint: the Portfolio a run is of, or None
    row,         \* measurements: [kind, calls] of each run and key; "unpriced" is a
                 \* refused estimate, and both it and "panic" are faults without a charge
    validation,  \* validations: the record of each run, or None
    \* The processes.
    at,          \* "idle", or the step of Validate each is at
    job,         \* [portfolio, run, resume] of each, or None
    index,       \* HoldoutUseIndex, as oneShot found it
    completed,   \* the keys that had a row when it opened the run
    pass,        \* the arm and trial being measured, as an index into Passes
    left,        \* cases the producer has not handed over
    calling,     \* keys whose call is out
    refusing,    \* workers refused by the budget, which end in IsFatal
    stopReason,
    failed,      \* the model gate or the sink ended the executor's run
    ctxDone,
    cap,
    spent,       \* guard.Spent().Calls
    \* History variables.
    starts,
    raced,       \* runs whose use was recorded after the uses had changed since their check
    shared       \* runs that two processes had open at once

store == <<use, status, owner, row, validation>>
work == <<pass, left, calling, refusing>>
stops == <<stopReason, failed, ctxDone>>
fixed == <<job, index, completed, cap>>
history == <<starts, raced, shared>>
vars == <<store, at, work, stops, fixed, spent, history>>

Key == [arm : {"control", "treatment"}, case : Case, trial : 1..Trials]
Row == [kind : {"none", "scored", "errored", "unpriced", "panic"}, calls : Nat]
NoRow == [kind |-> "none", calls |-> 0]
Done(r) == {k \in Key : row[r][k].kind # "none"}
SettledSpend(r) == SumOver([k \in Key |-> row[r][k].calls], Key)
Uses == Cardinality({f \in Portfolio : use[f] # None})    \* len(HoldoutUses)

Init ==
    /\ use = [f \in Portfolio |-> None]
    /\ status = [r \in RunId |-> "ABSENT"] /\ owner = [r \in RunId |-> None]
    /\ row = [r \in RunId |-> [k \in Key |-> NoRow]]
    /\ validation = [r \in RunId |-> None]
    /\ at = [p \in Proc |-> "idle"] /\ job = [p \in Proc |-> None]
    /\ index = [p \in Proc |-> 0] /\ completed = [p \in Proc |-> {}]
    /\ pass = [p \in Proc |-> 1] /\ left = [p \in Proc |-> {}]
    /\ calling = [p \in Proc |-> {}] /\ refusing = [p \in Proc |-> 0]
    /\ stopReason = [p \in Proc |-> "none"] /\ failed = [p \in Proc |-> FALSE]
    /\ ctxDone = [p \in Proc |-> FALSE]
    /\ cap = [p \in Proc |-> 0] /\ spent = [p \in Proc |-> 0]
    /\ starts = 0 /\ raced = {} /\ shared = {}

\* The process is gone, and with it all but the store.
Ends(p) ==
    /\ at' = [at EXCEPT ![p] = "idle"] /\ job' = [job EXCEPT ![p] = None]
    /\ index' = [index EXCEPT ![p] = 0] /\ completed' = [completed EXCEPT ![p] = {}]
    /\ pass' = [pass EXCEPT ![p] = 1] /\ left' = [left EXCEPT ![p] = {}]
    /\ calling' = [calling EXCEPT ![p] = {}] /\ refusing' = [refusing EXCEPT ![p] = 0]
    /\ stopReason' = [stopReason EXCEPT ![p] = "none"]
    /\ failed' = [failed EXCEPT ![p] = FALSE] /\ ctxDone' = [ctxDone EXCEPT ![p] = FALSE]
    /\ cap' = [cap EXCEPT ![p] = 0] /\ spent' = [spent EXCEPT ![p] = 0]
    /\ UNCHANGED history

-----------------------------------------------------------------------------
(* The check, and what it was about. *)

\* Mutant: only a completed run keeps its Portfolio from a fresh one.
BugOneShot(j, repeat) ==
    IF use[j.portfolio] # None /\ (j.resume \/ status[use[j.portfolio].run] = "COMPLETED")
    THEN j.resume /\ use[j.portfolio].run = j.run
    ELSE ~j.resume /\ (Uses = 0 \/ repeat)

oneShot(j, repeat) ==
    IF use[j.portfolio] # None
    THEN j.resume /\ use[j.portfolio].run = j.run
    ELSE ~j.resume /\ (Uses = 0 \/ repeat)

UseIndex(j) == IF j.resume THEN use[j.portfolio].nth ELSE Uses + 1

Open(r) == \E p \in Proc : job[p] # None /\ job[p].run = r

(* A process whose job is refused leaves everything as it is.               *)
Check(p, j, c) ==
    /\ at[p] = "idle" /\ starts + Cardinality({q \in Proc : at[q] # "idle"}) < MaxStarts
    /\ ~j.resume => status[j.run] = "ABSENT" /\ ~Open(j.run)
    /\ \E repeat \in BOOLEAN : oneShot(j, repeat)       \* --allow-repeat-holdout
    /\ at' = [at EXCEPT ![p] = "checked"] /\ job' = [job EXCEPT ![p] = j]
    /\ index' = [index EXCEPT ![p] = UseIndex(j)] /\ cap' = [cap EXCEPT ![p] = c]
    /\ starts' = starts + 1
    /\ shared' = IF Open(j.run) THEN shared \cup {j.run} ELSE shared
    /\ UNCHANGED <<store, work, stops, completed, spent, raced>>

\* Control before treatment, each trial by trial.
Passes == [i \in 1..(2 * Trials) |-> [arm |-> IF i <= Trials THEN "control" ELSE "treatment",
                                      trial |-> ((i - 1) % Trials) + 1]]
KeyOf(i, c) == [arm |-> Passes[i].arm, case |-> c, trial |-> Passes[i].trial]
ToMeasure(i, done) == {c \in Case : KeyOf(i, c) \notin done}

Opens(p, done, settled) ==
    /\ at' = [at EXCEPT ![p] = "arm"]
    /\ completed' = [completed EXCEPT ![p] = done] /\ spent' = [spent EXCEPT ![p] = settled]
    /\ left' = [left EXCEPT ![p] = ToMeasure(1, done)]
    /\ UNCHANGED <<job, index, cap, pass, calling, refusing, stops>>

CreateRun(p) ==
    /\ at[p] = "checked" /\ ~job[p].resume
    /\ status' = [status EXCEPT ![job[p].run] = "RUNNING"]
    /\ owner' = [owner EXCEPT ![job[p].run] = job[p].portfolio]
    /\ at' = [at EXCEPT ![p] = "created"]
    /\ UNCHANGED <<use, row, validation, work, stops, fixed, spent, history>>

\* INSERT OR IGNORE.
Recorded(j) ==
    IF use[j.portfolio] # None THEN use[j.portfolio] ELSE [run |-> j.run, nth |-> Uses + 1]

RecordHoldoutUse(p) ==
    /\ at[p] = "created"
    /\ use' = [use EXCEPT ![job[p].portfolio] = Recorded(job[p])]
    /\ raced' = IF Uses + 1 # index[p] THEN raced \cup {job[p].run} ELSE raced
    /\ Opens(p, {}, 0)
    /\ UNCHANGED <<status, owner, row, validation, starts, shared>>

\* Mutant: what errored is measured again.
BugCompletedMeasurements(r) == {k \in Key : row[r][k].kind = "scored"}

CompletedMeasurements(r) == Done(r)

OpenCheckpoint(p) ==
    /\ at[p] = "checked" /\ job[p].resume /\ owner[job[p].run] = job[p].portfolio
    /\ Opens(p, CompletedMeasurements(job[p].run), SettledSpend(job[p].run))
    /\ UNCHANGED <<store, history>>

-----------------------------------------------------------------------------
(* The two arms. *)

Stopped(p) == ctxDone[p] \/ stopReason[p] # "none" \/ failed[p]
Fits(p) == spent[p] + Cardinality(calling[p]) + 1 <= cap[p]

\* Mutant: a measurement that was stopped before its call leaves a done-marker.
BugAfterStop(r, k) ==
    IF row[r][k].kind # "none" THEN row ELSE [row EXCEPT ![r][k].kind = "errored"]

\* Nothing was settled and the failure is a stop: no row.
AfterStop(r, k) == row

\* INSERT OR IGNORE.
RecordMeasurement(r, k, kind, charge) ==
    row' = IF row[r][k].kind # "none" THEN row
           ELSE [row EXCEPT ![r][k] = [kind |-> kind, calls |-> charge]]

\* The result is recorded, or the sink fails, on this one or on one before.
Sinks(p, k, kind, charge) ==
    \/ RecordMeasurement(job[p].run, k, kind, charge) /\ UNCHANGED failed
    \/ failed' = [failed EXCEPT ![p] = TRUE] /\ UNCHANGED row

(* A worker takes the next case: its call goes out, or the budget refuses   *)
(* it, or - the one handoff that may win against the stop - it is cancelled *)
(* at once.                                                                 *)
Take(p) ==
    /\ at[p] = "arm" /\ Cardinality(calling[p]) + refusing[p] < Workers
    /\ \E c \in left[p] :
          LET k == KeyOf(pass[p], c) IN
          /\ \A d \in left[p] : c <= d
          /\ \/ /\ ~Stopped(p) /\ Fits(p)
                /\ calling' = [calling EXCEPT ![p] = @ \cup {k}]
                /\ left' = [left EXCEPT ![p] = @ \ {c}]
                /\ UNCHANGED <<row, refusing>>
             \/ /\ ~Stopped(p) /\ ~Fits(p)
                /\ row' = AfterStop(job[p].run, k)
                /\ refusing' = [refusing EXCEPT ![p] = @ + 1]
                /\ left' = [left EXCEPT ![p] = @ \ {c}]
                /\ UNCHANGED calling
             \/ /\ Stopped(p)
                /\ row' = AfterStop(job[p].run, k)
                /\ left' = [left EXCEPT ![p] = {}]
                /\ UNCHANGED <<calling, refusing>>
    /\ UNCHANGED <<use, status, owner, validation, at, pass, stops, fixed, spent, history>>

(* The worker gets no further than the estimate of the case: it is refused  *)
(* or panics.  So may the handoff that won against the stop end, whose      *)
(* cancelled estimate is, under a cost cap, one that cannot be had.         *)
Unpriced(p) ==
    /\ at[p] = "arm" /\ Cardinality(calling[p]) + refusing[p] < Workers
    /\ \E c \in left[p], kind \in {"unpriced", "panic"} :
          /\ \A d \in left[p] : c <= d
          /\ Sinks(p, KeyOf(pass[p], c), kind, 0)
          /\ left' = [left EXCEPT ![p] = IF Stopped(p) THEN {} ELSE @ \ {c}]
    /\ UNCHANGED <<use, status, owner, validation, at, pass, calling, refusing, stopReason, ctxDone,
                   fixed, spent, history>>

StopOffering(p) ==
    /\ at[p] = "arm" /\ Stopped(p) /\ left[p] # {}
    /\ left' = [left EXCEPT ![p] = {}]
    /\ UNCHANGED <<store, at, pass, calling, refusing, stops, fixed, spent, history>>

IsFatal(p) ==
    /\ at[p] = "arm" /\ refusing[p] > 0 /\ stopReason[p] = "none"
    /\ stopReason' = [stopReason EXCEPT ![p] = "BUDGET_STOPPED"]
    /\ UNCHANGED <<store, at, work, failed, ctxDone, fixed, spent, history>>

(* A call comes back, scored or failed - a stop that cancels it fails it -  *)
(* and is charged either way.  A panic in the agent is not: its headroom    *)
(* goes back with nothing settled.  The gate may find another model in an   *)
(* answer, scored or not.                                                   *)
Returns(p, k, kind) ==
    LET charge == IF kind = "panic" THEN 0 ELSE 1 IN
    /\ k \in calling[p]
    /\ calling' = [calling EXCEPT ![p] = @ \ {k}] /\ spent' = [spent EXCEPT ![p] = @ + charge]
    /\ \/ Sinks(p, k, kind, charge)
       \/ /\ kind # "panic" /\ failed' = [failed EXCEPT ![p] = TRUE]
          /\ RecordMeasurement(job[p].run, k, kind, charge)
    /\ UNCHANGED <<use, status, owner, validation, at, pass, left, refusing, stopReason, ctxDone, fixed,
                   history>>

\* Mutant: a run whose sink failed goes on to its Validation.
BugMeasured(p) == stopReason[p] = "none" /\ ~ctxDone[p]

\* executor.Run returned no error.
Measured(p) == stopReason[p] = "none" /\ ~ctxDone[p] /\ ~failed[p]

StopOf(p) == IF stopReason[p] # "none" THEN stopReason[p]
             ELSE IF ctxDone[p] THEN "INTERRUPTED" ELSE "none"

EndPass(p) ==
    /\ at[p] = "arm" /\ left[p] = {} /\ calling[p] = {}
    /\ refusing[p] > 0 => stopReason[p] # "none"
    /\ \/ /\ StopOf(p) # "none"
          /\ at' = [at EXCEPT ![p] = "finish"]
          /\ stopReason' = [stopReason EXCEPT ![p] = StopOf(p)]
          /\ UNCHANGED <<work, failed, ctxDone, fixed, spent, history>>
       \/ /\ StopOf(p) = "none" /\ ~Measured(p)
          /\ Ends(p)
       \/ /\ Measured(p)
          /\ IF pass[p] = 2 * Trials
             THEN at' = [at EXCEPT ![p] = "validation"] /\ UNCHANGED <<pass, left>>
             ELSE /\ pass' = [pass EXCEPT ![p] = @ + 1]
                  /\ left' = [left EXCEPT ![p] = ToMeasure(pass[p] + 1, completed[p])]
                  /\ UNCHANGED at
          /\ UNCHANGED <<calling, refusing, stops, fixed, spent, history>>
    /\ UNCHANGED store

-----------------------------------------------------------------------------
(* The Validation, and the end of a process. *)

Scored(r, arm, c) == {t \in 1..Trials : row[r][[arm |-> arm, case |-> c, trial |-> t]].kind = "scored"}

\* A case without a side counts once; a trial without its partner counts as one.
DroppedOf(r, c) ==
    LET tr == Scored(r, "treatment", c)
        ct == Scored(r, "control", c)
    IN IF tr = {} \/ ct = {} THEN 1 ELSE Cardinality((tr \cup ct) \ (tr \cap ct))

validationFor(r, n) ==
    [index    |-> n,
     measured |-> Cardinality({c \in Case : Scored(r, "treatment", c) \cap Scored(r, "control", c) # {}}),
     dropped  |-> SumOver([c \in Case |-> DroppedOf(r, c)], Case)]

WriteValidation(p) ==
    /\ at[p] = "validation"
    /\ validation' = [validation EXCEPT ![job[p].run] = validationFor(job[p].run, index[p])]
    /\ at' = [at EXCEPT ![p] = "finish"]
    /\ UNCHANGED <<use, status, owner, row, work, stops, fixed, spent, history>>

finishRun(p) ==
    /\ at[p] = "finish"
    /\ status' = [status EXCEPT ![job[p].run] =
                      IF stopReason[p] = "none" THEN "COMPLETED" ELSE stopReason[p]]
    /\ Ends(p)
    /\ UNCHANGED <<use, owner, row, validation>>

Cancel(p) ==
    /\ at[p] = "arm" /\ ~ctxDone[p]
    /\ ctxDone' = [ctxDone EXCEPT ![p] = TRUE]
    /\ UNCHANGED <<store, at, work, stopReason, failed, fixed, spent, history>>

(* The process is killed, or a store call outside the sink fails and ends   *)
(* it: that is all a cancellation outside the arms does, before them and at *)
(* the Validation, while finishRun is detached from it.  What the calls     *)
(* that are out bring is lost.                                              *)
Dies(p) == at[p] # "idle" /\ Ends(p) /\ UNCHANGED store

Step(p) ==
    \/ \E j \in Jobs, c \in Caps : Check(p, j, c)
    \/ CreateRun(p) \/ RecordHoldoutUse(p) \/ OpenCheckpoint(p)
    \/ Take(p) \/ Unpriced(p) \/ StopOffering(p) \/ IsFatal(p)
    \/ \E k \in Key, kind \in {"scored", "errored", "panic"} : Returns(p, k, kind)
    \/ EndPass(p) \/ WriteValidation(p) \/ finishRun(p)
    \/ Cancel(p) \/ Dies(p)

Next == \E p \in Proc : Step(p)

Spec == Init /\ [][Next]_vars

-----------------------------------------------------------------------------
(* Properties. *)

TypeOK ==
    /\ use \in [Portfolio -> UseRecord \cup {None}]
    /\ status \in [RunId -> {"ABSENT", "RUNNING", "COMPLETED", "BUDGET_STOPPED", "INTERRUPTED"}]
    /\ owner \in [RunId -> Portfolio \cup {None}]
    /\ row \in [RunId -> [Key -> Row]]
    /\ DOMAIN validation = RunId
    /\ at \in [Proc -> {"idle", "checked", "created", "arm", "validation", "finish"}]
    /\ job \in [Proc -> Jobs \cup {None}]
    /\ completed \in [Proc -> SUBSET Key] /\ calling \in [Proc -> SUBSET Key]
    /\ left \in [Proc -> SUBSET Case] /\ pass \in [Proc -> 1..(2 * Trials)]
    /\ stopReason \in [Proc -> {"none", "BUDGET_STOPPED", "INTERRUPTED"}]
    /\ index \in [Proc -> Nat] /\ refusing \in [Proc -> Nat]
    /\ failed \in [Proc -> BOOLEAN] /\ ctxDone \in [Proc -> BOOLEAN]
    /\ raced \subseteq RunId /\ shared \subseteq RunId

Looked(r) == Done(r) # {} \/ \E p \in Proc : calling[p] # {} /\ job[p].run = r

(* The holdout is measured for a Portfolio by the one run its use record    *)
(* names, and only once that is written: whatever is killed, refused or     *)
(* resumed, a second run looks only when the uses moved between its check   *)
(* and its record (validate.go:634-695, validate_loop.go:206-242).          *)
OneLookUnlessRacing ==
    \A r \in RunId : Looked(r) =>
        /\ owner[r] # None /\ use[owner[r]] # None
        /\ use[owner[r]].run = r \/ r \in raced

(* A Validation was computed with every measurement of both arms in, is     *)
(* what the rows say now, and discloses the place its use of the holdout    *)
(* has (validate_loop.go:131-147, store/validation.go:20-24).               *)
ValidationIsWhole ==
    \A r \in RunId : validation[r] # None =>
        /\ Done(r) = Key
        /\ validation[r] = validationFor(r, validation[r].index)
        /\ validation[r].index = use[owner[r]].nth \/ r \in raced

(* A row without a settled call, which keeps its case from every resume, is *)
(* that of a panic or of a refused estimate: no refusal by the budget and   *)
(* no cancelled measurement leaves one, over stops, kills and resumes,      *)
(* unless the stop met the case in its estimate (validate_loop.go:438-460). *)
UnpaidRowsAreFaults ==
    \A r \in RunId, k \in Key :
        row[r][k].kind # "none" /\ row[r][k].calls = 0 => row[r][k].kind \in {"unpriced", "panic"}

(* A resumed process reads only the cases no earlier one has recorded,      *)
(* unless two had the run open at once (docs/mental-model.md:75,            *)
(* validate_loop.go:299-306).                                               *)
ResumeReadsTheRest ==
    \A p \in Proc : \A k \in calling[p] :
        row[job[p].run][k].kind = "none" \/ job[p].run \in shared

(* What makes OneLookUnlessRacing inductive: who holds which run of which   *)
(* Portfolio where, and what a process that has passed the check still      *)
(* knows of the uses.                                                       *)
Holds(r, f) == owner[r] = f /\ use[f] # None /\ (use[f].run = r \/ r \in raced)

ProcessesHaveJobs ==
    \A p \in Proc : /\ at[p] = "idle" <=> job[p] = None
                    /\ calling[p] # {} => at[p] = "arm"

RunsHaveOwners ==
    /\ \A r \in RunId : status[r] = "ABSENT" <=> owner[r] = None
    /\ \A f \in Portfolio : use[f] # None => owner[use[f].run] = f

LookersHold ==
    /\ \A r \in RunId : Done(r) # {} => owner[r] # None /\ Holds(r, owner[r])
    /\ \A p \in Proc : at[p] \in {"arm", "validation", "finish"} =>
                          Holds(job[p].run, job[p].portfolio)

FreshRunsAreNew ==
    \A p \in Proc : at[p] = "checked" /\ ~job[p].resume =>
        /\ status[job[p].run] = "ABSENT"
        /\ \A q \in Proc \ {p} : job[q] # None => job[q].run # job[p].run

CreatedIsOwned ==
    \A p \in Proc : at[p] = "created" => ~job[p].resume /\ owner[job[p].run] = job[p].portfolio

ResumesHoldTheUse ==
    \A p \in Proc : at[p] = "checked" /\ job[p].resume =>
        use[job[p].portfolio] # None /\ use[job[p].portfolio].run = job[p].run

(* A use of the same Portfolio that came after the check has moved the      *)
(* count past the index the check found.                                    *)
ChecksAreDated ==
    \A p \in Proc : at[p] \in {"checked", "created"} /\ ~job[p].resume =>
        /\ index[p] <= Uses + 1
        /\ use[job[p].portfolio] # None => index[p] <= Uses

IInv ==
    /\ TypeOK /\ ProcessesHaveJobs /\ RunsHaveOwners /\ LookersHold /\ FreshRunsAreNew
    /\ CreatedIsOwned /\ ResumesHoldTheUse /\ ChecksAreDated

(* What makes ResumeReadsTheRest and ValidationIsWhole inductive: what a    *)
(* process has before it is unread, unless the run is shared, and what it   *)
(* has behind it is in the store.                                           *)
AloneUnlessShared ==
    \A p, q \in Proc :
        p # q /\ job[p] # None /\ job[q] # None /\ job[p].run = job[q].run =>
            job[p].run \in shared

CreatedIsFresh ==
    \A p \in Proc : at[p] = "created" =>
        /\ Done(job[p].run) = {}
        /\ \A q \in Proc \ {p} : job[q] # None => job[q].run # job[p].run
        /\ \A f \in Portfolio : use[f] # None => use[f].run # job[p].run

AheadIsUnread ==
    \A p \in Proc : at[p] = "arm" /\ job[p].run \notin shared =>
        \A i \in pass[p]..(2 * Trials), c \in Case :
            (IF i = pass[p] THEN c \in left[p] ELSE KeyOf(i, c) \notin completed[p]) =>
                KeyOf(i, c) \notin Done(job[p].run) \cup calling[p]

BehindIsRead ==
    \A p \in Proc :
        /\ at[p] \in {"idle", "checked", "created"} => pass[p] = 1
        /\ at[p] = "arm" =>
              /\ completed[p] \subseteq Done(job[p].run)
              /\ \A i \in 1..pass[p], c \in Case :
                    \/ KeyOf(i, c) \in Done(job[p].run)
                    \/ i = pass[p] /\ (c \in left[p] \/ KeyOf(i, c) \in calling[p])
                    \/ i = pass[p] /\ (Stopped(p) \/ refusing[p] > 0)
        /\ at[p] = "validation" => Done(job[p].run) = Key

IndexIsDisclosed ==
    \A p \in Proc :
        at[p] \in {"arm", "validation"} \/ (at[p] = "checked" /\ job[p].resume) =>
            index[p] = use[job[p].portfolio].nth \/ job[p].run \in raced

ReadInv ==
    /\ IInv /\ UnpaidRowsAreFaults /\ AloneUnlessShared /\ CreatedIsFresh /\ AheadIsUnread
    /\ ResumeReadsTheRest /\ BehindIsRead /\ IndexIsDisclosed /\ ValidationIsWhole
=============================================================================
