------------------------------ MODULE Executor ------------------------------
(***************************************************************************)
(* One call of executor.Run (executor/executor.go): a producer hands items *)
(* to workers over an unbuffered channel, workers hand results to one sink *)
(* goroutine over another, and any of them, or the caller, can end the     *)
(* run.  The work is paid for when a worker starts it, so the question is  *)
(* what happens to its result.                                             *)
(*                                                                         *)
(* A send and its receive are one step (the channels are unbuffered).  The *)
(* work, the sink, the hook and the item source are the caller's code: any *)
(* of their outcomes may come back, a panic being a failure like another.  *)
(***************************************************************************)
EXTENDS Integers, FiniteSets

CONSTANTS
    Worker,      \* opts.concurrency() goroutines
    Items,       \* how many items the source yields
    Completed    \* the items opts.Skip recognizes

ASSUME ExecutorAssumption ==
    /\ IsFiniteSet(Worker) /\ Worker # {}
    /\ Items \in Nat
    /\ Completed \subseteq 1..Items

VARIABLES
    next,         \* the item the producer is at
    producer,     \* "range", "send", "count" or "done" (cases is then closed)
    worker,       \* each worker: "recv", "work", "send", "fatal" or "done"
    item,         \* the item each worker has, 0 for none
    outcome,      \* how that item's work ended
    sink,         \* "recv", "record", "gate" or "done" (sinkDone is closed)
    received,     \* the item the sink has, 0 for none
    failing,      \* whether the result the sink has carries an error
    runDone,      \* runCtx is cancelled
    ctxDone,      \* the caller's ctx is cancelled
    graceDone,    \* recordCtx is cancelled: RecordGrace has run out
    resultsClosed,
    firstErr,     \* the first error given to fail
    producerErr,  \* whether the source ended with an error
    sinkBroken,
    gateFired,
    stats,
    result,       \* what Run has returned, or "running"
    \* History variables.
    paid,         \* items some worker has started
    delivered,    \* how often the sink goroutine received each item's result
    recorded,     \* items the sink accepted
    late,         \* handoffs after runCtx was cancelled
    expired       \* the sink failed because recordCtx was cancelled

producerVars == <<next, producer, producerErr>>
workerVars == <<worker, item, outcome>>
sinkVars == <<sink, received, failing, sinkBroken, gateFired>>
ctxVars == <<runDone, ctxDone, graceDone, firstErr>>
history == <<paid, delivered, recorded, late, expired>>
vars == <<producerVars, workerVars, sinkVars, ctxVars, resultsClosed, stats, result, history>>

Item == 1..Items
Stat == {"dispatched", "skipped", "succeeded", "failed"}
Errors == {"sink", "sinkCancelled", "fatal", "gate"}

Init ==
    /\ next = 1 /\ producer = "range" /\ producerErr = FALSE
    /\ worker = [w \in Worker |-> "recv"]
    /\ item = [w \in Worker |-> 0]
    /\ outcome = [w \in Worker |-> "ok"]
    /\ sink = "recv" /\ received = 0 /\ failing = FALSE
    /\ sinkBroken = FALSE /\ gateFired = FALSE
    /\ runDone = FALSE /\ ctxDone = FALSE /\ graceDone = FALSE /\ firstErr = "none"
    /\ resultsClosed = FALSE
    /\ stats = [f \in Stat |-> 0]
    /\ result = "running"
    /\ paid = {} /\ delivered = [i \in Item |-> 0] /\ recorded = {} /\ late = 0
    /\ expired = FALSE

(* fail: the first error is kept, and every one cancels runCtx. *)
fail(err) ==
    /\ firstErr' = IF firstErr = "none" THEN err ELSE firstErr
    /\ runDone' = TRUE

-----------------------------------------------------------------------------
(* The producer. *)

\* It leaves the loop, which closes cases.
Stop == producer' = "done" /\ UNCHANGED <<next, stats>>

SourceEnds == next > Items /\ Stop /\ UNCHANGED producerErr

SourceFails == next <= Items /\ Stop /\ producerErr' = TRUE

SeesShutdown == next <= Items /\ runDone /\ Stop /\ UNCHANGED producerErr

Skip ==
    /\ next \in Completed /\ ~runDone
    /\ stats' = [stats EXCEPT !["skipped"] = @ + 1]
    /\ next' = next + 1
    /\ UNCHANGED <<producer, producerErr>>

\* Mutant: the producer relies on the select alone to see the shutdown.
BugOfferBlindly ==
    /\ next \in Item \ Completed
    /\ producer' = "send"
    /\ UNCHANGED <<next, producerErr, stats>>

Offer ==
    /\ next \in Item \ Completed /\ ~runDone
    /\ producer' = "send"
    /\ UNCHANGED <<next, producerErr, stats>>

Round ==
    /\ producer = "range"
    /\ SourceEnds \/ SourceFails \/ SeesShutdown \/ Skip \/ Offer
    /\ UNCHANGED <<workerVars, sinkVars, ctxVars, resultsClosed, result, history>>

\* The select's other branch: it may lose to a ready worker.
GiveUp ==
    /\ producer = "send" /\ runDone
    /\ Stop
    /\ UNCHANGED <<producerErr, workerVars, sinkVars, ctxVars, resultsClosed, result, history>>

Handoff(w) ==
    /\ producer = "send" /\ worker[w] = "recv"
    /\ producer' = "count"
    /\ worker' = [worker EXCEPT ![w] = "work"]
    /\ item' = [item EXCEPT ![w] = next]
    /\ paid' = paid \cup {next}
    /\ late' = IF runDone THEN late + 1 ELSE late
    /\ UNCHANGED <<next, producerErr, outcome, sinkVars, ctxVars, resultsClosed, stats,
                   result, delivered, recorded, expired>>

CountDispatch ==
    /\ producer = "count"
    /\ stats' = [stats EXCEPT !["dispatched"] = @ + 1]
    /\ next' = next + 1
    /\ producer' = "range"
    /\ UNCHANGED <<producerErr, workerVars, sinkVars, ctxVars, resultsClosed, result, history>>

-----------------------------------------------------------------------------
(* The workers. *)

FinishWork(w) ==
    /\ worker[w] = "work"
    /\ \E o \in {"ok", "error", "fatal"} : outcome' = [outcome EXCEPT ![w] = o]
    /\ worker' = [worker EXCEPT ![w] = "send"]
    /\ UNCHANGED <<producerVars, item, sinkVars, ctxVars, resultsClosed, stats, result, history>>

\* Mutant: a worker selects between the send and runCtx.Done().
BugDeliver(w) ==
    /\ worker[w] = "send"
    /\ \/ /\ sink = "recv"
          /\ sink' = "record" /\ received' = item[w] /\ failing' = (outcome[w] # "ok")
          /\ delivered' = [delivered EXCEPT ![item[w]] = @ + 1]
       \/ /\ runDone
          /\ UNCHANGED <<sink, received, failing, delivered>>
    /\ worker' = [worker EXCEPT ![w] = IF outcome[w] = "fatal" THEN "fatal" ELSE "recv"]
    /\ item' = [item EXCEPT ![w] = 0]
    /\ UNCHANGED <<producerVars, outcome, sinkBroken, gateFired, ctxVars, resultsClosed,
                   stats, result, paid, recorded, late, expired>>

\* The send is unconditional; only then is the outcome looked at.
Deliver(w) ==
    /\ worker[w] = "send" /\ sink = "recv"
    /\ sink' = "record"
    /\ received' = item[w]
    /\ failing' = (outcome[w] # "ok")
    /\ delivered' = [delivered EXCEPT ![item[w]] = @ + 1]
    /\ worker' = [worker EXCEPT ![w] = IF outcome[w] = "fatal" THEN "fatal" ELSE "recv"]
    /\ item' = [item EXCEPT ![w] = 0]
    /\ UNCHANGED <<producerVars, outcome, sinkBroken, gateFired, ctxVars, resultsClosed,
                   stats, result, paid, recorded, late, expired>>

\* Mutant: the worker returns without cancelling the run.
BugEndOnFatal(w) ==
    /\ worker[w] = "fatal"
    /\ firstErr' = IF firstErr = "none" THEN "fatal" ELSE firstErr
    /\ worker' = [worker EXCEPT ![w] = "done"]
    /\ UNCHANGED <<producerVars, item, outcome, sinkVars, runDone, ctxDone, graceDone,
                   resultsClosed, stats, result, history>>

EndOnFatal(w) ==
    /\ worker[w] = "fatal"
    /\ fail("fatal")
    /\ worker' = [worker EXCEPT ![w] = "done"]
    /\ UNCHANGED <<producerVars, item, outcome, sinkVars, ctxDone, graceDone, resultsClosed,
                   stats, result, history>>

CasesClosed(w) ==
    /\ worker[w] = "recv" /\ producer = "done"
    /\ worker' = [worker EXCEPT ![w] = "done"]
    /\ UNCHANGED <<producerVars, item, outcome, sinkVars, ctxVars, resultsClosed, stats,
                   result, history>>

-----------------------------------------------------------------------------
(* The sink goroutine. *)

Discard ==
    /\ sink = "record" /\ sinkBroken
    /\ sink' = "recv" /\ received' = 0
    /\ UNCHANGED <<producerVars, workerVars, failing, sinkBroken, gateFired, ctxVars,
                   resultsClosed, stats, result, history>>

RecordOk ==
    /\ sink = "record" /\ ~sinkBroken
    /\ recorded' = recorded \cup {received}
    /\ LET f == IF failing THEN "failed" ELSE "succeeded"
       IN stats' = [stats EXCEPT ![f] = @ + 1]
    /\ sink' = IF gateFired THEN "recv" ELSE "gate"
    /\ received' = IF gateFired THEN 0 ELSE received
    /\ UNCHANGED <<producerVars, workerVars, failing, sinkBroken, gateFired, ctxVars,
                   resultsClosed, result, paid, delivered, late, expired>>

\* The sink's own error, a panic or PerRecordTimeout; or, once the grace has run out,
\* its context.  A failure after the caller cancelled says so (errors.Join).
RecordFails ==
    /\ sink = "record" /\ ~sinkBroken
    /\ sinkBroken' = TRUE
    /\ fail(IF ctxDone THEN "sinkCancelled" ELSE "sink")
    /\ expired' \in {FALSE, graceDone}
    /\ sink' = "recv" /\ received' = 0
    /\ UNCHANGED <<producerVars, workerVars, failing, gateFired, ctxDone, graceDone,
                   resultsClosed, stats, result, paid, delivered, recorded, late>>

AfterRecord ==
    /\ sink = "gate"
    /\ \/ UNCHANGED <<gateFired, runDone, firstErr>>
       \/ gateFired' = TRUE /\ fail("gate")
    /\ sink' = "recv" /\ received' = 0
    /\ UNCHANGED <<producerVars, workerVars, failing, sinkBroken, ctxDone, graceDone,
                   resultsClosed, stats, result, history>>

SinkDone ==
    /\ sink = "recv" /\ resultsClosed
    /\ sink' = "done"
    /\ UNCHANGED <<producerVars, workerVars, received, failing, sinkBroken, gateFired,
                   ctxVars, resultsClosed, stats, result, history>>

-----------------------------------------------------------------------------
(* The caller, and Run itself. *)

Cancel ==
    /\ result = "running" /\ ~ctxDone
    /\ ctxDone' = TRUE /\ runDone' = TRUE
    /\ UNCHANGED <<producerVars, workerVars, sinkVars, graceDone, firstErr, resultsClosed,
                   stats, result, history>>

\* Mutant: the grace runs from the start of the run.
BugGraceExpires ==
    /\ result = "running" /\ ~graceDone
    /\ graceDone' = TRUE
    /\ UNCHANGED <<producerVars, workerVars, sinkVars, runDone, ctxDone, firstErr,
                   resultsClosed, stats, result, history>>

GraceExpires ==
    /\ result = "running" /\ ctxDone /\ ~graceDone
    /\ graceDone' = TRUE
    /\ UNCHANGED <<producerVars, workerVars, sinkVars, runDone, ctxDone, firstErr,
                   resultsClosed, stats, result, history>>

WorkersDone ==
    /\ producer = "done" /\ \A w \in Worker : worker[w] = "done"
    /\ ~resultsClosed /\ resultsClosed' = TRUE
    /\ UNCHANGED <<producerVars, workerVars, sinkVars, ctxVars, stats, result, history>>

\* Mutant: a cancelled run reports what its sources reported.
BugReturn ==
    /\ result = "running" /\ sink = "done"
    /\ result' = IF producerErr THEN "source"
                 ELSE IF firstErr # "none" THEN firstErr ELSE "nil"
    /\ UNCHANGED <<producerVars, workerVars, sinkVars, ctxVars, resultsClosed, stats, history>>

Return ==
    /\ result = "running" /\ sink = "done"
    /\ result' = IF firstErr # "none" THEN firstErr
                 ELSE IF producerErr THEN "source"
                 ELSE IF ctxDone THEN "cancelled" ELSE "nil"
    /\ UNCHANGED <<producerVars, workerVars, sinkVars, ctxVars, resultsClosed, stats, history>>

Returned == result # "running" /\ UNCHANGED vars

Produce == Round \/ GiveUp \/ CountDispatch
Work(w) == FinishWork(w) \/ EndOnFatal(w) \/ CasesClosed(w)
Sink == Discard \/ RecordOk \/ RecordFails \/ AfterRecord \/ SinkDone

Next ==
    \/ Produce
    \/ \E w \in Worker : Handoff(w) \/ Work(w) \/ Deliver(w)
    \/ Sink
    \/ WorkersDone \/ Return
    \/ Cancel \/ GraceExpires
    \/ Returned

(* Goroutines that can run do, and the caller's work, sink and hook return *)
(* (Run's own comment leaves a sink that ignores its context to the        *)
(* caller).  Nobody is obliged to cancel.                                  *)
Fairness ==
    /\ WF_vars(Produce) /\ WF_vars(Sink) /\ WF_vars(WorkersDone) /\ WF_vars(Return)
    /\ WF_vars(\E w \in Worker : Handoff(w))
    /\ \A w \in Worker : WF_vars(Work(w)) /\ SF_vars(Deliver(w))

Spec == Init /\ [][Next]_vars
FairSpec == Spec /\ Fairness

-----------------------------------------------------------------------------
(* Properties. *)

(* Every variable holds a value its Go counterpart can hold.                *)
TypeOK ==
    /\ next \in 1..(Items + 1) /\ producer \in {"range", "send", "count", "done"}
    /\ producerErr \in BOOLEAN
    /\ worker \in [Worker -> {"recv", "work", "send", "fatal", "done"}]
    /\ item \in [Worker -> 0..Items]
    /\ outcome \in [Worker -> {"ok", "error", "fatal"}]
    /\ sink \in {"recv", "record", "gate", "done"} /\ received \in 0..Items
    /\ failing \in BOOLEAN /\ sinkBroken \in BOOLEAN /\ gateFired \in BOOLEAN
    /\ runDone \in BOOLEAN /\ ctxDone \in BOOLEAN /\ graceDone \in BOOLEAN
    /\ resultsClosed \in BOOLEAN /\ expired \in BOOLEAN
    /\ firstErr \in Errors \cup {"none"}
    /\ result \in Errors \cup {"running", "source", "cancelled", "nil"}
    /\ stats \in [Stat -> Nat]
    /\ paid \subseteq Item /\ recorded \subseteq Item
    /\ delivered \in [Item -> Nat] /\ late \in Nat

Done == result # "running"

(* A result that was paid for reaches the sink exactly once, and none that  *)
(* was not: the unconditional send and the close of results after the       *)
(* workers have returned, under cancellation, fatal errors and a sink that  *)
(* has already failed (executor.go:472-487, 549-551).                       *)
EachResultReachesTheSink ==
    /\ \A i \in Item : delivered[i] <= (IF i \in paid THEN 1 ELSE 0)
    /\ Done => \A i \in paid : delivered[i] = 1

(* Dispatched == Succeeded + Failed when Run returns and the sink has not   *)
(* failed, the two describing exactly the outcomes that were recorded       *)
(* (executor.go:224-229, 435-441, 532-541).                                 *)
StatsAccountForOutcomes ==
    /\ stats["succeeded"] + stats["failed"] = Cardinality(recorded)
    /\ Done => /\ stats["dispatched"] = Cardinality(paid)
               /\ ~sinkBroken => recorded = paid

(* What Run returns is enough to know whether anything is missing: nil      *)
(* means that every item is recorded or was already complete, and a result  *)
(* that was paid for and lost is reported over the source's own error       *)
(* (executor.go:553-571).                                                   *)
ResultTellsWhatIsMissing ==
    Done =>
        /\ result = "nil" => recorded \cup Completed = Item
        /\ ~(paid \subseteq recorded) => result \in Errors

(* The grace bounds the drain after the caller's cancellation, never the    *)
(* run: a write that fails because the recording context is gone ends a     *)
(* cancelled run, and one reported as cancelled whatever text the sink gave *)
(* it (executor.go:344-369, 414-428; docs/debt.md#54).                      *)
ExpiryIsCancellation ==
    expired => /\ ctxDone
               /\ Done => result \in {"sinkCancelled", "fatal", "gate"}

(* After the run is cancelled at most one more item is handed to a worker,  *)
(* the one the select was already offering: IsFatal and AfterRecord stop    *)
(* new work from being dispatched (executor.go:510-546).                    *)
AtMostOneLateHandoff == late <= 1

(* Run returns, whoever ended it: no worker is left sending, and the        *)
(* producer is not left offering to workers that have all gone.             *)
RunReturns == <>Done

(* What makes the safety properties inductive: where every item is, which   *)
(* goroutines have ended, and what the errors and the contexts imply.       *)

\* What is behind the producer was paid for or skipped, and nothing else was paid for.
ProducerOK ==
    /\ producer \in {"send", "count"} => next \in Item \ Completed
    /\ \A i \in paid : i < next \/ (i = next /\ producer = "count")
    /\ \A i \in Item : i < next => i \in paid \cup Completed
    /\ producer = "count" => next \in paid
    /\ producer = "done" /\ next <= Items => producerErr \/ runDone

\* A paid item is with one worker, or was delivered.
ItemsOK ==
    /\ \A w \in Worker : item[w] # 0 <=> worker[w] \in {"work", "send"}
    /\ \A w \in Worker : item[w] # 0 => item[w] \in paid
    /\ \A v, w \in Worker : item[v] = item[w] /\ item[v] # 0 => v = w
    /\ \A i \in Item : delivered[i] = IF i \in paid /\ \A w \in Worker : item[w] # i THEN 1 ELSE 0

\* A delivered item is recorded, or with the sink, or was dropped by a sink that broke.
SinkOK ==
    /\ sink = "record" => received \in Item /\ delivered[received] = 1 /\ received \notin recorded
    /\ \A i \in recorded : delivered[i] = 1
    /\ \A i \in Item : delivered[i] = 1 =>
           sinkBroken \/ i \in recorded \/ (sink = "record" /\ received = i)

\* Who has ended before whom.
JoinOK ==
    /\ resultsClosed => producer = "done" /\ \A w \in Worker : worker[w] = "done"
    /\ sink = "done" => resultsClosed
    /\ Done => sink = "done"

StatsOK ==
    /\ stats["succeeded"] + stats["failed"] = Cardinality(recorded)
    /\ stats["dispatched"] + (IF producer = "count" THEN 1 ELSE 0) = Cardinality(paid)

ErrorsOK ==
    /\ runDone <=> ctxDone \/ firstErr # "none"
    /\ graceDone => ctxDone
    /\ sinkBroken => firstErr # "none"
    /\ firstErr \in {"sink", "sinkCancelled"} => sinkBroken
    /\ expired => sinkBroken /\ graceDone /\ firstErr # "sink"
    /\ Done => result = IF firstErr # "none" THEN firstErr
                        ELSE IF producerErr THEN "source"
                        ELSE IF ctxDone THEN "cancelled" ELSE "nil"

LateOK == late = 0 \/ (late = 1 /\ runDone /\ producer # "send")

IInv ==
    /\ TypeOK /\ ProducerOK /\ ItemsOK /\ SinkOK /\ JoinOK /\ StatsOK /\ ErrorsOK /\ LateOK

=============================================================================
