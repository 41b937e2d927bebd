---------------------------- MODULE EventStream -----------------------------
(***************************************************************************)
(* The event stream of a baseline run (core/baseline_record.go): the       *)
(* opening event and its caveat, the sink's case events, the hot path's    *)
(* reports (retries, overshoots, orphaned charges), the progress ticker's  *)
(* heartbeats and RunFinished, over the processes of the run. A sequence   *)
(* number is taken and the event written under emitMu, so an append is one *)
(* step; what an emitter reads before it is a step of its own. The store's *)
(* AppendEvent may fail, which burns the number.                           *)
(***************************************************************************)
EXTENDS Integers, Sequences, FiniteSetsExt

CONSTANTS
    Cases,          \* the number of dev cases
    Reports,        \* bound: hot-path reports over the run
    Ticks,          \* bound: heartbeats of a process
    MaxProcesses    \* bound: how often the run is started or resumed

ASSUME EventAssumption ==
    Cases \in Nat /\ Reports \in Nat /\ Ticks \in Nat /\ MaxProcesses \in Nat

VARIABLES
    \* The store.
    events,         \* the events table in insertion order, [seq, kind, attempted]
    recorded,       \* how many cases have an outcome
    \* The process.
    phase,          \* "down", "opening", "opened", "running", "joining" or "closing"
    seq,            \* agg.seq
    attempted,      \* agg.scored + agg.errored, earlier processes included
    closed,         \* agg.closed
    sink,           \* "idle", "count", "emit" or "broken"
    ticker,         \* "idle", "progress", "spend" or "gone"
    position,       \* the count the ticker has read
    tickFailed,     \* progressTicker's failure
    emitFailure,    \* agg.emitFailure
    result,         \* "running", "ok" or "error": what Baseline returned
    reports, ticks, processes,
    \* History variables.
    burned,         \* a number this process took was never written
    refused         \* an append came after RunFinished

store == <<events, recorded>>
agg == <<attempted, emitFailure>>
tick == <<ticker, position, tickFailed, ticks>>
vars == <<store, phase, seq, agg, closed, sink, tick, result, reports, processes, burned,
          refused>>

\* "Report" is RetryAttempted, SettlementOvershoot or OrphanSpend.
Kind == {"RunStarted", "RunResumed", "ConcurrencyReduced", "Case", "Report",
         "StageProgress", "SpendRecorded", "RunFinished"}

Init ==
    /\ events = <<>> /\ recorded = 0
    /\ phase = "down" /\ seq = 0 /\ attempted = 0 /\ closed = FALSE
    /\ sink = "idle" /\ ticker = "idle" /\ position = 0
    /\ tickFailed = FALSE /\ emitFailure = FALSE /\ result = "ok"
    /\ reports = 0 /\ ticks = 0 /\ processes = 0
    /\ burned = FALSE /\ refused = FALSE

Taken == {events[i].seq : i \in DOMAIN events}
MaxEventSequence == Max({0} \cup Taken)

-----------------------------------------------------------------------------

\* The process is gone, and its memory with it.
Gone ==
    /\ phase' = "down" /\ seq' = 0 /\ attempted' = 0 /\ closed' = FALSE
    /\ sink' = "idle" /\ ticker' = "idle" /\ position' = 0
    /\ tickFailed' = FALSE /\ emitFailure' = FALSE /\ ticks' = 0
    /\ burned' = FALSE /\ refused' = FALSE

SeededCounts == recorded

SeededSequence == MaxEventSequence

Start ==
    /\ phase = "down" /\ processes < MaxProcesses
    /\ phase' = "opening" /\ processes' = processes + 1 /\ result' = "running"
    /\ seq' = SeededSequence /\ attempted' = SeededCounts
    /\ UNCHANGED <<store, emitFailure, closed, sink, tick, reports, burned, refused>>

\* Each append ends in one of these: written (the insert ignores a number it already
\* holds), failed, or refused after RunFinished.
Written(kind, count) ==
    /\ ~closed
    /\ seq' = seq + 1
    /\ events' = IF seq + 1 \in Taken THEN events
                 ELSE Append(events, [seq |-> seq + 1, kind |-> kind, attempted |-> count])
    /\ closed' = (kind = "RunFinished")
    /\ UNCHANGED <<burned, refused>>

Unwritten ==
    /\ \/ ~closed /\ seq' = seq + 1 /\ burned' = TRUE /\ UNCHANGED refused
       \/ closed /\ refused' = TRUE /\ UNCHANGED <<seq, burned>>
    /\ UNCHANGED <<events, closed>>

\* Mutant: what a process opens with depends on --resume.
BugOpening == IF processes > 1 THEN "RunResumed" ELSE "RunStarted"

Opening == IF seq > 0 THEN "RunResumed" ELSE "RunStarted"

emitOpening ==
    /\ phase = "opening" /\ result = "running"
    /\ \/ Written(Opening, 0) /\ phase' = "opened" /\ UNCHANGED result
       \/ Unwritten /\ result' = "error" /\ UNCHANGED phase
    /\ UNCHANGED <<recorded, agg, sink, tick, reports, processes>>

\* Only when the engine narrowed the width the user asked for.
emitConcurrencyReduced ==
    /\ phase = "opened" /\ result = "running"
    /\ \/ Written("ConcurrencyReduced", 0) /\ phase' = "running" /\ UNCHANGED result
       \/ Unwritten /\ result' = "error" /\ UNCHANGED phase
       \/ /\ phase' = "running"
          /\ UNCHANGED <<events, seq, closed, burned, refused, result>>
    /\ UNCHANGED <<recorded, agg, sink, tick, reports, processes>>

-----------------------------------------------------------------------------
(* The sink: the outcome, then the count, then the event. *)

SinkRecords ==
    /\ phase = "running" /\ sink = "idle" /\ recorded < Cases
    /\ \/ recorded' = recorded + 1 /\ sink' = "count"
       \/ sink' = "broken" /\ UNCHANGED recorded
    /\ UNCHANGED <<events, phase, seq, agg, closed, tick, result, reports, processes, burned,
                   refused>>

SinkCounts ==
    /\ sink = "count"
    /\ attempted' = attempted + 1
    /\ sink' = "emit"
    /\ UNCHANGED <<store, phase, seq, emitFailure, closed, tick, result, reports, processes,
                   burned, refused>>

SinkEmits ==
    /\ sink = "emit"
    /\ \/ Written("Case", 0) /\ sink' = "idle"
       \/ Unwritten /\ sink' = "broken"
    /\ UNCHANGED <<recorded, phase, agg, tick, result, reports, processes>>

(* A worker announces a retry or an overshoot, or the sink an orphaned     *)
(* charge; a failure is kept for the close and never returned.             *)
RecordEmitFailure ==
    /\ phase = "running" /\ reports < Reports
    /\ reports' = reports + 1
    /\ \/ Written("Report", 0) /\ UNCHANGED emitFailure
       \/ Unwritten /\ emitFailure' = TRUE
    /\ UNCHANGED <<recorded, phase, attempted, sink, tick, result, processes>>

-----------------------------------------------------------------------------
(* The ticker: two heartbeats a tick, the first of which reads its counts  *)
(* before appendEvent takes emitMu.                                        *)

Tick ==
    /\ phase \in {"running", "joining", "closing"} /\ ticker = "idle" /\ ticks < Ticks
    /\ ticks' = ticks + 1
    /\ ticker' = "progress" /\ position' = attempted
    /\ UNCHANGED <<store, phase, seq, agg, closed, sink, tickFailed, result, reports,
                   processes, burned, refused>>

\* Mutant: a failed heartbeat ends the ticker and nothing else.
BugHeartbeat(kind, count, next) ==
    /\ \/ Written(kind, count) /\ ticker' = next
       \/ Unwritten /\ ticker' = "gone"
    /\ UNCHANGED tickFailed

Heartbeat(kind, count, next) ==
    \/ Written(kind, count) /\ ticker' = next /\ UNCHANGED tickFailed
    \/ Unwritten /\ ticker' = "gone" /\ tickFailed' = TRUE

emitStageProgress ==
    /\ ticker = "progress"
    /\ Heartbeat("StageProgress", position, "spend")
    /\ position' = 0
    /\ UNCHANGED <<recorded, phase, agg, sink, ticks, result, reports, processes>>

emitSpendRecorded ==
    /\ ticker = "spend"
    /\ Heartbeat("SpendRecorded", 0, "idle")
    /\ UNCHANGED <<recorded, phase, agg, sink, position, ticks, result, reports, processes>>

TickerSeesDone ==
    /\ phase \in {"joining", "closing"} /\ ticker = "idle"
    /\ ticker' = "gone"
    /\ UNCHANGED <<store, phase, seq, agg, closed, sink, position, tickFailed, ticks, result,
                   reports, processes, burned, refused>>

-----------------------------------------------------------------------------
(* The end: executor.Run returns, with or without every case recorded; the *)
(* ticker is told and waited for; closeRun emits the last event.           *)

ExecutorReturns ==
    /\ phase = "running" /\ sink \in {"idle", "broken"}
    /\ phase' = "joining"
    /\ UNCHANGED <<store, seq, agg, closed, sink, tick, result, reports, processes, burned,
                   refused>>

\* Mutant: stop closes the channel and does not wait.
BugTickerJoined == TRUE

TickerJoined == ticker = "gone"

stopProgress ==
    /\ phase = "joining" /\ TickerJoined
    /\ phase' = "closing"
    /\ UNCHANGED <<store, seq, agg, closed, sink, tick, result, reports, processes, burned,
                   refused>>

runErr == sink = "broken" \/ tickFailed \/ emitFailure

emitRunFinished ==
    /\ phase = "closing" /\ ~closed /\ result = "running"
    /\ \/ /\ Written("RunFinished", attempted)
          /\ \E other \in BOOLEAN : result' = IF runErr \/ other THEN "error" ELSE "ok"
       \/ Unwritten /\ result' = "error"
       \/ \* FinishRun failed: the stream keeps no last event.
          /\ result' = "error" /\ UNCHANGED <<events, seq, closed, burned, refused>>
    /\ UNCHANGED <<recorded, phase, agg, sink, tick, reports, processes>>

Exit ==
    /\ result # "running"
    /\ Gone
    /\ UNCHANGED <<store, result, reports, processes>>

Crash ==
    /\ result = "running"
    /\ Gone /\ result' = "error"
    /\ UNCHANGED <<store, reports, processes>>

Ticker == Tick \/ emitStageProgress \/ emitSpendRecorded \/ TickerSeesDone

Next ==
    \/ Start
    \/ /\ phase # "down"
       /\ \/ emitOpening \/ emitConcurrencyReduced \/ SinkRecords \/ SinkCounts \/ SinkEmits
          \/ RecordEmitFailure \/ Ticker
          \/ ExecutorReturns \/ stopProgress \/ emitRunFinished \/ Exit \/ Crash

Spec == Init /\ [][Next]_vars

-----------------------------------------------------------------------------
(* Properties. *)

Event == [seq : Nat \ {0}, kind : Kind, attempted : 0..Cases]

(* Every variable holds a value its Go counterpart can hold.                *)
TypeOK ==
    /\ events \in Seq(Event)
    /\ recorded \in 0..Cases /\ attempted \in 0..Cases /\ position \in 0..Cases
    /\ phase \in {"down", "opening", "opened", "running", "joining", "closing"}
    /\ seq \in Nat
    /\ reports \in Nat /\ ticks \in Nat /\ processes \in Nat
    /\ sink \in {"idle", "count", "emit", "broken"}
    /\ ticker \in {"idle", "progress", "spend", "gone"}
    /\ result \in {"running", "ok", "error"}
    /\ closed \in BOOLEAN /\ tickFailed \in BOOLEAN /\ emitFailure \in BOOLEAN
    /\ burned \in BOOLEAN /\ refused \in BOOLEAN

(* A process that took a sequence number and never wrote it does not       *)
(* return success: a hole in the stream is reported, whichever emitter     *)
(* made it (baseline_record.go:568-582, baseline.go:576-588).              *)
HolesAreReported == result = "ok" => ~burned

(* RunFinished is last because the ticker has been waited for, not because *)
(* a late heartbeat is turned away (baseline_record.go:529-532).           *)
NothingIsRefused == ~refused

(* The events of successive processes read as one run: the first one        *)
(* identifies it and no later one does, even if a process died before       *)
(* writing anything, and the positions claimed never go backwards           *)
(* (baseline_record.go:698; baseline.go:454-491).                           *)
StreamReadsAsOneRun ==
    /\ \A i \in DOMAIN events : events[i].kind = "RunStarted" <=> i = 1
    /\ \A i, j \in DOMAIN events :
           /\ i < j
           /\ events[i].kind \in {"StageProgress", "RunFinished"}
           /\ events[j].kind \in {"StageProgress", "RunFinished"}
           => events[i].attempted <= events[j].attempted

(* What makes them inductive. *)

\* Numbers increase, so what a resume writes is never ignored for what is there.
OrderOK ==
    /\ \A i, j \in DOMAIN events : i < j => events[i].seq < events[j].seq
    /\ phase # "down" => \A i \in DOMAIN events : events[i].seq <= seq

\* Who has ended before whom.
EndOK ==
    /\ phase = "down" => ~closed /\ ticker = "idle" /\ sink = "idle" /\ result # "running"
    /\ phase \in {"opening", "opened"} => result # "ok" /\ ticker = "idle" /\ sink = "idle"
    /\ phase \in {"running", "joining"} => result = "running"
    /\ sink \in {"count", "emit"} => phase = "running"
    /\ phase = "closing" => ticker = "gone"
    /\ closed => phase = "closing"

\* A burned number has left its mark on what the process will return.
FailureOK ==
    /\ burned => phase # "down" /\ (runErr \/ result = "error")
    /\ result = "ok" => ~burned

\* The first event opens the run, and precedes everything else.
FirstOK ==
    /\ phase = "opening" /\ result = "running" => (seq = 0 <=> Len(events) = 0)
    /\ phase \in {"opened", "running", "joining", "closing"} => Len(events) > 0
    /\ \A i \in DOMAIN events : events[i].kind = "RunStarted" <=> i = 1

\* The positions claimed are behind the counts, and the ticker's is between them.
Claims == {i \in DOMAIN events : events[i].kind \in {"StageProgress", "RunFinished"}}

CountOK ==
    /\ phase # "down" => recorded = attempted + (IF sink = "count" THEN 1 ELSE 0)
    /\ \A i \in Claims :
          /\ events[i].attempted <= recorded
          /\ phase # "down" => events[i].attempted <= attempted
          /\ ticker = "progress" => events[i].attempted <= position
    /\ ticker = "progress" => position <= attempted
    /\ \A i, j \in Claims : i < j => events[i].attempted <= events[j].attempted

IInv ==
    /\ TypeOK /\ OrderOK /\ EndOK /\ FailureOK /\ FirstOK /\ CountOK /\ NothingIsRefused

=============================================================================
