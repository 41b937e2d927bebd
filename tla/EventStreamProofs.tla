-------------------------- MODULE EventStreamProofs --------------------------
(***************************************************************************)
(* The event stream for any number of cases, reports, heartbeats and       *)
(* processes, whichever append fails and wherever a process is killed.     *)
(***************************************************************************)
EXTENDS EventStream, TLAPS

USE EventAssumption
USE DEF IInv, store, agg, tick, NothingIsRefused

(* The numbers and the positions in the stream are numbers.                 *)
LEMMA EventTypes ==
    ASSUME TypeOK
    PROVE  /\ events \in Seq(Event) /\ Len(events) \in Nat /\ DOMAIN events = 1..Len(events)
           /\ \A i \in DOMAIN events :
                 /\ events[i].seq \in Nat \ {0}
                 /\ events[i].attempted \in Nat /\ events[i].attempted <= Cases
<1>1. events \in Seq(Event)
  BY DEF TypeOK
<1>2. Len(events) \in Nat /\ DOMAIN events = 1..Len(events)
  BY <1>1
<1>3. \A i \in DOMAIN events : events[i] \in Event
  BY <1>1, <1>2
<1>4. \A e \in Event : e.seq \in Nat \ {0} /\ e.attempted \in Nat /\ e.attempted <= Cases
  BY DEF Event
<1>5. QED
  BY <1>1, <1>2, <1>3, <1>4

-----------------------------------------------------------------------------
(* Appends. *)

(* A number the process takes is new, so what it writes is kept: the stream *)
(* grows by one event, in order.                                            *)
LEMMA WrittenAppends ==
    ASSUME IInv, phase # "down", NEW kind \in Kind, NEW count \in 0..Cases,
           Written(kind, count)
    PROVE  /\ ~closed /\ closed' = (kind = "RunFinished")
           /\ seq' = seq + 1 /\ burned' = burned /\ refused' = refused
           /\ events' \in Seq(Event) /\ Len(events') = Len(events) + 1
           /\ \A i \in 1..Len(events) : events'[i] = events[i]
           /\ events'[Len(events) + 1] = [seq |-> seq + 1, kind |-> kind, attempted |-> count]
           /\ OrderOK'
<1> DEFINE event == [seq |-> seq + 1, kind |-> kind, attempted |-> count]
<1>1. event \in Event /\ events \in Seq(Event) /\ seq \in Nat
  BY DEF TypeOK, Event
<1>2. seq + 1 \notin Taken
  BY <1>1 DEF OrderOK, Taken, Event
<1>3. events' = Append(events, event)
  BY <1>2 DEF Written
<1>4. /\ events' \in Seq(Event) /\ Len(events') = Len(events) + 1
      /\ \A i \in 1..Len(events) : events'[i] = events[i]
      /\ events'[Len(events) + 1] = event
  BY <1>1, <1>3
<1>5. seq' = seq + 1
  BY DEF Written
<1>6. OrderOK'
  <2>1. DOMAIN events = 1..Len(events) /\ DOMAIN events' = 1..(Len(events) + 1)
    BY <1>1, <1>4
  <2>2. \A i \in DOMAIN events : events[i].seq \in Nat /\ events[i].seq <= seq
    BY EventTypes DEF OrderOK
  <2>3. \A i \in DOMAIN events' : events'[i].seq <= seq'
    BY <1>1, <1>4, <1>5, <2>1, <2>2
  <2>4. \A i, j \in DOMAIN events' : i < j => events'[i].seq < events'[j].seq
    <3> SUFFICES ASSUME NEW i \in DOMAIN events', NEW j \in DOMAIN events', i < j
                 PROVE  events'[i].seq < events'[j].seq
      OBVIOUS
    <3>1. i \in DOMAIN events /\ events'[i] = events[i]
      BY <1>1, <1>4, <2>1
    <3>2. CASE j = Len(events) + 1
      BY <1>1, <1>4, <2>2, <3>1, <3>2
    <3>3. CASE j # Len(events) + 1
      BY <1>1, <1>4, <2>1, <3>1, <3>3 DEF OrderOK
    <3>4. QED
      BY <3>2, <3>3
  <2>5. QED
    BY <2>3, <2>4 DEF OrderOK
<1>7. QED
  BY <1>1, <1>4, <1>6 DEF Written

(* An event that claims no position leaves the claims as they are, and one  *)
(* that is not the first does not open the run.                             *)
LEMMA WrittenFollows ==
    ASSUME IInv, phase # "down", NEW kind \in Kind \ {"RunStarted"}, NEW count \in 0..Cases,
           Written(kind, count), Len(events) > 0
    PROVE  /\ \A i \in DOMAIN events' : events'[i].kind = "RunStarted" <=> i = 1
           /\ kind \notin {"StageProgress", "RunFinished"} =>
                  Claims' = Claims /\ \A i \in Claims : events'[i] = events[i]
           /\ kind \in {"StageProgress", "RunFinished"} =>
                  /\ Claims' = Claims \cup {Len(events) + 1} /\ Len(events) + 1 \notin Claims
                  /\ \A i \in Claims : events'[i] = events[i] /\ i < Len(events) + 1
                  /\ events'[Len(events) + 1].attempted = count
<1>1. /\ Len(events') = Len(events) + 1
      /\ \A i \in 1..Len(events) : events'[i] = events[i]
      /\ events'[Len(events) + 1].kind = kind /\ events'[Len(events) + 1].attempted = count
      /\ events' \in Seq(Event)
  <2>1. kind \in Kind
    OBVIOUS
  <2>2. events'[Len(events) + 1] = [seq |-> seq + 1, kind |-> kind, attempted |-> count]
    BY <2>1, WrittenAppends
  <2>3. QED
    BY <2>1, <2>2, WrittenAppends
<1>2. DOMAIN events = 1..Len(events) /\ DOMAIN events' = 1..(Len(events) + 1) /\ Len(events) \in Nat
  BY <1>1 DEF TypeOK
<1>3. \A i \in DOMAIN events' : events'[i].kind = "RunStarted" <=> i = 1
  BY <1>1, <1>2 DEF FirstOK
<1>4. /\ \A i \in Claims : events'[i] = events[i] /\ i < Len(events) + 1
      /\ Len(events) + 1 \notin Claims
  BY <1>1, <1>2 DEF Claims
<1>5. ASSUME kind \notin {"StageProgress", "RunFinished"} PROVE Claims' = Claims
  BY <1>1, <1>2, <1>5 DEF Claims
<1>6. ASSUME kind \in {"StageProgress", "RunFinished"}
      PROVE  Claims' = Claims \cup {Len(events) + 1}
  BY <1>1, <1>2, <1>6 DEF Claims
<1>7. QED
  BY <1>1, <1>3, <1>4, <1>5, <1>6

(* A failed append burns its number while the stream is open.               *)
LEMMA UnwrittenBurns ==
    ASSUME Unwritten, ~closed
    PROVE  seq' = seq + 1 /\ burned' = TRUE /\ events' = events /\ closed' = closed /\ refused' = refused
BY DEF Unwritten

-----------------------------------------------------------------------------
(* The start and the end of a process. *)

(* Nothing is recorded and no process is up.                                *)
LEMMA InitIInv == Init => IInv
<1> SUFFICES ASSUME Init PROVE IInv
  OBVIOUS
<1>1. events = <<>> /\ Claims = {}
  BY DEF Init, Claims
<1>2. TypeOK
  <2>1. events \in Seq(Event)
    BY <1>1
  <2>2. recorded \in 0..Cases /\ attempted \in 0..Cases /\ position \in 0..Cases
    BY DEF Init
  <2>3. seq \in Nat /\ reports \in Nat /\ ticks \in Nat /\ processes \in Nat
    BY DEF Init
  <2>4. QED
    BY <2>1, <2>2, <2>3 DEF Init, TypeOK
<1>3. QED
  BY <1>1, <1>2 DEF Init, OrderOK, EndOK, FailureOK, FirstOK, CountOK

(* The largest number in the store is above every other, and 0 only while   *)
(* the store holds none.                                                    *)
LEMMA MaxIsLast ==
    ASSUME IInv
    PROVE  /\ MaxEventSequence \in Nat
           /\ \A i \in DOMAIN events : events[i].seq <= MaxEventSequence
           /\ MaxEventSequence = 0 <=> Len(events) = 0
<1> DEFINE S == {0} \cup Taken
<1>1. events \in Seq(Event) /\ Len(events) \in Nat /\ DOMAIN events = 1..Len(events)
  BY DEF TypeOK
<1>2. \A i \in DOMAIN events : events[i].seq \in Nat \ {0}
  BY EventTypes
<1>3. S \subseteq Nat
  BY <1>2 DEF Taken
<1>4. \E x \in S : \A y \in S : x >= y
  <2>1. CASE Len(events) = 0
    BY <1>1, <2>1 DEF Taken
  <2>2. CASE Len(events) # 0
    <3>1. Len(events) \in DOMAIN events
      BY <1>1, <2>2
    <3>2. \A i \in DOMAIN events : events[i].seq <= events[Len(events)].seq
      BY <1>1, <1>2, <3>1 DEF OrderOK
    <3>3. \A y \in S : events[Len(events)].seq >= y
      BY <1>2, <3>1, <3>2 DEF Taken
    <3>4. events[Len(events)].seq \in S
      BY <3>1 DEF Taken
    <3>5. QED
      BY <3>3, <3>4
  <2>3. QED
    BY <2>1, <2>2
<1>5. MaxEventSequence \in S /\ \A y \in S : MaxEventSequence >= y
  BY <1>4 DEF MaxEventSequence, Max
<1>6. \A i \in DOMAIN events : events[i].seq \in S
  BY DEF Taken
<1>7. ASSUME MaxEventSequence = 0 PROVE Len(events) = 0
  <2>1. \A i \in DOMAIN events : FALSE
    BY <1>2, <1>3, <1>5, <1>6, <1>7
  <2>2. 1 \notin 1..Len(events)
    BY <1>1, <2>1
  <2>3. QED
    BY <1>1, <2>2
<1>8. ASSUME Len(events) = 0 PROVE MaxEventSequence = 0
  BY <1>1, <1>5, <1>8 DEF Taken
<1>9. QED
  BY <1>2, <1>3, <1>5, <1>6, <1>7, <1>8


(* A process starts, from what the store holds.                             *)
LEMMA StartInv ==
    ASSUME IInv, Start
    PROVE  IInv'
<1>1. TypeOK'
  BY MaxIsLast, EventTypes DEF TypeOK, Start, SeededSequence, SeededCounts
<1>2. OrderOK'
  BY MaxIsLast, EventTypes DEF TypeOK, OrderOK, Start, SeededSequence, SeededCounts
<1>3. EndOK'
  BY MaxIsLast DEF TypeOK, EndOK, Start, SeededSequence, SeededCounts
<1>4. FailureOK'
  BY MaxIsLast DEF TypeOK, EndOK, FailureOK, runErr, Start, SeededSequence, SeededCounts
<1>5. FirstOK'
  BY MaxIsLast DEF TypeOK, EndOK, FirstOK, Start, SeededSequence, SeededCounts
<1>6. CountOK'
  BY MaxIsLast, EventTypes DEF TypeOK, EndOK, CountOK, Claims, Start, SeededSequence, SeededCounts
<1>7. ~refused'
  BY DEF Start, SeededSequence, SeededCounts
<1>8. QED
  BY <1>1, <1>2, <1>3, <1>4, <1>5, <1>6, <1>7

(* A process that has returned is gone.                                     *)
LEMMA ExitInv ==
    ASSUME IInv, phase # "down", Exit
    PROVE  IInv'
<1>1. TypeOK'
  <2>1. /\ events' = events /\ recorded' = recorded /\ result' = result
        /\ reports' = reports /\ processes' = processes
    BY DEF Exit
  <2>2. /\ phase' = "down" /\ seq' = 0 /\ attempted' = 0 /\ closed' = FALSE
        /\ sink' = "idle" /\ ticker' = "idle" /\ position' = 0
        /\ tickFailed' = FALSE /\ emitFailure' = FALSE /\ ticks' = 0
        /\ burned' = FALSE /\ refused' = FALSE
    BY DEF Exit, Gone
  <2>3. recorded' \in 0..Cases /\ attempted' \in 0..Cases /\ position' \in 0..Cases
    BY <2>1, <2>2 DEF TypeOK
  <2>4. events' \in Seq(Event) /\ seq' \in Nat /\ ticks' \in Nat
    BY <2>1, <2>2 DEF TypeOK
  <2>5. reports' \in Nat /\ processes' \in Nat /\ result' \in {"running", "ok", "error"}
    BY <2>1 DEF TypeOK
  <2>6. QED
    BY <2>2, <2>3, <2>4, <2>5 DEF TypeOK
<1>2. OrderOK'
  BY EventTypes DEF TypeOK, OrderOK, Exit, Gone
<1>3. EndOK'
  BY DEF TypeOK, EndOK, Exit, Gone
<1>4. FailureOK'
  BY DEF TypeOK, EndOK, FailureOK, runErr, Exit, Gone
<1>5. FirstOK'
  BY DEF TypeOK, EndOK, FirstOK, Exit, Gone
<1>6. CountOK'
  BY EventTypes DEF TypeOK, EndOK, CountOK, Claims, Exit, Gone
<1>7. ~refused'
  BY DEF Exit, Gone
<1>8. QED
  BY <1>1, <1>2, <1>3, <1>4, <1>5, <1>6, <1>7

(* A process is killed.                                                     *)
LEMMA CrashInv ==
    ASSUME IInv, phase # "down", Crash
    PROVE  IInv'
<1>1. TypeOK'
  <2>1. /\ events' = events /\ recorded' = recorded /\ result' = "error"
        /\ reports' = reports /\ processes' = processes
    BY DEF Crash
  <2>2. /\ phase' = "down" /\ seq' = 0 /\ attempted' = 0 /\ closed' = FALSE
        /\ sink' = "idle" /\ ticker' = "idle" /\ position' = 0
        /\ tickFailed' = FALSE /\ emitFailure' = FALSE /\ ticks' = 0
        /\ burned' = FALSE /\ refused' = FALSE
    BY DEF Crash, Gone
  <2>3. recorded' \in 0..Cases /\ attempted' \in 0..Cases /\ position' \in 0..Cases
    BY <2>1, <2>2 DEF TypeOK
  <2>4. events' \in Seq(Event) /\ seq' \in Nat /\ ticks' \in Nat
    BY <2>1, <2>2 DEF TypeOK
  <2>5. reports' \in Nat /\ processes' \in Nat /\ result' \in {"running", "ok", "error"}
    BY <2>1 DEF TypeOK
  <2>6. QED
    BY <2>2, <2>3, <2>4, <2>5 DEF TypeOK
<1>2. OrderOK'
  BY EventTypes DEF TypeOK, OrderOK, Crash, Gone
<1>3. EndOK'
  BY DEF TypeOK, EndOK, Crash, Gone
<1>4. FailureOK'
  BY DEF TypeOK, EndOK, FailureOK, runErr, Crash, Gone
<1>5. FirstOK'
  BY DEF TypeOK, EndOK, FirstOK, Crash, Gone
<1>6. CountOK'
  BY EventTypes DEF TypeOK, EndOK, CountOK, Claims, Crash, Gone
<1>7. ~refused'
  BY DEF Crash, Gone
<1>8. QED
  BY <1>1, <1>2, <1>3, <1>4, <1>5, <1>6, <1>7

-----------------------------------------------------------------------------
(* The opening. *)

(* The opening event: it opens the run or resumes one that is open.         *)
LEMMA emitOpeningInv ==
    ASSUME IInv, phase # "down", emitOpening
    PROVE  IInv'
<1>1. phase = "opening" /\ result = "running"
      /\ UNCHANGED <<recorded, agg, sink, tick, reports, processes>>
  BY DEF emitOpening
<1>2. ~closed
  BY <1>1 DEF EndOK
<1>3. CASE Written(Opening, 0) /\ phase' = "opened" /\ UNCHANGED result
  <2>1. Opening \in Kind /\ 0 \in 0..Cases
    BY DEF Kind, TypeOK, Opening
  <2>2. /\ closed' = (Opening = "RunFinished") /\ seq' = seq + 1
        /\ burned' = burned /\ refused' = refused
        /\ events' \in Seq(Event) /\ Len(events') = Len(events) + 1 /\ OrderOK'
    BY <1>3, <2>1, WrittenAppends
  <2>3. /\ \A i \in DOMAIN events' : events'[i].kind = "RunStarted" <=> i = 1
        /\ Claims' = Claims /\ \A i \in Claims : events'[i] = events[i]
    <3>1. CASE seq = 0
      <4>1. Len(events) = 0 /\ Opening = "RunStarted"
        BY <1>1, <3>1 DEF FirstOK, Opening
      <4>2. Len(events') = 1 /\ events'[1].kind = "RunStarted" /\ events' \in Seq(Event)
        <5>1. Len(events') = 0 + 1 /\ events' \in Seq(Event)
          BY <1>3, <2>1, <4>1, WrittenAppends
        <5>2. events'[0 + 1] = [seq |-> seq + 1, kind |-> Opening, attempted |-> 0]
          BY <1>3, <2>1, <4>1, WrittenAppends
        <5>3. QED
          BY <4>1, <5>1, <5>2
      <4>3. DOMAIN events = {} /\ DOMAIN events' = {1}
        BY <4>1, <4>2 DEF TypeOK
      <4>4. QED
        BY <4>2, <4>3 DEF Claims
    <3>2. CASE seq # 0
      <4>1. Len(events) > 0 /\ Opening = "RunResumed"
        BY <1>1, <3>2 DEF FirstOK, Opening, TypeOK
      <4>2. QED
        BY <1>3, <2>1, <4>1, WrittenFollows
    <3>3. QED
      BY <3>1, <3>2
  <2>4. Opening # "RunFinished"
    BY DEF Opening
  <2>5. TypeOK'
    BY <1>1, <1>3, <2>1, <2>2, <2>3 DEF TypeOK
  <2>6. EndOK'
    BY <1>1, <1>3, <2>1, <2>2, <2>3, <2>4 DEF TypeOK, EndOK
  <2>7. FailureOK'
    BY <1>1, <1>3, <2>1, <2>2, <2>3 DEF TypeOK, EndOK, FailureOK, runErr
  <2>8. FirstOK'
    BY <1>1, <1>3, <2>1, <2>2, <2>3 DEF TypeOK, EndOK, FirstOK
  <2>9. CountOK'
    BY <1>1, <1>3, <2>1, <2>2, <2>3, EventTypes DEF TypeOK, EndOK, CountOK
  <2>10. QED
    BY <2>2, <2>5, <2>6, <2>7, <2>8, <2>9
<1>4. CASE Unwritten /\ result' = "error" /\ UNCHANGED phase
  <2>1. /\ seq' = seq + 1 /\ burned' = TRUE
        /\ events' = events /\ closed' = closed /\ refused' = refused
    BY <1>2, <1>4, UnwrittenBurns
  <2>2. TypeOK'
    BY <1>1, <1>4, <2>1 DEF TypeOK
  <2>3. OrderOK'
    BY <1>1, <1>4, <2>1, EventTypes DEF TypeOK, OrderOK
  <2>4. EndOK'
    BY <1>1, <1>4, <2>1 DEF TypeOK, EndOK
  <2>5. FailureOK'
    BY <1>1, <1>4, <2>1 DEF TypeOK, EndOK, FailureOK, runErr
  <2>6. FirstOK'
    BY <1>1, <1>4, <2>1 DEF TypeOK, EndOK, FirstOK
  <2>7. CountOK'
    BY <1>1, <1>4, <2>1, EventTypes DEF TypeOK, EndOK, CountOK, Claims
  <2>8. QED
    BY <2>1, <2>2, <2>3, <2>4, <2>5, <2>6, <2>7
<1>6. QED
  BY <1>3, <1>4, Zenon DEF emitOpening

(* The caveat about the width, if there is one.                             *)
LEMMA emitConcurrencyReducedInv ==
    ASSUME IInv, phase # "down", emitConcurrencyReduced
    PROVE  IInv'
<1>1. phase = "opened" /\ result = "running"
      /\ UNCHANGED <<recorded, agg, sink, tick, reports, processes>>
  BY DEF emitConcurrencyReduced
<1>2. ~closed
  BY <1>1 DEF EndOK
<1>3. CASE Written("ConcurrencyReduced", 0) /\ phase' = "running" /\ UNCHANGED result
  <2>1. "ConcurrencyReduced" \in Kind /\ 0 \in 0..Cases
    BY DEF Kind, TypeOK
  <2>2. /\ closed' = ("ConcurrencyReduced" = "RunFinished") /\ seq' = seq + 1
        /\ burned' = burned /\ refused' = refused
        /\ events' \in Seq(Event) /\ Len(events') = Len(events) + 1 /\ OrderOK'
    BY <1>3, <2>1, WrittenAppends
  <2>3. Len(events) > 0
    BY <1>1 DEF FirstOK, EndOK, TypeOK
  <2>4. /\ \A i \in DOMAIN events' : events'[i].kind = "RunStarted" <=> i = 1
        /\ Claims' = Claims /\ \A i \in Claims : events'[i] = events[i]
    BY <1>3, <2>1, <2>3, WrittenFollows
  <2>5. TypeOK'
    BY <1>1, <1>3, <2>1, <2>2, <2>4 DEF TypeOK
  <2>6. EndOK'
    BY <1>1, <1>3, <2>1, <2>2, <2>4 DEF TypeOK, EndOK
  <2>7. FailureOK'
    BY <1>1, <1>3, <2>1, <2>2, <2>4 DEF TypeOK, EndOK, FailureOK, runErr
  <2>8. FirstOK'
    BY <1>1, <1>3, <2>1, <2>2, <2>4 DEF TypeOK, EndOK, FirstOK
  <2>9. CountOK'
    BY <1>1, <1>3, <2>1, <2>2, <2>4, EventTypes DEF TypeOK, EndOK, CountOK
  <2>10. QED
    BY <2>2, <2>5, <2>6, <2>7, <2>8, <2>9
<1>4. CASE Unwritten /\ result' = "error" /\ UNCHANGED phase
  <2>1. /\ seq' = seq + 1 /\ burned' = TRUE
        /\ events' = events /\ closed' = closed /\ refused' = refused
    BY <1>2, <1>4, UnwrittenBurns
  <2>2. TypeOK'
    BY <1>1, <1>4, <2>1 DEF TypeOK
  <2>3. OrderOK'
    BY <1>1, <1>4, <2>1, EventTypes DEF TypeOK, OrderOK
  <2>4. EndOK'
    BY <1>1, <1>4, <2>1 DEF TypeOK, EndOK
  <2>5. FailureOK'
    BY <1>1, <1>4, <2>1 DEF TypeOK, EndOK, FailureOK, runErr
  <2>6. FirstOK'
    BY <1>1, <1>4, <2>1 DEF TypeOK, EndOK, FirstOK
  <2>7. CountOK'
    BY <1>1, <1>4, <2>1, EventTypes DEF TypeOK, EndOK, CountOK, Claims
  <2>8. QED
    BY <2>1, <2>2, <2>3, <2>4, <2>5, <2>6, <2>7
<1>5. CASE phase' = "running" /\ UNCHANGED <<events, seq, closed, burned, refused, result>>
  <2>1. TypeOK'
    BY <1>1, <1>5 DEF TypeOK
  <2>2. OrderOK'
    BY <1>1, <1>5 DEF TypeOK, OrderOK
  <2>3. EndOK'
    BY <1>1, <1>5 DEF TypeOK, EndOK
  <2>4. FailureOK'
    BY <1>1, <1>5 DEF TypeOK, EndOK, FailureOK, runErr
  <2>5. FirstOK'
    BY <1>1, <1>5 DEF TypeOK, EndOK, FirstOK
  <2>6. CountOK'
    BY <1>1, <1>5 DEF TypeOK, EndOK, CountOK, Claims
  <2>7. QED
    BY <1>1, <1>5, <2>1, <2>2, <2>3, <2>4, <2>5, <2>6
<1>6. QED
  BY <1>3, <1>4, <1>5, Zenon DEF emitConcurrencyReduced

-----------------------------------------------------------------------------
(* The sink. *)

(* The outcome is written, or the write fails.                              *)
LEMMA SinkRecordsInv ==
    ASSUME IInv, phase # "down", SinkRecords
    PROVE  IInv'
<1>1. TypeOK'
  BY EventTypes DEF TypeOK, SinkRecords
<1>2. OrderOK'
  BY EventTypes DEF TypeOK, OrderOK, SinkRecords
<1>3. EndOK'
  BY DEF TypeOK, EndOK, SinkRecords
<1>4. FailureOK'
  BY DEF TypeOK, EndOK, FailureOK, runErr, SinkRecords
<1>5. FirstOK'
  BY DEF TypeOK, EndOK, FirstOK, SinkRecords
<1>6. CountOK'
  BY EventTypes DEF TypeOK, EndOK, CountOK, Claims, SinkRecords
<1>7. ~refused'
  BY DEF SinkRecords
<1>8. QED
  BY <1>1, <1>2, <1>3, <1>4, <1>5, <1>6, <1>7

(* The outcome is counted.                                                  *)
LEMMA SinkCountsInv ==
    ASSUME IInv, phase # "down", SinkCounts
    PROVE  IInv'
<1>1. TypeOK'
  <2>1. recorded = attempted + 1
    BY DEF CountOK, SinkCounts
  <2>2. attempted' \in 0..Cases
    BY <2>1 DEF TypeOK, SinkCounts
  <2>3. QED
    BY <2>2 DEF TypeOK, SinkCounts
<1>2. OrderOK'
  BY EventTypes DEF TypeOK, OrderOK, SinkCounts
<1>3. EndOK'
  BY DEF TypeOK, EndOK, SinkCounts
<1>4. FailureOK'
  BY DEF TypeOK, EndOK, FailureOK, runErr, SinkCounts
<1>5. FirstOK'
  BY DEF TypeOK, EndOK, FirstOK, SinkCounts
<1>6. CountOK'
  BY EventTypes DEF TypeOK, EndOK, CountOK, Claims, SinkCounts
<1>7. ~refused'
  BY DEF SinkCounts
<1>8. QED
  BY <1>1, <1>2, <1>3, <1>4, <1>5, <1>6, <1>7

(* The outcome is reported.                                                 *)
LEMMA SinkEmitsInv ==
    ASSUME IInv, phase # "down", SinkEmits
    PROVE  IInv'
<1>1. sink = "emit" /\ phase = "running"
      /\ UNCHANGED <<recorded, phase, agg, tick, result, reports, processes>>
  BY DEF SinkEmits, EndOK
<1>2. ~closed
  BY <1>1 DEF EndOK
<1>3. CASE Written("Case", 0) /\ sink' = "idle"
  <2>1. "Case" \in Kind /\ 0 \in 0..Cases
    BY DEF Kind, TypeOK
  <2>2. /\ closed' = ("Case" = "RunFinished") /\ seq' = seq + 1
        /\ burned' = burned /\ refused' = refused
        /\ events' \in Seq(Event) /\ Len(events') = Len(events) + 1 /\ OrderOK'
    BY <1>3, <2>1, WrittenAppends
  <2>3. Len(events) > 0
    BY <1>1 DEF FirstOK, EndOK, TypeOK
  <2>4. /\ \A i \in DOMAIN events' : events'[i].kind = "RunStarted" <=> i = 1
        /\ Claims' = Claims /\ \A i \in Claims : events'[i] = events[i]
    BY <1>3, <2>1, <2>3, WrittenFollows
  <2>5. TypeOK'
    BY <1>1, <1>3, <2>1, <2>2, <2>4 DEF TypeOK
  <2>6. EndOK'
    BY <1>1, <1>3, <2>1, <2>2, <2>4 DEF TypeOK, EndOK
  <2>7. FailureOK'
    BY <1>1, <1>3, <2>1, <2>2, <2>4 DEF TypeOK, EndOK, FailureOK, runErr
  <2>8. FirstOK'
    BY <1>1, <1>3, <2>1, <2>2, <2>4 DEF TypeOK, EndOK, FirstOK
  <2>9. CountOK'
    BY <1>1, <1>3, <2>1, <2>2, <2>4, EventTypes DEF TypeOK, EndOK, CountOK
  <2>10. QED
    BY <2>2, <2>5, <2>6, <2>7, <2>8, <2>9
<1>4. CASE Unwritten /\ sink' = "broken"
  <2>1. /\ seq' = seq + 1 /\ burned' = TRUE
        /\ events' = events /\ closed' = closed /\ refused' = refused
    BY <1>2, <1>4, UnwrittenBurns
  <2>2. TypeOK'
    BY <1>1, <1>4, <2>1 DEF TypeOK
  <2>3. OrderOK'
    BY <1>1, <1>4, <2>1, EventTypes DEF TypeOK, OrderOK
  <2>4. EndOK'
    BY <1>1, <1>4, <2>1 DEF TypeOK, EndOK
  <2>5. FailureOK'
    BY <1>1, <1>4, <2>1 DEF TypeOK, EndOK, FailureOK, runErr
  <2>6. FirstOK'
    BY <1>1, <1>4, <2>1 DEF TypeOK, EndOK, FirstOK
  <2>7. CountOK'
    BY <1>1, <1>4, <2>1, EventTypes DEF TypeOK, EndOK, CountOK, Claims
  <2>8. QED
    BY <2>1, <2>2, <2>3, <2>4, <2>5, <2>6, <2>7
<1>6. QED
  BY <1>3, <1>4, Zenon DEF SinkEmits

(* The hot path reports a retry, an overshoot or an orphaned charge.        *)
LEMMA RecordEmitFailureInv ==
    ASSUME IInv, phase # "down", RecordEmitFailure
    PROVE  IInv'
<1>1. phase = "running" /\ reports' = reports + 1
      /\ UNCHANGED <<recorded, phase, attempted, sink, tick, result, processes>>
  BY DEF RecordEmitFailure
<1>2. ~closed
  BY <1>1 DEF EndOK
<1>3. CASE Written("Report", 0) /\ UNCHANGED emitFailure
  <2>1. "Report" \in Kind /\ 0 \in 0..Cases
    BY DEF Kind, TypeOK
  <2>2. /\ closed' = ("Report" = "RunFinished") /\ seq' = seq + 1
        /\ burned' = burned /\ refused' = refused
        /\ events' \in Seq(Event) /\ Len(events') = Len(events) + 1 /\ OrderOK'
    BY <1>3, <2>1, WrittenAppends
  <2>3. Len(events) > 0
    BY <1>1 DEF FirstOK, EndOK, TypeOK
  <2>4. /\ \A i \in DOMAIN events' : events'[i].kind = "RunStarted" <=> i = 1
        /\ Claims' = Claims /\ \A i \in Claims : events'[i] = events[i]
    BY <1>3, <2>1, <2>3, WrittenFollows
  <2>5. TypeOK'
    BY <1>1, <1>3, <2>1, <2>2, <2>4 DEF TypeOK
  <2>6. EndOK'
    BY <1>1, <1>3, <2>1, <2>2, <2>4 DEF TypeOK, EndOK
  <2>7. FailureOK'
    BY <1>1, <1>3, <2>1, <2>2, <2>4 DEF TypeOK, EndOK, FailureOK, runErr
  <2>8. FirstOK'
    BY <1>1, <1>3, <2>1, <2>2, <2>4 DEF TypeOK, EndOK, FirstOK
  <2>9. CountOK'
    BY <1>1, <1>3, <2>1, <2>2, <2>4, EventTypes DEF TypeOK, EndOK, CountOK
  <2>10. QED
    BY <2>2, <2>5, <2>6, <2>7, <2>8, <2>9
<1>4. CASE Unwritten /\ emitFailure' = TRUE
  <2>1. /\ seq' = seq + 1 /\ burned' = TRUE
        /\ events' = events /\ closed' = closed /\ refused' = refused
    BY <1>2, <1>4, UnwrittenBurns
  <2>2. TypeOK'
    BY <1>1, <1>4, <2>1 DEF TypeOK
  <2>3. OrderOK'
    BY <1>1, <1>4, <2>1, EventTypes DEF TypeOK, OrderOK
  <2>4. EndOK'
    BY <1>1, <1>4, <2>1 DEF TypeOK, EndOK
  <2>5. FailureOK'
    BY <1>1, <1>4, <2>1 DEF TypeOK, EndOK, FailureOK, runErr
  <2>6. FirstOK'
    BY <1>1, <1>4, <2>1 DEF TypeOK, EndOK, FirstOK
  <2>7. CountOK'
    BY <1>1, <1>4, <2>1, EventTypes DEF TypeOK, EndOK, CountOK, Claims
  <2>8. QED
    BY <2>1, <2>2, <2>3, <2>4, <2>5, <2>6, <2>7
<1>6. QED
  BY <1>3, <1>4, Zenon DEF RecordEmitFailure

-----------------------------------------------------------------------------
(* The ticker. *)

(* The ticker reads the position it is about to claim.                      *)
LEMMA TickInv ==
    ASSUME IInv, phase # "down", Tick
    PROVE  IInv'
<1>1. TypeOK'
  BY EventTypes DEF TypeOK, Tick
<1>2. OrderOK'
  BY EventTypes DEF TypeOK, OrderOK, Tick
<1>3. EndOK'
  BY DEF TypeOK, EndOK, Tick
<1>4. FailureOK'
  BY DEF TypeOK, EndOK, FailureOK, runErr, Tick
<1>5. FirstOK'
  BY DEF TypeOK, EndOK, FirstOK, Tick
<1>6. CountOK'
  BY EventTypes DEF TypeOK, EndOK, CountOK, Claims, Tick
<1>7. ~refused'
  BY DEF Tick
<1>8. QED
  BY <1>1, <1>2, <1>3, <1>4, <1>5, <1>6, <1>7

(* The position is claimed.                                                 *)
LEMMA emitStageProgressInv ==
    ASSUME IInv, phase # "down", emitStageProgress
    PROVE  IInv'
<1>1. ticker = "progress" /\ position' = 0
      /\ UNCHANGED <<recorded, phase, agg, sink, ticks, result, reports, processes>>
  BY DEF emitStageProgress, Heartbeat
<1>2. ~closed
  BY <1>1 DEF EndOK
<1>3. CASE Written("StageProgress", position) /\ ticker' = "spend" /\ UNCHANGED tickFailed
  <2>1. "StageProgress" \in Kind /\ position \in 0..Cases
    BY DEF Kind, TypeOK
  <2>2. /\ closed' = ("StageProgress" = "RunFinished") /\ seq' = seq + 1
        /\ burned' = burned /\ refused' = refused
        /\ events' \in Seq(Event) /\ Len(events') = Len(events) + 1 /\ OrderOK'
    BY <1>3, <2>1, WrittenAppends
  <2>3. Len(events) > 0
    BY <1>1 DEF FirstOK, EndOK, TypeOK
  <2>4. /\ \A i \in DOMAIN events' : events'[i].kind = "RunStarted" <=> i = 1
        /\ Claims' = Claims \cup {Len(events) + 1} /\ Len(events) + 1 \notin Claims
        /\ \A i \in Claims : events'[i] = events[i] /\ i < Len(events) + 1
        /\ events'[Len(events) + 1].attempted = position
    BY <1>3, <2>1, <2>3, WrittenFollows
  <2>5. TypeOK'
    BY <1>1, <1>3, <2>1, <2>2, <2>4 DEF TypeOK
  <2>6. EndOK'
    BY <1>1, <1>3, <2>1, <2>2, <2>4 DEF TypeOK, EndOK
  <2>7. FailureOK'
    BY <1>1, <1>3, <2>1, <2>2, <2>4 DEF TypeOK, EndOK, FailureOK, runErr
  <2>8. FirstOK'
    BY <1>1, <1>3, <2>1, <2>2, <2>4 DEF TypeOK, EndOK, FirstOK
  <2>9. CountOK'
    <3>1. position <= attempted /\ attempted <= recorded /\ sink' = sink
      BY <1>1, <1>3 DEF CountOK, TypeOK
    <3>2. \A i \in Claims : events'[i].attempted <= position
      BY <1>1, <2>4 DEF CountOK
    <3>3. \A i \in Claims' : events'[i].attempted <= position
      BY <2>4, <3>2 DEF TypeOK
    <3>4. \A i \in Claims' : events'[i].attempted \in Nat
      <4>1. \A i \in Claims : events[i].attempted \in Nat
        BY EventTypes DEF Claims
      <4>2. position \in Nat
        BY DEF TypeOK
      <4>3. QED
        BY <2>4, <4>1, <4>2
    <3>5. \A i, j \in Claims' : i < j => events'[i].attempted <= events'[j].attempted
      <4> SUFFICES ASSUME NEW i \in Claims', NEW j \in Claims', i < j
                   PROVE  events'[i].attempted <= events'[j].attempted
        OBVIOUS
      <4>1. CASE j = Len(events) + 1
        BY <2>4, <3>3, <4>1
      <4>2. CASE j # Len(events) + 1
        <5>1. j \in Claims /\ j < Len(events) + 1 /\ j \in Nat /\ i \in Nat /\ Len(events) \in Nat
          BY <2>4, <4>2, EventTypes DEF Claims
        <5>2. i \in Claims
          BY <2>4, <5>1
        <5>3. QED
          BY <2>4, <5>1, <5>2 DEF CountOK
      <4>3. QED
        BY <4>1, <4>2
    <3>6. ticker' # "progress" /\ attempted' = attempted /\ recorded' = recorded /\ phase' = phase
      BY <1>1, <1>3 DEF EndOK
    <3>7. position \in Nat /\ attempted \in Nat /\ recorded \in Nat
      BY DEF TypeOK
    <3>8. QED
      BY <3>1, <3>3, <3>4, <3>5, <3>6, <3>7 DEF CountOK
  <2>10. QED
    BY <2>2, <2>5, <2>6, <2>7, <2>8, <2>9
<1>4. CASE Unwritten /\ ticker' = "gone" /\ tickFailed' = TRUE
  <2>1. /\ seq' = seq + 1 /\ burned' = TRUE
        /\ events' = events /\ closed' = closed /\ refused' = refused
    BY <1>2, <1>4, UnwrittenBurns
  <2>2. TypeOK'
    BY <1>1, <1>4, <2>1 DEF TypeOK
  <2>3. OrderOK'
    BY <1>1, <1>4, <2>1, EventTypes DEF TypeOK, OrderOK
  <2>4. EndOK'
    BY <1>1, <1>4, <2>1 DEF TypeOK, EndOK
  <2>5. FailureOK'
    BY <1>1, <1>4, <2>1 DEF TypeOK, EndOK, FailureOK, runErr
  <2>6. FirstOK'
    BY <1>1, <1>4, <2>1 DEF TypeOK, EndOK, FirstOK
  <2>7. CountOK'
    BY <1>1, <1>4, <2>1, EventTypes DEF TypeOK, EndOK, CountOK, Claims
  <2>8. QED
    BY <2>1, <2>2, <2>3, <2>4, <2>5, <2>6, <2>7
<1>6. QED
  BY <1>3, <1>4, Zenon DEF emitStageProgress, Heartbeat

(* The spend is reported.                                                   *)
LEMMA emitSpendRecordedInv ==
    ASSUME IInv, phase # "down", emitSpendRecorded
    PROVE  IInv'
<1>1. ticker = "spend"
      /\ UNCHANGED <<recorded, phase, agg, sink, position, ticks, result, reports, processes>>
  BY DEF emitSpendRecorded, Heartbeat
<1>2. ~closed
  BY <1>1 DEF EndOK
<1>3. CASE Written("SpendRecorded", 0) /\ ticker' = "idle" /\ UNCHANGED tickFailed
  <2>1. "SpendRecorded" \in Kind /\ 0 \in 0..Cases
    BY DEF Kind, TypeOK
  <2>2. /\ closed' = ("SpendRecorded" = "RunFinished") /\ seq' = seq + 1
        /\ burned' = burned /\ refused' = refused
        /\ events' \in Seq(Event) /\ Len(events') = Len(events) + 1 /\ OrderOK'
    BY <1>3, <2>1, WrittenAppends
  <2>3. Len(events) > 0
    BY <1>1 DEF FirstOK, EndOK, TypeOK
  <2>4. /\ \A i \in DOMAIN events' : events'[i].kind = "RunStarted" <=> i = 1
        /\ Claims' = Claims /\ \A i \in Claims : events'[i] = events[i]
    BY <1>3, <2>1, <2>3, WrittenFollows
  <2>5. TypeOK'
    BY <1>1, <1>3, <2>1, <2>2, <2>4 DEF TypeOK
  <2>6. EndOK'
    BY <1>1, <1>3, <2>1, <2>2, <2>4 DEF TypeOK, EndOK
  <2>7. FailureOK'
    BY <1>1, <1>3, <2>1, <2>2, <2>4 DEF TypeOK, EndOK, FailureOK, runErr
  <2>8. FirstOK'
    BY <1>1, <1>3, <2>1, <2>2, <2>4 DEF TypeOK, EndOK, FirstOK
  <2>9. CountOK'
    BY <1>1, <1>3, <2>1, <2>2, <2>4, EventTypes DEF TypeOK, EndOK, CountOK
  <2>10. QED
    BY <2>2, <2>5, <2>6, <2>7, <2>8, <2>9
<1>4. CASE Unwritten /\ ticker' = "gone" /\ tickFailed' = TRUE
  <2>1. /\ seq' = seq + 1 /\ burned' = TRUE
        /\ events' = events /\ closed' = closed /\ refused' = refused
    BY <1>2, <1>4, UnwrittenBurns
  <2>2. TypeOK'
    BY <1>1, <1>4, <2>1 DEF TypeOK
  <2>3. OrderOK'
    BY <1>1, <1>4, <2>1, EventTypes DEF TypeOK, OrderOK
  <2>4. EndOK'
    BY <1>1, <1>4, <2>1 DEF TypeOK, EndOK
  <2>5. FailureOK'
    BY <1>1, <1>4, <2>1 DEF TypeOK, EndOK, FailureOK, runErr
  <2>6. FirstOK'
    BY <1>1, <1>4, <2>1 DEF TypeOK, EndOK, FirstOK
  <2>7. CountOK'
    BY <1>1, <1>4, <2>1, EventTypes DEF TypeOK, EndOK, CountOK, Claims
  <2>8. QED
    BY <2>1, <2>2, <2>3, <2>4, <2>5, <2>6, <2>7
<1>6. QED
  BY <1>3, <1>4, Zenon DEF emitSpendRecorded, Heartbeat

(* The ticker ends.                                                         *)
LEMMA TickerSeesDoneInv ==
    ASSUME IInv, phase # "down", TickerSeesDone
    PROVE  IInv'
<1>1. TypeOK'
  BY EventTypes DEF TypeOK, TickerSeesDone
<1>2. OrderOK'
  BY EventTypes DEF TypeOK, OrderOK, TickerSeesDone
<1>3. EndOK'
  BY DEF TypeOK, EndOK, TickerSeesDone
<1>4. FailureOK'
  BY DEF TypeOK, EndOK, FailureOK, runErr, TickerSeesDone
<1>5. FirstOK'
  BY DEF TypeOK, EndOK, FirstOK, TickerSeesDone
<1>6. CountOK'
  BY EventTypes DEF TypeOK, EndOK, CountOK, Claims, TickerSeesDone
<1>7. ~refused'
  BY DEF TickerSeesDone
<1>8. QED
  BY <1>1, <1>2, <1>3, <1>4, <1>5, <1>6, <1>7

-----------------------------------------------------------------------------
(* The close. *)

(* The executor has returned.                                               *)
LEMMA ExecutorReturnsInv ==
    ASSUME IInv, phase # "down", ExecutorReturns
    PROVE  IInv'
<1>1. TypeOK'
  BY EventTypes DEF TypeOK, ExecutorReturns
<1>2. OrderOK'
  BY EventTypes DEF TypeOK, OrderOK, ExecutorReturns
<1>3. EndOK'
  BY DEF TypeOK, EndOK, ExecutorReturns
<1>4. FailureOK'
  BY DEF TypeOK, EndOK, FailureOK, runErr, ExecutorReturns
<1>5. FirstOK'
  BY DEF TypeOK, EndOK, FirstOK, ExecutorReturns
<1>6. CountOK'
  BY EventTypes DEF TypeOK, EndOK, CountOK, Claims, ExecutorReturns
<1>7. ~refused'
  BY DEF ExecutorReturns
<1>8. QED
  BY <1>1, <1>2, <1>3, <1>4, <1>5, <1>6, <1>7

(* The ticker has been waited for.                                          *)
LEMMA stopProgressInv ==
    ASSUME IInv, phase # "down", stopProgress
    PROVE  IInv'
<1>1. TypeOK'
  BY EventTypes DEF TypeOK, stopProgress, TickerJoined
<1>2. OrderOK'
  BY EventTypes DEF TypeOK, OrderOK, stopProgress, TickerJoined
<1>3. EndOK'
  BY DEF TypeOK, EndOK, stopProgress, TickerJoined
<1>4. FailureOK'
  BY DEF TypeOK, EndOK, FailureOK, runErr, stopProgress, TickerJoined
<1>5. FirstOK'
  BY DEF TypeOK, EndOK, FirstOK, stopProgress, TickerJoined
<1>6. CountOK'
  BY EventTypes DEF TypeOK, EndOK, CountOK, Claims, stopProgress, TickerJoined
<1>7. ~refused'
  BY DEF stopProgress, TickerJoined
<1>8. QED
  BY <1>1, <1>2, <1>3, <1>4, <1>5, <1>6, <1>7

(* The last event: what it claims is what was recorded, and what the        *)
(* process returns accounts for the numbers it burned.                      *)
LEMMA emitRunFinishedInv ==
    ASSUME IInv, phase # "down", emitRunFinished
    PROVE  IInv'
<1>1. phase = "closing" /\ ~closed /\ result = "running"
      /\ UNCHANGED <<recorded, phase, agg, sink, tick, reports, processes>>
  BY DEF emitRunFinished
<1>2. ~closed
  BY <1>1 DEF EndOK
<1>3. CASE Written("RunFinished", attempted) /\ result' \in {"ok", "error"} /\ (runErr => result' = "error")
  <2>1. "RunFinished" \in Kind /\ attempted \in 0..Cases
    BY DEF Kind, TypeOK
  <2>2. /\ closed' = ("RunFinished" = "RunFinished") /\ seq' = seq + 1
        /\ burned' = burned /\ refused' = refused
        /\ events' \in Seq(Event) /\ Len(events') = Len(events) + 1 /\ OrderOK'
    BY <1>3, <2>1, WrittenAppends
  <2>3. Len(events) > 0
    BY <1>1 DEF FirstOK, EndOK, TypeOK
  <2>4. /\ \A i \in DOMAIN events' : events'[i].kind = "RunStarted" <=> i = 1
        /\ Claims' = Claims \cup {Len(events) + 1} /\ Len(events) + 1 \notin Claims
        /\ \A i \in Claims : events'[i] = events[i] /\ i < Len(events) + 1
        /\ events'[Len(events) + 1].attempted = attempted
    BY <1>3, <2>1, <2>3, WrittenFollows
  <2>5. TypeOK'
    BY <1>1, <1>3, <2>1, <2>2, <2>4 DEF TypeOK
  <2>6. EndOK'
    BY <1>1, <1>3, <2>1, <2>2, <2>4 DEF TypeOK, EndOK
  <2>7. FailureOK'
    BY <1>1, <1>3, <2>1, <2>2, <2>4 DEF TypeOK, EndOK, FailureOK, runErr
  <2>8. FirstOK'
    BY <1>1, <1>3, <2>1, <2>2, <2>4 DEF TypeOK, EndOK, FirstOK
  <2>9. CountOK'
    <3>1. attempted <= attempted /\ attempted <= recorded /\ sink' = sink
      BY <1>1, <1>3 DEF CountOK, TypeOK
    <3>2. \A i \in Claims : events'[i].attempted <= attempted
      BY <1>1, <2>4 DEF CountOK
    <3>3. \A i \in Claims' : events'[i].attempted <= attempted
      BY <2>4, <3>2 DEF TypeOK
    <3>4. \A i \in Claims' : events'[i].attempted \in Nat
      <4>1. \A i \in Claims : events[i].attempted \in Nat
        BY EventTypes DEF Claims
      <4>2. attempted \in Nat
        BY DEF TypeOK
      <4>3. QED
        BY <2>4, <4>1, <4>2
    <3>5. \A i, j \in Claims' : i < j => events'[i].attempted <= events'[j].attempted
      <4> SUFFICES ASSUME NEW i \in Claims', NEW j \in Claims', i < j
                   PROVE  events'[i].attempted <= events'[j].attempted
        OBVIOUS
      <4>1. CASE j = Len(events) + 1
        BY <2>4, <3>3, <4>1
      <4>2. CASE j # Len(events) + 1
        <5>1. j \in Claims /\ j < Len(events) + 1 /\ j \in Nat /\ i \in Nat /\ Len(events) \in Nat
          BY <2>4, <4>2, EventTypes DEF Claims
        <5>2. i \in Claims
          BY <2>4, <5>1
        <5>3. QED
          BY <2>4, <5>1, <5>2 DEF CountOK
      <4>3. QED
        BY <4>1, <4>2
    <3>6. ticker' # "progress" /\ attempted' = attempted /\ recorded' = recorded /\ phase' = phase
      BY <1>1, <1>3 DEF EndOK
    <3>7. attempted \in Nat /\ attempted \in Nat /\ recorded \in Nat
      BY DEF TypeOK
    <3>8. QED
      BY <3>1, <3>3, <3>4, <3>5, <3>6, <3>7 DEF CountOK
  <2>10. QED
    BY <2>2, <2>5, <2>6, <2>7, <2>8, <2>9
<1>4. CASE Unwritten /\ result' = "error"
  <2>1. /\ seq' = seq + 1 /\ burned' = TRUE
        /\ events' = events /\ closed' = closed /\ refused' = refused
    BY <1>2, <1>4, UnwrittenBurns
  <2>2. TypeOK'
    BY <1>1, <1>4, <2>1 DEF TypeOK
  <2>3. OrderOK'
    BY <1>1, <1>4, <2>1, EventTypes DEF TypeOK, OrderOK
  <2>4. EndOK'
    BY <1>1, <1>4, <2>1 DEF TypeOK, EndOK
  <2>5. FailureOK'
    BY <1>1, <1>4, <2>1 DEF TypeOK, EndOK, FailureOK, runErr
  <2>6. FirstOK'
    BY <1>1, <1>4, <2>1 DEF TypeOK, EndOK, FirstOK
  <2>7. CountOK'
    BY <1>1, <1>4, <2>1, EventTypes DEF TypeOK, EndOK, CountOK, Claims
  <2>8. QED
    BY <2>1, <2>2, <2>3, <2>4, <2>5, <2>6, <2>7
<1>5. CASE result' = "error" /\ UNCHANGED <<events, seq, closed, burned, refused>>
  <2>1. TypeOK'
    BY <1>1, <1>5 DEF TypeOK
  <2>2. OrderOK'
    BY <1>1, <1>5 DEF TypeOK, OrderOK
  <2>3. EndOK'
    BY <1>1, <1>5 DEF TypeOK, EndOK
  <2>4. FailureOK'
    BY <1>1, <1>5 DEF TypeOK, EndOK, FailureOK, runErr
  <2>5. FirstOK'
    BY <1>1, <1>5 DEF TypeOK, EndOK, FirstOK
  <2>6. CountOK'
    BY <1>1, <1>5 DEF TypeOK, EndOK, CountOK, Claims
  <2>7. QED
    BY <1>1, <1>5, <2>1, <2>2, <2>3, <2>4, <2>5, <2>6
<1>6. QED
  BY <1>3, <1>4, <1>5, Zenon DEF emitRunFinished

-----------------------------------------------------------------------------
(* The theorems. *)

(* Every step keeps the invariant.                                          *)
LEMMA NextIInv == IInv /\ [Next]_vars => IInv'
<1> SUFFICES ASSUME IInv, [Next]_vars PROVE IInv'
  OBVIOUS
<1>1. CASE Start
  BY <1>1, StartInv
<1>2. CASE phase # "down" /\ (emitOpening \/ emitConcurrencyReduced)
  BY <1>2, emitOpeningInv, emitConcurrencyReducedInv
<1>3. CASE phase # "down" /\ (SinkRecords \/ SinkCounts \/ SinkEmits \/ RecordEmitFailure)
  BY <1>3, SinkRecordsInv, SinkCountsInv, SinkEmitsInv, RecordEmitFailureInv
<1>4. CASE phase # "down" /\ Ticker
  BY <1>4, TickInv, emitStageProgressInv, emitSpendRecordedInv, TickerSeesDoneInv DEF Ticker
<1>5. CASE phase # "down" /\ (ExecutorReturns \/ stopProgress \/ emitRunFinished)
  BY <1>5, ExecutorReturnsInv, stopProgressInv, emitRunFinishedInv
<1>6. CASE phase # "down" /\ (Exit \/ Crash)
  BY <1>6, ExitInv, CrashInv
<1>7. CASE UNCHANGED vars
  BY <1>7 DEF vars, TypeOK, OrderOK, EndOK, FailureOK, runErr, FirstOK, CountOK, Claims
<1>8. QED
  BY <1>1, <1>2, <1>3, <1>4, <1>5, <1>6, <1>7, Zenon DEF Next

(* The invariant holds throughout.                                          *)
LEMMA StreamInvariant == Spec => []IInv
BY InitIInv, NextIInv, PTL DEF Spec

(* The stream, the counts and the goroutines keep their types.              *)
THEOREM StreamTypeCorrect == Spec => []TypeOK
<1>1. IInv => TypeOK
  OBVIOUS
<1>2. QED
  BY <1>1, StreamInvariant, PTL

(* However many appends fail, a process that burned a number says so.       *)
THEOREM NoHoleIsSilent == Spec => []HolesAreReported
<1>1. IInv => HolesAreReported
  BY DEF FailureOK, HolesAreReported
<1>2. QED
  BY <1>1, StreamInvariant, PTL

(* Nothing is appended after RunFinished, or tried to be.                   *)
THEOREM RunFinishedIsLast == Spec => []NothingIsRefused
<1>1. IInv => NothingIsRefused
  OBVIOUS
<1>2. QED
  BY <1>1, StreamInvariant, PTL

(* Over any number of processes the stream has one opening and positions    *)
(* that never go back.                                                      *)
THEOREM StreamIsOneRun == Spec => []StreamReadsAsOneRun
<1>1. IInv => StreamReadsAsOneRun
  BY DEF FirstOK, CountOK, Claims, StreamReadsAsOneRun
<1>2. QED
  BY <1>1, StreamInvariant, PTL

=============================================================================
