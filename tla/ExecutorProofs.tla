--------------------------- MODULE ExecutorProofs ---------------------------
(***************************************************************************)
(* The safety properties of executor.Run for any number of workers and     *)
(* items, whatever the work, the sink, the hook and the caller do.         *)
(***************************************************************************)
EXTENDS Executor, FiniteSetTheorems, TLAPS

USE DEF IInv, Item, Stat, Done, producerVars, workerVars, sinkVars, ctxVars, history

-----------------------------------------------------------------------------
(* Counting. *)

(* A new member makes a set of items larger by one.                         *)
LEMMA OneMore ==
    ASSUME NEW S \in SUBSET Item, NEW x \in Item \ S
    PROVE  Cardinality(S \cup {x}) = Cardinality(S) + 1 /\ Cardinality(S) \in Nat
<1>1. IsFiniteSet(Item) /\ Items \in Nat
  BY ExecutorAssumption, FS_Interval
<1>2. IsFiniteSet(S)
  BY <1>1, FS_Subset
<1>3. QED
  BY <1>2, FS_AddElement, FS_CardinalityType

(* Nothing has happened yet.                                                *)
LEMMA InitIInv == Init => IInv
<1> SUFFICES ASSUME Init PROVE IInv
  OBVIOUS
<1>1. TypeOK
  <2>1. worker \in [Worker -> {"recv", "work", "send", "fatal", "done"}]
    BY DEF Init
  <2>2. item \in [Worker -> 0..Items] /\ outcome \in [Worker -> {"ok", "error", "fatal"}]
    BY ExecutorAssumption DEF Init
  <2>3. stats \in [Stat -> Nat] /\ delivered \in [Item -> Nat]
    BY DEF Init
  <2>4. next \in 1..(Items + 1) /\ received \in 0..Items /\ late \in Nat
    BY ExecutorAssumption DEF Init
  <2>5. firstErr \in Errors \cup {"none"}
    BY DEF Init
  <2>6. result \in Errors \cup {"running", "source", "cancelled", "nil"}
    BY DEF Init
  <2>7. paid \subseteq Item /\ recorded \subseteq Item
    BY DEF Init
  <2>8. QED
    BY <2>1, <2>2, <2>3, <2>4, <2>5, <2>6, <2>7 DEF Init, TypeOK
<1>2. ProducerOK /\ ItemsOK /\ SinkOK /\ JoinOK /\ LateOK
  BY DEF Init, ProducerOK, ItemsOK, SinkOK, JoinOK, LateOK
<1>3. StatsOK
  BY FS_EmptySet DEF Init, StatsOK
<1>4. ErrorsOK
  BY DEF Init, ErrorsOK
<1>5. QED
  BY <1>1, <1>2, <1>3, <1>4

-----------------------------------------------------------------------------
(* The producer. *)

(* What a round of its loop leaves alone.                                   *)
Beside == <<workerVars, sinkVars, ctxVars, resultsClosed, result, history>>

(* The source is exhausted.                                                 *)
LEMMA SourceEndsInv ==
    ASSUME IInv, producer = "range", SourceEnds, UNCHANGED Beside
    PROVE  IInv'
<1>1. TypeOK'
  BY ExecutorAssumption DEF TypeOK, Beside, SourceEnds, Stop
<1>2. ProducerOK'
  BY ExecutorAssumption DEF TypeOK, ProducerOK, Beside, SourceEnds, Stop
<1>3. ItemsOK'
  BY DEF ItemsOK, Beside, SourceEnds, Stop
<1>4. SinkOK'
  BY DEF SinkOK, Beside, SourceEnds, Stop
<1>5. JoinOK'
  BY DEF JoinOK, Beside, SourceEnds, Stop
<1>6. StatsOK'
  BY DEF TypeOK, StatsOK, Beside, SourceEnds, Stop
<1>7. ErrorsOK'
  BY DEF TypeOK, ErrorsOK, Beside, SourceEnds, Stop
<1>8. LateOK'
  BY DEF TypeOK, LateOK, Beside, SourceEnds, Stop
<1>9. QED
  BY <1>1, <1>2, <1>3, <1>4, <1>5, <1>6, <1>7, <1>8

(* The source ends with an error.                                           *)
LEMMA SourceFailsInv ==
    ASSUME IInv, producer = "range", SourceFails, UNCHANGED Beside
    PROVE  IInv'
<1>1. TypeOK'
  BY ExecutorAssumption DEF TypeOK, Beside, SourceFails, Stop
<1>2. ProducerOK'
  BY ExecutorAssumption DEF TypeOK, ProducerOK, Beside, SourceFails, Stop
<1>3. ItemsOK'
  BY DEF ItemsOK, Beside, SourceFails, Stop
<1>4. SinkOK'
  BY DEF SinkOK, Beside, SourceFails, Stop
<1>5. JoinOK'
  BY DEF JoinOK, Beside, SourceFails, Stop
<1>6. StatsOK'
  BY DEF TypeOK, StatsOK, Beside, SourceFails, Stop
<1>7. ErrorsOK'
  BY DEF TypeOK, JoinOK, ErrorsOK, Beside, SourceFails, Stop
<1>8. LateOK'
  BY DEF TypeOK, LateOK, Beside, SourceFails, Stop
<1>9. QED
  BY <1>1, <1>2, <1>3, <1>4, <1>5, <1>6, <1>7, <1>8

(* The producer sees the shutdown before it looks at the item.              *)
LEMMA SeesShutdownInv ==
    ASSUME IInv, producer = "range", SeesShutdown, UNCHANGED Beside
    PROVE  IInv'
<1>1. TypeOK'
  BY ExecutorAssumption DEF TypeOK, Beside, SeesShutdown, Stop
<1>2. ProducerOK'
  BY ExecutorAssumption DEF TypeOK, ProducerOK, Beside, SeesShutdown, Stop
<1>3. ItemsOK'
  BY DEF ItemsOK, Beside, SeesShutdown, Stop
<1>4. SinkOK'
  BY DEF SinkOK, Beside, SeesShutdown, Stop
<1>5. JoinOK'
  BY DEF JoinOK, Beside, SeesShutdown, Stop
<1>6. StatsOK'
  BY DEF TypeOK, StatsOK, Beside, SeesShutdown, Stop
<1>7. ErrorsOK'
  BY DEF TypeOK, ErrorsOK, Beside, SeesShutdown, Stop
<1>8. LateOK'
  BY DEF TypeOK, LateOK, Beside, SeesShutdown, Stop
<1>9. QED
  BY <1>1, <1>2, <1>3, <1>4, <1>5, <1>6, <1>7, <1>8

(* An item that is already complete is passed over.                         *)
LEMMA SkipInv ==
    ASSUME IInv, producer = "range", Skip, UNCHANGED Beside
    PROVE  IInv'
<1>1. TypeOK'
  BY ExecutorAssumption DEF TypeOK, Beside, Skip
<1>2. ProducerOK'
  BY ExecutorAssumption DEF TypeOK, ProducerOK, Beside, Skip
<1>3. ItemsOK'
  BY DEF ItemsOK, Beside, Skip
<1>4. SinkOK'
  BY DEF SinkOK, Beside, Skip
<1>5. JoinOK'
  BY DEF JoinOK, Beside, Skip
<1>6. StatsOK'
  BY DEF TypeOK, StatsOK, Beside, Skip
<1>7. ErrorsOK'
  BY DEF TypeOK, ErrorsOK, Beside, Skip
<1>8. LateOK'
  BY DEF TypeOK, LateOK, Beside, Skip
<1>9. QED
  BY <1>1, <1>2, <1>3, <1>4, <1>5, <1>6, <1>7, <1>8

(* An item is offered.                                                      *)
LEMMA OfferInv ==
    ASSUME IInv, producer = "range", Offer, UNCHANGED Beside
    PROVE  IInv'
<1>1. TypeOK'
  BY ExecutorAssumption DEF TypeOK, Beside, Offer
<1>2. ProducerOK'
  BY ExecutorAssumption DEF TypeOK, ProducerOK, Beside, Offer
<1>3. ItemsOK'
  BY DEF ItemsOK, Beside, Offer
<1>4. SinkOK'
  BY DEF SinkOK, Beside, Offer
<1>5. JoinOK'
  BY DEF JoinOK, Beside, Offer
<1>6. StatsOK'
  BY DEF TypeOK, StatsOK, Beside, Offer
<1>7. ErrorsOK'
  BY DEF TypeOK, ErrorsOK, Beside, Offer
<1>8. LateOK'
  BY DEF TypeOK, LateOK, Beside, Offer
<1>9. QED
  BY <1>1, <1>2, <1>3, <1>4, <1>5, <1>6, <1>7, <1>8

(* The producer takes the other branch of its select.                       *)
LEMMA GiveUpInv ==
    ASSUME IInv, GiveUp
    PROVE  IInv'
<1>1. TypeOK'
  BY DEF TypeOK, GiveUp, Stop
<1>2. ProducerOK'
  BY DEF TypeOK, ProducerOK, GiveUp, Stop
<1>3. ItemsOK'
  BY DEF ItemsOK, GiveUp, Stop
<1>4. SinkOK'
  BY DEF SinkOK, GiveUp, Stop
<1>5. JoinOK'
  BY DEF JoinOK, GiveUp, Stop
<1>6. StatsOK'
  BY DEF StatsOK, GiveUp, Stop
<1>7. ErrorsOK'
  BY DEF ErrorsOK, GiveUp, Stop
<1>8. LateOK'
  BY DEF LateOK, GiveUp, Stop
<1>9. QED
  BY <1>1, <1>2, <1>3, <1>4, <1>5, <1>6, <1>7, <1>8

(* A worker receives the item, which is thereby paid for.                   *)
LEMMA HandoffInv ==
    ASSUME IInv, NEW w \in Worker, Handoff(w)
    PROVE  IInv'
<1>1. TypeOK'
  BY ExecutorAssumption DEF TypeOK, ProducerOK, Handoff
<1>2. ProducerOK'
  BY DEF TypeOK, ProducerOK, Handoff
<1>3. ItemsOK'
  BY DEF TypeOK, ProducerOK, ItemsOK, Handoff
<1>4. SinkOK'
  BY DEF TypeOK, SinkOK, Handoff
<1>5. JoinOK'
  BY DEF JoinOK, Handoff
<1>6. StatsOK'
  <2>1. next \in Item /\ next \notin paid /\ paid \subseteq Item
    BY DEF TypeOK, ProducerOK, Handoff
  <2>2. Cardinality(paid') = Cardinality(paid) + 1 /\ Cardinality(paid) \in Nat
    BY <2>1, OneMore DEF Handoff
  <2>3. QED
    BY <2>2 DEF TypeOK, StatsOK, Handoff
<1>7. ErrorsOK'
  BY DEF ErrorsOK, Handoff
<1>8. LateOK'
  BY DEF LateOK, Handoff
<1>9. QED
  BY <1>1, <1>2, <1>3, <1>4, <1>5, <1>6, <1>7, <1>8

(* The handoff is counted, and the producer moves on.                       *)
LEMMA CountDispatchInv ==
    ASSUME IInv, CountDispatch
    PROVE  IInv'
<1>1. TypeOK'
  BY ExecutorAssumption DEF TypeOK, ProducerOK, CountDispatch
<1>2. ProducerOK'
  BY ExecutorAssumption DEF TypeOK, ProducerOK, CountDispatch
<1>3. ItemsOK'
  BY DEF ItemsOK, CountDispatch
<1>4. SinkOK'
  BY DEF SinkOK, CountDispatch
<1>5. JoinOK'
  BY DEF JoinOK, CountDispatch
<1>6. StatsOK'
  BY DEF TypeOK, StatsOK, CountDispatch
<1>7. ErrorsOK'
  BY DEF ErrorsOK, CountDispatch
<1>8. LateOK'
  BY DEF LateOK, CountDispatch
<1>9. QED
  BY <1>1, <1>2, <1>3, <1>4, <1>5, <1>6, <1>7, <1>8

-----------------------------------------------------------------------------
(* The workers. *)

(* The work ends, one way or another.                                       *)
LEMMA FinishWorkInv ==
    ASSUME IInv, NEW w \in Worker, FinishWork(w)
    PROVE  IInv'
<1>1. TypeOK'
  BY DEF TypeOK, FinishWork
<1>2. ProducerOK'
  BY DEF ProducerOK, FinishWork
<1>3. ItemsOK'
  BY DEF TypeOK, ItemsOK, FinishWork
<1>4. SinkOK'
  BY DEF SinkOK, FinishWork
<1>5. JoinOK'
  BY DEF TypeOK, JoinOK, FinishWork
<1>6. StatsOK'
  BY DEF StatsOK, FinishWork
<1>7. ErrorsOK'
  BY DEF ErrorsOK, FinishWork
<1>8. LateOK'
  BY DEF LateOK, FinishWork
<1>9. QED
  BY <1>1, <1>2, <1>3, <1>4, <1>5, <1>6, <1>7, <1>8

(* The sink receives the result.                                            *)
LEMMA DeliverInv ==
    ASSUME IInv, NEW w \in Worker, Deliver(w)
    PROVE  IInv'
<1>1. TypeOK'
  BY ExecutorAssumption DEF TypeOK, ItemsOK, Deliver
<1>2. ProducerOK'
  BY DEF ProducerOK, Deliver
<1>3. ItemsOK'
  BY DEF TypeOK, ItemsOK, Deliver
<1>4. SinkOK'
  BY DEF TypeOK, ItemsOK, SinkOK, Deliver
<1>5. JoinOK'
  BY DEF TypeOK, JoinOK, Deliver
<1>6. StatsOK'
  BY DEF StatsOK, Deliver
<1>7. ErrorsOK'
  BY DEF ErrorsOK, Deliver
<1>8. LateOK'
  BY DEF LateOK, Deliver
<1>9. QED
  BY <1>1, <1>2, <1>3, <1>4, <1>5, <1>6, <1>7, <1>8

(* A worker ends on a fatal error and cancels the run.                      *)
LEMMA EndOnFatalInv ==
    ASSUME IInv, NEW w \in Worker, EndOnFatal(w)
    PROVE  IInv'
<1>1. TypeOK'
  BY DEF TypeOK, Errors, EndOnFatal, fail
<1>2. ProducerOK'
  BY DEF ProducerOK, EndOnFatal, fail
<1>3. ItemsOK'
  BY DEF TypeOK, ItemsOK, EndOnFatal, fail
<1>4. SinkOK'
  BY DEF SinkOK, EndOnFatal, fail
<1>5. JoinOK'
  BY DEF TypeOK, JoinOK, EndOnFatal, fail
<1>6. StatsOK'
  BY DEF StatsOK, EndOnFatal, fail
<1>7. ErrorsOK'
  BY DEF TypeOK, JoinOK, ErrorsOK, EndOnFatal, fail
<1>8. LateOK'
  BY DEF LateOK, EndOnFatal, fail
<1>9. QED
  BY <1>1, <1>2, <1>3, <1>4, <1>5, <1>6, <1>7, <1>8

(* A worker finds no more items.                                            *)
LEMMA CasesClosedInv ==
    ASSUME IInv, NEW w \in Worker, CasesClosed(w)
    PROVE  IInv'
<1>1. TypeOK'
  BY DEF TypeOK, CasesClosed
<1>2. ProducerOK'
  BY DEF ProducerOK, CasesClosed
<1>3. ItemsOK'
  BY DEF TypeOK, ItemsOK, CasesClosed
<1>4. SinkOK'
  BY DEF SinkOK, CasesClosed
<1>5. JoinOK'
  BY DEF TypeOK, JoinOK, CasesClosed
<1>6. StatsOK'
  BY DEF StatsOK, CasesClosed
<1>7. ErrorsOK'
  BY DEF ErrorsOK, CasesClosed
<1>8. LateOK'
  BY DEF LateOK, CasesClosed
<1>9. QED
  BY <1>1, <1>2, <1>3, <1>4, <1>5, <1>6, <1>7, <1>8

-----------------------------------------------------------------------------
(* The sink. *)

(* A sink that broke drops the result.                                      *)
LEMMA DiscardInv ==
    ASSUME IInv, Discard
    PROVE  IInv'
<1>1. TypeOK'
  BY ExecutorAssumption DEF TypeOK, Discard
<1>2. ProducerOK'
  BY DEF ProducerOK, Discard
<1>3. ItemsOK'
  BY DEF ItemsOK, Discard
<1>4. SinkOK'
  BY DEF SinkOK, Discard
<1>5. JoinOK'
  BY DEF JoinOK, Discard
<1>6. StatsOK'
  BY DEF StatsOK, Discard
<1>7. ErrorsOK'
  BY DEF ErrorsOK, Discard
<1>8. LateOK'
  BY DEF LateOK, Discard
<1>9. QED
  BY <1>1, <1>2, <1>3, <1>4, <1>5, <1>6, <1>7, <1>8

(* The sink accepts the result.                                             *)
LEMMA RecordOkInv ==
    ASSUME IInv, RecordOk
    PROVE  IInv'
<1>1. TypeOK'
  <2>1. stats' \in [Stat -> Nat]
    BY DEF TypeOK, RecordOk
  <2>2. recorded' \subseteq Item
    BY DEF TypeOK, SinkOK, RecordOk
  <2>3. QED
    BY <2>1, <2>2, ExecutorAssumption DEF TypeOK, RecordOk
<1>2. ProducerOK'
  BY DEF ProducerOK, RecordOk
<1>3. ItemsOK'
  BY DEF ItemsOK, RecordOk
<1>4. SinkOK'
  BY DEF TypeOK, SinkOK, RecordOk
<1>5. JoinOK'
  BY DEF JoinOK, RecordOk
<1>6. StatsOK'
  <2>1. received \in Item /\ received \notin recorded /\ recorded \subseteq Item
    BY DEF TypeOK, SinkOK, RecordOk
  <2>2. Cardinality(recorded') = Cardinality(recorded) + 1 /\ Cardinality(recorded) \in Nat
    BY <2>1, OneMore DEF RecordOk
  <2>3. QED
    BY <2>2 DEF TypeOK, StatsOK, RecordOk
<1>7. ErrorsOK'
  BY DEF ErrorsOK, RecordOk
<1>8. LateOK'
  BY DEF LateOK, RecordOk
<1>9. QED
  BY <1>1, <1>2, <1>3, <1>4, <1>5, <1>6, <1>7, <1>8

(* The sink breaks on the result.                                           *)
LEMMA RecordFailsInv ==
    ASSUME IInv, RecordFails
    PROVE  IInv'
<1>1. TypeOK'
  <2>1. firstErr' \in Errors \cup {"none"}
    BY DEF TypeOK, Errors, RecordFails, fail
  <2>2. expired' \in BOOLEAN
    BY DEF TypeOK, RecordFails
  <2>3. QED
    BY <2>1, <2>2, ExecutorAssumption DEF TypeOK, RecordFails, fail
<1>2. ProducerOK'
  BY DEF ProducerOK, RecordFails, fail
<1>3. ItemsOK'
  BY DEF ItemsOK, RecordFails, fail
<1>4. SinkOK'
  BY DEF TypeOK, SinkOK, RecordFails, fail
<1>5. JoinOK'
  BY DEF JoinOK, RecordFails, fail
<1>6. StatsOK'
  BY DEF StatsOK, RecordFails, fail
<1>7. ErrorsOK'
  <2>1. ~Done' /\ result' = result
    BY DEF JoinOK, RecordFails
  <2>2. runDone' /\ firstErr' # "none" /\ ctxDone' = ctxDone /\ graceDone' = graceDone /\ sinkBroken'
    BY DEF TypeOK, RecordFails, fail
  <2>3. expired' => graceDone' /\ firstErr' # "sink"
    BY DEF TypeOK, ErrorsOK, RecordFails, fail
  <2>4. graceDone' => ctxDone'
    BY <2>2 DEF ErrorsOK
  <2>5. QED
    BY <2>1, <2>2, <2>3, <2>4 DEF ErrorsOK
<1>8. LateOK'
  BY DEF LateOK, RecordFails, fail
<1>9. QED
  BY <1>1, <1>2, <1>3, <1>4, <1>5, <1>6, <1>7, <1>8

(* The hook looks at what was recorded, and may end the run.                *)
LEMMA AfterRecordInv ==
    ASSUME IInv, AfterRecord
    PROVE  IInv'
<1>1. TypeOK'
  <2>1. firstErr' \in Errors \cup {"none"}
    BY DEF TypeOK, Errors, AfterRecord, fail
  <2>2. gateFired' \in BOOLEAN /\ runDone' \in BOOLEAN
    BY DEF TypeOK, AfterRecord, fail
  <2>3. QED
    BY <2>1, <2>2, ExecutorAssumption DEF TypeOK, AfterRecord
<1>2. ProducerOK'
  BY DEF TypeOK, ProducerOK, AfterRecord, fail
<1>3. ItemsOK'
  BY DEF ItemsOK, AfterRecord, fail
<1>4. SinkOK'
  BY DEF SinkOK, AfterRecord, fail
<1>5. JoinOK'
  BY DEF JoinOK, AfterRecord, fail
<1>6. StatsOK'
  BY DEF StatsOK, AfterRecord, fail
<1>7. ErrorsOK'
  BY DEF TypeOK, JoinOK, ErrorsOK, AfterRecord, fail
<1>8. LateOK'
  BY DEF TypeOK, LateOK, AfterRecord, fail
<1>9. QED
  BY <1>1, <1>2, <1>3, <1>4, <1>5, <1>6, <1>7, <1>8

(* The sink ends when results is closed.                                    *)
LEMMA SinkDoneInv ==
    ASSUME IInv, SinkDone
    PROVE  IInv'
<1>1. TypeOK'
  BY DEF TypeOK, SinkDone
<1>2. ProducerOK'
  BY DEF ProducerOK, SinkDone
<1>3. ItemsOK'
  BY DEF ItemsOK, SinkDone
<1>4. SinkOK'
  BY DEF SinkOK, SinkDone
<1>5. JoinOK'
  BY DEF JoinOK, SinkDone
<1>6. StatsOK'
  BY DEF StatsOK, SinkDone
<1>7. ErrorsOK'
  BY DEF ErrorsOK, SinkDone
<1>8. LateOK'
  BY DEF LateOK, SinkDone
<1>9. QED
  BY <1>1, <1>2, <1>3, <1>4, <1>5, <1>6, <1>7, <1>8

-----------------------------------------------------------------------------
(* The caller, and Run. *)

(* The caller cancels.                                                      *)
LEMMA CancelInv ==
    ASSUME IInv, Cancel
    PROVE  IInv'
<1>1. TypeOK'
  BY DEF TypeOK, Cancel
<1>2. ProducerOK'
  BY DEF ProducerOK, Cancel
<1>3. ItemsOK'
  BY DEF ItemsOK, Cancel
<1>4. SinkOK'
  BY DEF SinkOK, Cancel
<1>5. JoinOK'
  BY DEF JoinOK, Cancel
<1>6. StatsOK'
  BY DEF StatsOK, Cancel
<1>7. ErrorsOK'
  BY DEF TypeOK, ErrorsOK, Cancel
<1>8. LateOK'
  BY DEF LateOK, Cancel
<1>9. QED
  BY <1>1, <1>2, <1>3, <1>4, <1>5, <1>6, <1>7, <1>8

(* The grace of a cancelled run is over.                                    *)
LEMMA GraceExpiresInv ==
    ASSUME IInv, GraceExpires
    PROVE  IInv'
<1>1. TypeOK'
  BY DEF TypeOK, GraceExpires
<1>2. ProducerOK'
  BY DEF ProducerOK, GraceExpires
<1>3. ItemsOK'
  BY DEF ItemsOK, GraceExpires
<1>4. SinkOK'
  BY DEF SinkOK, GraceExpires
<1>5. JoinOK'
  BY DEF JoinOK, GraceExpires
<1>6. StatsOK'
  BY DEF StatsOK, GraceExpires
<1>7. ErrorsOK'
  BY DEF TypeOK, ErrorsOK, GraceExpires
<1>8. LateOK'
  BY DEF LateOK, GraceExpires
<1>9. QED
  BY <1>1, <1>2, <1>3, <1>4, <1>5, <1>6, <1>7, <1>8

(* The workers have returned, and results is closed.                        *)
LEMMA WorkersDoneInv ==
    ASSUME IInv, WorkersDone
    PROVE  IInv'
<1>1. TypeOK'
  BY DEF TypeOK, WorkersDone
<1>2. ProducerOK'
  BY DEF ProducerOK, WorkersDone
<1>3. ItemsOK'
  BY DEF ItemsOK, WorkersDone
<1>4. SinkOK'
  BY DEF SinkOK, WorkersDone
<1>5. JoinOK'
  BY DEF JoinOK, WorkersDone
<1>6. StatsOK'
  BY DEF StatsOK, WorkersDone
<1>7. ErrorsOK'
  BY DEF ErrorsOK, WorkersDone
<1>8. LateOK'
  BY DEF LateOK, WorkersDone
<1>9. QED
  BY <1>1, <1>2, <1>3, <1>4, <1>5, <1>6, <1>7, <1>8

(* Run returns.                                                             *)
LEMMA ReturnInv ==
    ASSUME IInv, Return
    PROVE  IInv'
<1>1. TypeOK'
  BY DEF TypeOK, Errors, Return
<1>2. ProducerOK'
  BY DEF ProducerOK, Return
<1>3. ItemsOK'
  BY DEF ItemsOK, Return
<1>4. SinkOK'
  BY DEF SinkOK, Return
<1>5. JoinOK'
  BY DEF JoinOK, Return
<1>6. StatsOK'
  BY DEF StatsOK, Return
<1>7. ErrorsOK'
  BY DEF ErrorsOK, Return
<1>8. LateOK'
  BY DEF LateOK, Return
<1>9. QED
  BY <1>1, <1>2, <1>3, <1>4, <1>5, <1>6, <1>7, <1>8

-----------------------------------------------------------------------------
(* The theorems. *)

(* Every step keeps the invariant.                                          *)
LEMMA NextIInv == IInv /\ [Next]_vars => IInv'
<1> SUFFICES ASSUME IInv, [Next]_vars PROVE IInv'
  OBVIOUS
<1>1. CASE Produce
  <2>1. CASE Round
    <3>1. producer = "range" /\ UNCHANGED Beside
      BY <2>1 DEF Round, Beside
    <3>2. SourceEnds \/ SourceFails \/ SeesShutdown \/ Skip \/ Offer
      BY <2>1, Zenon DEF Round
    <3>3. QED
      BY <3>1, <3>2, SourceEndsInv, SourceFailsInv, SeesShutdownInv, SkipInv, OfferInv, Zenon
  <2>2. QED
    BY <1>1, <2>1, GiveUpInv, CountDispatchInv, Zenon DEF Produce
<1>2. CASE \E w \in Worker : Handoff(w) \/ Work(w) \/ Deliver(w)
  BY <1>2, HandoffInv, FinishWorkInv, EndOnFatalInv, CasesClosedInv, DeliverInv DEF Work
<1>3. CASE Sink
  BY <1>3, DiscardInv, RecordOkInv, RecordFailsInv, AfterRecordInv, SinkDoneInv DEF Sink
<1>4. CASE WorkersDone \/ Return \/ Cancel \/ GraceExpires
  BY <1>4, WorkersDoneInv, ReturnInv, CancelInv, GraceExpiresInv
<1>5. CASE Returned \/ UNCHANGED vars
  <2>1. UNCHANGED vars
    BY <1>5 DEF Returned
  <2>2. QED
    BY <2>1 DEF vars, TypeOK, ProducerOK, ItemsOK, SinkOK, JoinOK, StatsOK, ErrorsOK, LateOK
<1>6. QED
  BY <1>1, <1>2, <1>3, <1>4, <1>5 DEF Next

(* The invariant holds throughout.                                          *)
LEMMA ExecutorInvariant == Spec => []IInv
BY InitIInv, NextIInv, PTL DEF Spec

(* Run's counters, sets and errors keep their types.                        *)
THEOREM ExecutorTypeCorrect == Spec => []TypeOK
<1>1. IInv => TypeOK
  OBVIOUS
<1>2. QED
  BY <1>1, ExecutorInvariant, PTL

(* Whatever ends the run, and however many workers there are, each result   *)
(* that was paid for reaches the sink once.                                 *)
THEOREM PaidResultsReachTheSink == Spec => []EachResultReachesTheSink
<1>1. IInv => EachResultReachesTheSink
  <2> SUFFICES ASSUME IInv PROVE EachResultReachesTheSink
    OBVIOUS
  <2>1. \A i \in Item : delivered[i] <= (IF i \in paid THEN 1 ELSE 0)
    BY DEF ItemsOK
  <2>2. ASSUME Done PROVE \A i \in paid : delivered[i] = 1
    BY <2>2 DEF TypeOK, ItemsOK, JoinOK
  <2>3. QED
    BY <2>1, <2>2 DEF EachResultReachesTheSink
<1>2. QED
  BY <1>1, ExecutorInvariant, PTL

(* The statistics Run returns account for what was paid and recorded.       *)
THEOREM StatisticsAccount == Spec => []StatsAccountForOutcomes
<1>1. IInv => StatsAccountForOutcomes
  <2> SUFFICES ASSUME IInv PROVE StatsAccountForOutcomes
    OBVIOUS
  <2>1. stats["succeeded"] + stats["failed"] = Cardinality(recorded)
    BY DEF StatsOK
  <2>2. ASSUME Done PROVE stats["dispatched"] = Cardinality(paid)
    BY <2>2 DEF TypeOK, StatsOK, JoinOK
  <2>3. ASSUME Done, ~sinkBroken PROVE recorded = paid
    <3>1. \A i \in Item : i \in paid => delivered[i] = 1
      BY <2>3 DEF ItemsOK, JoinOK
    <3>2. \A i \in Item : delivered[i] = 1 => i \in paid
      BY DEF ItemsOK
    <3>3. QED
      BY <2>3, <3>1, <3>2 DEF TypeOK, SinkOK, JoinOK
  <2>4. QED
    BY <2>1, <2>2, <2>3 DEF StatsAccountForOutcomes
<1>2. QED
  BY <1>1, ExecutorInvariant, PTL

(* A nil from Run means that nothing is missing, and a paid result that was *)
(* lost is always an error.                                                 *)
THEOREM NothingIsMissingUnsaid == Spec => []ResultTellsWhatIsMissing
<1>1. IInv => ResultTellsWhatIsMissing
  <2> SUFFICES ASSUME IInv, Done PROVE
          /\ result = "nil" => recorded \cup Completed = Item
          /\ ~(paid \subseteq recorded) => result \in Errors
    BY DEF ResultTellsWhatIsMissing
  <2>1. producer = "done" /\ sink = "done" /\ \A w \in Worker : item[w] = 0
    BY DEF JoinOK, ItemsOK, TypeOK
  <2>2. \A i \in Item : i \in paid => sinkBroken \/ i \in recorded
    BY <2>1 DEF SinkOK, ItemsOK
  <2>3. ASSUME result = "nil" PROVE recorded \cup Completed = Item
    <3>1. firstErr = "none" /\ ~producerErr /\ ~ctxDone
      BY <2>3 DEF ErrorsOK, TypeOK, Errors
    <3>2. ~runDone /\ ~sinkBroken
      BY <3>1 DEF ErrorsOK
    <3>3. next > Items
      BY <2>1, <3>1, <3>2, ExecutorAssumption DEF ProducerOK, TypeOK
    <3>4. \A i \in Item : i \in paid \cup Completed
      BY <3>3, ExecutorAssumption DEF ProducerOK, TypeOK
    <3>5. QED
      BY <2>2, <3>2, <3>4, ExecutorAssumption DEF TypeOK
  <2>4. ASSUME ~(paid \subseteq recorded) PROVE result \in Errors
    <3>1. sinkBroken
      BY <2>2, <2>4 DEF TypeOK
    <3>2. QED
      BY <3>1 DEF ErrorsOK, TypeOK
  <2>5. QED
    BY <2>3, <2>4
<1>2. QED
  BY <1>1, ExecutorInvariant, PTL

(* A write that fails because the grace ran out belongs to a run that the   *)
(* caller cancelled, and never reads as a failure of the sink.              *)
THEOREM GraceEndsCancelledRunsOnly == Spec => []ExpiryIsCancellation
<1>1. IInv => ExpiryIsCancellation
  BY DEF ErrorsOK, TypeOK, Errors, ExpiryIsCancellation
<1>2. QED
  BY <1>1, ExecutorInvariant, PTL

(* A cancelled run hands over at most one more item, however many workers   *)
(* are waiting for one.                                                     *)
THEOREM OneLateHandoff == Spec => []AtMostOneLateHandoff
<1>1. IInv => AtMostOneLateHandoff
  BY DEF LateOK, AtMostOneLateHandoff
<1>2. QED
  BY <1>1, ExecutorInvariant, PTL

=============================================================================
