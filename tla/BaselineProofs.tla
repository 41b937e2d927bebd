--------------------------- MODULE BaselineProofs ---------------------------
(***************************************************************************)
(* Proofs about BaselineRun, for every set of cases, every number of       *)
(* workers, attempts and processes, and every cap: its properties follow   *)
(* from IInv, which each step preserves part by part.                      *)
(***************************************************************************)
EXTENDS BaselineRun, SumsProofs, TLAPS

Places == {"idle", "authorize", "call", "wait", "deliver", "isFatal", "gone"}
Errors == {"none", "score", "budget", "unpriceable", "fatal", "cancelled", "provider", "panic"}

\* What the steps about the places of cases need of the types.
Data ==
    /\ at \in [Worker -> Places] /\ task \in [Worker -> Result]
    /\ DOMAIN row = Case /\ None \notin Case
    /\ left \subseteq Case /\ offered \in Case \cup {None}
    /\ sink # None => sink \in Result

(* The sums and the number of calls that are out are numbers.               *)
LEMMA Counts ==
    ASSUME BaselineAssumption, TypeOK
    PROVE  TaskCalls \in Nat /\ RowCalls \in Nat /\ Cardinality(InCall) \in Nat
<1>1. TaskCalls \in Nat
  <2> DEFINE f == [w \in Worker |-> task[w].calls]
  <2>1. f \in [Worker -> Nat]
    BY DEF TypeOK, Result, BaselineAssumption
  <2> HIDE DEF f
  <2>2. SumOver(f, Worker) \in Nat
    BY <2>1, SumOverNat DEF BaselineAssumption
  <2>3. QED
    BY <2>2 DEF f, TaskCalls
<1>2. RowCalls \in Nat
  <2> DEFINE f == [c \in Case |-> row[c].calls]
  <2>1. f \in [Case -> Nat]
    BY DEF TypeOK, BaselineAssumption
  <2> HIDE DEF f
  <2>2. SumOver(f, Case) \in Nat
    BY <2>1, SumOverNat DEF BaselineAssumption
  <2>3. QED
    BY <2>2 DEF f, RowCalls
<1>3. Cardinality(InCall) \in Nat
  <2>1. InCall \subseteq Worker /\ IsFiniteSet(Worker)
    BY DEF InCall, BaselineAssumption
  <2>2. QED
    BY <2>1, FS_Subset, FS_CardinalityType
<1>4. QED
  BY <1>1, <1>2, <1>3

(* A worker that moves changes the calls on their way by its own.           *)
LEMMA TaskMoves ==
    ASSUME BaselineAssumption, TypeOK, NEW w \in Worker, NEW t, t.calls \in Nat,
           task' = [task EXCEPT ![w] = t]
    PROVE  TaskCalls' = TaskCalls - task[w].calls + t.calls
<1> DEFINE f == [v \in Worker |-> task[v].calls]
           g == [v \in Worker |-> task'[v].calls]
<1>1. f \in [Worker -> Nat]
  BY DEF TypeOK, Result, BaselineAssumption
<1>2. \A v \in Worker : task'[v] = IF v = w THEN t ELSE task[v]
  BY DEF TypeOK
<1>3. g \in [Worker -> Nat]
  BY <1>1, <1>2
<1>4. \A v \in Worker \ {w} : g[v] = f[v]
  BY <1>2
<1>5. f[w] = task[w].calls /\ g[w] = t.calls
  BY <1>2
<1> HIDE DEF f, g
<1>6. SumOver(g, Worker) = SumOver(f, Worker) - f[w] + g[w]
  BY <1>1, <1>3, <1>4, SumOverUpdate DEF BaselineAssumption
<1>7. TaskCalls = SumOver(f, Worker) /\ TaskCalls' = SumOver(g, Worker)
  BY DEF f, g, TaskCalls
<1>8. QED
  BY <1>5, <1>6, <1>7

(* An outcome adds its calls to those of the rows.                          *)
LEMMA RowMoves ==
    ASSUME BaselineAssumption, TypeOK, NEW c \in Case, NEW r, r.calls \in Nat,
           row' = [row EXCEPT ![c] = r]
    PROVE  RowCalls' = RowCalls - row[c].calls + r.calls
<1> DEFINE f == [d \in Case |-> row[d].calls]
           g == [d \in Case |-> row'[d].calls]
<1>1. f \in [Case -> Nat]
  BY DEF TypeOK, BaselineAssumption
<1>2. \A d \in Case : row'[d] = IF d = c THEN r ELSE row[d]
  BY DEF TypeOK
<1>3. g \in [Case -> Nat]
  BY <1>1, <1>2
<1>4. \A d \in Case \ {c} : g[d] = f[d]
  BY <1>2
<1>5. f[c] = row[c].calls /\ g[c] = r.calls
  BY <1>2
<1> HIDE DEF f, g
<1>6. SumOver(g, Case) = SumOver(f, Case) - f[c] + g[c]
  BY <1>1, <1>3, <1>4, SumOverUpdate DEF BaselineAssumption
<1>7. RowCalls = SumOver(f, Case) /\ RowCalls' = SumOver(g, Case)
  BY DEF f, g, RowCalls
<1>8. QED
  BY <1>5, <1>6, <1>7

(* A worker that moves may begin or end a call.                             *)
LEMMA CallsMove ==
    ASSUME BaselineAssumption, TypeOK, NEW w \in Worker, NEW p, at' = [at EXCEPT ![w] = p]
    PROVE  Cardinality(InCall') = Cardinality(InCall)
              - (IF at[w] = "call" THEN 1 ELSE 0) + (IF p = "call" THEN 1 ELSE 0)
<1>1. IsFiniteSet(InCall)
  <2>1. InCall \subseteq Worker /\ IsFiniteSet(Worker)
    BY DEF InCall, BaselineAssumption
  <2>2. QED
    BY <2>1, FS_Subset
<1>2. Cardinality(InCall) \in Nat
  BY <1>1, FS_CardinalityType
<1>3. InCall' = IF p = "call" THEN InCall \cup {w} ELSE InCall \ {w}
  BY DEF InCall, TypeOK
<1>4. w \in InCall <=> at[w] = "call"
  BY DEF InCall
<1>5. Cardinality(InCall \cup {w}) = Cardinality(InCall) + (IF at[w] = "call" THEN 0 ELSE 1)
  <2>1. Cardinality(InCall \cup {w})
          = IF w \in InCall THEN Cardinality(InCall) ELSE Cardinality(InCall) + 1
    BY <1>1, FS_AddElement
  <2>2. QED
    BY <2>1, <1>2, <1>4
<1>6. Cardinality(InCall \ {w}) = Cardinality(InCall) - (IF at[w] = "call" THEN 1 ELSE 0)
  <2>1. Cardinality(InCall \ {w})
          = IF w \in InCall THEN Cardinality(InCall) - 1 ELSE Cardinality(InCall)
    BY <1>1, FS_RemoveElement
  <2>2. QED
    BY <2>1, <1>2, <1>4
<1>7. QED
  BY <1>2, <1>3, <1>5, <1>6

(* A worker in a call is counted.                                           *)
LEMMA SomeInCall ==
    ASSUME BaselineAssumption, TypeOK, NEW w \in Worker, at[w] = "call"
    PROVE  Cardinality(InCall) >= 1
<1>1. IsFiniteSet(InCall)
  <2>1. InCall \subseteq Worker /\ IsFiniteSet(Worker)
    BY DEF InCall, BaselineAssumption
  <2>2. QED
    BY <2>1, FS_Subset
<1>2. Cardinality(InCall \ {w}) = Cardinality(InCall) - 1
  <2>1. w \in InCall
    BY DEF InCall
  <2>2. Cardinality(InCall \ {w})
          = IF w \in InCall THEN Cardinality(InCall) - 1 ELSE Cardinality(InCall)
    BY <1>1, FS_RemoveElement
  <2>3. QED
    BY <2>1, <2>2
<1>3. Cardinality(InCall \ {w}) \in Nat /\ Cardinality(InCall) \in Nat
  BY <1>1, FS_RemoveElement, FS_CardinalityType
<1>4. QED
  BY <1>2, <1>3

\* What is known of a call that came back.
Returned(w, place, err, b) ==
    /\ err \notin {"budget", "unpriceable"}
    /\ b => runDone /\ err = "cancelled"
    /\ place = "wait" => err = "none" /\ task[w].calls + 1 < MaxAttempts

(* Every way a call comes back is a settlement of this form.                *)
LEMMA CallReturns ==
    ASSUME TypeOK, NEW w \in Worker, Answers(w) \/ Fails(w)
    PROVE  \E place \in {"deliver", "wait"}, err \in Errors, m \in Model \cup {None},
              b \in BOOLEAN :
              Settled(w, place, err, m, b) /\ Returned(w, place, err, b)
<1>1. CASE Answers(w)
  BY <1>1, Zenon DEF Answers, Returned, Errors
<1>2. CASE \E err \in {"fatal", "provider", "panic"} : Settled(w, "deliver", err, None, FALSE)
  BY <1>2, Zenon DEF Returned, Errors
<1>3. CASE Settled(w, "deliver", "cancelled", None, runDone)
  <2>1. runDone \in BOOLEAN
    BY DEF TypeOK
  <2>2. QED
    BY <1>3, <2>1, Zenon DEF Returned, Errors
<1>4. CASE task[w].calls + 1 < MaxAttempts /\ Settled(w, "wait", "none", None, FALSE)
  BY <1>4, Zenon DEF Returned, Errors
<1>5. QED
  BY <1>1, <1>2, <1>3, <1>4, Zenon DEF Fails

(* What Of builds is a result.                                              *)
LEMMA OfType ==
    ASSUME NEW c \in Case \cup {None}, NEW n \in 0..MaxAttempts, NEW err \in Errors,
           NEW m \in Model \cup {None}, NEW b \in BOOLEAN
    PROVE  Of(c, n, err, m, b) \in Result
BY DEF Of, Result, Errors

(* So is having nothing.                                                    *)
LEMMA IdleType == BaselineAssumption => Idle \in Result
BY DEF BaselineAssumption, Idle, Of, Result

(* A worker that moves keeps the types.                                     *)
LEMMA ToType ==
    ASSUME at \in [Worker -> Places], task \in [Worker -> Result], NEW w \in Worker,
           NEW place \in Places, NEW t \in Result, To(w, place, t)
    PROVE  at' \in [Worker -> Places] /\ task' \in [Worker -> Result]
BY DEF To

(* What a worker has is well formed.                                        *)
LEMMA TaskType ==
    ASSUME TypeOK, BaselineAssumption, NEW w \in Worker
    PROVE  /\ task[w] \in Result /\ task[w].case \in Case \cup {None}
           /\ task[w].calls \in 0..MaxAttempts /\ task[w].calls \in Nat
           /\ task[w].err \in Errors /\ task[w].model \in Model \cup {None}
BY DEF TypeOK, Result, Errors, BaselineAssumption

(* What the workers and the sink hold fits where they are: most steps move  *)
(* one worker, and the others keep what they have.                          *)
LEMMA StepPlaces ==
    ASSUME BaselineAssumption, TypeOK, Data, PlacesOK, [Next]_vars
    PROVE  PlacesOK'
<1>a. \A w \in Worker : Answers(w) \/ Fails(w) =>
        \E place \in {"deliver", "wait"}, err \in Errors, m \in Model \cup {None}, b \in BOOLEAN :
            Settled(w, place, err, m, b) /\ Returned(w, place, err, b)
  BY CallReturns
<1> USE DEF store, producer, work, sinkVars, ctx, fixed, money
<1>1. CASE Start
  BY <1>1 DEF Start, ToMeasure, Of, Idle, NoRow, PlacesOK, Data, Placed, Held
<1>2. ASSUME up, NEW c \in Case, Offer(c)
      PROVE  PlacesOK'
  BY <1>2 DEF Offer, PlacesOK, Data, Placed, Held
<1>3. CASE up /\ StopOffering
  BY <1>3 DEF StopOffering, PlacesOK, Data, Placed, Held
<1>3a. CASE up /\ SourceFails
  BY <1>3a DEF SourceFails, PlacesOK, Data, Placed, Held
<1>4. ASSUME up, NEW w \in Worker, Handoff(w)
      PROVE  PlacesOK'
  <2>1. Placed(at[w], task[w])'
    BY <1>4 DEF Handoff, To, Of, Idle, Result, TypeOK, PlacesOK, Placed, Held, Data,
       BaselineAssumption
  <2>2. ASSUME NEW v \in Worker, v # w  PROVE Placed(at[v], task[v])'
    <3>1. at'[v] = at[v] /\ task'[v] = task[v] /\ (runDone => runDone')
      BY <1>4, <2>2 DEF Handoff, To, Of, Idle, Result, Data
    <3>2. Placed(at[v], task[v])
      BY DEF PlacesOK
    <3>3. QED
      BY <3>1, <3>2 DEF Placed, Held
  <2>3. (sink # None => Held(sink))' /\ (recordedNow => sink # None /\ ~sinkBroken)'
    BY <1>4 DEF Handoff, To, Of, Idle, Result, PlacesOK, Placed, Held, Data
  <2>4. QED
    BY <2>1, <2>2, <2>3 DEF PlacesOK
<1>5. ASSUME up, NEW w \in Worker, Authorize(w)
      PROVE  PlacesOK'
  <2>1. Placed(at[w], task[w])'
    BY <1>5 DEF Authorize, Fits, GivesUp, To, Of, Idle, Result, PlacesOK, Placed, Held, Data,
       BaselineAssumption
  <2>2. ASSUME NEW v \in Worker, v # w  PROVE Placed(at[v], task[v])'
    <3>1. at'[v] = at[v] /\ task'[v] = task[v] /\ (runDone => runDone')
      BY <1>5, <2>2 DEF Authorize, Fits, GivesUp, To, Of, Idle, Result, Data
    <3>2. Placed(at[v], task[v])
      BY DEF PlacesOK
    <3>3. QED
      BY <3>1, <3>2 DEF Placed, Held
  <2>3. (sink # None => Held(sink))' /\ (recordedNow => sink # None /\ ~sinkBroken)'
    BY <1>5 DEF Authorize, Fits, GivesUp, To, Of, Idle, Result, PlacesOK, Placed, Held, Data
  <2>4. QED
    BY <2>1, <2>2, <2>3 DEF PlacesOK
<1>6. ASSUME up, NEW w \in Worker, NEW place \in {"deliver", "wait"}, NEW err \in Errors,
           NEW m \in Model \cup {None}, NEW b \in BOOLEAN,
           Settled(w, place, err, m, b), Returned(w, place, err, b)
      PROVE  PlacesOK'
  <2>1. Placed(at[w], task[w])'
    BY <1>6 DEF Settled, Returned, To, Of, Idle, Result, PlacesOK, Placed, Held, Data,
       BaselineAssumption
  <2>2. ASSUME NEW v \in Worker, v # w  PROVE Placed(at[v], task[v])'
    <3>1. at'[v] = at[v] /\ task'[v] = task[v] /\ (runDone => runDone')
      BY <1>6, <2>2 DEF Settled, Returned, To, Of, Idle, Result, Data
    <3>2. Placed(at[v], task[v])
      BY DEF PlacesOK
    <3>3. QED
      BY <3>1, <3>2 DEF Placed, Held
  <2>3. (sink # None => Held(sink))' /\ (recordedNow => sink # None /\ ~sinkBroken)'
    BY <1>6 DEF Settled, Returned, To, Of, Idle, Result, PlacesOK, Placed, Held, Data
  <2>4. QED
    BY <2>1, <2>2, <2>3 DEF PlacesOK
<1>7. ASSUME up, NEW w \in Worker, Panics(w)
      PROVE  PlacesOK'
  <2>1. Placed(at[w], task[w])'
    BY <1>7 DEF Panics, GivesUp, To, Of, Idle, Result, PlacesOK, Placed, Held, Data,
       BaselineAssumption
  <2>2. ASSUME NEW v \in Worker, v # w  PROVE Placed(at[v], task[v])'
    <3>1. at'[v] = at[v] /\ task'[v] = task[v] /\ (runDone => runDone')
      BY <1>7, <2>2 DEF Panics, GivesUp, To, Of, Idle, Result, Data
    <3>2. Placed(at[v], task[v])
      BY DEF PlacesOK
    <3>3. QED
      BY <3>1, <3>2 DEF Placed, Held
  <2>3. (sink # None => Held(sink))' /\ (recordedNow => sink # None /\ ~sinkBroken)'
    BY <1>7 DEF Panics, GivesUp, To, Of, Idle, Result, PlacesOK, Placed, Held, Data
  <2>4. QED
    BY <2>1, <2>2, <2>3 DEF PlacesOK
<1>8. ASSUME up, NEW w \in Worker, Backoff(w)
      PROVE  PlacesOK'
  <2>1. Placed(at[w], task[w])'
    BY <1>8 DEF Backoff, GivesUp, To, Of, Idle, Result, PlacesOK, Placed, Held, Data,
       BaselineAssumption
  <2>2. ASSUME NEW v \in Worker, v # w  PROVE Placed(at[v], task[v])'
    <3>1. at'[v] = at[v] /\ task'[v] = task[v] /\ (runDone => runDone')
      BY <1>8, <2>2 DEF Backoff, GivesUp, To, Of, Idle, Result, Data
    <3>2. Placed(at[v], task[v])
      BY DEF PlacesOK
    <3>3. QED
      BY <3>1, <3>2 DEF Placed, Held
  <2>3. (sink # None => Held(sink))' /\ (recordedNow => sink # None /\ ~sinkBroken)'
    BY <1>8 DEF Backoff, GivesUp, To, Of, Idle, Result, PlacesOK, Placed, Held, Data
  <2>4. QED
    BY <2>1, <2>2, <2>3 DEF PlacesOK
<1>9. ASSUME up, NEW w \in Worker, Deliver(w)
      PROVE  PlacesOK'
  <2>1. Placed(at[w], task[w])'
    <3>1. CASE task[w].err \in {"budget", "fatal"}
      <4>1. at'[w] = "isFatal" /\ task'[w] = Of(None, 0, task[w].err, None, FALSE)
        BY <1>9, <3>1 DEF Deliver, To, Data
      <4>2. QED
        BY <3>1, <4>1 DEF Placed, Of
    <3>2. CASE task[w].err \notin {"budget", "fatal"}
      <4>1. at'[w] = "idle" /\ task'[w] = Idle
        BY <1>9, <3>2 DEF Deliver, To, Data
      <4>2. QED
        BY <4>1 DEF Placed
    <3>3. QED
      BY <3>1, <3>2
  <2>2. ASSUME NEW v \in Worker, v # w  PROVE Placed(at[v], task[v])'
    <3>1. at'[v] = at[v] /\ task'[v] = task[v] /\ (runDone => runDone')
      BY <1>9, <2>2 DEF Deliver, To, Of, Idle, Result, Data
    <3>2. Placed(at[v], task[v])
      BY DEF PlacesOK
    <3>3. QED
      BY <3>1, <3>2 DEF Placed, Held
  <2>3. (sink # None => Held(sink))' /\ (recordedNow => sink # None /\ ~sinkBroken)'
    BY <1>9 DEF Deliver, To, Of, Idle, Result, PlacesOK, Placed, Held, Data
  <2>4. QED
    BY <2>1, <2>2, <2>3 DEF PlacesOK
<1>10. ASSUME up, NEW w \in Worker, IsFatal(w)
      PROVE  PlacesOK'
  <2>1. Placed(at[w], task[w])'
    BY <1>10 DEF IsFatal, fail, To, Of, Idle, Result, PlacesOK, Placed, Held, Data,
       BaselineAssumption
  <2>2. ASSUME NEW v \in Worker, v # w  PROVE Placed(at[v], task[v])'
    <3>1. at'[v] = at[v] /\ task'[v] = task[v] /\ (runDone => runDone')
      BY <1>10, <2>2 DEF IsFatal, fail, To, Of, Idle, Result, Data
    <3>2. Placed(at[v], task[v])
      BY DEF PlacesOK
    <3>3. QED
      BY <3>1, <3>2 DEF Placed, Held
  <2>3. (sink # None => Held(sink))' /\ (recordedNow => sink # None /\ ~sinkBroken)'
    BY <1>10 DEF IsFatal, fail, To, Of, Idle, Result, PlacesOK, Placed, Held, Data
  <2>4. QED
    BY <2>1, <2>2, <2>3 DEF PlacesOK
<1>11. CASE up /\ Discard
  <2>1. \A w \in Worker : at'[w] = at[w] /\ task'[w] = task[w]
    BY <1>11 DEF Discard, work
  <2>2. runDone' = runDone /\ sink' = None /\ ~recordedNow'
    BY <1>11 DEF Discard, ctx, PlacesOK
  <2>3. QED
    BY <2>1, <2>2 DEF PlacesOK, Placed, Held
<1>12. CASE up /\ StoreFails
  BY <1>12 DEF StoreFails, fail, PlacesOK, Data, Placed, Held
<1>13. CASE up /\ recordOrphanSpend
  BY <1>13 DEF recordOrphanSpend, PlacesOK, Data, Placed, Held
<1>14. CASE up /\ RecordOutcome
  BY <1>14 DEF RecordOutcome, fail, PlacesOK, Data, Placed, Held
<1>15. CASE up /\ AfterRecord
  BY <1>15 DEF AfterRecord, fail, PlacesOK, Data, Placed, Held
<1>16. CASE up /\ Cancel
  BY <1>16 DEF Cancel, PlacesOK, Data, Placed, Held
<1>17. CASE up /\ closeRun
  BY <1>17 DEF closeRun, PlacesOK, Data, Placed, Held
<1>18. CASE up /\ Crash
  BY <1>18 DEF Crash, PlacesOK, Data, Placed, Held
<1>19. CASE UNCHANGED vars
  BY <1>19 DEF vars, PlacesOK, Data, Placed, Held
<1>20. ASSUME up, NEW w \in Worker, Answers(w) \/ Fails(w)  PROVE PlacesOK'
  BY <1>a, <1>6, <1>20, Zenon
<1>21. QED
  BY <1>1, <1>2, <1>3, <1>3a, <1>4, <1>5, <1>7, <1>8, <1>9, <1>10, <1>11, <1>12, <1>13, <1>14,
     <1>15, <1>16, <1>17, <1>18, <1>19, <1>20, Zenon DEF Next, Process

(* Every variable keeps its type.  The spend stays within the cap because   *)
(* the calls that are out are counted against it.                           *)
LEMMA StepType ==
    ASSUME BaselineAssumption, TypeOK, PlacesOK, MoneyOK, [Next]_vars
    PROVE  TypeOK'
<1>a. \A w \in Worker : Answers(w) \/ Fails(w) =>
        \E place \in {"deliver", "wait"}, err \in Errors, m \in Model \cup {None}, b \in BOOLEAN :
            Settled(w, place, err, m, b) /\ Returned(w, place, err, b)
  BY CallReturns
<1> USE DEF store, producer, work, sinkVars, ctx, fixed, money
<1>1. CASE Start
  <2>1. (/\ row \in [Case -> [kind : {"none", "scored", "errored"}, calls : 0..MaxAttempts,
                        model : Model \cup {None}]]
      /\ status \in {"ABSENT", "RUNNING", "COMPLETED", "BUDGET_STOPPED", "INTERRUPTED", "FAILED"}
      /\ recordedModels \subseteq Model /\ orphan \in Nat)'
    BY <1>1, Counts DEF Start, ToMeasure, Of, Idle, NoRow, TypeOK, BaselineAssumption,
       ModelsOf, Held, PlacesOK, Result, runErr, statusFor
  <2>2. (/\ at \in [Worker -> Places] /\ task \in [Worker -> Result])'
    BY <1>1, Counts DEF Start, ToMeasure, Of, Idle, NoRow, TypeOK, BaselineAssumption,
       Result, Places, PlacesOK, Placed, Held
  <2>3. (/\ sink \in Result \cup {None} /\ left \subseteq Case /\ offered \in Case \cup {None}
      /\ cutShort \subseteq Case)'
    BY <1>1, Counts DEF Start, ToMeasure, Of, Idle, NoRow, TypeOK, BaselineAssumption,
       Result, PlacesOK, Held, Places, Completed
  <2>4. (/\ up \in BOOLEAN /\ recordedNow \in BOOLEAN /\ sinkBroken \in BOOLEAN
      /\ gateFired \in BOOLEAN /\ runDone \in BOOLEAN /\ userDone \in BOOLEAN
      /\ emitFailed \in BOOLEAN /\ stopReason \in {"none", "budget", "fatal"}
      /\ firstErr \in {"none", "budget", "fatal", "sink", "cancelled", "gate"})'
    BY <1>1, Counts DEF Start, ToMeasure, Of, Idle, NoRow, TypeOK, BaselineAssumption,
       Placed, PlacesOK
  <2>5. (/\ processes \in 0..MaxProcesses /\ made \in Nat /\ dark \in Nat /\ darkBefore \in Nat
      /\ unsettled \in Nat /\ sourceErr \in {"none", "source", "cancelled"}
      /\ armed \subseteq Model /\ measured \subseteq Model)'
    BY <1>1, Counts DEF Start, ToMeasure, Of, Idle, NoRow, TypeOK, BaselineAssumption,
       Result, ModelsOf, InFlight
  <2>6. (/\ spent \in 0..Cap)'
    BY <1>1, Counts DEF Start, ToMeasure, Of, Idle, NoRow, TypeOK, BaselineAssumption,
       MoneyOK, Restore, SettledSpend
  <2>7. QED
    BY <2>1, <2>2, <2>3, <2>4, <2>5, <2>6 DEF TypeOK, Places
<1>2. ASSUME up, NEW c \in Case, Offer(c)
      PROVE  TypeOK'
  <2>1. (/\ row \in [Case -> [kind : {"none", "scored", "errored"}, calls : 0..MaxAttempts,
                        model : Model \cup {None}]]
      /\ status \in {"ABSENT", "RUNNING", "COMPLETED", "BUDGET_STOPPED", "INTERRUPTED", "FAILED"}
      /\ recordedModels \subseteq Model /\ orphan \in Nat)'
    BY <1>2, Counts DEF Offer, TypeOK, BaselineAssumption, ModelsOf, Held, PlacesOK,
       Result, runErr, statusFor
  <2>2. (/\ at \in [Worker -> Places] /\ task \in [Worker -> Result])'
    BY <1>2, Counts DEF Offer, TypeOK, BaselineAssumption, Result, Places, PlacesOK,
       Placed, Held
  <2>3. (/\ sink \in Result \cup {None} /\ left \subseteq Case /\ offered \in Case \cup {None}
      /\ cutShort \subseteq Case)'
    BY <1>2, Counts DEF Offer, TypeOK, BaselineAssumption, Result, PlacesOK, Held, Places,
       Completed, ToMeasure
  <2>4. (/\ up \in BOOLEAN /\ recordedNow \in BOOLEAN /\ sinkBroken \in BOOLEAN
      /\ gateFired \in BOOLEAN /\ runDone \in BOOLEAN /\ userDone \in BOOLEAN
      /\ emitFailed \in BOOLEAN /\ stopReason \in {"none", "budget", "fatal"}
      /\ firstErr \in {"none", "budget", "fatal", "sink", "cancelled", "gate"})'
    BY <1>2, Counts DEF Offer, TypeOK, BaselineAssumption, Placed, PlacesOK
  <2>5. (/\ processes \in 0..MaxProcesses /\ made \in Nat /\ dark \in Nat /\ darkBefore \in Nat
      /\ unsettled \in Nat /\ sourceErr \in {"none", "source", "cancelled"}
      /\ armed \subseteq Model /\ measured \subseteq Model)'
    BY <1>2, Counts DEF Offer, TypeOK, BaselineAssumption, Result, ModelsOf, InFlight
  <2>6. (/\ spent \in 0..Cap)'
    BY <1>2, Counts DEF Offer, TypeOK, BaselineAssumption, MoneyOK, Restore, SettledSpend
  <2>7. QED
    BY <2>1, <2>2, <2>3, <2>4, <2>5, <2>6 DEF TypeOK, Places
<1>3. CASE up /\ StopOffering
  <2>1. (/\ row \in [Case -> [kind : {"none", "scored", "errored"}, calls : 0..MaxAttempts,
                        model : Model \cup {None}]]
      /\ status \in {"ABSENT", "RUNNING", "COMPLETED", "BUDGET_STOPPED", "INTERRUPTED", "FAILED"}
      /\ recordedModels \subseteq Model /\ orphan \in Nat)'
    BY <1>3, Counts DEF StopOffering, TypeOK, BaselineAssumption, ModelsOf, Held,
       PlacesOK, Result, runErr, statusFor
  <2>2. (/\ at \in [Worker -> Places] /\ task \in [Worker -> Result])'
    BY <1>3, Counts DEF StopOffering, TypeOK, BaselineAssumption, Result, Places,
       PlacesOK, Placed, Held
  <2>3. (/\ sink \in Result \cup {None} /\ left \subseteq Case /\ offered \in Case \cup {None}
      /\ cutShort \subseteq Case)'
    BY <1>3, Counts DEF StopOffering, TypeOK, BaselineAssumption, Result, PlacesOK, Held,
       Places, Completed, ToMeasure
  <2>4. (/\ up \in BOOLEAN /\ recordedNow \in BOOLEAN /\ sinkBroken \in BOOLEAN
      /\ gateFired \in BOOLEAN /\ runDone \in BOOLEAN /\ userDone \in BOOLEAN
      /\ emitFailed \in BOOLEAN /\ stopReason \in {"none", "budget", "fatal"}
      /\ firstErr \in {"none", "budget", "fatal", "sink", "cancelled", "gate"})'
    BY <1>3, Counts DEF StopOffering, TypeOK, BaselineAssumption, Placed, PlacesOK
  <2>5. (/\ processes \in 0..MaxProcesses /\ made \in Nat /\ dark \in Nat /\ darkBefore \in Nat
      /\ unsettled \in Nat /\ sourceErr \in {"none", "source", "cancelled"}
      /\ armed \subseteq Model /\ measured \subseteq Model)'
    BY <1>3, Counts DEF StopOffering, TypeOK, BaselineAssumption, Result, ModelsOf, InFlight
  <2>6. (/\ spent \in 0..Cap)'
    BY <1>3, Counts DEF StopOffering, TypeOK, BaselineAssumption, MoneyOK, Restore,
       SettledSpend
  <2>7. QED
    BY <2>1, <2>2, <2>3, <2>4, <2>5, <2>6 DEF TypeOK, Places
<1>3a. CASE up /\ SourceFails
  <2>1. (/\ row \in [Case -> [kind : {"none", "scored", "errored"}, calls : 0..MaxAttempts,
                        model : Model \cup {None}]]
      /\ status \in {"ABSENT", "RUNNING", "COMPLETED", "BUDGET_STOPPED", "INTERRUPTED", "FAILED"}
      /\ recordedModels \subseteq Model /\ orphan \in Nat)'
    BY <1>3a, Counts DEF SourceFails, TypeOK, BaselineAssumption, ModelsOf, Held,
       PlacesOK, Result, runErr, statusFor
  <2>2. (/\ at \in [Worker -> Places] /\ task \in [Worker -> Result])'
    BY <1>3a, Counts DEF SourceFails, TypeOK, BaselineAssumption, Result, Places,
       PlacesOK, Placed, Held
  <2>3. (/\ sink \in Result \cup {None} /\ left \subseteq Case /\ offered \in Case \cup {None}
      /\ cutShort \subseteq Case)'
    BY <1>3a, Counts DEF SourceFails, TypeOK, BaselineAssumption, Result, PlacesOK, Held,
       Places, Completed, ToMeasure
  <2>4. (/\ up \in BOOLEAN /\ recordedNow \in BOOLEAN /\ sinkBroken \in BOOLEAN
      /\ gateFired \in BOOLEAN /\ runDone \in BOOLEAN /\ userDone \in BOOLEAN
      /\ emitFailed \in BOOLEAN /\ stopReason \in {"none", "budget", "fatal"}
      /\ firstErr \in {"none", "budget", "fatal", "sink", "cancelled", "gate"})'
    BY <1>3a, Counts DEF SourceFails, TypeOK, BaselineAssumption, Placed, PlacesOK
  <2>5. (/\ processes \in 0..MaxProcesses /\ made \in Nat /\ dark \in Nat /\ darkBefore \in Nat
      /\ unsettled \in Nat /\ sourceErr \in {"none", "source", "cancelled"}
      /\ armed \subseteq Model /\ measured \subseteq Model)'
    BY <1>3a, Counts DEF SourceFails, TypeOK, BaselineAssumption, Result, ModelsOf, InFlight
  <2>6. (/\ spent \in 0..Cap)'
    BY <1>3a, Counts DEF SourceFails, TypeOK, BaselineAssumption, MoneyOK, Restore,
       SettledSpend
  <2>7. QED
    BY <2>1, <2>2, <2>3, <2>4, <2>5, <2>6 DEF TypeOK, Places
<1>4. ASSUME up, NEW w \in Worker, Handoff(w)
      PROVE  TypeOK'
  <2>1. (/\ row \in [Case -> [kind : {"none", "scored", "errored"}, calls : 0..MaxAttempts,
                        model : Model \cup {None}]]
      /\ status \in {"ABSENT", "RUNNING", "COMPLETED", "BUDGET_STOPPED", "INTERRUPTED", "FAILED"}
      /\ recordedModels \subseteq Model /\ orphan \in Nat)'
    BY <1>4, Counts DEF Handoff, To, Of, Idle, TypeOK, BaselineAssumption, ModelsOf, Held,
       PlacesOK, Result, runErr, statusFor
  <2>2. (/\ at \in [Worker -> Places] /\ task \in [Worker -> Result])'
    <3>1. CASE offered \in Unpriceable
      <4>1. To(w, "deliver", Of(offered, 0, "unpriceable", None, FALSE))
        BY <1>4, <3>1 DEF Handoff, GivesUp
      <4>2. Of(offered, 0, "unpriceable", None, FALSE) \in Result
        BY <1>4, <3>1, TaskType DEF Handoff, TypeOK, BaselineAssumption, Errors, Of, Result
      <4>3. QED
        BY <4>1, <4>2, ToType DEF TypeOK, Places
    <3>2. CASE offered \notin Unpriceable
      <4>1. To(w, "authorize", Of(offered, 0, "none", None, FALSE))
        BY <1>4, <3>2 DEF Handoff, GivesUp
      <4>2. Of(offered, 0, "none", None, FALSE) \in Result
        BY <1>4, <3>2, TaskType DEF Handoff, TypeOK, BaselineAssumption, Errors, Of, Result
      <4>3. QED
        BY <4>1, <4>2, ToType DEF TypeOK, Places
    <3>3. QED
      BY <3>1, <3>2
  <2>3. (/\ sink \in Result \cup {None} /\ left \subseteq Case /\ offered \in Case \cup {None}
      /\ cutShort \subseteq Case)'
    BY <1>4, Counts DEF Handoff, To, Of, Idle, TypeOK, BaselineAssumption, Result,
       PlacesOK, Held, Places, Completed, ToMeasure
  <2>4. (/\ up \in BOOLEAN /\ recordedNow \in BOOLEAN /\ sinkBroken \in BOOLEAN
      /\ gateFired \in BOOLEAN /\ runDone \in BOOLEAN /\ userDone \in BOOLEAN
      /\ emitFailed \in BOOLEAN /\ stopReason \in {"none", "budget", "fatal"}
      /\ firstErr \in {"none", "budget", "fatal", "sink", "cancelled", "gate"})'
    BY <1>4, Counts DEF Handoff, To, Of, Idle, TypeOK, BaselineAssumption, Placed, PlacesOK
  <2>5. (/\ processes \in 0..MaxProcesses /\ made \in Nat /\ dark \in Nat /\ darkBefore \in Nat
      /\ unsettled \in Nat /\ sourceErr \in {"none", "source", "cancelled"}
      /\ armed \subseteq Model /\ measured \subseteq Model)'
    BY <1>4, Counts DEF Handoff, To, Of, Idle, TypeOK, BaselineAssumption, Result,
       ModelsOf, InFlight
  <2>6. (/\ spent \in 0..Cap)'
    BY <1>4, Counts DEF Handoff, To, Of, Idle, TypeOK, BaselineAssumption, MoneyOK,
       Restore, SettledSpend
  <2>7. QED
    BY <2>1, <2>2, <2>3, <2>4, <2>5, <2>6 DEF TypeOK, Places
<1>5. ASSUME up, NEW w \in Worker, Authorize(w)
      PROVE  TypeOK'
  <2>1. (/\ row \in [Case -> [kind : {"none", "scored", "errored"}, calls : 0..MaxAttempts,
                        model : Model \cup {None}]]
      /\ status \in {"ABSENT", "RUNNING", "COMPLETED", "BUDGET_STOPPED", "INTERRUPTED", "FAILED"}
      /\ recordedModels \subseteq Model /\ orphan \in Nat)'
    BY <1>5, Counts DEF Authorize, Fits, GivesUp, To, Of, Idle, TypeOK, BaselineAssumption,
       ModelsOf, Held, PlacesOK, Result, runErr, statusFor
  <2>2. (/\ at \in [Worker -> Places] /\ task \in [Worker -> Result])'
    <3>1. CASE ~runDone /\ Fits
      <4>1. To(w, "call", task[w])
        BY <1>5, <3>1 DEF Authorize, GivesUp
      <4>2. task[w] \in Result
        BY <1>5, <3>1, TaskType DEF Authorize, TypeOK, BaselineAssumption, Errors
      <4>3. QED
        BY <4>1, <4>2, ToType DEF TypeOK, Places
    <3>2. CASE ~runDone /\ ~Fits
      <4>1. To(w, "deliver", Of(task[w].case, task[w].calls, "budget", None, FALSE))
        BY <1>5, <3>2 DEF Authorize, GivesUp
      <4>2. Of(task[w].case, task[w].calls, "budget", None, FALSE) \in Result
        BY <1>5, <3>2, TaskType DEF Authorize, TypeOK, BaselineAssumption, Errors, Of, Result
      <4>3. QED
        BY <4>1, <4>2, ToType DEF TypeOK, Places
    <3>3. CASE runDone
      <4>1. To(w, "deliver", Of(task[w].case, task[w].calls, "cancelled", None, TRUE))
        BY <1>5, <3>3 DEF Authorize, GivesUp
      <4>2. Of(task[w].case, task[w].calls, "cancelled", None, TRUE) \in Result
        BY <1>5, <3>3, TaskType DEF Authorize, TypeOK, BaselineAssumption, Errors, Of, Result
      <4>3. QED
        BY <4>1, <4>2, ToType DEF TypeOK, Places
    <3>4. QED
      BY <1>5, <3>1, <3>2, <3>3 DEF Authorize
  <2>3. (/\ sink \in Result \cup {None} /\ left \subseteq Case /\ offered \in Case \cup {None}
      /\ cutShort \subseteq Case)'
    BY <1>5, Counts DEF Authorize, Fits, GivesUp, To, Of, Idle, TypeOK, BaselineAssumption,
       Result, PlacesOK, Held, Places, Completed, ToMeasure
  <2>4. (/\ up \in BOOLEAN /\ recordedNow \in BOOLEAN /\ sinkBroken \in BOOLEAN
      /\ gateFired \in BOOLEAN /\ runDone \in BOOLEAN /\ userDone \in BOOLEAN
      /\ emitFailed \in BOOLEAN /\ stopReason \in {"none", "budget", "fatal"}
      /\ firstErr \in {"none", "budget", "fatal", "sink", "cancelled", "gate"})'
    BY <1>5, Counts DEF Authorize, Fits, GivesUp, To, Of, Idle, TypeOK, BaselineAssumption,
       Placed, PlacesOK
  <2>5. (/\ processes \in 0..MaxProcesses /\ made \in Nat /\ dark \in Nat /\ darkBefore \in Nat
      /\ unsettled \in Nat /\ sourceErr \in {"none", "source", "cancelled"}
      /\ armed \subseteq Model /\ measured \subseteq Model)'
    BY <1>5, Counts DEF Authorize, Fits, GivesUp, To, Of, Idle, TypeOK, BaselineAssumption,
       Result, ModelsOf, InFlight
  <2>6. (/\ spent \in 0..Cap)'
    BY <1>5, Counts DEF Authorize, Fits, GivesUp, To, Of, Idle, TypeOK, BaselineAssumption,
       MoneyOK, Restore, SettledSpend
  <2>7. QED
    BY <2>1, <2>2, <2>3, <2>4, <2>5, <2>6 DEF TypeOK, Places
<1>6. ASSUME up, NEW w \in Worker, NEW place \in {"deliver", "wait"}, NEW err \in Errors,
           NEW m \in Model \cup {None}, NEW b \in BOOLEAN,
           Settled(w, place, err, m, b), Returned(w, place, err, b)
      PROVE  TypeOK'
  <2>1. (/\ row \in [Case -> [kind : {"none", "scored", "errored"}, calls : 0..MaxAttempts,
                        model : Model \cup {None}]]
      /\ status \in {"ABSENT", "RUNNING", "COMPLETED", "BUDGET_STOPPED", "INTERRUPTED", "FAILED"}
      /\ recordedModels \subseteq Model /\ orphan \in Nat)'
    BY <1>6, Counts DEF Settled, Returned, To, Of, Idle, TypeOK, BaselineAssumption,
       ModelsOf, Held, PlacesOK, Result, runErr, statusFor
  <2>2. (/\ at \in [Worker -> Places] /\ task \in [Worker -> Result])'
    <3>1. To(w, place, Of(task[w].case, task[w].calls + 1, err, m, b))
      BY <1>6 DEF Settled, GivesUp
    <3>2. Of(task[w].case, task[w].calls + 1, err, m, b) \in Result
      BY <1>6, OfType, IdleType, TaskType DEF Settled, Returned, PlacesOK, Placed, Errors
    <3>3. QED
      BY <3>1, <3>2, ToType DEF TypeOK, Places
  <2>3. (/\ sink \in Result \cup {None} /\ left \subseteq Case /\ offered \in Case \cup {None}
      /\ cutShort \subseteq Case)'
    BY <1>6, Counts DEF Settled, Returned, To, Of, Idle, TypeOK, BaselineAssumption,
       Result, PlacesOK, Held, Places, Completed, ToMeasure
  <2>4. (/\ up \in BOOLEAN /\ recordedNow \in BOOLEAN /\ sinkBroken \in BOOLEAN
      /\ gateFired \in BOOLEAN /\ runDone \in BOOLEAN /\ userDone \in BOOLEAN
      /\ emitFailed \in BOOLEAN /\ stopReason \in {"none", "budget", "fatal"}
      /\ firstErr \in {"none", "budget", "fatal", "sink", "cancelled", "gate"})'
    BY <1>6, Counts DEF Settled, Returned, To, Of, Idle, TypeOK, BaselineAssumption,
       Placed, PlacesOK
  <2>5. (/\ processes \in 0..MaxProcesses /\ made \in Nat /\ dark \in Nat /\ darkBefore \in Nat
      /\ unsettled \in Nat /\ sourceErr \in {"none", "source", "cancelled"}
      /\ armed \subseteq Model /\ measured \subseteq Model)'
    BY <1>6, Counts DEF Settled, Returned, To, Of, Idle, TypeOK, BaselineAssumption,
       Result, ModelsOf, InFlight
  <2>6. (/\ spent \in 0..Cap)'
    BY <1>6, Counts, SomeInCall DEF Settled, Returned, TypeOK, BaselineAssumption, MoneyOK
  <2>7. QED
    BY <2>1, <2>2, <2>3, <2>4, <2>5, <2>6 DEF TypeOK, Places
<1>7. ASSUME up, NEW w \in Worker, Panics(w)
      PROVE  TypeOK'
  <2>1. (/\ row \in [Case -> [kind : {"none", "scored", "errored"}, calls : 0..MaxAttempts,
                        model : Model \cup {None}]]
      /\ status \in {"ABSENT", "RUNNING", "COMPLETED", "BUDGET_STOPPED", "INTERRUPTED", "FAILED"}
      /\ recordedModels \subseteq Model /\ orphan \in Nat)'
    BY <1>7, Counts DEF Panics, GivesUp, To, Of, Idle, TypeOK, BaselineAssumption,
       ModelsOf, Held, PlacesOK, Result, runErr, statusFor
  <2>2. (/\ at \in [Worker -> Places] /\ task \in [Worker -> Result])'
    <3>1. To(w, "deliver", Of(task[w].case, task[w].calls, "panic", None, FALSE))
      BY <1>7 DEF Panics, GivesUp
    <3>2. Of(task[w].case, task[w].calls, "panic", None, FALSE) \in Result
      BY <1>7, OfType, IdleType, TaskType DEF Panics, Returned, PlacesOK, Placed, Errors
    <3>3. QED
      BY <3>1, <3>2, ToType DEF TypeOK, Places
  <2>3. (/\ sink \in Result \cup {None} /\ left \subseteq Case /\ offered \in Case \cup {None}
      /\ cutShort \subseteq Case)'
    BY <1>7, Counts DEF Panics, GivesUp, To, Of, Idle, TypeOK, BaselineAssumption, Result,
       PlacesOK, Held, Places, Completed, ToMeasure
  <2>4. (/\ up \in BOOLEAN /\ recordedNow \in BOOLEAN /\ sinkBroken \in BOOLEAN
      /\ gateFired \in BOOLEAN /\ runDone \in BOOLEAN /\ userDone \in BOOLEAN
      /\ emitFailed \in BOOLEAN /\ stopReason \in {"none", "budget", "fatal"}
      /\ firstErr \in {"none", "budget", "fatal", "sink", "cancelled", "gate"})'
    BY <1>7, Counts DEF Panics, GivesUp, To, Of, Idle, TypeOK, BaselineAssumption, Placed,
       PlacesOK
  <2>5. (/\ processes \in 0..MaxProcesses /\ made \in Nat /\ dark \in Nat /\ darkBefore \in Nat
      /\ unsettled \in Nat /\ sourceErr \in {"none", "source", "cancelled"}
      /\ armed \subseteq Model /\ measured \subseteq Model)'
    BY <1>7, Counts DEF Panics, GivesUp, To, Of, Idle, TypeOK, BaselineAssumption, Result,
       ModelsOf, InFlight
  <2>6. (/\ spent \in 0..Cap)'
    BY <1>7, Counts DEF Panics, GivesUp, To, Of, Idle, TypeOK, BaselineAssumption,
       MoneyOK, Restore, SettledSpend
  <2>7. QED
    BY <2>1, <2>2, <2>3, <2>4, <2>5, <2>6 DEF TypeOK, Places
<1>8. ASSUME up, NEW w \in Worker, Backoff(w)
      PROVE  TypeOK'
  <2>1. (/\ row \in [Case -> [kind : {"none", "scored", "errored"}, calls : 0..MaxAttempts,
                        model : Model \cup {None}]]
      /\ status \in {"ABSENT", "RUNNING", "COMPLETED", "BUDGET_STOPPED", "INTERRUPTED", "FAILED"}
      /\ recordedModels \subseteq Model /\ orphan \in Nat)'
    BY <1>8, Counts DEF Backoff, GivesUp, To, Of, Idle, TypeOK, BaselineAssumption,
       ModelsOf, Held, PlacesOK, Result, runErr, statusFor
  <2>2. (/\ at \in [Worker -> Places] /\ task \in [Worker -> Result])'
    <3>1. CASE To(w, "authorize", task[w])
      BY <3>1, ToType DEF TypeOK, Places
    <3>2. CASE GivesUp(w, "cancelled", TRUE)
      <4>1. Of(task[w].case, task[w].calls, "cancelled", None, TRUE) \in Result
        BY OfType, TaskType DEF Errors
      <4>2. QED
        BY <3>2, <4>1, ToType DEF TypeOK, Places, GivesUp
    <3>3. QED
      BY <1>8, <3>1, <3>2 DEF Backoff
  <2>3. (/\ sink \in Result \cup {None} /\ left \subseteq Case /\ offered \in Case \cup {None}
      /\ cutShort \subseteq Case)'
    BY <1>8, Counts DEF Backoff, GivesUp, To, Of, Idle, TypeOK, BaselineAssumption,
       Result, PlacesOK, Held, Places, Completed, ToMeasure
  <2>4. (/\ up \in BOOLEAN /\ recordedNow \in BOOLEAN /\ sinkBroken \in BOOLEAN
      /\ gateFired \in BOOLEAN /\ runDone \in BOOLEAN /\ userDone \in BOOLEAN
      /\ emitFailed \in BOOLEAN /\ stopReason \in {"none", "budget", "fatal"}
      /\ firstErr \in {"none", "budget", "fatal", "sink", "cancelled", "gate"})'
    BY <1>8, Counts DEF Backoff, GivesUp, To, Of, Idle, TypeOK, BaselineAssumption,
       Placed, PlacesOK
  <2>5. (/\ processes \in 0..MaxProcesses /\ made \in Nat /\ dark \in Nat /\ darkBefore \in Nat
      /\ unsettled \in Nat /\ sourceErr \in {"none", "source", "cancelled"}
      /\ armed \subseteq Model /\ measured \subseteq Model)'
    BY <1>8, Counts DEF Backoff, GivesUp, To, Of, Idle, TypeOK, BaselineAssumption,
       Result, ModelsOf, InFlight
  <2>6. (/\ spent \in 0..Cap)'
    BY <1>8, Counts DEF Backoff, GivesUp, To, Of, Idle, TypeOK, BaselineAssumption,
       MoneyOK, Restore, SettledSpend
  <2>7. QED
    BY <2>1, <2>2, <2>3, <2>4, <2>5, <2>6 DEF TypeOK, Places
<1>9. ASSUME up, NEW w \in Worker, Deliver(w)
      PROVE  TypeOK'
  <2>1. (/\ row \in [Case -> [kind : {"none", "scored", "errored"}, calls : 0..MaxAttempts,
                        model : Model \cup {None}]]
      /\ status \in {"ABSENT", "RUNNING", "COMPLETED", "BUDGET_STOPPED", "INTERRUPTED", "FAILED"}
      /\ recordedModels \subseteq Model /\ orphan \in Nat)'
    BY <1>9, Counts DEF Deliver, To, Of, Idle, TypeOK, BaselineAssumption, ModelsOf, Held,
       PlacesOK, Result, runErr, statusFor
  <2>2. (/\ at \in [Worker -> Places] /\ task \in [Worker -> Result])'
    <3>1. CASE task[w].err \in {"budget", "fatal"}
      <4>1. To(w, "isFatal", Of(None, 0, task[w].err, None, FALSE))
        BY <1>9, <3>1 DEF Deliver, GivesUp
      <4>2. Of(None, 0, task[w].err, None, FALSE) \in Result
        BY <1>9, <3>1, TaskType DEF Deliver, TypeOK, BaselineAssumption, Errors, Of, Result
      <4>3. QED
        BY <4>1, <4>2, ToType DEF TypeOK, Places
    <3>2. CASE task[w].err \notin {"budget", "fatal"}
      <4>1. To(w, "idle", Idle)
        BY <1>9, <3>2 DEF Deliver, GivesUp
      <4>2. Idle \in Result
        BY <1>9, <3>2, IdleType DEF Deliver, TypeOK, BaselineAssumption, Errors
      <4>3. QED
        BY <4>1, <4>2, ToType DEF TypeOK, Places
    <3>3. QED
      BY <3>1, <3>2
  <2>3. (/\ sink \in Result \cup {None} /\ left \subseteq Case /\ offered \in Case \cup {None}
      /\ cutShort \subseteq Case)'
    BY <1>9, Counts DEF Deliver, To, Of, Idle, TypeOK, BaselineAssumption, Result,
       PlacesOK, Held, Places, Completed, ToMeasure
  <2>4. (/\ up \in BOOLEAN /\ recordedNow \in BOOLEAN /\ sinkBroken \in BOOLEAN
      /\ gateFired \in BOOLEAN /\ runDone \in BOOLEAN /\ userDone \in BOOLEAN
      /\ emitFailed \in BOOLEAN /\ stopReason \in {"none", "budget", "fatal"}
      /\ firstErr \in {"none", "budget", "fatal", "sink", "cancelled", "gate"})'
    BY <1>9, Counts DEF Deliver, To, Of, Idle, TypeOK, BaselineAssumption, Placed, PlacesOK
  <2>5. (/\ processes \in 0..MaxProcesses /\ made \in Nat /\ dark \in Nat /\ darkBefore \in Nat
      /\ unsettled \in Nat /\ sourceErr \in {"none", "source", "cancelled"}
      /\ armed \subseteq Model /\ measured \subseteq Model)'
    BY <1>9, Counts DEF Deliver, To, Of, Idle, TypeOK, BaselineAssumption, Result,
       ModelsOf, InFlight
  <2>6. (/\ spent \in 0..Cap)'
    BY <1>9, Counts DEF Deliver, To, Of, Idle, TypeOK, BaselineAssumption, MoneyOK,
       Restore, SettledSpend
  <2>7. QED
    BY <2>1, <2>2, <2>3, <2>4, <2>5, <2>6 DEF TypeOK, Places
<1>10. ASSUME up, NEW w \in Worker, IsFatal(w)
      PROVE  TypeOK'
  <2>1. (/\ row \in [Case -> [kind : {"none", "scored", "errored"}, calls : 0..MaxAttempts,
                        model : Model \cup {None}]]
      /\ status \in {"ABSENT", "RUNNING", "COMPLETED", "BUDGET_STOPPED", "INTERRUPTED", "FAILED"}
      /\ recordedModels \subseteq Model /\ orphan \in Nat)'
    BY <1>10, Counts DEF IsFatal, fail, To, Of, Idle, TypeOK, BaselineAssumption,
       ModelsOf, Held, PlacesOK, Result, runErr, statusFor
  <2>2. (/\ at \in [Worker -> Places] /\ task \in [Worker -> Result])'
    <3>1. To(w, "gone", Idle)
      BY <1>10 DEF IsFatal, GivesUp
    <3>2. Idle \in Result
      BY <1>10, OfType, IdleType, TaskType DEF IsFatal, Returned, PlacesOK, Placed, Errors
    <3>3. QED
      BY <3>1, <3>2, ToType DEF TypeOK, Places
  <2>3. (/\ sink \in Result \cup {None} /\ left \subseteq Case /\ offered \in Case \cup {None}
      /\ cutShort \subseteq Case)'
    BY <1>10, Counts DEF IsFatal, fail, To, Of, Idle, TypeOK, BaselineAssumption, Result,
       PlacesOK, Held, Places, Completed, ToMeasure
  <2>4. (/\ up \in BOOLEAN /\ recordedNow \in BOOLEAN /\ sinkBroken \in BOOLEAN
      /\ gateFired \in BOOLEAN /\ runDone \in BOOLEAN /\ userDone \in BOOLEAN
      /\ emitFailed \in BOOLEAN /\ stopReason \in {"none", "budget", "fatal"}
      /\ firstErr \in {"none", "budget", "fatal", "sink", "cancelled", "gate"})'
    BY <1>10, Counts DEF IsFatal, fail, To, Of, Idle, TypeOK, BaselineAssumption, Placed,
       PlacesOK
  <2>5. (/\ processes \in 0..MaxProcesses /\ made \in Nat /\ dark \in Nat /\ darkBefore \in Nat
      /\ unsettled \in Nat /\ sourceErr \in {"none", "source", "cancelled"}
      /\ armed \subseteq Model /\ measured \subseteq Model)'
    BY <1>10, Counts DEF IsFatal, fail, To, Of, Idle, TypeOK, BaselineAssumption, Result,
       ModelsOf, InFlight
  <2>6. (/\ spent \in 0..Cap)'
    BY <1>10, Counts DEF IsFatal, fail, To, Of, Idle, TypeOK, BaselineAssumption, MoneyOK,
       Restore, SettledSpend
  <2>7. QED
    BY <2>1, <2>2, <2>3, <2>4, <2>5, <2>6 DEF TypeOK, Places
<1>11. CASE up /\ Discard
  <2>1. (/\ row \in [Case -> [kind : {"none", "scored", "errored"}, calls : 0..MaxAttempts,
                        model : Model \cup {None}]]
      /\ status \in {"ABSENT", "RUNNING", "COMPLETED", "BUDGET_STOPPED", "INTERRUPTED", "FAILED"}
      /\ recordedModels \subseteq Model /\ orphan \in Nat)'
    BY <1>11, Counts DEF Discard, TypeOK, BaselineAssumption, ModelsOf, Held, PlacesOK,
       Result, runErr, statusFor
  <2>2. (/\ at \in [Worker -> Places] /\ task \in [Worker -> Result])'
    BY <1>11, Counts DEF Discard, TypeOK, BaselineAssumption, Result, Places, PlacesOK,
       Placed, Held
  <2>3. (/\ sink \in Result \cup {None} /\ left \subseteq Case /\ offered \in Case \cup {None}
      /\ cutShort \subseteq Case)'
    BY <1>11, Counts DEF Discard, TypeOK, BaselineAssumption, Result, PlacesOK, Held,
       Places, Completed, ToMeasure
  <2>4. (/\ up \in BOOLEAN /\ recordedNow \in BOOLEAN /\ sinkBroken \in BOOLEAN
      /\ gateFired \in BOOLEAN /\ runDone \in BOOLEAN /\ userDone \in BOOLEAN
      /\ emitFailed \in BOOLEAN /\ stopReason \in {"none", "budget", "fatal"}
      /\ firstErr \in {"none", "budget", "fatal", "sink", "cancelled", "gate"})'
    BY <1>11, Counts DEF Discard, TypeOK, BaselineAssumption, Placed, PlacesOK
  <2>5. (/\ processes \in 0..MaxProcesses /\ made \in Nat /\ dark \in Nat /\ darkBefore \in Nat
      /\ unsettled \in Nat /\ sourceErr \in {"none", "source", "cancelled"}
      /\ armed \subseteq Model /\ measured \subseteq Model)'
    BY <1>11, Counts DEF Discard, TypeOK, BaselineAssumption, Result, ModelsOf, InFlight
  <2>6. (/\ spent \in 0..Cap)'
    BY <1>11, Counts DEF Discard, TypeOK, BaselineAssumption, MoneyOK, Restore, SettledSpend
  <2>7. QED
    BY <2>1, <2>2, <2>3, <2>4, <2>5, <2>6 DEF TypeOK, Places
<1>12. CASE up /\ StoreFails
  <2>1. (/\ row \in [Case -> [kind : {"none", "scored", "errored"}, calls : 0..MaxAttempts,
                        model : Model \cup {None}]]
      /\ status \in {"ABSENT", "RUNNING", "COMPLETED", "BUDGET_STOPPED", "INTERRUPTED", "FAILED"}
      /\ recordedModels \subseteq Model /\ orphan \in Nat)'
    BY <1>12, Counts DEF StoreFails, fail, TypeOK, BaselineAssumption, ModelsOf, Held,
       PlacesOK, Result, runErr, statusFor
  <2>2. (/\ at \in [Worker -> Places] /\ task \in [Worker -> Result])'
    BY <1>12, Counts DEF StoreFails, fail, TypeOK, BaselineAssumption, Result, Places,
       PlacesOK, Placed, Held
  <2>3. (/\ sink \in Result \cup {None} /\ left \subseteq Case /\ offered \in Case \cup {None}
      /\ cutShort \subseteq Case)'
    BY <1>12, Counts DEF StoreFails, fail, TypeOK, BaselineAssumption, Result, PlacesOK,
       Held, Places, Completed, ToMeasure
  <2>4. (/\ up \in BOOLEAN /\ recordedNow \in BOOLEAN /\ sinkBroken \in BOOLEAN
      /\ gateFired \in BOOLEAN /\ runDone \in BOOLEAN /\ userDone \in BOOLEAN
      /\ emitFailed \in BOOLEAN /\ stopReason \in {"none", "budget", "fatal"}
      /\ firstErr \in {"none", "budget", "fatal", "sink", "cancelled", "gate"})'
    BY <1>12, Counts DEF StoreFails, fail, TypeOK, BaselineAssumption, Placed, PlacesOK
  <2>5. (/\ processes \in 0..MaxProcesses /\ made \in Nat /\ dark \in Nat /\ darkBefore \in Nat
      /\ unsettled \in Nat /\ sourceErr \in {"none", "source", "cancelled"}
      /\ armed \subseteq Model /\ measured \subseteq Model)'
    BY <1>12, Counts DEF StoreFails, fail, TypeOK, BaselineAssumption, Result, ModelsOf,
       InFlight
  <2>6. (/\ spent \in 0..Cap)'
    BY <1>12, Counts DEF StoreFails, fail, TypeOK, BaselineAssumption, MoneyOK, Restore,
       SettledSpend
  <2>7. QED
    BY <2>1, <2>2, <2>3, <2>4, <2>5, <2>6 DEF TypeOK, Places
<1>13. CASE up /\ recordOrphanSpend
  <2>1. (/\ row \in [Case -> [kind : {"none", "scored", "errored"}, calls : 0..MaxAttempts,
                        model : Model \cup {None}]]
      /\ status \in {"ABSENT", "RUNNING", "COMPLETED", "BUDGET_STOPPED", "INTERRUPTED", "FAILED"}
      /\ recordedModels \subseteq Model /\ orphan \in Nat)'
    BY <1>13, Counts DEF recordOrphanSpend, TypeOK, BaselineAssumption, ModelsOf, Held,
       PlacesOK, Result, runErr, statusFor
  <2>2. (/\ at \in [Worker -> Places] /\ task \in [Worker -> Result])'
    BY <1>13, Counts DEF recordOrphanSpend, TypeOK, BaselineAssumption, Result, Places,
       PlacesOK, Placed, Held
  <2>3. (/\ sink \in Result \cup {None} /\ left \subseteq Case /\ offered \in Case \cup {None}
      /\ cutShort \subseteq Case)'
    BY <1>13, Counts DEF recordOrphanSpend, TypeOK, BaselineAssumption, Result, PlacesOK,
       Held, Places, Completed, ToMeasure
  <2>4. (/\ up \in BOOLEAN /\ recordedNow \in BOOLEAN /\ sinkBroken \in BOOLEAN
      /\ gateFired \in BOOLEAN /\ runDone \in BOOLEAN /\ userDone \in BOOLEAN
      /\ emitFailed \in BOOLEAN /\ stopReason \in {"none", "budget", "fatal"}
      /\ firstErr \in {"none", "budget", "fatal", "sink", "cancelled", "gate"})'
    BY <1>13, Counts DEF recordOrphanSpend, TypeOK, BaselineAssumption, Placed, PlacesOK
  <2>5. (/\ processes \in 0..MaxProcesses /\ made \in Nat /\ dark \in Nat /\ darkBefore \in Nat
      /\ unsettled \in Nat /\ sourceErr \in {"none", "source", "cancelled"}
      /\ armed \subseteq Model /\ measured \subseteq Model)'
    BY <1>13, Counts DEF recordOrphanSpend, TypeOK, BaselineAssumption, Result, ModelsOf,
       InFlight
  <2>6. (/\ spent \in 0..Cap)'
    BY <1>13, Counts DEF recordOrphanSpend, TypeOK, BaselineAssumption, MoneyOK, Restore,
       SettledSpend
  <2>7. QED
    BY <2>1, <2>2, <2>3, <2>4, <2>5, <2>6 DEF TypeOK, Places
<1>14. CASE up /\ RecordOutcome
  <2>1. (/\ row \in [Case -> [kind : {"none", "scored", "errored"}, calls : 0..MaxAttempts,
                        model : Model \cup {None}]]
      /\ status \in {"ABSENT", "RUNNING", "COMPLETED", "BUDGET_STOPPED", "INTERRUPTED", "FAILED"}
      /\ recordedModels \subseteq Model /\ orphan \in Nat)'
    BY <1>14, Counts DEF RecordOutcome, fail, TypeOK, BaselineAssumption, ModelsOf, Held,
       PlacesOK, Result, runErr, statusFor
  <2>2. (/\ at \in [Worker -> Places] /\ task \in [Worker -> Result])'
    BY <1>14, Counts DEF RecordOutcome, fail, TypeOK, BaselineAssumption, Result, Places,
       PlacesOK, Placed, Held
  <2>3. (/\ sink \in Result \cup {None} /\ left \subseteq Case /\ offered \in Case \cup {None}
      /\ cutShort \subseteq Case)'
    BY <1>14, Counts DEF RecordOutcome, fail, TypeOK, BaselineAssumption, Result,
       PlacesOK, Held, Places, Completed, ToMeasure
  <2>4. (/\ up \in BOOLEAN /\ recordedNow \in BOOLEAN /\ sinkBroken \in BOOLEAN
      /\ gateFired \in BOOLEAN /\ runDone \in BOOLEAN /\ userDone \in BOOLEAN
      /\ emitFailed \in BOOLEAN /\ stopReason \in {"none", "budget", "fatal"}
      /\ firstErr \in {"none", "budget", "fatal", "sink", "cancelled", "gate"})'
    BY <1>14, Counts DEF RecordOutcome, fail, TypeOK, BaselineAssumption, Placed, PlacesOK
  <2>5. (/\ processes \in 0..MaxProcesses /\ made \in Nat /\ dark \in Nat /\ darkBefore \in Nat
      /\ unsettled \in Nat /\ sourceErr \in {"none", "source", "cancelled"}
      /\ armed \subseteq Model /\ measured \subseteq Model)'
    BY <1>14, Counts DEF RecordOutcome, fail, TypeOK, BaselineAssumption, Result,
       ModelsOf, InFlight
  <2>6. (/\ spent \in 0..Cap)'
    BY <1>14, Counts DEF RecordOutcome, fail, TypeOK, BaselineAssumption, MoneyOK,
       Restore, SettledSpend
  <2>7. QED
    BY <2>1, <2>2, <2>3, <2>4, <2>5, <2>6 DEF TypeOK, Places
<1>15. CASE up /\ AfterRecord
  <2>1. (/\ row \in [Case -> [kind : {"none", "scored", "errored"}, calls : 0..MaxAttempts,
                        model : Model \cup {None}]]
      /\ status \in {"ABSENT", "RUNNING", "COMPLETED", "BUDGET_STOPPED", "INTERRUPTED", "FAILED"}
      /\ recordedModels \subseteq Model /\ orphan \in Nat)'
    BY <1>15, Counts DEF AfterRecord, fail, TypeOK, BaselineAssumption, ModelsOf, Held,
       PlacesOK, Result, runErr, statusFor
  <2>2. (/\ at \in [Worker -> Places] /\ task \in [Worker -> Result])'
    BY <1>15, Counts DEF AfterRecord, fail, TypeOK, BaselineAssumption, Result, Places,
       PlacesOK, Placed, Held
  <2>3. (/\ sink \in Result \cup {None} /\ left \subseteq Case /\ offered \in Case \cup {None}
      /\ cutShort \subseteq Case)'
    BY <1>15, Counts DEF AfterRecord, fail, TypeOK, BaselineAssumption, Result, PlacesOK,
       Held, Places, Completed, ToMeasure
  <2>4. (/\ up \in BOOLEAN /\ recordedNow \in BOOLEAN /\ sinkBroken \in BOOLEAN
      /\ gateFired \in BOOLEAN /\ runDone \in BOOLEAN /\ userDone \in BOOLEAN
      /\ emitFailed \in BOOLEAN /\ stopReason \in {"none", "budget", "fatal"}
      /\ firstErr \in {"none", "budget", "fatal", "sink", "cancelled", "gate"})'
    BY <1>15, Counts DEF AfterRecord, fail, TypeOK, BaselineAssumption, Placed, PlacesOK
  <2>5. (/\ processes \in 0..MaxProcesses /\ made \in Nat /\ dark \in Nat /\ darkBefore \in Nat
      /\ unsettled \in Nat /\ sourceErr \in {"none", "source", "cancelled"}
      /\ armed \subseteq Model /\ measured \subseteq Model)'
    BY <1>15, Counts DEF AfterRecord, fail, TypeOK, BaselineAssumption, Result, ModelsOf,
       InFlight
  <2>6. (/\ spent \in 0..Cap)'
    BY <1>15, Counts DEF AfterRecord, fail, TypeOK, BaselineAssumption, MoneyOK, Restore,
       SettledSpend
  <2>7. QED
    BY <2>1, <2>2, <2>3, <2>4, <2>5, <2>6 DEF TypeOK, Places
<1>16. CASE up /\ Cancel
  <2>1. (/\ row \in [Case -> [kind : {"none", "scored", "errored"}, calls : 0..MaxAttempts,
                        model : Model \cup {None}]]
      /\ status \in {"ABSENT", "RUNNING", "COMPLETED", "BUDGET_STOPPED", "INTERRUPTED", "FAILED"}
      /\ recordedModels \subseteq Model /\ orphan \in Nat)'
    BY <1>16, Counts DEF Cancel, TypeOK, BaselineAssumption, ModelsOf, Held, PlacesOK,
       Result, runErr, statusFor
  <2>2. (/\ at \in [Worker -> Places] /\ task \in [Worker -> Result])'
    BY <1>16, Counts DEF Cancel, TypeOK, BaselineAssumption, Result, Places, PlacesOK,
       Placed, Held
  <2>3. (/\ sink \in Result \cup {None} /\ left \subseteq Case /\ offered \in Case \cup {None}
      /\ cutShort \subseteq Case)'
    BY <1>16, Counts DEF Cancel, TypeOK, BaselineAssumption, Result, PlacesOK, Held,
       Places, Completed, ToMeasure
  <2>4. (/\ up \in BOOLEAN /\ recordedNow \in BOOLEAN /\ sinkBroken \in BOOLEAN
      /\ gateFired \in BOOLEAN /\ runDone \in BOOLEAN /\ userDone \in BOOLEAN
      /\ emitFailed \in BOOLEAN /\ stopReason \in {"none", "budget", "fatal"}
      /\ firstErr \in {"none", "budget", "fatal", "sink", "cancelled", "gate"})'
    BY <1>16, Counts DEF Cancel, TypeOK, BaselineAssumption, Placed, PlacesOK
  <2>5. (/\ processes \in 0..MaxProcesses /\ made \in Nat /\ dark \in Nat /\ darkBefore \in Nat
      /\ unsettled \in Nat /\ sourceErr \in {"none", "source", "cancelled"}
      /\ armed \subseteq Model /\ measured \subseteq Model)'
    BY <1>16, Counts DEF Cancel, TypeOK, BaselineAssumption, Result, ModelsOf, InFlight
  <2>6. (/\ spent \in 0..Cap)'
    BY <1>16, Counts DEF Cancel, TypeOK, BaselineAssumption, MoneyOK, Restore, SettledSpend
  <2>7. QED
    BY <2>1, <2>2, <2>3, <2>4, <2>5, <2>6 DEF TypeOK, Places
<1>17. CASE up /\ closeRun
  <2>1. (/\ row \in [Case -> [kind : {"none", "scored", "errored"}, calls : 0..MaxAttempts,
                        model : Model \cup {None}]]
      /\ status \in {"ABSENT", "RUNNING", "COMPLETED", "BUDGET_STOPPED", "INTERRUPTED", "FAILED"}
      /\ recordedModels \subseteq Model /\ orphan \in Nat)'
    BY <1>17, Counts DEF closeRun, TypeOK, BaselineAssumption, ModelsOf, Held, PlacesOK,
       Result, runErr, statusFor
  <2>2. (/\ at \in [Worker -> Places] /\ task \in [Worker -> Result])'
    BY <1>17, Counts DEF closeRun, TypeOK, BaselineAssumption, Result, Places, PlacesOK,
       Placed, Held
  <2>3. (/\ sink \in Result \cup {None} /\ left \subseteq Case /\ offered \in Case \cup {None}
      /\ cutShort \subseteq Case)'
    BY <1>17, Counts DEF closeRun, TypeOK, BaselineAssumption, Result, PlacesOK, Held,
       Places, Completed, ToMeasure
  <2>4. (/\ up \in BOOLEAN /\ recordedNow \in BOOLEAN /\ sinkBroken \in BOOLEAN
      /\ gateFired \in BOOLEAN /\ runDone \in BOOLEAN /\ userDone \in BOOLEAN
      /\ emitFailed \in BOOLEAN /\ stopReason \in {"none", "budget", "fatal"}
      /\ firstErr \in {"none", "budget", "fatal", "sink", "cancelled", "gate"})'
    BY <1>17, Counts DEF closeRun, TypeOK, BaselineAssumption, Placed, PlacesOK
  <2>5. (/\ processes \in 0..MaxProcesses /\ made \in Nat /\ dark \in Nat /\ darkBefore \in Nat
      /\ unsettled \in Nat /\ sourceErr \in {"none", "source", "cancelled"}
      /\ armed \subseteq Model /\ measured \subseteq Model)'
    BY <1>17, Counts DEF closeRun, TypeOK, BaselineAssumption, Result, ModelsOf, InFlight
  <2>6. (/\ spent \in 0..Cap)'
    BY <1>17, Counts DEF closeRun, TypeOK, BaselineAssumption, MoneyOK, Restore, SettledSpend
  <2>7. QED
    BY <2>1, <2>2, <2>3, <2>4, <2>5, <2>6 DEF TypeOK, Places
<1>18. CASE up /\ Crash
  <2>1. (/\ row \in [Case -> [kind : {"none", "scored", "errored"}, calls : 0..MaxAttempts,
                        model : Model \cup {None}]]
      /\ status \in {"ABSENT", "RUNNING", "COMPLETED", "BUDGET_STOPPED", "INTERRUPTED", "FAILED"}
      /\ recordedModels \subseteq Model /\ orphan \in Nat)'
    BY <1>18, Counts DEF Crash, TypeOK, BaselineAssumption, ModelsOf, Held, PlacesOK,
       Result, runErr, statusFor
  <2>2. (/\ at \in [Worker -> Places] /\ task \in [Worker -> Result])'
    BY <1>18, Counts DEF Crash, TypeOK, BaselineAssumption, Result, Places, PlacesOK,
       Placed, Held
  <2>3. (/\ sink \in Result \cup {None} /\ left \subseteq Case /\ offered \in Case \cup {None}
      /\ cutShort \subseteq Case)'
    BY <1>18, Counts DEF Crash, TypeOK, BaselineAssumption, Result, PlacesOK, Held,
       Places, Completed, ToMeasure
  <2>4. (/\ up \in BOOLEAN /\ recordedNow \in BOOLEAN /\ sinkBroken \in BOOLEAN
      /\ gateFired \in BOOLEAN /\ runDone \in BOOLEAN /\ userDone \in BOOLEAN
      /\ emitFailed \in BOOLEAN /\ stopReason \in {"none", "budget", "fatal"}
      /\ firstErr \in {"none", "budget", "fatal", "sink", "cancelled", "gate"})'
    BY <1>18, Counts DEF Crash, TypeOK, BaselineAssumption, Placed, PlacesOK
  <2>5. (/\ processes \in 0..MaxProcesses /\ made \in Nat /\ dark \in Nat /\ darkBefore \in Nat
      /\ unsettled \in Nat /\ sourceErr \in {"none", "source", "cancelled"}
      /\ armed \subseteq Model /\ measured \subseteq Model)'
    BY <1>18, Counts DEF Crash, TypeOK, BaselineAssumption, Result, ModelsOf, InFlight
  <2>6. (/\ spent \in 0..Cap)'
    BY <1>18, Counts DEF Crash, TypeOK, BaselineAssumption, MoneyOK, Restore, SettledSpend
  <2>7. QED
    BY <2>1, <2>2, <2>3, <2>4, <2>5, <2>6 DEF TypeOK, Places
<1>19. CASE UNCHANGED vars
  <2>1. (/\ row \in [Case -> [kind : {"none", "scored", "errored"}, calls : 0..MaxAttempts,
                        model : Model \cup {None}]]
      /\ status \in {"ABSENT", "RUNNING", "COMPLETED", "BUDGET_STOPPED", "INTERRUPTED", "FAILED"}
      /\ recordedModels \subseteq Model /\ orphan \in Nat)'
    BY <1>19 DEF TypeOK, Places, vars
  <2>2. (/\ at \in [Worker -> Places] /\ task \in [Worker -> Result])'
    BY <1>19 DEF TypeOK, Places, vars
  <2>3. (/\ sink \in Result \cup {None} /\ left \subseteq Case /\ offered \in Case \cup {None}
      /\ cutShort \subseteq Case)'
    BY <1>19 DEF TypeOK, Places, vars
  <2>4. (/\ up \in BOOLEAN /\ recordedNow \in BOOLEAN /\ sinkBroken \in BOOLEAN
      /\ gateFired \in BOOLEAN /\ runDone \in BOOLEAN /\ userDone \in BOOLEAN
      /\ emitFailed \in BOOLEAN /\ stopReason \in {"none", "budget", "fatal"}
      /\ firstErr \in {"none", "budget", "fatal", "sink", "cancelled", "gate"})'
    BY <1>19 DEF TypeOK, Places, vars
  <2>5. (/\ processes \in 0..MaxProcesses /\ made \in Nat /\ dark \in Nat /\ darkBefore \in Nat
      /\ unsettled \in Nat /\ sourceErr \in {"none", "source", "cancelled"}
      /\ armed \subseteq Model /\ measured \subseteq Model)'
    BY <1>19 DEF TypeOK, Places, vars
  <2>6. (/\ spent \in 0..Cap)'
    BY <1>19 DEF TypeOK, Places, vars
  <2>7. QED
    BY <2>1, <2>2, <2>3, <2>4, <2>5, <2>6 DEF TypeOK, Places
<1>20. ASSUME up, NEW w \in Worker, Answers(w) \/ Fails(w)  PROVE TypeOK'
  BY <1>a, <1>6, <1>20, Zenon
<1>21. QED
  BY <1>1, <1>2, <1>3, <1>3a, <1>4, <1>5, <1>7, <1>8, <1>9, <1>10, <1>11, <1>12, <1>13, <1>14,
     <1>15, <1>16, <1>17, <1>18, <1>19, <1>20, Zenon DEF Next, Process

(* Whatever ends a process leaves the flags that say so consistent.         *)
LEMMA StepStops ==
    ASSUME BaselineAssumption, TypeOK, PlacesOK, StopsOK, [Next]_vars
    PROVE  StopsOK'
<1>a. \A w \in Worker : Answers(w) \/ Fails(w) =>
        \E place \in {"deliver", "wait"}, err \in Errors, m \in Model \cup {None}, b \in BOOLEAN :
            Settled(w, place, err, m, b) /\ Returned(w, place, err, b)
  BY CallReturns
<1> USE DEF store, producer, work, sinkVars, ctx, fixed, money
<1>1. CASE Start
  BY <1>1 DEF Start, ToMeasure, Of, Idle, NoRow, StopsOK, TypeOK, PlacesOK, Placed
<1>2. ASSUME up, NEW c \in Case, Offer(c)
      PROVE  StopsOK'
  BY <1>2 DEF Offer, StopsOK, TypeOK, PlacesOK, Placed
<1>3. CASE up /\ StopOffering
  BY <1>3 DEF StopOffering, StopsOK, TypeOK, PlacesOK, Placed
<1>3a. CASE up /\ SourceFails
  BY <1>3a DEF SourceFails, StopsOK, TypeOK, PlacesOK, Placed
<1>4. ASSUME up, NEW w \in Worker, Handoff(w)
      PROVE  StopsOK'
  BY <1>4 DEF Handoff, To, Of, Idle, StopsOK, TypeOK, PlacesOK, Placed
<1>5. ASSUME up, NEW w \in Worker, Authorize(w)
      PROVE  StopsOK'
  BY <1>5 DEF Authorize, Fits, GivesUp, To, Of, Idle, StopsOK, TypeOK, PlacesOK, Placed
<1>6. ASSUME up, NEW w \in Worker, NEW place \in {"deliver", "wait"}, NEW err \in Errors,
           NEW m \in Model \cup {None}, NEW b \in BOOLEAN,
           Settled(w, place, err, m, b), Returned(w, place, err, b)
      PROVE  StopsOK'
  BY <1>6 DEF Settled, Returned, To, Of, Idle, StopsOK, TypeOK, PlacesOK, Placed
<1>7. ASSUME up, NEW w \in Worker, Panics(w)
      PROVE  StopsOK'
  BY <1>7 DEF Panics, GivesUp, To, Of, Idle, StopsOK, TypeOK, PlacesOK, Placed
<1>8. ASSUME up, NEW w \in Worker, Backoff(w)
      PROVE  StopsOK'
  BY <1>8 DEF Backoff, GivesUp, To, Of, Idle, StopsOK, TypeOK, PlacesOK, Placed
<1>9. ASSUME up, NEW w \in Worker, Deliver(w)
      PROVE  StopsOK'
  BY <1>9 DEF Deliver, To, Of, Idle, StopsOK, TypeOK, PlacesOK, Placed
<1>10. ASSUME up, NEW w \in Worker, IsFatal(w)
      PROVE  StopsOK'
  BY <1>10 DEF IsFatal, fail, To, Of, Idle, StopsOK, TypeOK, PlacesOK, Placed
<1>11. CASE up /\ Discard
  BY <1>11 DEF Discard, StopsOK, TypeOK, PlacesOK, Placed
<1>12. CASE up /\ StoreFails
  BY <1>12 DEF StoreFails, fail, StopsOK, TypeOK, PlacesOK, Placed
<1>13. CASE up /\ recordOrphanSpend
  BY <1>13 DEF recordOrphanSpend, StopsOK, TypeOK, PlacesOK, Placed
<1>14. CASE up /\ RecordOutcome
  BY <1>14 DEF RecordOutcome, fail, StopsOK, TypeOK, PlacesOK, Placed
<1>15. CASE up /\ AfterRecord
  BY <1>15 DEF AfterRecord, fail, StopsOK, TypeOK, PlacesOK, Placed
<1>16. CASE up /\ Cancel
  BY <1>16 DEF Cancel, StopsOK, TypeOK, PlacesOK, Placed
<1>17. CASE up /\ closeRun
  BY <1>17 DEF closeRun, StopsOK, TypeOK, PlacesOK, Placed
<1>18. CASE up /\ Crash
  BY <1>18 DEF Crash, StopsOK, TypeOK, PlacesOK, Placed
<1>19. CASE UNCHANGED vars
  BY <1>19 DEF vars, StopsOK, TypeOK, PlacesOK, Placed
<1>20. ASSUME up, NEW w \in Worker, Answers(w) \/ Fails(w)  PROVE StopsOK'
  BY <1>a, <1>6, <1>20, Zenon
<1>21. QED
  BY <1>1, <1>2, <1>3, <1>3a, <1>4, <1>5, <1>7, <1>8, <1>9, <1>10, <1>11, <1>12, <1>13, <1>14,
     <1>15, <1>16, <1>17, <1>18, <1>19, <1>20, Zenon DEF Next, Process

(* A case stays in one place: with the producer, a worker, the sink or the  *)
(* store.                                                                   *)
LEMMA StepCases ==
    ASSUME BaselineAssumption, TypeOK, Data, PlacesOK, CasesOK, [Next]_vars
    PROVE  CasesOK'
<1>a. \A w \in Worker : Answers(w) \/ Fails(w) =>
        \E place \in {"deliver", "wait"}, err \in Errors, m \in Model \cup {None}, b \in BOOLEAN :
            Settled(w, place, err, m, b) /\ Returned(w, place, err, b)
  BY CallReturns
<1> USE DEF store, producer, work, sinkVars, ctx, fixed, money
<1>1. CASE Start
  BY <1>1 DEF Start, ToMeasure, Of, Idle, NoRow, CasesOK, Completed, Data, PlacesOK, Placed,
     Held
<1>2. ASSUME up, NEW c \in Case, Offer(c)
      PROVE  CasesOK'
  BY <1>2 DEF Offer, CasesOK, NoRow, Completed, Data, PlacesOK, Placed, Held, Idle, Of
<1>3. CASE up /\ StopOffering
  BY <1>3 DEF StopOffering, CasesOK, NoRow, Completed, Data, PlacesOK, Placed, Held, Idle, Of
<1>3a. CASE up /\ SourceFails
  BY <1>3a DEF SourceFails, CasesOK, NoRow, Completed, Data, PlacesOK, Placed, Held, Idle, Of
<1>4. ASSUME up, NEW w \in Worker, Handoff(w)
      PROVE  CasesOK'
  BY <1>4 DEF Handoff, To, Of, Idle, CasesOK, NoRow, Completed, Data, PlacesOK, Placed, Held
<1>5. ASSUME up, NEW w \in Worker, Authorize(w)
      PROVE  CasesOK'
  BY <1>5 DEF Authorize, Fits, GivesUp, To, Of, Idle, CasesOK, NoRow, Completed, Data, PlacesOK,
     Placed, Held
<1>6. ASSUME up, NEW w \in Worker, NEW place \in {"deliver", "wait"}, NEW err \in Errors,
           NEW m \in Model \cup {None}, NEW b \in BOOLEAN,
           Settled(w, place, err, m, b), Returned(w, place, err, b)
      PROVE  CasesOK'
  BY <1>6 DEF Settled, Returned, To, Of, Idle, CasesOK, NoRow, Completed, Data, PlacesOK,
     Placed, Held
<1>7. ASSUME up, NEW w \in Worker, Panics(w)
      PROVE  CasesOK'
  BY <1>7 DEF Panics, GivesUp, To, Of, Idle, CasesOK, NoRow, Completed, Data, PlacesOK,
     Placed, Held
<1>8. ASSUME up, NEW w \in Worker, Backoff(w)
      PROVE  CasesOK'
  BY <1>8 DEF Backoff, GivesUp, To, Of, Idle, CasesOK, NoRow, Completed, Data, PlacesOK,
     Placed, Held
<1>9. ASSUME up, NEW w \in Worker, Deliver(w)
      PROVE  CasesOK'
  BY <1>9 DEF Deliver, To, Of, Idle, CasesOK, NoRow, Completed, Data, PlacesOK, Placed, Held
<1>10. ASSUME up, NEW w \in Worker, IsFatal(w)
      PROVE  CasesOK'
  BY <1>10 DEF IsFatal, fail, To, Of, Idle, CasesOK, NoRow, Completed, Data, PlacesOK,
     Placed, Held
<1>11. CASE up /\ Discard
  BY <1>11 DEF Discard, CasesOK, NoRow, Completed, Data, PlacesOK, Placed, Held, Idle, Of
<1>12. CASE up /\ StoreFails
  BY <1>12 DEF StoreFails, fail, CasesOK, NoRow, Completed, Data, PlacesOK, Placed, Held,
     Idle, Of
<1>13. CASE up /\ recordOrphanSpend
  BY <1>13 DEF recordOrphanSpend, CasesOK, NoRow, Completed, Data, PlacesOK, Placed, Held,
     Idle, Of
<1>14. CASE up /\ RecordOutcome
  BY <1>14 DEF RecordOutcome, fail, CasesOK, NoRow, Completed, Data, PlacesOK, Placed, Held,
     Idle, Of
<1>15. CASE up /\ AfterRecord
  BY <1>15 DEF AfterRecord, fail, CasesOK, NoRow, Completed, Data, PlacesOK, Placed, Held,
     Idle, Of
<1>16. CASE up /\ Cancel
  BY <1>16 DEF Cancel, CasesOK, NoRow, Completed, Data, PlacesOK, Placed, Held, Idle, Of
<1>17. CASE up /\ closeRun
  BY <1>17 DEF closeRun, CasesOK, NoRow, Completed, Data, PlacesOK, Placed, Held, Idle, Of
<1>18. CASE up /\ Crash
  BY <1>18 DEF Crash, CasesOK, NoRow, Completed, Data, PlacesOK, Placed, Held, Idle, Of
<1>19. CASE UNCHANGED vars
  BY <1>19 DEF vars, CasesOK, NoRow, Completed, Data, PlacesOK, Placed, Held, Idle, Of
<1>20. ASSUME up, NEW w \in Worker, Answers(w) \/ Fails(w)  PROVE CasesOK'
  BY <1>a, <1>6, <1>20, Zenon
<1>21. QED
  BY <1>1, <1>2, <1>3, <1>3a, <1>4, <1>5, <1>7, <1>8, <1>9, <1>10, <1>11, <1>12, <1>13, <1>14,
     <1>15, <1>16, <1>17, <1>18, <1>19, <1>20, Zenon DEF Next, Process

(* A close that records COMPLETED saw no error, so no case is left out.     *)
LEMMA StepCompleted ==
    ASSUME BaselineAssumption, TypeOK, PlacesOK, WholeOK, StopsOK, CompletedIsWhole,
           [Next]_vars
    PROVE  CompletedIsWhole'
<1>a. \A w \in Worker : Answers(w) \/ Fails(w) =>
        \E place \in {"deliver", "wait"}, err \in Errors, m \in Model \cup {None}, b \in BOOLEAN :
            Settled(w, place, err, m, b) /\ Returned(w, place, err, b)
  BY CallReturns
<1> USE DEF store, producer, work, sinkVars, ctx, fixed, money
<1>1. CASE Start
  BY <1>1 DEF Start, ToMeasure, Of, Idle, NoRow, CompletedIsWhole, Completed, TypeOK
<1>2. ASSUME up, NEW c \in Case, Offer(c)
      PROVE  CompletedIsWhole'
  BY <1>2 DEF Offer, CompletedIsWhole, Completed, TypeOK
<1>3. CASE up /\ StopOffering
  BY <1>3 DEF StopOffering, CompletedIsWhole, Completed, TypeOK
<1>3a. CASE up /\ SourceFails
  BY <1>3a DEF SourceFails, CompletedIsWhole, Completed, TypeOK
<1>4. ASSUME up, NEW w \in Worker, Handoff(w)
      PROVE  CompletedIsWhole'
  BY <1>4 DEF Handoff, To, Of, Idle, CompletedIsWhole, Completed, TypeOK
<1>5. ASSUME up, NEW w \in Worker, Authorize(w)
      PROVE  CompletedIsWhole'
  BY <1>5 DEF Authorize, Fits, GivesUp, To, Of, Idle, CompletedIsWhole, Completed, TypeOK
<1>6. ASSUME up, NEW w \in Worker, NEW place \in {"deliver", "wait"}, NEW err \in Errors,
           NEW m \in Model \cup {None}, NEW b \in BOOLEAN,
           Settled(w, place, err, m, b), Returned(w, place, err, b)
      PROVE  CompletedIsWhole'
  BY <1>6 DEF Settled, Returned, To, Of, Idle, CompletedIsWhole, Completed, TypeOK
<1>7. ASSUME up, NEW w \in Worker, Panics(w)
      PROVE  CompletedIsWhole'
  BY <1>7 DEF Panics, GivesUp, To, Of, Idle, CompletedIsWhole, Completed, TypeOK
<1>8. ASSUME up, NEW w \in Worker, Backoff(w)
      PROVE  CompletedIsWhole'
  BY <1>8 DEF Backoff, GivesUp, To, Of, Idle, CompletedIsWhole, Completed, TypeOK
<1>9. ASSUME up, NEW w \in Worker, Deliver(w)
      PROVE  CompletedIsWhole'
  BY <1>9 DEF Deliver, To, Of, Idle, CompletedIsWhole, Completed, TypeOK
<1>10. ASSUME up, NEW w \in Worker, IsFatal(w)
      PROVE  CompletedIsWhole'
  BY <1>10 DEF IsFatal, fail, To, Of, Idle, CompletedIsWhole, Completed, TypeOK
<1>11. CASE up /\ Discard
  BY <1>11 DEF Discard, CompletedIsWhole, Completed, TypeOK
<1>12. CASE up /\ StoreFails
  BY <1>12 DEF StoreFails, fail, CompletedIsWhole, Completed, TypeOK
<1>13. CASE up /\ recordOrphanSpend
  BY <1>13 DEF recordOrphanSpend, CompletedIsWhole, Completed, TypeOK
<1>14. CASE up /\ RecordOutcome
  BY <1>14 DEF RecordOutcome, fail, CompletedIsWhole, Completed, TypeOK
<1>15. CASE up /\ AfterRecord
  BY <1>15 DEF AfterRecord, fail, CompletedIsWhole, Completed, TypeOK
<1>16. CASE up /\ Cancel
  BY <1>16 DEF Cancel, CompletedIsWhole, Completed, TypeOK
<1>17. CASE up /\ closeRun
  <2>1. CASE status' = status
    BY <1>17, <2>1 DEF closeRun, CompletedIsWhole, Completed
  <2>2. CASE status' # status /\ status' = "COMPLETED"
    <3>1. firstErr = "none" /\ sourceErr = "none" /\ ~userDone
      BY <1>17, <2>2 DEF closeRun, runErr, statusFor, TypeOK
    <3>2. \A w \in Worker : at[w] # "isFatal" /\ task[w].case = None
      BY <1>17 DEF closeRun, PlacesOK, Placed, Idle, Of
    <3>3. left = {} /\ offered = None /\ sink = None /\ row' = row /\ None \notin Case
      BY <1>17 DEF closeRun, BaselineAssumption
    <3>4. Case \ Unpriceable \subseteq Completed
      BY <1>17, <3>1, <3>2, <3>3 DEF WholeOK, Stopping
    <3>5. QED
      BY <3>3, <3>4 DEF CompletedIsWhole, Completed
  <2>3. QED
    BY <2>1, <2>2 DEF CompletedIsWhole
<1>18. CASE up /\ Crash
  BY <1>18 DEF Crash, CompletedIsWhole, Completed, TypeOK
<1>19. CASE UNCHANGED vars
  BY <1>19 DEF vars, CompletedIsWhole, Completed, TypeOK
<1>20. ASSUME up, NEW w \in Worker, Answers(w) \/ Fails(w)  PROVE CompletedIsWhole'
  BY <1>a, <1>6, <1>20, Zenon
<1>21. QED
  BY <1>1, <1>2, <1>3, <1>3a, <1>4, <1>5, <1>7, <1>8, <1>9, <1>10, <1>11, <1>12, <1>13, <1>14,
     <1>15, <1>16, <1>17, <1>18, <1>19, <1>20, Zenon DEF Next, Process

(* A case that vanishes from the process without an outcome leaves a        *)
(* reason.                                                                  *)
LEMMA StepWhole ==
    ASSUME BaselineAssumption, TypeOK, Data, PlacesOK, CasesOK, StopsOK, WholeOK,
           [Next]_vars
    PROVE  WholeOK'
<1>a. \A w \in Worker : Answers(w) \/ Fails(w) =>
        \E place \in {"deliver", "wait"}, err \in Errors, m \in Model \cup {None}, b \in BOOLEAN :
            Settled(w, place, err, m, b) /\ Returned(w, place, err, b)
  BY CallReturns
<1> USE DEF store, producer, work, sinkVars, ctx, fixed, money
<1>1. CASE Start
  BY <1>1 DEF Start, ToMeasure, Of, Idle, NoRow, WholeOK, Stopping, Completed, Data,
     PlacesOK, Placed, Held, StopsOK, LeftOpen, shuttingDown, HasResponse
<1>2. ASSUME up, NEW c \in Case, Offer(c)
      PROVE  WholeOK'
  BY <1>2 DEF Offer, WholeOK, Stopping, Completed, Data, PlacesOK, Placed, Held, StopsOK,
     Idle, Of, LeftOpen, shuttingDown, HasResponse
<1>3. CASE up /\ StopOffering
  BY <1>3 DEF StopOffering, WholeOK, Stopping, Completed, Data, PlacesOK, Placed, Held,
     StopsOK, Idle, Of, LeftOpen, shuttingDown, HasResponse
<1>3a. CASE up /\ SourceFails
  BY <1>3a DEF SourceFails, WholeOK, Stopping, Completed, Data, PlacesOK, Placed, Held,
     StopsOK, Idle, Of, LeftOpen, shuttingDown, HasResponse
<1>4. ASSUME up, NEW w \in Worker, Handoff(w)
      PROVE  WholeOK'
  BY <1>4 DEF Handoff, To, Of, Idle, WholeOK, Stopping, Completed, Data, PlacesOK, Placed,
     Held, StopsOK, LeftOpen, shuttingDown, HasResponse
<1>5. ASSUME up, NEW w \in Worker, Authorize(w)
      PROVE  WholeOK'
  BY <1>5 DEF Authorize, Fits, GivesUp, To, Of, Idle, WholeOK, Stopping, Completed, Data,
     PlacesOK, Placed, Held, StopsOK, LeftOpen, shuttingDown, HasResponse
<1>6. ASSUME up, NEW w \in Worker, NEW place \in {"deliver", "wait"}, NEW err \in Errors,
           NEW m \in Model \cup {None}, NEW b \in BOOLEAN,
           Settled(w, place, err, m, b), Returned(w, place, err, b)
      PROVE  WholeOK'
  BY <1>6 DEF Settled, Returned, To, Of, Idle, WholeOK, Stopping, Completed, Data, PlacesOK,
     Placed, Held, StopsOK, LeftOpen, shuttingDown, HasResponse
<1>7. ASSUME up, NEW w \in Worker, Panics(w)
      PROVE  WholeOK'
  BY <1>7 DEF Panics, GivesUp, To, Of, Idle, WholeOK, Stopping, Completed, Data, PlacesOK,
     Placed, Held, StopsOK, LeftOpen, shuttingDown, HasResponse
<1>8. ASSUME up, NEW w \in Worker, Backoff(w)
      PROVE  WholeOK'
  BY <1>8 DEF Backoff, GivesUp, To, Of, Idle, WholeOK, Stopping, Completed, Data, PlacesOK,
     Placed, Held, StopsOK, LeftOpen, shuttingDown, HasResponse
<1>9. ASSUME up, NEW w \in Worker, Deliver(w)
      PROVE  WholeOK'
  <2>1. /\ sink' = task[w] /\ sink = None /\ task[w] \in Result /\ None \notin Case
        /\ UNCHANGED <<up, row, left, offered, firstErr, userDone>>
    BY <1>9 DEF Deliver, Data
  <2>2. \A v \in Worker \ {w} : task'[v] = task[v] /\ at'[v] = at[v]
    BY <1>9 DEF Deliver, To, Data
  <2>3. at'[w] = IF task[w].err \in {"budget", "fatal"} THEN "isFatal" ELSE "idle"
    BY <1>9 DEF Deliver, To, Data
  <2>4. Stopping => Stopping'
    BY <1>9, <2>1, <2>2 DEF Deliver, Stopping
  <2>5. (sink # None /\ sink.err \in {"budget", "fatal"} => Stopping)'
    BY <2>1, <2>3 DEF Stopping
  <2>6. ASSUME up', NEW c \in (Case \ (Unpriceable \cup Completed \cup left \cup {offered}))'
        PROVE  (Stopping \/ (\E v \in Worker : task[v].case = c) \/ (sink # None /\ sink.case = c))'
    <3>1. Stopping \/ (\E v \in Worker : task[v].case = c)
      BY <2>1, <2>6 DEF WholeOK, Completed
    <3>2. CASE Stopping
      BY <3>2, <2>4
    <3>4. ASSUME NEW v \in Worker, task[v].case = c, v # w
          PROVE  (\E u \in Worker : task[u].case = c)'
      BY <3>4, <2>2
    <3>5. CASE task[w].case = c
      <4>1. sink'.case = c
        BY <3>5, <2>1
      <4>2. sink' # None
        BY <2>1 DEF BaselineAssumption
      <4>3. QED
        BY <4>1, <4>2
    <3>6. QED
      BY <3>1, <3>2, <3>4, <3>5
  <2>7. QED
    BY <2>5, <2>6 DEF WholeOK
<1>10. ASSUME up, NEW w \in Worker, IsFatal(w)
      PROVE  WholeOK'
  BY <1>10 DEF IsFatal, fail, To, Of, Idle, WholeOK, Stopping, Completed, Data, PlacesOK,
     Placed, Held, StopsOK, LeftOpen, shuttingDown, HasResponse
<1>11. CASE up /\ Discard
  BY <1>11 DEF Discard, WholeOK, Stopping, Completed, Data, PlacesOK, Placed, Held, StopsOK,
     Idle, Of, LeftOpen, shuttingDown, HasResponse
<1>12. CASE up /\ StoreFails
  BY <1>12 DEF StoreFails, fail, WholeOK, Stopping, Completed, Data, PlacesOK, Placed, Held,
     StopsOK, Idle, Of, LeftOpen, shuttingDown, HasResponse
<1>13. CASE up /\ recordOrphanSpend
  BY <1>13 DEF recordOrphanSpend, WholeOK, Stopping, Completed, Data, PlacesOK, Placed,
     Held, StopsOK, Idle, Of, LeftOpen, shuttingDown, HasResponse
<1>14. CASE up /\ RecordOutcome
  BY <1>14 DEF RecordOutcome, fail, WholeOK, Stopping, Completed, Data, PlacesOK, Placed,
     Held, StopsOK, Idle, Of, LeftOpen, shuttingDown, HasResponse
<1>15. CASE up /\ AfterRecord
  BY <1>15 DEF AfterRecord, fail, WholeOK, Stopping, CasesOK, Completed
<1>16. CASE up /\ Cancel
  BY <1>16 DEF Cancel, WholeOK, Stopping, Completed, Data, PlacesOK, Placed, Held, StopsOK,
     Idle, Of, LeftOpen, shuttingDown, HasResponse
<1>17. CASE up /\ closeRun
  BY <1>17 DEF closeRun, WholeOK, Stopping, Completed, Data, PlacesOK, Placed, Held,
     StopsOK, Idle, Of, LeftOpen, shuttingDown, HasResponse
<1>18. CASE up /\ Crash
  BY <1>18 DEF Crash, WholeOK, Stopping, Completed, Data, PlacesOK, Placed, Held, StopsOK,
     Idle, Of, LeftOpen, shuttingDown, HasResponse
<1>19. CASE UNCHANGED vars
  BY <1>19 DEF vars, WholeOK, Stopping, Completed, Data, PlacesOK, Placed, Held, StopsOK,
     Idle, Of, LeftOpen, shuttingDown, HasResponse
<1>20. ASSUME up, NEW w \in Worker, Answers(w) \/ Fails(w)  PROVE WholeOK'
  BY <1>a, <1>6, <1>20, Zenon
<1>21. QED
  BY <1>1, <1>2, <1>3, <1>3a, <1>4, <1>5, <1>7, <1>8, <1>9, <1>10, <1>11, <1>12, <1>13, <1>14,
     <1>15, <1>16, <1>17, <1>18, <1>19, <1>20, Zenon DEF Next, Process

(* An outcome of another model is one the gate looks at next.               *)
LEMMA StepModels ==
    ASSUME BaselineAssumption, TypeOK, Data, PlacesOK, CasesOK, StopsOK, CompletedIsWhole,
           ModelsOK, [Next]_vars
    PROVE  ModelsOK'
<1>a. \A w \in Worker : Answers(w) \/ Fails(w) =>
        \E place \in {"deliver", "wait"}, err \in Errors, m \in Model \cup {None}, b \in BOOLEAN :
            Settled(w, place, err, m, b) /\ Returned(w, place, err, b)
  BY CallReturns
<1> USE DEF store, producer, work, sinkVars, ctx, fixed, money
<1>1. CASE Start
  BY <1>1 DEF Start, ToMeasure, Of, Idle, NoRow, ModelsOK, ModelsOf, Completed, Data,
     PlacesOK, Placed, Held, StopsOK
<1>2. ASSUME up, NEW c \in Case, Offer(c)
      PROVE  ModelsOK'
  BY <1>2 DEF Offer, ModelsOK, ModelsOf, Completed, Data, PlacesOK, Placed, Held, StopsOK
<1>3. CASE up /\ StopOffering
  BY <1>3 DEF StopOffering, ModelsOK, ModelsOf, Completed, Data, PlacesOK, Placed, Held,
     StopsOK
<1>3a. CASE up /\ SourceFails
  BY <1>3a DEF SourceFails, ModelsOK, ModelsOf, Completed, Data, PlacesOK, Placed, Held,
     StopsOK
<1>4. ASSUME up, NEW w \in Worker, Handoff(w)
      PROVE  ModelsOK'
  BY <1>4 DEF Handoff, To, Of, Idle, ModelsOK, ModelsOf, Completed, Data, PlacesOK, Placed,
     Held, StopsOK
<1>5. ASSUME up, NEW w \in Worker, Authorize(w)
      PROVE  ModelsOK'
  BY <1>5 DEF Authorize, Fits, GivesUp, To, Of, Idle, ModelsOK, ModelsOf, Completed, Data,
     PlacesOK, Placed, Held, StopsOK
<1>6. ASSUME up, NEW w \in Worker, NEW place \in {"deliver", "wait"}, NEW err \in Errors,
           NEW m \in Model \cup {None}, NEW b \in BOOLEAN,
           Settled(w, place, err, m, b), Returned(w, place, err, b)
      PROVE  ModelsOK'
  BY <1>6 DEF Settled, Returned, To, Of, Idle, ModelsOK, ModelsOf, Completed, Data,
     PlacesOK, Placed, Held, StopsOK
<1>7. ASSUME up, NEW w \in Worker, Panics(w)
      PROVE  ModelsOK'
  BY <1>7 DEF Panics, GivesUp, To, Of, Idle, ModelsOK, ModelsOf, Completed, Data, PlacesOK,
     Placed, Held, StopsOK
<1>8. ASSUME up, NEW w \in Worker, Backoff(w)
      PROVE  ModelsOK'
  BY <1>8 DEF Backoff, GivesUp, To, Of, Idle, ModelsOK, ModelsOf, Completed, Data, PlacesOK,
     Placed, Held, StopsOK
<1>9. ASSUME up, NEW w \in Worker, Deliver(w)
      PROVE  ModelsOK'
  BY <1>9 DEF Deliver, To, Of, Idle, ModelsOK, ModelsOf, Completed, Data, PlacesOK, Placed,
     Held, StopsOK
<1>10. ASSUME up, NEW w \in Worker, IsFatal(w)
      PROVE  ModelsOK'
  BY <1>10 DEF IsFatal, fail, To, Of, Idle, ModelsOK, ModelsOf, Completed, Data, PlacesOK,
     Placed, Held, StopsOK
<1>11. CASE up /\ Discard
  BY <1>11 DEF Discard, ModelsOK, ModelsOf, Completed, Data, PlacesOK, Placed, Held, StopsOK
<1>12. CASE up /\ StoreFails
  BY <1>12 DEF StoreFails, fail, ModelsOK, ModelsOf, Completed, Data, PlacesOK, Placed,
     Held, StopsOK
<1>13. CASE up /\ recordOrphanSpend
  BY <1>13 DEF recordOrphanSpend, ModelsOK, ModelsOf, Completed, Data, PlacesOK, Placed,
     Held, StopsOK
<1>14. CASE up /\ RecordOutcome
  <2>1. /\ sink \in Result /\ sink.case \in Case \ Completed /\ sink.case \notin Unpriceable
    BY <1>14 DEF RecordOutcome, LeftOpen, PlacesOK, Held, Data, CasesOK
  <2>2. status # "COMPLETED"
    BY <2>1 DEF CompletedIsWhole
  <2>3. /\ row'[sink.case].model = sink.model
        /\ \A c \in Case \ {sink.case} : row'[c] = row[c]
    BY <1>14, <2>1 DEF RecordOutcome, Completed, TypeOK
  <2>4. UNCHANGED <<up, armed, measured, status>> /\ ~recordedNow
    BY <1>14 DEF RecordOutcome
  <2>5. (recordedNow' /\ sink' = sink) \/ firstErr' # "none"
    BY <1>14 DEF RecordOutcome, fail
  <2>6. firstErr' = "none" => firstErr = "none"
    BY <1>14 DEF RecordOutcome, fail
  <2>7. QED
    BY <2>2, <2>3, <2>4, <2>5, <2>6 DEF ModelsOK
<1>15. CASE up /\ AfterRecord
  <2>1. row' = row /\ status' = status /\ UNCHANGED <<armed, measured>> /\ sink # None
    BY <1>15 DEF AfterRecord
  <2>2. firstErr' = "none" => firstErr = "none" /\ (gateFired \/ ~modelChanged(sink.model))
    BY <1>15 DEF AfterRecord, fail
  <2>3. gateFired => firstErr # "none"
    BY DEF StopsOK
  <2>4. QED
    BY <2>1, <2>2, <2>3, <1>15 DEF ModelsOK, ModelsOf, modelChanged
<1>16. CASE up /\ Cancel
  BY <1>16 DEF Cancel, ModelsOK, ModelsOf, Completed, Data, PlacesOK, Placed, Held, StopsOK
<1>17. CASE up /\ closeRun
  BY <1>17 DEF closeRun, runErr, statusFor, ModelsOK, ModelsOf, PlacesOK, TypeOK
<1>18. CASE up /\ Crash
  BY <1>18 DEF Crash, ModelsOK, ModelsOf, Completed, Data, PlacesOK, Placed, Held, StopsOK
<1>19. CASE UNCHANGED vars
  BY <1>19 DEF vars, ModelsOK, ModelsOf, Completed, Data, PlacesOK, Placed, Held, StopsOK
<1>20. ASSUME up, NEW w \in Worker, Answers(w) \/ Fails(w)  PROVE ModelsOK'
  BY <1>a, <1>6, <1>20, Zenon
<1>21. QED
  BY <1>1, <1>2, <1>3, <1>3a, <1>4, <1>5, <1>7, <1>8, <1>9, <1>10, <1>11, <1>12, <1>13, <1>14,
     <1>15, <1>16, <1>17, <1>18, <1>19, <1>20, Zenon DEF Next, Process

(* Each step moves calls between the workers, the sink, the rows, the       *)
(* orphan column and what is lost, and makes as many as it settles.         *)
LEMMA StepMoney ==
    ASSUME BaselineAssumption, TypeOK, Data, PlacesOK, CasesOK, MoneyOK, [Next]_vars
    PROVE  MoneyOK'
<1>a. \A w \in Worker : Answers(w) \/ Fails(w) =>
        \E place \in {"deliver", "wait"}, err \in Errors, m \in Model \cup {None}, b \in BOOLEAN :
            Settled(w, place, err, m, b) /\ Returned(w, place, err, b)
  BY CallReturns
<1> USE DEF store, producer, work, sinkVars, ctx, fixed, money
<1>1. CASE Start
  <2>1. RowCalls' = RowCalls /\ orphan' = orphan
    BY <1>1 DEF Start, RowCalls
  <2>2. TaskCalls' = 0
    <3>1. \A w \in Worker : task'[w].calls = 0
      BY <1>1 DEF Start, Idle, Of
    <3>2. QED
      BY <3>1, SumOverZero DEF TaskCalls
  <2>3. Cardinality(InCall') = 0
    <3>1. InCall' = {}
      BY <1>1 DEF Start, InCall
    <3>2. QED
      BY <3>1, FS_EmptySet
  <2>4. QED
    BY <1>1, <2>1, <2>2, <2>3, Counts DEF Start, Restore, MoneyOK, SettledSpend, InFlight,
       TypeOK, BaselineAssumption
<1>2. ASSUME up, NEW c \in Case, Offer(c)
      PROVE  MoneyOK'
  <2>1. TaskCalls' = TaskCalls
    BY <1>2 DEF Offer, TaskCalls
  <2>2. RowCalls' = RowCalls
    BY <1>2 DEF Offer, RowCalls
  <2>3. InCall' = InCall
    BY <1>2 DEF Offer, InCall
  <2>4. QED
    BY <1>2, <2>1, <2>2, <2>3, Counts DEF Offer, MoneyOK, SettledSpend, InFlight, TypeOK,
       BaselineAssumption, PlacesOK, Result
<1>3. CASE up /\ StopOffering
  <2>1. TaskCalls' = TaskCalls
    BY <1>3 DEF StopOffering, TaskCalls
  <2>2. RowCalls' = RowCalls
    BY <1>3 DEF StopOffering, RowCalls
  <2>3. InCall' = InCall
    BY <1>3 DEF StopOffering, InCall
  <2>4. QED
    BY <1>3, <2>1, <2>2, <2>3, Counts DEF StopOffering, MoneyOK, SettledSpend, InFlight,
       TypeOK, BaselineAssumption, PlacesOK, Result
<1>3a. CASE up /\ SourceFails
  <2>1. TaskCalls' = TaskCalls
    BY <1>3a DEF SourceFails, TaskCalls
  <2>2. RowCalls' = RowCalls
    BY <1>3a DEF SourceFails, RowCalls
  <2>3. InCall' = InCall
    BY <1>3a DEF SourceFails, InCall
  <2>4. QED
    BY <1>3a, <2>1, <2>2, <2>3, Counts DEF SourceFails, MoneyOK, SettledSpend, InFlight,
       TypeOK, BaselineAssumption, PlacesOK, Result
<1>4. ASSUME up, NEW w \in Worker, Handoff(w)
      PROVE  MoneyOK'
  <2>1. CASE offered \in Unpriceable
    <3>1. To(w, "deliver", Of(offered, 0, "unpriceable", None, FALSE))
          /\ UNCHANGED <<store, up, darkBefore, dark>>
      BY <1>4, <2>1 DEF Handoff, GivesUp
    <3>2. (Of(offered, 0, "unpriceable", None, FALSE)).calls = 0 /\ 0 \in Nat
          /\ task[w].calls \in Nat
      BY <1>4, TaskType DEF Of, Idle, BaselineAssumption
    <3>3. TaskCalls' = TaskCalls - task[w].calls + (0)
      BY <3>1, <3>2, TaskMoves DEF To
    <3>4. RowCalls' = RowCalls /\ orphan' = orphan
      BY <3>1 DEF store, RowCalls
    <3>5. Cardinality(InCall') = Cardinality(InCall) - (IF at[w] = "call" THEN 1 ELSE 0)
                                   + (IF "deliver" = "call" THEN 1 ELSE 0)
      BY <3>1, CallsMove DEF To
    <3>6. QED
      BY <1>4, <2>1, <3>1, <3>2, <3>3, <3>4, <3>5, Counts DEF Handoff, MoneyOK,
         SettledSpend, InFlight, TypeOK, BaselineAssumption, PlacesOK, Placed, Idle, Of,
         Result
  <2>2. CASE offered \notin Unpriceable
    <3>1. To(w, "authorize", Of(offered, 0, "none", None, FALSE))
          /\ UNCHANGED <<store, up, darkBefore, dark>>
      BY <1>4, <2>2 DEF Handoff, GivesUp
    <3>2. (Of(offered, 0, "none", None, FALSE)).calls = 0 /\ 0 \in Nat
          /\ task[w].calls \in Nat
      BY <1>4, TaskType DEF Of, Idle, BaselineAssumption
    <3>3. TaskCalls' = TaskCalls - task[w].calls + (0)
      BY <3>1, <3>2, TaskMoves DEF To
    <3>4. RowCalls' = RowCalls /\ orphan' = orphan
      BY <3>1 DEF store, RowCalls
    <3>5. Cardinality(InCall') = Cardinality(InCall) - (IF at[w] = "call" THEN 1 ELSE 0)
                                   + (IF "authorize" = "call" THEN 1 ELSE 0)
      BY <3>1, CallsMove DEF To
    <3>6. QED
      BY <1>4, <2>2, <3>1, <3>2, <3>3, <3>4, <3>5, Counts DEF Handoff, MoneyOK,
         SettledSpend, InFlight, TypeOK, BaselineAssumption, PlacesOK, Placed, Idle, Of,
         Result
  <2>3. QED
    BY <1>4, <2>1, <2>2 DEF Handoff
<1>5. ASSUME up, NEW w \in Worker, Authorize(w)
      PROVE  MoneyOK'
  <2>1. CASE ~runDone /\ Fits
    <3>1. To(w, "call", task[w])
          /\ UNCHANGED <<store, up, darkBefore, dark>>
      BY <1>5, <2>1 DEF Authorize, GivesUp
    <3>2. task[w].calls \in Nat
      BY <1>5, TaskType DEF Of, Idle, BaselineAssumption
    <3>3. TaskCalls' = TaskCalls - task[w].calls + (task[w].calls)
      BY <3>1, <3>2, TaskMoves DEF To
    <3>4. RowCalls' = RowCalls /\ orphan' = orphan
      BY <3>1 DEF store, RowCalls
    <3>5. Cardinality(InCall') = Cardinality(InCall) - (IF at[w] = "call" THEN 1 ELSE 0)
                                   + (IF "call" = "call" THEN 1 ELSE 0)
      BY <3>1, CallsMove DEF To
    <3>6. QED
      BY <1>5, <2>1, <3>1, <3>2, <3>3, <3>4, <3>5, Counts DEF Authorize, Fits, MoneyOK,
         SettledSpend, InFlight, TypeOK, BaselineAssumption, PlacesOK, Placed, Idle, Of,
         Result
  <2>2. CASE ~runDone /\ ~Fits
    <3>1. To(w, "deliver", Of(task[w].case, task[w].calls, "budget", None, FALSE))
          /\ UNCHANGED <<store, up, darkBefore, dark>>
      BY <1>5, <2>2 DEF Authorize, GivesUp
    <3>2. /\ (Of(task[w].case, task[w].calls, "budget", None, FALSE)).calls = task[w].calls
          /\ task[w].calls \in Nat
      BY <1>5, TaskType DEF Of, Idle, BaselineAssumption
    <3>3. TaskCalls' = TaskCalls - task[w].calls + (task[w].calls)
      BY <3>1, <3>2, TaskMoves DEF To
    <3>4. RowCalls' = RowCalls /\ orphan' = orphan
      BY <3>1 DEF store, RowCalls
    <3>5. Cardinality(InCall') = Cardinality(InCall) - (IF at[w] = "call" THEN 1 ELSE 0)
                                   + (IF "deliver" = "call" THEN 1 ELSE 0)
      BY <3>1, CallsMove DEF To
    <3>6. QED
      BY <1>5, <2>2, <3>1, <3>2, <3>3, <3>4, <3>5, Counts DEF Authorize, Fits, MoneyOK,
         SettledSpend, InFlight, TypeOK, BaselineAssumption, PlacesOK, Placed, Idle, Of,
         Result
  <2>3. CASE runDone
    <3>1. To(w, "deliver", Of(task[w].case, task[w].calls, "cancelled", None, TRUE))
          /\ UNCHANGED <<store, up, darkBefore, dark>>
      BY <1>5, <2>3 DEF Authorize, GivesUp
    <3>2. /\ (Of(task[w].case, task[w].calls, "cancelled", None, TRUE)).calls = task[w].calls
          /\ task[w].calls \in Nat
      BY <1>5, TaskType DEF Of, Idle, BaselineAssumption
    <3>3. TaskCalls' = TaskCalls - task[w].calls + (task[w].calls)
      BY <3>1, <3>2, TaskMoves DEF To
    <3>4. RowCalls' = RowCalls /\ orphan' = orphan
      BY <3>1 DEF store, RowCalls
    <3>5. Cardinality(InCall') = Cardinality(InCall) - (IF at[w] = "call" THEN 1 ELSE 0)
                                   + (IF "deliver" = "call" THEN 1 ELSE 0)
      BY <3>1, CallsMove DEF To
    <3>6. QED
      BY <1>5, <2>3, <3>1, <3>2, <3>3, <3>4, <3>5, Counts DEF Authorize, Fits, MoneyOK,
         SettledSpend, InFlight, TypeOK, BaselineAssumption, PlacesOK, Placed, Idle, Of,
         Result
  <2>4. QED
    BY <1>5, <2>1, <2>2, <2>3 DEF Authorize
<1>6. ASSUME up, NEW w \in Worker, NEW place \in {"deliver", "wait"}, NEW err \in Errors,
           NEW m \in Model \cup {None}, NEW b \in BOOLEAN,
           Settled(w, place, err, m, b), Returned(w, place, err, b)
      PROVE  MoneyOK'
  <2>1. To(w, place, Of(task[w].case, task[w].calls + 1, err, m, b))
        /\ UNCHANGED <<store, up, darkBefore, dark>>
    BY <1>6 DEF Settled, GivesUp
  <2>2. /\ (Of(task[w].case, task[w].calls + 1, err, m, b)).calls = task[w].calls + 1
        /\ task[w].calls + 1 \in Nat
        /\ task[w].calls \in Nat
    BY <1>6, TaskType DEF Of, Idle, BaselineAssumption
  <2>3. TaskCalls' = TaskCalls - task[w].calls + (task[w].calls + 1)
    BY <2>1, <2>2, TaskMoves DEF To
  <2>4. RowCalls' = RowCalls /\ orphan' = orphan
    BY <2>1 DEF store, RowCalls
  <2>5. Cardinality(InCall') = Cardinality(InCall) - (IF at[w] = "call" THEN 1 ELSE 0)
                                 + (IF place = "call" THEN 1 ELSE 0)
    BY <2>1, CallsMove DEF To
  <2>6. /\ at[w] = "call" /\ place # "call" /\ spent' = spent + 1 /\ made' = made + 1
        /\ UNCHANGED <<dark, darkBefore, unsettled, up, sink, recordedNow>>
    BY <1>6 DEF Settled
  <2>7. SettledSpend' = SettledSpend /\ InFlight' = InFlight + 1
    <3>1. TaskCalls' = TaskCalls + 1 /\ TaskCalls \in Nat
      BY <2>2, <2>3, Counts
    <3>2. (IF sink = None \/ recordedNow THEN 0 ELSE sink.calls) \in Nat
      BY DEF TypeOK, Result, BaselineAssumption
    <3>3. InFlight' = TaskCalls' + (IF sink = None \/ recordedNow THEN 0 ELSE sink.calls)
      BY <2>6 DEF InFlight
    <3>4. QED
      BY <2>4, <3>1, <3>2, <3>3 DEF SettledSpend, InFlight
  <2>8. Cardinality(InCall') = Cardinality(InCall) - 1
    BY <2>5, <2>6, Counts
  <2>9. SettledSpend \in Nat /\ InFlight \in Nat
    BY Counts DEF SettledSpend, InFlight, TypeOK, Result, BaselineAssumption
  <2>10. QED
    BY <1>6, <2>6, <2>7, <2>8, <2>9, Counts DEF MoneyOK, TypeOK, BaselineAssumption
<1>7. ASSUME up, NEW w \in Worker, Panics(w)
      PROVE  MoneyOK'
  <2>1. To(w, "deliver", Of(task[w].case, task[w].calls, "panic", None, FALSE))
        /\ UNCHANGED <<store, up, darkBefore, dark>>
    BY <1>7 DEF Panics, GivesUp
  <2>2. /\ (Of(task[w].case, task[w].calls, "panic", None, FALSE)).calls = task[w].calls
        /\ task[w].calls \in Nat
    BY <1>7, TaskType DEF Of, Idle, BaselineAssumption
  <2>3. TaskCalls' = TaskCalls - task[w].calls + (task[w].calls)
    BY <2>1, <2>2, TaskMoves DEF To
  <2>4. RowCalls' = RowCalls /\ orphan' = orphan
    BY <2>1 DEF store, RowCalls
  <2>5. Cardinality(InCall') = Cardinality(InCall) - (IF at[w] = "call" THEN 1 ELSE 0)
                                 + (IF "deliver" = "call" THEN 1 ELSE 0)
    BY <2>1, CallsMove DEF To
  <2>6. PICK n \in {0, 1} : made' = made + n /\ unsettled' = unsettled + n
    BY <1>7 DEF Panics
  <2>7. QED
    BY <1>7, <2>1, <2>2, <2>3, <2>4, <2>5, <2>6, Counts DEF Panics, MoneyOK, SettledSpend,
       InFlight, TypeOK, BaselineAssumption, PlacesOK, Placed, Idle, Of, Result
<1>8. ASSUME up, NEW w \in Worker, Backoff(w)
      PROVE  MoneyOK'
  <2>1. CASE To(w, "authorize", task[w])
    <3>1. To(w, "authorize", task[w])
          /\ UNCHANGED <<store, up, darkBefore, dark>>
      BY <1>8, <2>1 DEF Backoff, GivesUp
    <3>2. task[w].calls \in Nat
      BY <1>8, TaskType DEF Of, Idle, BaselineAssumption
    <3>3. TaskCalls' = TaskCalls - task[w].calls + (task[w].calls)
      BY <3>1, <3>2, TaskMoves DEF To
    <3>4. RowCalls' = RowCalls /\ orphan' = orphan
      BY <3>1 DEF store, RowCalls
    <3>5. Cardinality(InCall') = Cardinality(InCall) - (IF at[w] = "call" THEN 1 ELSE 0)
                                   + (IF "authorize" = "call" THEN 1 ELSE 0)
      BY <3>1, CallsMove DEF To
    <3>6. QED
      BY <1>8, <2>1, <3>1, <3>2, <3>3, <3>4, <3>5, Counts DEF Backoff, MoneyOK,
         SettledSpend, InFlight, TypeOK, BaselineAssumption, PlacesOK, Placed, Idle, Of,
         Result
  <2>2. CASE runDone /\ GivesUp(w, "cancelled", TRUE)
    <3>1. To(w, "deliver", Of(task[w].case, task[w].calls, "cancelled", None, TRUE))
          /\ UNCHANGED <<store, up, darkBefore, dark>>
      BY <1>8, <2>2 DEF Backoff, GivesUp
    <3>2. /\ (Of(task[w].case, task[w].calls, "cancelled", None, TRUE)).calls = task[w].calls
          /\ task[w].calls \in Nat
      BY <1>8, TaskType DEF Of, Idle, BaselineAssumption
    <3>3. TaskCalls' = TaskCalls - task[w].calls + (task[w].calls)
      BY <3>1, <3>2, TaskMoves DEF To
    <3>4. RowCalls' = RowCalls /\ orphan' = orphan
      BY <3>1 DEF store, RowCalls
    <3>5. Cardinality(InCall') = Cardinality(InCall) - (IF at[w] = "call" THEN 1 ELSE 0)
                                   + (IF "deliver" = "call" THEN 1 ELSE 0)
      BY <3>1, CallsMove DEF To
    <3>6. QED
      BY <1>8, <2>2, <3>1, <3>2, <3>3, <3>4, <3>5, Counts DEF Backoff, MoneyOK,
         SettledSpend, InFlight, TypeOK, BaselineAssumption, PlacesOK, Placed, Idle, Of,
         Result
  <2>3. QED
    BY <1>8, <2>1, <2>2 DEF Backoff
<1>9. ASSUME up, NEW w \in Worker, Deliver(w)
      PROVE  MoneyOK'
  <2>1. CASE task[w].err \in {"budget", "fatal"}
    <3>1. To(w, "isFatal", Of(None, 0, task[w].err, None, FALSE))
          /\ UNCHANGED <<store, up, darkBefore, dark>>
      BY <1>9, <2>1 DEF Deliver, GivesUp
    <3>2. (Of(None, 0, task[w].err, None, FALSE)).calls = 0 /\ 0 \in Nat
          /\ task[w].calls \in Nat
      BY <1>9, TaskType DEF Of, Idle, BaselineAssumption
    <3>3. TaskCalls' = TaskCalls - task[w].calls + (0)
      BY <3>1, <3>2, TaskMoves DEF To
    <3>4. RowCalls' = RowCalls /\ orphan' = orphan
      BY <3>1 DEF store, RowCalls
    <3>5. Cardinality(InCall') = Cardinality(InCall) - (IF at[w] = "call" THEN 1 ELSE 0)
                                   + (IF "isFatal" = "call" THEN 1 ELSE 0)
      BY <3>1, CallsMove DEF To
    <3>6. QED
      BY <1>9, <2>1, <3>1, <3>2, <3>3, <3>4, <3>5, Counts DEF Deliver, MoneyOK,
         SettledSpend, InFlight, TypeOK, BaselineAssumption, PlacesOK, Placed, Idle, Of,
         Result
  <2>2. CASE task[w].err \notin {"budget", "fatal"}
    <3>1. To(w, "idle", Idle)
          /\ UNCHANGED <<store, up, darkBefore, dark>>
      BY <1>9, <2>2 DEF Deliver, GivesUp
    <3>2. Idle.calls = 0 /\ 0 \in Nat /\ task[w].calls \in Nat
      BY <1>9, TaskType DEF Of, Idle, BaselineAssumption
    <3>3. TaskCalls' = TaskCalls - task[w].calls + (0)
      BY <3>1, <3>2, TaskMoves DEF To
    <3>4. RowCalls' = RowCalls /\ orphan' = orphan
      BY <3>1 DEF store, RowCalls
    <3>5. Cardinality(InCall') = Cardinality(InCall) - (IF at[w] = "call" THEN 1 ELSE 0)
                                   + (IF "idle" = "call" THEN 1 ELSE 0)
      BY <3>1, CallsMove DEF To
    <3>6. QED
      BY <1>9, <2>2, <3>1, <3>2, <3>3, <3>4, <3>5, Counts DEF Deliver, MoneyOK,
         SettledSpend, InFlight, TypeOK, BaselineAssumption, PlacesOK, Placed, Idle, Of,
         Result
  <2>3. QED
    BY <1>9, <2>1, <2>2 DEF Deliver
<1>10. ASSUME up, NEW w \in Worker, IsFatal(w)
      PROVE  MoneyOK'
  <2>1. To(w, "gone", Idle)
        /\ UNCHANGED <<store, up, darkBefore, dark>>
    BY <1>10 DEF IsFatal, GivesUp
  <2>2. Idle.calls = 0 /\ 0 \in Nat /\ task[w].calls \in Nat
    BY <1>10, TaskType DEF Of, Idle, BaselineAssumption
  <2>3. TaskCalls' = TaskCalls - task[w].calls + (0)
    BY <2>1, <2>2, TaskMoves DEF To
  <2>4. RowCalls' = RowCalls /\ orphan' = orphan
    BY <2>1 DEF store, RowCalls
  <2>5. Cardinality(InCall') = Cardinality(InCall) - (IF at[w] = "call" THEN 1 ELSE 0)
                                 + (IF "gone" = "call" THEN 1 ELSE 0)
    BY <2>1, CallsMove DEF To
  <2>6. QED
    BY <1>10, <2>1, <2>2, <2>3, <2>4, <2>5, Counts DEF IsFatal, MoneyOK, SettledSpend,
       InFlight, TypeOK, BaselineAssumption, PlacesOK, Placed, Idle, Of, Result
<1>11. CASE up /\ Discard
  <2>1. TaskCalls' = TaskCalls
    BY <1>11 DEF Discard, TaskCalls
  <2>2. RowCalls' = RowCalls
    BY <1>11 DEF Discard, RowCalls
  <2>3. InCall' = InCall
    BY <1>11 DEF Discard, InCall
  <2>4. QED
    BY <1>11, <2>1, <2>2, <2>3, Counts DEF Discard, MoneyOK, SettledSpend, InFlight,
       TypeOK, BaselineAssumption, PlacesOK, Result
<1>12. CASE up /\ StoreFails
  <2>1. TaskCalls' = TaskCalls
    BY <1>12 DEF StoreFails, fail, TaskCalls
  <2>2. RowCalls' = RowCalls
    BY <1>12 DEF StoreFails, fail, RowCalls
  <2>3. InCall' = InCall
    BY <1>12 DEF StoreFails, fail, InCall
  <2>4. QED
    BY <1>12, <2>1, <2>2, <2>3, Counts DEF StoreFails, fail, MoneyOK, SettledSpend,
       InFlight, TypeOK, BaselineAssumption, PlacesOK, Result
<1>13. CASE up /\ recordOrphanSpend
  <2>1. TaskCalls' = TaskCalls
    BY <1>13 DEF recordOrphanSpend, TaskCalls
  <2>2. RowCalls' = RowCalls
    BY <1>13 DEF recordOrphanSpend, RowCalls
  <2>3. InCall' = InCall
    BY <1>13 DEF recordOrphanSpend, InCall
  <2>4. QED
    BY <1>13, <2>1, <2>2, <2>3, Counts DEF recordOrphanSpend, MoneyOK, SettledSpend,
       InFlight, TypeOK, BaselineAssumption, PlacesOK, Result
<1>14. CASE up /\ RecordOutcome
  <2>1. /\ sink \in Result /\ sink.case \in Case \ Completed /\ sink.calls \in Nat
    BY <1>14 DEF RecordOutcome, PlacesOK, Held, Data, CasesOK, Result, BaselineAssumption
  <2> DEFINE r == [kind  |-> IF sink.err = "none" THEN "scored" ELSE "errored",
                   calls |-> sink.calls, model |-> sink.model]
  <2>2. row' = [row EXCEPT ![sink.case] = r]
    BY <1>14, <2>1 DEF RecordOutcome, Completed
  <2>3. RowCalls' = RowCalls - row[sink.case].calls + r.calls
    BY <2>1, <2>2, RowMoves
  <2>4. row[sink.case].calls = 0
    BY <2>1 DEF CasesOK, NoRow
  <2>5. TaskCalls' = TaskCalls /\ InCall' = InCall
    BY <1>14 DEF RecordOutcome, TaskCalls, InCall
  <2>6. /\ UNCHANGED <<orphan, up, spent, made, dark, darkBefore, unsettled>> /\ ~recordedNow /\ sink # None
        /\ sink' = None \/ recordedNow'
    BY <1>14 DEF RecordOutcome
  <2>7. QED
    BY <1>14, <2>1, <2>3, <2>4, <2>5, <2>6, Counts DEF MoneyOK, SettledSpend, InFlight,
       TypeOK, BaselineAssumption
<1>15. CASE up /\ AfterRecord
  <2>1. TaskCalls' = TaskCalls
    BY <1>15 DEF AfterRecord, fail, TaskCalls
  <2>2. RowCalls' = RowCalls
    BY <1>15 DEF AfterRecord, fail, RowCalls
  <2>3. InCall' = InCall
    BY <1>15 DEF AfterRecord, fail, InCall
  <2>4. QED
    BY <1>15, <2>1, <2>2, <2>3, Counts DEF AfterRecord, fail, MoneyOK, SettledSpend,
       InFlight, TypeOK, BaselineAssumption, PlacesOK, Result
<1>16. CASE up /\ Cancel
  <2>1. TaskCalls' = TaskCalls
    BY <1>16 DEF Cancel, TaskCalls
  <2>2. RowCalls' = RowCalls
    BY <1>16 DEF Cancel, RowCalls
  <2>3. InCall' = InCall
    BY <1>16 DEF Cancel, InCall
  <2>4. QED
    BY <1>16, <2>1, <2>2, <2>3, Counts DEF Cancel, MoneyOK, SettledSpend, InFlight,
       TypeOK, BaselineAssumption, PlacesOK, Result
<1>17. CASE up /\ closeRun
  <2>1. TaskCalls = 0
    <3>1. \A w \in Worker : task[w].calls = 0
      BY <1>17 DEF closeRun, PlacesOK, Placed, Idle, Of
    <3>2. QED
      BY <3>1, SumOverZero DEF TaskCalls
  <2>2. RowCalls' = RowCalls /\ orphan' = orphan /\ made' = made /\ dark' = dark
        /\ unsettled' = unsettled /\ sink = None /\ ~up'
    BY <1>17 DEF closeRun, RowCalls, money
  <2>3. QED
    BY <1>17, <2>1, <2>2, Counts DEF MoneyOK, SettledSpend, InFlight, TypeOK,
       BaselineAssumption
<1>18. CASE up /\ Crash
  <2>1. RowCalls' = RowCalls /\ orphan' = orphan /\ ~up'
    BY <1>18 DEF Crash, RowCalls, store
  <2>2. InFlight \in Nat
    BY Counts DEF InFlight, TypeOK, Result, BaselineAssumption
  <2>3. QED
    BY <1>18, <2>1, <2>2, Counts DEF Crash, MoneyOK, SettledSpend, TypeOK, BaselineAssumption
<1>19. CASE UNCHANGED vars
  <2>1. TaskCalls' = TaskCalls
    BY <1>19 DEF vars, TaskCalls
  <2>2. RowCalls' = RowCalls
    BY <1>19 DEF vars, RowCalls
  <2>3. InCall' = InCall
    BY <1>19 DEF vars, InCall
  <2>4. QED
    BY <1>19, <2>1, <2>2, <2>3 DEF vars, MoneyOK, SettledSpend, InFlight
<1>20. ASSUME up, NEW w \in Worker, Answers(w) \/ Fails(w)  PROVE MoneyOK'
  BY <1>a, <1>6, <1>20, Zenon
<1>21. QED
  BY <1>1, <1>2, <1>3, <1>3a, <1>4, <1>5, <1>7, <1>8, <1>9, <1>10, <1>11, <1>12, <1>13, <1>14,
     <1>15, <1>16, <1>17, <1>18, <1>19, <1>20, Zenon DEF Next, Process

(* The store is empty and no process is up.                                 *)
LEMMA InitIInv == BaselineAssumption /\ Init => IInv
<1> SUFFICES ASSUME BaselineAssumption, Init  PROVE IInv
  OBVIOUS
<1>1. TypeOK
  <2>1. row \in [Case -> [kind : {"none", "scored", "errored"}, calls : 0..MaxAttempts,
                         model : Model \cup {None}]]
    BY DEF Init, NoRow, BaselineAssumption
  <2>2. task \in [Worker -> Result]
    BY IdleType DEF Init
  <2>3. at \in [Worker -> {"idle", "authorize", "call", "wait", "deliver", "isFatal", "gone"}]
    BY DEF Init
  <2>4. /\ status \in {"ABSENT", "RUNNING", "COMPLETED", "BUDGET_STOPPED", "INTERRUPTED", "FAILED"}
        /\ recordedModels \subseteq Model /\ armed \subseteq Model /\ measured \subseteq Model
        /\ left \subseteq Case /\ cutShort \subseteq Case /\ offered \in Case \cup {None}
        /\ sink \in Result \cup {None}
    BY DEF Init
  <2>5. /\ spent \in 0..Cap /\ orphan \in Nat /\ processes \in 0..MaxProcesses
        /\ made \in Nat /\ dark \in Nat /\ darkBefore \in Nat
      /\ unsettled \in Nat /\ sourceErr \in {"none", "source", "cancelled"}
    BY DEF Init, BaselineAssumption
  <2>6. QED
    BY <2>1, <2>2, <2>3, <2>4, <2>5 DEF Init, TypeOK
<1>2. PlacesOK /\ CasesOK /\ StopsOK
  BY DEF Init, PlacesOK, Placed, CasesOK, StopsOK, Completed, NoRow, Idle, Of,
     BaselineAssumption
<1>3. WholeOK /\ CompletedIsWhole /\ ModelsOK
  BY DEF Init, WholeOK, CompletedIsWhole, ModelsOK
<1>4. RowCalls = 0
  <2>1. \A c \in Case : row[c].calls = 0
    BY DEF Init, NoRow
  <2>2. QED
    BY <2>1, SumOverZero DEF RowCalls
<1>5. MoneyOK
  BY <1>4 DEF Init, MoneyOK, SettledSpend, BaselineAssumption
<1>6. QED
  BY <1>1, <1>2, <1>3, <1>5 DEF IInv

(* Every step preserves the invariant.                                      *)
LEMMA NextIInv == BaselineAssumption /\ IInv /\ [Next]_vars => IInv'
<1> SUFFICES ASSUME BaselineAssumption, IInv, [Next]_vars  PROVE IInv'
  OBVIOUS
<1>1. TypeOK /\ PlacesOK /\ CasesOK /\ MoneyOK /\ StopsOK /\ WholeOK /\ CompletedIsWhole /\ ModelsOK
  BY DEF IInv
<1>2. Data
  BY <1>1 DEF Data, TypeOK, Places, BaselineAssumption
<1>3. TypeOK' /\ PlacesOK'
  BY <1>1, <1>2, StepType, StepPlaces
<1>4. CasesOK' /\ StopsOK'
  BY <1>1, <1>2, StepCases, StepStops
<1>5. MoneyOK' /\ WholeOK'
  BY <1>1, <1>2, StepMoney, StepWhole
<1>6. CompletedIsWhole' /\ ModelsOK'
  BY <1>1, <1>2, StepCompleted, StepModels
<1>7. QED
  BY <1>3, <1>4, <1>5, <1>6 DEF IInv

(* The invariant holds in every process of the run and between them.        *)
LEMMA BaselineInvariant == Spec => []IInv
BY InitIInv, NextIInv, BaselineAssumption, PTL DEF Spec

(* The records of a run and of its processes keep their types.              *)
THEOREM BaselineTypeCorrect == Spec => []TypeOK
<1>1. IInv => TypeOK
  BY DEF IInv
<1>2. QED
  BY <1>1, BaselineInvariant, PTL

(* For any number of cases, workers, attempts and processes, what the guard *)
(* spent is in the store, on its way there, or lost with a sink that        *)
(* failed.                                                                  *)
THEOREM MoneyIsConserved == Spec => []SpendConserved
<1>1. IInv => SpendConserved
  <2> SUFFICES ASSUME IInv, up  PROVE spent = SettledSpend + InFlight + (dark - darkBefore)
    BY DEF SpendConserved
  <2>1. SettledSpend \in Nat /\ InFlight \in Nat
    BY Counts, BaselineAssumption DEF IInv, TypeOK, SettledSpend, InFlight, Result,
       BaselineAssumption
  <2>2. spent \in Int /\ dark \in Int /\ darkBefore \in Int
    BY BaselineAssumption DEF IInv, TypeOK, BaselineAssumption
  <2>3. spent + darkBefore = SettledSpend + InFlight + dark
    BY DEF IInv, MoneyOK
  <2>4. QED
    BY <2>1, <2>2, <2>3
<1>2. QED
  BY <1>1, BaselineInvariant, PTL

(* However often the run is killed and resumed, the provider is called no   *)
(* oftener than the cap allows, but for the calls no record could keep.     *)
THEOREM CapOutlivesProcesses == Spec => []CapSurvivesRestart
<1>1. IInv => CapSurvivesRestart
  BY Counts, BaselineAssumption DEF IInv, MoneyOK, CapSurvivesRestart, TypeOK,
     BaselineAssumption
<1>2. QED
  BY <1>1, BaselineInvariant, PTL

(* COMPLETED means an outcome for every case that could be priced.          *)
THEOREM CompletedRunsAreWhole == Spec => []CompletedIsWhole
<1>1. IInv => CompletedIsWhole
  BY DEF IInv
<1>2. QED
  BY <1>1, BaselineInvariant, PTL

(* No worker has a case that has an outcome, or that another worker has.    *)
THEOREM CasesAreMeasuredOnce == Spec => []MeasuredOnce
<1>1. IInv => MeasuredOnce
  BY DEF IInv, CasesOK, MeasuredOnce
<1>2. QED
  BY <1>1, BaselineInvariant, PTL

(* A gated resume that completes added no outcome of another model.         *)
THEOREM GatedRunsAreOneModel == Spec => []GatedRunIsOneModel
<1>1. IInv => GatedRunIsOneModel
  BY DEF IInv, ModelsOK, GatedRunIsOneModel
<1>2. QED
  BY <1>1, BaselineInvariant, PTL

(* A case that the run itself cut short is closed only by the gate.         *)
THEOREM OnlyTheGateCutsShort == Spec => OnlyTheGateClosesCases
<1>1. ASSUME IInv, [Next]_vars  PROVE [cutShort' # cutShort => gateFired]_vars
  <2>1. CASE ~RecordOutcome
    <3>1. cutShort' = cutShort
      BY <1>1, <2>1, Zenon DEF Next, Process, Start, Offer, StopOffering, SourceFails, Handoff,
         Authorize, Answers,
         Fails, Settled, Panics, Backoff, Deliver, IsFatal, Discard, StoreFails, recordOrphanSpend,
         AfterRecord, Cancel, closeRun, Crash, vars
    <3>2. QED
      BY <3>1
  <2>2. CASE RecordOutcome
    <3>1. cutShort' # cutShort => sink.byStop
      BY <2>2 DEF RecordOutcome
    <3>2. sink.byStop => sink.err = "cancelled" /\ runDone
      BY <1>1, <2>2 DEF RecordOutcome, IInv, PlacesOK, Held
    <3>3. sink.err = "cancelled" => ~userDone /\ stopReason = "none" /\ ~sinkBroken
      BY <2>2 DEF RecordOutcome, LeftOpen, HasResponse, shuttingDown
    <3>4. runDone /\ ~userDone /\ stopReason = "none" /\ ~sinkBroken => gateFired
      BY <1>1 DEF IInv, StopsOK, TypeOK
    <3>5. QED
      BY <3>1, <3>2, <3>3, <3>4
  <2>3. QED
    BY <2>1, <2>2
<1>2. QED
  BY <1>1, BaselineInvariant, PTL DEF Spec, OnlyTheGateClosesCases

=============================================================================
