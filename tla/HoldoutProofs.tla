--------------------------- MODULE HoldoutProofs ----------------------------
(***************************************************************************)
(* For every set of processes, Portfolios, runs and cases, and for every   *)
(* number of trials: the types; that one run looks at the holdout for a    *)
(* Portfolio unless two raced; that a resume reads only the cases no       *)
(* earlier process has; that a Validation is of every measurement.         *)
(***************************************************************************)
EXTENDS HoldoutUse, FiniteSetTheorems, TLAPS

USE HoldoutAssumption

-----------------------------------------------------------------------------
(* How many uses there are. *)

(* The uses of a holdout are finitely many. *)
LEMMA UsesNat == Uses \in Nat
<1> DEFINE used == {f \in Portfolio : use[f] # None}
<1>1. IsFiniteSet(used)
  BY FS_Subset
<1>2. QED
  BY <1>1, FS_CardinalityType DEF Uses

(* The record of a Portfolio that had none is one more use; the statement   *)
(* ignores one that had.                                                    *)
LEMMA OneMoreUse ==
    ASSUME use \in [Portfolio -> UseRecord \cup {None}],
           NEW f \in Portfolio, NEW u \in UseRecord, use' = [use EXCEPT ![f] = u]
    PROVE  Uses' = IF use[f] # None THEN Uses ELSE Uses + 1
<1> DEFINE used == {g \in Portfolio : use[g] # None}
<1>1. IsFiniteSet(used)
  BY FS_Subset
<1>2. u # None
  OBVIOUS
<1>3. {g \in Portfolio : use'[g] # None} = used \cup {f}
  BY <1>2
<1>4. CASE use[f] # None
  <2>1. used \cup {f} = used
    BY <1>4
  <2>2. QED
    BY <1>3, <1>4, <2>1 DEF Uses
<1>5. CASE use[f] = None
  <2>1. f \notin used
    BY <1>5
  <2> HIDE DEF used
  <2>2. Cardinality(used \cup {f}) = Cardinality(used) + 1
    BY <1>1, <2>1, FS_AddElement
  <2>3. QED
    BY <1>3, <1>5, <2>2 DEF Uses, used
<1>6. QED
  BY <1>4, <1>5

-----------------------------------------------------------------------------
(* Types. *)

(* The initial state is typed. *)
LEMMA InitType == Init => TypeOK
<1> SUFFICES ASSUME Init PROVE TypeOK
  OBVIOUS
<1> USE DEF Init
<1>1. row \in [RunId -> [Key -> Row]]
  BY DEF NoRow, Row
<1>2. pass \in [Proc -> 1..(2 * Trials)]
  OBVIOUS
<1>3. QED
  BY <1>1, <1>2 DEF TypeOK

(* Whatever ends a process resets what it holds to the values of Init. *)
LEMMA EndsType ==
    ASSUME TypeOK, NEW p \in Proc, Ends(p), UNCHANGED <<use, owner, row, validation>>,
           status' \in [RunId -> {"ABSENT", "RUNNING", "COMPLETED", "BUDGET_STOPPED", "INTERRUPTED"}]
    PROVE  TypeOK'
BY DEF TypeOK, Ends, history

(* A pass of an arm is of an arm and a trial there are. *)
LEMMA KeysAreKeys ==
    ASSUME NEW i \in 1..(2 * Trials), NEW c \in Case PROVE KeyOf(i, c) \in Key
<1>1. ((i - 1) % Trials) + 1 \in 1..Trials
  OBVIOUS
<1>2. Passes[i].arm \in {"control", "treatment"} /\ Passes[i].trial \in 1..Trials
  BY <1>1 DEF Passes
<1>3. QED
  BY <1>2 DEF KeyOf, Key

(* What a process still has to measure are cases. *)
LEMMA CasesToMeasure ==
    ASSUME NEW i, NEW done PROVE ToMeasure(i, done) \in SUBSET Case
BY DEF ToMeasure

(* A measurement that is recorded is a row, and no other row changes. *)
LEMMA RecordedType ==
    ASSUME row \in [RunId -> [Key -> Row]], NEW r \in RunId, NEW k \in Key,
           NEW kind \in {"scored", "errored", "unpriced", "panic"}, NEW n \in {0, 1},
           RecordMeasurement(r, k, kind, n)
    PROVE  row' \in [RunId -> [Key -> Row]]
<1> DEFINE new == [kind |-> kind, calls |-> n]
<1>1. new \in Row
  BY DEF Row
<1>2. row' = row \/ row' = [row EXCEPT ![r][k] = new]
  BY DEF RecordMeasurement
<1> HIDE DEF new
<1>3. QED
  BY <1>1, <1>2

(* Every step keeps the types. *)
LEMMA NextType ==
    ASSUME TypeOK, ProcessesHaveJobs, NEW p \in Proc, Step(p)
    PROVE  TypeOK'
<1> USE DEF store, work, stops, fixed, history
<1>1. at[p] # "idle" => job[p] \in Jobs /\ job[p].run \in RunId /\ job[p].portfolio \in Portfolio
  BY DEF TypeOK, ProcessesHaveJobs, Jobs
<1>2. ASSUME NEW j \in Jobs, NEW c \in Caps, Check(p, j, c) PROVE TypeOK'
  <2>1. UseIndex(j) \in Nat
    BY <1>2, UsesNat DEF TypeOK, UseIndex, Check, oneShot, Jobs, UseRecord
  <2>2. j.run \in RunId
    BY DEF Jobs
  <2>3. QED
    BY <1>2, <2>1, <2>2 DEF TypeOK, Check
<1>3. CASE CreateRun(p)
  BY <1>1, <1>3 DEF TypeOK, CreateRun
<1>4. CASE RecordHoldoutUse(p)
  <2>1. job[p].run \in RunId /\ job[p].portfolio \in Portfolio
    BY <1>1, <1>4 DEF RecordHoldoutUse
  <2>2. Recorded(job[p]) \in UseRecord
    BY <2>1, UsesNat DEF TypeOK, Recorded, UseRecord
  <2>3. QED
    BY <1>4, <2>1, <2>2, CasesToMeasure DEF TypeOK, RecordHoldoutUse, Opens
<1>5. CASE OpenCheckpoint(p)
  <2>1. CompletedMeasurements(job[p].run) \in SUBSET Key
    BY DEF CompletedMeasurements, Done
  <2>2. QED
    BY <1>5, <2>1, CasesToMeasure DEF TypeOK, OpenCheckpoint, Opens
<1>6. CASE Take(p)
  <2>1. \A c \in left[p] : KeyOf(pass[p], c) \in Key
    BY KeysAreKeys DEF TypeOK
  <2>2. calling' \in [Proc -> SUBSET Key] /\ left' \in [Proc -> SUBSET Case]
    <3>1. PICK c \in left[p] :
             /\ \/ calling' = [calling EXCEPT ![p] = @ \cup {KeyOf(pass[p], c)}]
                \/ UNCHANGED calling
             /\ \/ left' = [left EXCEPT ![p] = @ \ {c}]
                \/ left' = [left EXCEPT ![p] = {}]
      BY <1>6, Zenon DEF Take
    <3>2. KeyOf(pass[p], c) \in Key
      BY <2>1
    <3>3. calling \in [Proc -> SUBSET Key] /\ left \in [Proc -> SUBSET Case]
      BY DEF TypeOK
    <3>4. calling' \in [Proc -> SUBSET Key]
      BY <3>1, <3>2, <3>3
    <3>5. left' \in [Proc -> SUBSET Case]
      BY <3>1, <3>3
    <3>6. QED
      BY <3>4, <3>5
  <2>3. UNCHANGED <<use, status, owner, row, at, job, completed, pass, stopReason, index, failed,
                    ctxDone, raced, shared, validation>>
    BY <1>6 DEF Take, AfterStop
  <2>4. refusing' \in [Proc -> Nat]
    <3>1. UNCHANGED refusing \/ refusing' = [refusing EXCEPT ![p] = @ + 1]
      BY <1>6, Zenon DEF Take
    <3>2. QED
      BY <3>1 DEF TypeOK
  <2>5. QED
    BY <2>2, <2>3, <2>4 DEF TypeOK
<1>7. CASE StopOffering(p)
  BY <1>7 DEF TypeOK, StopOffering
<1>8. CASE IsFatal(p)
  BY <1>8 DEF TypeOK, IsFatal
<1>9. ASSUME NEW k \in Key, NEW kind \in {"scored", "errored", "panic"}, Returns(p, k, kind)
      PROVE  TypeOK'
  <2>1. job[p].run \in RunId
    BY <1>1, <1>9 DEF Returns, ProcessesHaveJobs
  <2>2. PICK n \in {0, 1} : RecordMeasurement(job[p].run, k, kind, n) \/ UNCHANGED row
    BY <1>9 DEF Returns, Sinks
  <2>3. row' \in [RunId -> [Key -> Row]]
    BY <2>1, <2>2, RecordedType DEF TypeOK
  <2>4. failed' \in [Proc -> BOOLEAN]
    BY <1>9 DEF Returns, Sinks, TypeOK
  <2>5. /\ UNCHANGED <<use, status, owner, validation, at, pass, left, refusing, stopReason, ctxDone>>
        /\ UNCHANGED <<fixed, history>> /\ calling' = [calling EXCEPT ![p] = @ \ {k}]
    BY <1>9 DEF Returns
  <2>6. QED
    BY <2>3, <2>4, <2>5 DEF TypeOK, fixed, history
<1>15. CASE Unpriced(p)
  <2>1. PICK c \in left[p], kind \in {"unpriced", "panic"} :
           /\ Sinks(p, KeyOf(pass[p], c), kind, 0)
           /\ left' = [left EXCEPT ![p] = IF Stopped(p) THEN {} ELSE @ \ {c}]
    BY <1>15 DEF Unpriced
  <2>2. job[p].run \in RunId /\ KeyOf(pass[p], c) \in Key
    BY <1>1, <1>15, KeysAreKeys DEF Unpriced, ProcessesHaveJobs, TypeOK
  <2>3. row' \in [RunId -> [Key -> Row]]
    BY <2>1, <2>2, RecordedType DEF TypeOK, Sinks
  <2>4. failed' \in [Proc -> BOOLEAN] /\ left' \in [Proc -> SUBSET Case]
    BY <2>1 DEF Sinks, TypeOK
  <2>5. /\ UNCHANGED <<use, status, owner, validation, at, pass, calling, refusing, stopReason, ctxDone>>
        /\ UNCHANGED <<fixed, history>>
    BY <1>15 DEF Unpriced
  <2>6. QED
    BY <2>3, <2>4, <2>5 DEF TypeOK, fixed, history
<1>10. CASE EndPass(p)
  <2>1. CASE Ends(p)
    BY <1>10, <2>1, EndsType DEF TypeOK, EndPass
  <2>2. CASE ~Ends(p)
    <3>1. pass[p] # 2 * Trials => pass[p] + 1 \in 1..(2 * Trials)
      <4>1. pass[p] \in 1..(2 * Trials)
        BY DEF TypeOK
      <4>2. QED
        BY <4>1
    <3>2. \/ UNCHANGED <<pass, left>>
          \/ /\ pass[p] # 2 * Trials
             /\ pass' = [pass EXCEPT ![p] = @ + 1]
             /\ left' = [left EXCEPT ![p] = ToMeasure(pass[p] + 1, completed[p])]
      BY <1>10, <2>2 DEF EndPass
    <3>3. ToMeasure(pass[p] + 1, completed[p]) \in SUBSET Case
      BY CasesToMeasure
    <3>4. pass' \in [Proc -> 1..(2 * Trials)] /\ left' \in [Proc -> SUBSET Case]
      <4>1. pass \in [Proc -> 1..(2 * Trials)] /\ left \in [Proc -> SUBSET Case]
        BY DEF TypeOK
      <4>2. pass' \in [Proc -> 1..(2 * Trials)]
        BY <3>1, <3>2, <4>1
      <4>3. left' \in [Proc -> SUBSET Case]
        BY <3>2, <3>3, <4>1
      <4>4. QED
        BY <4>2, <4>3
    <3>5. stopReason' \in [Proc -> {"none", "BUDGET_STOPPED", "INTERRUPTED"}]
      BY <1>10, <2>2 DEF TypeOK, EndPass, StopOf
    <3>6. QED
      BY <1>10, <2>2, <3>4, <3>5 DEF TypeOK, EndPass
  <2>3. QED
    BY <2>1, <2>2
<1>11. CASE WriteValidation(p)
  BY <1>11 DEF TypeOK, WriteValidation
<1>12. CASE finishRun(p)
  <2>1. status' \in [RunId -> {"ABSENT", "RUNNING", "COMPLETED", "BUDGET_STOPPED", "INTERRUPTED"}]
    BY <1>12 DEF TypeOK, finishRun
  <2>2. QED
    BY <1>12, <2>1, EndsType DEF finishRun
<1>13. CASE Cancel(p)
  BY <1>13 DEF TypeOK, Cancel
<1>14. CASE Dies(p)
  BY <1>14, EndsType DEF TypeOK, Dies
<1>16. QED
  BY <1>2, <1>3, <1>4, <1>5, <1>6, <1>7, <1>8, <1>9, <1>10, <1>11, <1>12, <1>13, <1>14, <1>15 DEF Step

-----------------------------------------------------------------------------
(* The inductive invariant: one lemma for each way a step can touch it. *)

Inv ==
    /\ ProcessesHaveJobs /\ RunsHaveOwners /\ LookersHold /\ FreshRunsAreNew
    /\ CreatedIsOwned /\ ResumesHoldTheUse /\ ChecksAreDated

(* What TypeOK says of the jobs of busy processes and of the uses. *)
LEMMA JobsOfTheBusy ==
    ASSUME IInv
    PROVE  /\ \A q \in Proc : at[q] # "idle" =>
                 job[q].run \in RunId /\ job[q].portfolio \in Portfolio /\ job[q].resume \in BOOLEAN
           /\ \A f \in Portfolio : use[f] # None => use[f].run \in RunId
BY DEF IInv, TypeOK, ProcessesHaveJobs, Jobs, UseRecord

(* Nothing is held before anything is done. *)
LEMMA InitIInv == Init => IInv
<1> SUFFICES ASSUME Init PROVE IInv
  OBVIOUS
<1>1. \A r \in RunId : Done(r) = {}
  BY DEF Init, Done, NoRow
<1>2. Inv
  BY <1>1 DEF Init, Inv, ProcessesHaveJobs, RunsHaveOwners, LookersHold, FreshRunsAreNew,
              CreatedIsOwned, ResumesHoldTheUse, ChecksAreDated
<1>3. QED
  BY <1>2, InitType DEF Inv, IInv

(* The check: a fresh run is of a Portfolio without a use, a resumed one is *)
(* the run its use names, and a run some use names is not a fresh one.      *)
LEMMA CheckInv ==
    ASSUME IInv, NEW p \in Proc, NEW j \in Jobs, NEW c \in Caps, Check(p, j, c)
    PROVE  Inv'
<1> USE DEF store, work, stops, history
<1>1. j.run \in RunId /\ j.portfolio \in Portfolio /\ j.resume \in BOOLEAN /\ j # None
  BY DEF Jobs
<1>2. /\ at[p] = "idle" /\ at' = [at EXCEPT ![p] = "checked"]
      /\ job' = [job EXCEPT ![p] = j] /\ index' = [index EXCEPT ![p] = UseIndex(j)]
      /\ UNCHANGED <<use, status, owner, row, raced, calling>>
      /\ at \in [Proc -> {"idle", "checked", "created", "arm", "validation", "finish"}]
      /\ job \in [Proc -> Jobs \cup {None}] /\ index \in [Proc -> Nat]
  BY DEF Check, IInv, TypeOK
<1>3. ~j.resume => status[j.run] = "ABSENT" /\ ~Open(j.run) /\ use[j.portfolio] = None
  BY <1>1 DEF Check, oneShot
<1>4. j.resume => use[j.portfolio] # None /\ use[j.portfolio].run = j.run
  BY DEF Check, oneShot
<1>5. Uses' = Uses
  BY <1>2 DEF Uses
<1>6. ProcessesHaveJobs'
  BY <1>1, <1>2 DEF IInv, ProcessesHaveJobs
<1>7. RunsHaveOwners'
  BY <1>2 DEF IInv, RunsHaveOwners
<1>8. LookersHold'
  BY <1>2 DEF IInv, LookersHold, Holds, Done
<1>9. FreshRunsAreNew'
  <2>1. ASSUME NEW q \in Proc, at[q] = "checked", ~job[q].resume
        PROVE  job[q].run # j.run
    <3>1. CASE ~j.resume
      BY <1>3, <2>1, <3>1 DEF IInv, ProcessesHaveJobs, Open
    <3>2. CASE j.resume
      <4>1. owner[j.run] # None
        BY <1>1, <1>4, <3>2 DEF IInv, RunsHaveOwners
      <4>2. status[j.run] # "ABSENT"
        BY <1>1, <4>1 DEF IInv, RunsHaveOwners
      <4>3. QED
        BY <2>1, <4>2 DEF IInv, FreshRunsAreNew
    <3>3. QED
      BY <1>1, <3>1, <3>2
  <2>2. ASSUME NEW q \in Proc, at'[q] = "checked", ~job'[q].resume
        PROVE  /\ status[job'[q].run] = "ABSENT"
               /\ \A s \in Proc \ {q} : job'[s] # None => job'[s].run # job'[q].run
    <3>1. CASE q = p
      BY <1>2, <1>3, <2>2, <3>1 DEF Open
    <3>2. CASE q # p
      BY <1>2, <2>1, <2>2, <3>2 DEF IInv, FreshRunsAreNew
    <3>3. QED
      BY <3>1, <3>2
  <2>3. QED
    BY <1>2, <2>2 DEF FreshRunsAreNew
<1>10. CreatedIsOwned'
  BY <1>2 DEF IInv, CreatedIsOwned
<1>11. ResumesHoldTheUse'
  BY <1>2, <1>4 DEF IInv, ResumesHoldTheUse
<1>12. ChecksAreDated'
  BY <1>2, <1>3, <1>5, UsesNat DEF IInv, ChecksAreDated, UseIndex
<1>13. QED
  BY <1>6, <1>7, <1>8, <1>9, <1>10, <1>11, <1>12 DEF Inv

(* A run row comes into being under a name nobody holds. *)
LEMMA CreateRunInv ==
    ASSUME IInv, NEW p \in Proc, CreateRun(p)
    PROVE  Inv'
<1> USE DEF store, work, stops, fixed, history
<1> DEFINE r == job[p].run
           f == job[p].portfolio
<1>1. r \in RunId /\ f \in Portfolio /\ f # None /\ job[p].resume = FALSE
  BY JobsOfTheBusy DEF CreateRun
<1>2. /\ at[p] = "checked" /\ at' = [at EXCEPT ![p] = "created"]
      /\ status' = [status EXCEPT ![r] = "RUNNING"] /\ owner' = [owner EXCEPT ![r] = f]
      /\ UNCHANGED <<use, row, job, index, raced, calling>>
      /\ at \in [Proc -> {"idle", "checked", "created", "arm", "validation", "finish"}]
      /\ status \in [RunId -> {"ABSENT", "RUNNING", "COMPLETED", "BUDGET_STOPPED", "INTERRUPTED"}]
      /\ owner \in [RunId -> Portfolio \cup {None}]
  BY DEF CreateRun, IInv, TypeOK
<1>3. /\ status[r] = "ABSENT"
      /\ \A q \in Proc \ {p} : job[q] # None => job[q].run # r
  BY <1>1, <1>2 DEF IInv, FreshRunsAreNew
<1>4. owner[r] = None
  BY <1>1, <1>3 DEF IInv, RunsHaveOwners
<1> HIDE DEF r, f
<1>5. \A q \in Proc \ {p} : at[q] # "idle" => job[q].run # r
  BY <1>3 DEF IInv, ProcessesHaveJobs
<1>6. Uses' = Uses
  BY <1>2 DEF Uses
<1>7. ProcessesHaveJobs'
  BY <1>2 DEF IInv, ProcessesHaveJobs
<1>8. RunsHaveOwners'
  <2>1. \A s \in RunId : status'[s] = "ABSENT" <=> owner'[s] = None
    BY <1>1, <1>2 DEF IInv, RunsHaveOwners
  <2>2. ASSUME NEW g \in Portfolio, use[g] # None PROVE owner'[use[g].run] = g
    <3>1. owner[use[g].run] = g /\ g # None /\ use[g].run \in RunId
      BY <2>2, JobsOfTheBusy DEF IInv, RunsHaveOwners
    <3>2. QED
      BY <1>2, <1>4, <3>1
  <2>3. QED
    BY <1>2, <2>1, <2>2 DEF RunsHaveOwners
<1>9. LookersHold'
  <2>1. ASSUME NEW s \in RunId, Done(s) # {} PROVE owner'[s] = owner[s]
    BY <1>2, <1>4, <2>1 DEF IInv, LookersHold
  <2>2. \A s \in RunId : Done(s)' = Done(s)
    BY <1>2 DEF Done
  <2>3. \A q \in Proc \ {p} : at[q] # "idle" => owner'[job[q].run] = owner[job[q].run]
    BY <1>2, <1>5, JobsOfTheBusy
  <2>4. \A s \in RunId : Done(s)' # {} => owner'[s] # None /\ Holds(s, owner[s])'
    BY <1>2, <2>1, <2>2 DEF IInv, LookersHold, Holds
  <2>5. \A q \in Proc : at'[q] \in {"arm", "validation", "finish"} =>
                           Holds(job[q].run, job[q].portfolio)'
    BY <1>2, <2>3 DEF IInv, LookersHold, Holds
  <2>6. QED
    BY <1>2, <2>1, <2>2, <2>4, <2>5 DEF LookersHold, Holds
<1>10. FreshRunsAreNew'
  BY <1>2, <1>5, JobsOfTheBusy DEF IInv, FreshRunsAreNew
<1>11. CreatedIsOwned'
  BY <1>1, <1>2, <1>5, JobsOfTheBusy DEF IInv, CreatedIsOwned, r, f
<1>12. ResumesHoldTheUse'
  BY <1>2 DEF IInv, ResumesHoldTheUse
<1>13. ChecksAreDated'
  BY <1>1, <1>2, <1>6 DEF IInv, ChecksAreDated
<1>14. QED
  BY <1>7, <1>8, <1>9, <1>10, <1>11, <1>12, <1>13 DEF Inv

(* The use record: a Portfolio without one gets this run, and every other   *)
(* one keeps its own.                                                       *)
LEMMA RecordHoldoutUseInv ==
    ASSUME IInv, NEW p \in Proc, RecordHoldoutUse(p)
    PROVE  Inv'
<1> USE DEF store, work, stops, fixed, history
<1> DEFINE r == job[p].run
           f == job[p].portfolio
<1>1. r \in RunId /\ f \in Portfolio /\ job[p].resume = FALSE /\ owner[r] = f
  BY JobsOfTheBusy DEF RecordHoldoutUse, IInv, CreatedIsOwned
<1>2. /\ at[p] = "created" /\ at' = [at EXCEPT ![p] = "arm"]
      /\ use' = [use EXCEPT ![f] = Recorded(job[p])]
      /\ raced' = IF Uses + 1 # index[p] THEN raced \cup {r} ELSE raced
      /\ UNCHANGED <<status, owner, row, job, index, calling>>
      /\ at \in [Proc -> {"idle", "checked", "created", "arm", "validation", "finish"}]
      /\ use \in [Portfolio -> UseRecord \cup {None}] /\ index \in [Proc -> Nat]
  BY DEF RecordHoldoutUse, Opens, IInv, TypeOK
<1>3. /\ Recorded(job[p]) \in UseRecord /\ Recorded(job[p]) # None
      /\ use[f] = None => Recorded(job[p]).run = r
      /\ use[f] # None => Recorded(job[p]) = use[f]
  <2>1. Recorded(job[p]) \in UseRecord
    BY <1>1, <1>2, UsesNat DEF Recorded, UseRecord
  <2>2. QED
    BY <2>1 DEF Recorded
<1>4. Uses' = IF use[f] # None THEN Uses ELSE Uses + 1
  BY <1>1, <1>2, <1>3, OneMoreUse
<1>5. index[p] <= Uses + 1 /\ (use[f] # None => index[p] <= Uses)
  BY <1>1, <1>2 DEF IInv, ChecksAreDated
<1>6. use[f] = None \/ r \in raced'
  BY <1>2, <1>5, UsesNat
<1> HIDE DEF r, f
<1>7. /\ \A g \in Portfolio : use[g] # None => use'[g] = use[g]
      /\ \A g \in Portfolio : g # f => use'[g] = use[g]
      /\ use[f] = None => use'[f].run = r
      /\ use'[f] # None
      /\ raced \subseteq raced'
  BY <1>1, <1>2, <1>3
<1>8. Holds(r, f)'
  BY <1>1, <1>2, <1>6, <1>7 DEF Holds, r, f
<1>9. \A s \in RunId, g \in Portfolio : Holds(s, g) => Holds(s, g)'
  BY <1>2, <1>7 DEF Holds
<1>10. ProcessesHaveJobs'
  BY <1>2 DEF IInv, ProcessesHaveJobs
<1>11. RunsHaveOwners'
  BY <1>1, <1>2, <1>7 DEF IInv, RunsHaveOwners
<1>12. LookersHold'
  <2>1. ASSUME NEW s \in RunId, Done(s)' # {} PROVE owner'[s] # None /\ Holds(s, owner[s])'
    <3>1. Done(s) # {}
      BY <1>2, <2>1 DEF Done
    <3>2. owner[s] # None /\ Holds(s, owner[s]) /\ owner[s] \in Portfolio
      BY <3>1 DEF IInv, LookersHold, TypeOK
    <3>3. QED
      BY <1>2, <1>9, <3>2
  <2>2. ASSUME NEW q \in Proc, at'[q] \in {"arm", "validation", "finish"}
        PROVE  Holds(job[q].run, job[q].portfolio)'
    <3>1. CASE q = p
      BY <1>2, <1>8, <3>1 DEF r, f, Holds
    <3>2. CASE q # p
      <4>1. at[q] \in {"arm", "validation", "finish"}
        BY <1>2, <2>2, <3>2
      <4>2. Holds(job[q].run, job[q].portfolio)
        BY <4>1 DEF IInv, LookersHold
      <4>3. job[q].run \in RunId /\ job[q].portfolio \in Portfolio
        BY <4>1, JobsOfTheBusy
      <4>4. QED
        BY <1>2, <1>9, <4>2, <4>3 DEF Holds
    <3>3. QED
      BY <3>1, <3>2
  <2>3. QED
    BY <1>2, <2>1, <2>2 DEF LookersHold, Holds
<1>13. FreshRunsAreNew'
  BY <1>2 DEF IInv, FreshRunsAreNew
<1>14. CreatedIsOwned'
  BY <1>2 DEF IInv, CreatedIsOwned
<1>15. ResumesHoldTheUse'
  <2>1. ASSUME NEW q \in Proc, at'[q] = "checked", job[q].resume
        PROVE  use'[job[q].portfolio] # None /\ use'[job[q].portfolio].run = job[q].run
    <3>1. at[q] = "checked" /\ job[q].portfolio \in Portfolio
      BY <1>2, <2>1, JobsOfTheBusy
    <3>2. QED
      BY <1>7, <2>1, <3>1 DEF IInv, ResumesHoldTheUse
  <2>2. QED
    BY <1>2, <2>1 DEF ResumesHoldTheUse
<1>16. ChecksAreDated'
  <2>1. ASSUME NEW q \in Proc, at'[q] \in {"checked", "created"}, ~job[q].resume
        PROVE  /\ index[q] <= Uses' + 1
               /\ use'[job[q].portfolio] # None => index[q] <= Uses'
    <3>1. at[q] \in {"checked", "created"} /\ job[q].portfolio \in Portfolio
      BY <1>2, <2>1, JobsOfTheBusy
    <3>2. index[q] <= Uses + 1 /\ (use[job[q].portfolio] # None => index[q] <= Uses)
      BY <2>1, <3>1 DEF IInv, ChecksAreDated
    <3>3. QED
      BY <1>2, <1>4, <1>7, <3>1, <3>2, UsesNat
  <2>2. QED
    BY <1>2, <2>1 DEF ChecksAreDated
<1>17. QED
  BY <1>10, <1>11, <1>12, <1>13, <1>14, <1>15, <1>16 DEF Inv

(* A process that goes on holding what it held leaves the rest as it was.   *)
LEMMA HoldingInv ==
    ASSUME IInv, NEW p \in Proc, NEW s \in {"arm", "validation", "finish"},
           at[p] # "idle", Holds(job[p].run, job[p].portfolio),
           at' = [at EXCEPT ![p] = s], calling'[p] # {} => s = "arm",
           \A q \in Proc \ {p} : calling'[q] = calling[q],
           UNCHANGED <<use, status, owner, row, job, index, raced>>
    PROVE  Inv'
<1>1. at \in [Proc -> {"idle", "checked", "created", "arm", "validation", "finish"}]
  BY DEF IInv, TypeOK
<1>2. Uses' = Uses
  BY DEF Uses
<1>3. ProcessesHaveJobs' /\ RunsHaveOwners' /\ FreshRunsAreNew' /\ CreatedIsOwned'
        /\ ResumesHoldTheUse'
  BY <1>1 DEF IInv, ProcessesHaveJobs, RunsHaveOwners, FreshRunsAreNew, CreatedIsOwned,
              ResumesHoldTheUse
<1>4. LookersHold'
  BY <1>1 DEF IInv, LookersHold, Holds, Done
<1>5. ChecksAreDated'
  BY <1>1, <1>2 DEF IInv, ChecksAreDated
<1>6. QED
  BY <1>3, <1>4, <1>5 DEF Inv

(* A result that is recorded adds a row to a run that is held. *)
LEMMA RecordingInv ==
    ASSUME IInv, NEW p \in Proc, at[p] = "arm",
           UNCHANGED <<use, status, owner, at, job, index, raced>>,
           \A q \in Proc \ {p} : calling'[q] = calling[q],
           \A s \in RunId \ {job[p].run} : row'[s] = row[s]
    PROVE  Inv'
<1> DEFINE r == job[p].run
<1>1. at[p] = "arm" /\ r \in RunId /\ Holds(r, job[p].portfolio) /\ job[p].portfolio \in Portfolio
  BY JobsOfTheBusy DEF IInv, LookersHold
<1>2. /\ UNCHANGED <<use, status, owner, at, job, index, raced>>
      /\ \A q \in Proc \ {p} : calling'[q] = calling[q]
  OBVIOUS
<1>3. \A s \in RunId \ {r} : row'[s] = row[s]
  OBVIOUS
<1> HIDE DEF r
<1>4. Uses' = Uses
  BY <1>2 DEF Uses
<1>5. LookersHold'
  <2>1. ASSUME NEW s \in RunId, Done(s)' # {} PROVE owner[s] # None /\ Holds(s, owner[s])
    <3>1. CASE s = r
      BY <1>1, <3>1 DEF Holds
    <3>2. CASE s # r
      <4>1. Done(s) # {}
        BY <1>3, <2>1, <3>2 DEF Done
      <4>2. QED
        BY <4>1 DEF IInv, LookersHold
    <3>3. QED
      BY <3>1, <3>2
  <2>2. QED
    BY <1>2, <2>1 DEF IInv, LookersHold, Holds
<1>6. ProcessesHaveJobs'
  BY <1>1, <1>2 DEF IInv, ProcessesHaveJobs
<1>7. RunsHaveOwners' /\ FreshRunsAreNew' /\ CreatedIsOwned' /\ ResumesHoldTheUse'
  BY <1>2 DEF IInv, RunsHaveOwners, FreshRunsAreNew, CreatedIsOwned, ResumesHoldTheUse
<1>8. ChecksAreDated'
  BY <1>2, <1>4 DEF IInv, ChecksAreDated
<1>9. QED
  BY <1>5, <1>6, <1>7, <1>8 DEF Inv

(* A process that ends gives up its job, and no run row is lost with it. *)
LEMMA EndsInv ==
    ASSUME IInv, NEW p \in Proc, Ends(p), UNCHANGED <<use, owner, row>>,
           \A r \in RunId : /\ status'[r] = "ABSENT" <=> status[r] = "ABSENT"
    PROVE  Inv'
<1>1. /\ at' = [at EXCEPT ![p] = "idle"] /\ job' = [job EXCEPT ![p] = None]
      /\ index' = [index EXCEPT ![p] = 0] /\ calling' = [calling EXCEPT ![p] = {}]
      /\ UNCHANGED raced
      /\ at \in [Proc -> {"idle", "checked", "created", "arm", "validation", "finish"}]
      /\ job \in [Proc -> Jobs \cup {None}] /\ index \in [Proc -> Nat]
      /\ calling \in [Proc -> SUBSET Key]
  BY DEF Ends, history, IInv, TypeOK
<1>2. Uses' = Uses
  BY DEF Uses
<1>3. ProcessesHaveJobs' /\ CreatedIsOwned' /\ ResumesHoldTheUse'
  BY <1>1 DEF IInv, ProcessesHaveJobs, CreatedIsOwned, ResumesHoldTheUse
<1>4. RunsHaveOwners'
  BY DEF IInv, RunsHaveOwners
<1>5. LookersHold'
  BY <1>1 DEF IInv, LookersHold, Holds, Done
<1>6. FreshRunsAreNew'
  BY <1>1, JobsOfTheBusy DEF IInv, FreshRunsAreNew
<1>7. ChecksAreDated'
  BY <1>1, <1>2 DEF IInv, ChecksAreDated
<1>8. QED
  BY <1>3, <1>4, <1>5, <1>6, <1>7 DEF Inv

-----------------------------------------------------------------------------
(* Together. *)

(* Every step keeps the invariant. *)
LEMMA NextIInv == IInv /\ [Next]_vars => IInv'
<1> SUFFICES ASSUME IInv, [Next]_vars PROVE IInv'
  OBVIOUS
<1> USE DEF store, work, stops, fixed, history
<1>1. CASE UNCHANGED vars
  <2>1. Uses' = Uses
    BY <1>1 DEF vars, Uses
  <2>2. TypeOK'
    BY <1>1 DEF IInv, TypeOK, vars
  <2>3. LookersHold'
    BY <1>1 DEF IInv, LookersHold, Holds, Done, vars
  <2>4. QED
    BY <1>1, <2>1, <2>2, <2>3 DEF IInv, ProcessesHaveJobs, RunsHaveOwners, FreshRunsAreNew,
                                  CreatedIsOwned, ResumesHoldTheUse, ChecksAreDated, vars
<1>2. ASSUME NEW p \in Proc, Step(p) PROVE IInv'
  <2>1. TypeOK'
    BY <1>2, NextType DEF IInv
  <2>2. Inv'
    <3>1. /\ at \in [Proc -> {"idle", "checked", "created", "arm", "validation", "finish"}]
          /\ calling \in [Proc -> SUBSET Key]
          /\ status \in [RunId -> {"ABSENT", "RUNNING", "COMPLETED", "BUDGET_STOPPED", "INTERRUPTED"}]
          /\ at[p] \in {"arm", "validation", "finish"} => Holds(job[p].run, job[p].portfolio)
      BY DEF IInv, TypeOK, LookersHold
    <3>2. CASE \E j \in Jobs, c \in Caps : Check(p, j, c)
      BY <3>2, CheckInv
    <3>3. CASE CreateRun(p)
      BY <3>3, CreateRunInv
    <3>4. CASE RecordHoldoutUse(p)
      BY <3>4, RecordHoldoutUseInv
    <3>5. CASE OpenCheckpoint(p)
      <4>1. Holds(job[p].run, job[p].portfolio)
        BY <3>5 DEF OpenCheckpoint, Holds, IInv, ResumesHoldTheUse
      <4>2. at' = [at EXCEPT ![p] = "arm"] /\ at[p] # "idle"
              /\ UNCHANGED <<use, status, owner, row, job, index, raced, calling>>
        BY <3>5 DEF OpenCheckpoint, Opens
      <4>3. QED
        BY <4>1, <4>2, HoldingInv
    <3>6. CASE Take(p)
      <4>1. at[p] = "arm" /\ at' = [at EXCEPT ![p] = "arm"]
              /\ UNCHANGED <<use, status, owner, row, job, index, raced>>
        BY <3>1, <3>6 DEF Take, AfterStop
      <4>2. \A q \in Proc \ {p} : calling'[q] = calling[q]
        BY <3>1, <3>6 DEF Take
      <4>3. QED
        BY <3>1, <4>1, <4>2, HoldingInv
    <3>7. CASE StopOffering(p) \/ IsFatal(p) \/ Cancel(p)
      <4>1. at[p] = "arm" /\ at' = [at EXCEPT ![p] = "arm"]
              /\ UNCHANGED <<use, status, owner, row, job, index, raced, calling>>
        BY <3>1, <3>7 DEF StopOffering, IsFatal, Cancel
      <4>2. QED
        BY <3>1, <4>1, HoldingInv
    <3>8. CASE Unpriced(p) \/ \E k \in Key, kind \in {"scored", "errored", "panic"} : Returns(p, k, kind)
      <4>1. at[p] = "arm"
        BY <3>8 DEF Unpriced, Returns, IInv, ProcessesHaveJobs
      <4>2. /\ UNCHANGED <<use, status, owner, at, job, index, raced>>
            /\ \A q \in Proc \ {p} : calling'[q] = calling[q]
        BY <3>1, <3>8 DEF Unpriced, Returns
      <4>3. \A s \in RunId \ {job[p].run} : row'[s] = row[s]
        <5>1. \E k, kind, n : RecordMeasurement(job[p].run, k, kind, n) \/ UNCHANGED row
          BY <3>8 DEF Unpriced, Returns, Sinks
        <5>2. DOMAIN row = RunId
          BY DEF IInv, TypeOK
        <5>3. QED
          BY <5>1, <5>2 DEF RecordMeasurement
      <4>4. QED
        BY <4>1, <4>2, <4>3, RecordingInv
    <3>9. CASE EndPass(p)
      <4>1. CASE Ends(p)
        BY <3>9, <4>1, EndsInv DEF EndPass
      <4>2. CASE ~Ends(p)
        <5>1. PICK s \in {"arm", "validation", "finish"} : at' = [at EXCEPT ![p] = s]
          BY <3>1, <3>9, <4>2 DEF EndPass
        <5>2. at[p] = "arm" /\ calling[p] = {}
                /\ UNCHANGED <<use, status, owner, row, job, index, raced, calling>>
          BY <3>9, <4>2 DEF EndPass
        <5>3. QED
          BY <3>1, <5>1, <5>2, HoldingInv
      <4>3. QED
        BY <4>1, <4>2
    <3>10. CASE WriteValidation(p)
      <4>1. at[p] = "validation" /\ at' = [at EXCEPT ![p] = "finish"]
              /\ UNCHANGED <<use, status, owner, row, job, index, raced, calling>>
        BY <3>10 DEF WriteValidation
      <4>2. calling[p] = {}
        BY <4>1 DEF IInv, ProcessesHaveJobs
      <4>3. QED
        BY <3>1, <4>1, <4>2, HoldingInv
    <3>11. CASE finishRun(p)
      <4>1. Holds(job[p].run, job[p].portfolio) /\ job[p].run \in RunId
              /\ job[p].portfolio \in Portfolio
        BY <3>1, <3>11, JobsOfTheBusy DEF finishRun
      <4>2. status[job[p].run] # "ABSENT"
        BY <4>1 DEF IInv, RunsHaveOwners, Holds
      <4>3. status' = [status EXCEPT ![job[p].run] =
                          IF stopReason[p] = "none" THEN "COMPLETED" ELSE stopReason[p]]
              /\ stopReason[p] # "ABSENT" /\ Ends(p) /\ UNCHANGED <<use, owner, row>>
        BY <3>11 DEF finishRun, IInv, TypeOK
      <4>4. \A r \in RunId : status'[r] = "ABSENT" <=> status[r] = "ABSENT"
        BY <3>1, <4>1, <4>2, <4>3
      <4>5. QED
        BY <4>3, <4>4, EndsInv
    <3>12. CASE Dies(p)
      BY <3>12, EndsInv DEF Dies
    <3>13. QED
      BY <1>2, <3>2, <3>3, <3>4, <3>5, <3>6, <3>7, <3>8, <3>9, <3>10, <3>11, <3>12 DEF Step
  <2>3. QED
    BY <2>1, <2>2 DEF IInv, Inv
<1>3. QED
  BY <1>1, <1>2 DEF Next

(* The variables of a Validate store and its processes have their types in  *)
(* every reachable state.                                                   *)
THEOREM HoldoutTypeCorrect == Spec => []TypeOK
<1>1. IInv => TypeOK
  BY DEF IInv
<1>2. QED
  BY <1>1, InitIInv, NextIInv, PTL DEF Spec

(* Whatever is killed, refused or resumed, the holdout is measured for a    *)
(* Portfolio by the run its use record names, or by one whose use was       *)
(* recorded after another's had moved the count it checked.                 *)
THEOREM OneLookOnly == Spec => []OneLookUnlessRacing
<1>1. IInv => OneLookUnlessRacing
  <2> SUFFICES ASSUME IInv, NEW r \in RunId, Looked(r)
               PROVE  owner[r] # None /\ Holds(r, owner[r])
    BY DEF OneLookUnlessRacing, Holds
  <2>1. CASE Done(r) # {}
    BY <2>1 DEF IInv, LookersHold
  <2>2. ASSUME NEW p \in Proc, calling[p] # {}, job[p].run = r
        PROVE  owner[r] # None /\ Holds(r, owner[r])
    <3>1. Holds(job[p].run, job[p].portfolio) /\ job[p].portfolio \in Portfolio
      BY <2>2, JobsOfTheBusy DEF IInv, ProcessesHaveJobs, LookersHold
    <3>2. QED
      BY <2>2, <3>1 DEF Holds
  <2>3. QED
    BY <2>1, <2>2 DEF Looked
<1>2. QED
  BY <1>1, InitIInv, NextIInv, PTL DEF Spec

-----------------------------------------------------------------------------
(* The passes and the keys. *)

(* What the arms and trials of the passes are. *)
LEMMA PassIs ==
    ASSUME NEW i \in 1..(2 * Trials)
    PROVE  Passes[i] = IF i <= Trials THEN [arm |-> "control", trial |-> i]
                                      ELSE [arm |-> "treatment", trial |-> i - Trials]
<1>1. CASE i <= Trials
  <2>1. (i - 1) % Trials = i - 1
    BY <1>1
  <2>2. QED
    BY <1>1, <2>1 DEF Passes
<1>2. CASE i > Trials
  <2>1. (i - 1) % Trials = i - 1 - Trials
    BY <1>2
  <2>2. QED
    BY <1>2, <2>1 DEF Passes
<1>3. QED
  BY <1>1, <1>2

(* What the key of a case in a pass is. *)
LEMMA KeyIs ==
    ASSUME NEW i \in 1..(2 * Trials), NEW c \in Case
    PROVE  KeyOf(i, c) = IF i <= Trials THEN [arm |-> "control", case |-> c, trial |-> i]
                                        ELSE [arm |-> "treatment", case |-> c, trial |-> i - Trials]
<1>1. CASE i <= Trials
  <2>1. Passes[i] = [arm |-> "control", trial |-> i]
    BY <1>1, PassIs
  <2>2. QED
    BY <1>1, <2>1 DEF KeyOf
<1>2. CASE ~(i <= Trials)
  <2>1. Passes[i] = [arm |-> "treatment", trial |-> i - Trials]
    BY <1>2, PassIs
  <2>2. QED
    BY <1>2, <2>1 DEF KeyOf
<1>3. QED
  BY <1>1, <1>2

(* Two passes, or two cases, never share a key. *)
LEMMA KeysDiffer ==
    ASSUME NEW i \in 1..(2 * Trials), NEW j \in 1..(2 * Trials), NEW c \in Case, NEW d \in Case,
           KeyOf(i, c) = KeyOf(j, d)
    PROVE  i = j /\ c = d
<1>1. /\ KeyOf(i, c).case = c /\ KeyOf(j, d).case = d
      /\ KeyOf(i, c).arm = IF i <= Trials THEN "control" ELSE "treatment"
      /\ KeyOf(j, d).arm = IF j <= Trials THEN "control" ELSE "treatment"
      /\ KeyOf(i, c).trial = IF i <= Trials THEN i ELSE i - Trials
      /\ KeyOf(j, d).trial = IF j <= Trials THEN j ELSE j - Trials
  BY KeyIs
<1>2. c = d /\ (i <= Trials <=> j <= Trials)
  BY <1>1
<1>3. QED
  BY <1>1, <1>2

(* Every key is one of a pass. *)
LEMMA KeysAreOfPasses ==
    ASSUME NEW k \in Key PROVE \E i \in 1..(2 * Trials), c \in Case : KeyOf(i, c) = k
<1>1. k.case \in Case /\ k.trial \in 1..Trials /\ k.arm \in {"control", "treatment"}
        /\ k = [arm |-> k.arm, case |-> k.case, trial |-> k.trial]
  BY DEF Key
<1>2. CASE k.arm = "control"
  <2>1. k.trial \in 1..(2 * Trials) /\ k.trial <= Trials
    BY <1>1
  <2>2. KeyOf(k.trial, k.case) = k
    BY <1>1, <1>2, <2>1, KeyIs
  <2>3. QED
    BY <1>1, <2>1, <2>2
<1>3. CASE k.arm = "treatment"
  <2>1. Trials + k.trial \in 1..(2 * Trials) /\ ~(Trials + k.trial <= Trials)
          /\ Trials + k.trial - Trials = k.trial
    BY <1>1
  <2>2. KeyOf(Trials + k.trial, k.case) = k
    BY <1>1, <1>3, <2>1, KeyIs
  <2>3. QED
    BY <1>1, <2>1, <2>2
<1>4. QED
  BY <1>1, <1>2, <1>3
-----------------------------------------------------------------------------
(* What a step does to the store, and to the processes it is not one of. *)

(* The types, spelled out for the functions that steps update. *)
LEMMA Functions ==
    ASSUME TypeOK
    PROVE  /\ DOMAIN at = Proc /\ DOMAIN job = Proc /\ DOMAIN index = Proc
           /\ DOMAIN completed = Proc /\ DOMAIN pass = Proc /\ DOMAIN left = Proc
           /\ DOMAIN calling = Proc /\ DOMAIN refusing = Proc /\ DOMAIN stopReason = Proc
           /\ DOMAIN failed = Proc /\ DOMAIN ctxDone = Proc /\ DOMAIN validation = RunId
BY DEF TypeOK

(* A step of one process leaves the others alone. *)
LEMMA OthersKeep ==
    ASSUME TypeOK, NEW p \in Proc, Step(p), NEW q \in Proc \ {p}
    PROVE  /\ at'[q] = at[q] /\ job'[q] = job[q] /\ index'[q] = index[q]
           /\ completed'[q] = completed[q] /\ pass'[q] = pass[q] /\ left'[q] = left[q]
           /\ calling'[q] = calling[q] /\ refusing'[q] = refusing[q]
           /\ stopReason'[q] = stopReason[q] /\ failed'[q] = failed[q] /\ ctxDone'[q] = ctxDone[q]
<1> USE Functions DEF store, work, stops, fixed, history
<1>1. CASE \E j \in Jobs, c \in Caps : Check(p, j, c)
  BY <1>1 DEF Check
<1>2. CASE CreateRun(p) \/ RecordHoldoutUse(p) \/ OpenCheckpoint(p)
  BY <1>2 DEF CreateRun, RecordHoldoutUse, OpenCheckpoint, Opens
<1>3. CASE Take(p)
  <2>1. UNCHANGED <<at, job, index, completed, pass, stopReason, failed, ctxDone>>
    BY <1>3 DEF Take
  <2>2. calling'[q] = calling[q]
    BY <1>3 DEF Take
  <2>3. left'[q] = left[q] /\ refusing'[q] = refusing[q]
    BY <1>3 DEF Take
  <2>4. QED
    BY <2>1, <2>2, <2>3
<1>4. CASE StopOffering(p) \/ IsFatal(p) \/ Cancel(p)
  BY <1>4 DEF StopOffering, IsFatal, Cancel
<1>5. CASE Unpriced(p) \/ \E k \in Key, kind \in {"scored", "errored", "panic"} : Returns(p, k, kind)
  BY <1>5 DEF Unpriced, Returns, Sinks
<1>6. CASE Ends(p)
  BY <1>6 DEF Ends
<1>7. CASE EndPass(p) /\ ~Ends(p)
  BY <1>7 DEF EndPass
<1>8. CASE WriteValidation(p)
  BY <1>8 DEF WriteValidation
<1>9. QED
  BY <1>1, <1>2, <1>3, <1>4, <1>5, <1>6, <1>7, <1>8 DEF Step, finishRun, Dies

\* The kinds of a row and the calls it may have settled.
Kinds == {"scored", "errored", "unpriced", "panic"}
Outcome(kind, n) == n = 0 => kind \in {"unpriced", "panic"}

\* A process at an arm writes a row where there was none.
Writes(p, k, kind, n) ==
    /\ at[p] = "arm" /\ job[p].run \in RunId /\ Outcome(kind, n)
    /\ row[job[p].run][k].kind = "none"
    /\ row' = [row EXCEPT ![job[p].run][k] = [kind |-> kind, calls |-> n]]

(* No step changes the rows in another way. *)
LEMMA RowStep ==
    ASSUME IInv, NEW p \in Proc, Step(p)
    PROVE  row' = row \/ \E k \in Key, kind \in Kinds, n \in {0, 1} : Writes(p, k, kind, n)
<1> USE DEF store, work, stops, fixed, history
<1>1. CASE \E k \in Key, kind \in {"scored", "errored", "panic"} : Returns(p, k, kind)
  <2>1. PICK k \in Key, kind \in {"scored", "errored", "panic"} : Returns(p, k, kind)
    BY <1>1
  <2>2. k \in calling[p] /\ at[p] = "arm" /\ job[p].run \in RunId
    BY <2>1, JobsOfTheBusy DEF Returns, IInv, ProcessesHaveJobs
  <2>3. \/ row' = row
        \/ RecordMeasurement(job[p].run, k, kind, IF kind = "panic" THEN 0 ELSE 1)
    BY <2>1 DEF Returns, Sinks
  <2>4. Outcome(kind, IF kind = "panic" THEN 0 ELSE 1)
    BY DEF Outcome, Kinds
  <2>5. QED
    BY <2>2, <2>3, <2>4 DEF RecordMeasurement, Kinds, Writes
<1>2. CASE Unpriced(p)
  <2>1. PICK c \in left[p], kind \in {"unpriced", "panic"} : Sinks(p, KeyOf(pass[p], c), kind, 0)
    BY <1>2 DEF Unpriced
  <2>2. at[p] = "arm" /\ job[p].run \in RunId /\ KeyOf(pass[p], c) \in Key
    BY <1>2, JobsOfTheBusy, KeysAreKeys DEF Unpriced, IInv, TypeOK
  <2>3. row' = row \/ RecordMeasurement(job[p].run, KeyOf(pass[p], c), kind, 0)
    BY <2>1 DEF Sinks
  <2>4. Outcome(kind, 0)
    BY DEF Outcome, Kinds
  <2>5. QED
    BY <2>2, <2>3, <2>4 DEF RecordMeasurement, Kinds, Writes
<1>3. CASE ~Unpriced(p) /\ ~(\E k \in Key, kind \in {"scored", "errored", "panic"} : Returns(p, k, kind))
  BY <1>3 DEF Step, Check, CreateRun, RecordHoldoutUse, OpenCheckpoint, Opens, Take, AfterStop,
              StopOffering, IsFatal, EndPass, WriteValidation, finishRun, Cancel, Dies
<1>4. QED
  BY <1>1, <1>2, <1>3

(* Rows stay as they were written. *)
LEMMA RowsStay ==
    ASSUME IInv, NEW p \in Proc, Step(p), NEW r \in RunId
    PROVE  /\ \A k \in Key : row[r][k].kind # "none" => row'[r][k] = row[r][k]
           /\ Done(r) \subseteq Done(r)'
           /\ Done(r) = Key => row'[r] = row[r]
<1>1. row \in [RunId -> [Key -> Row]] /\ row' \in [RunId -> [Key -> Row]]
  BY NextType DEF IInv, TypeOK
<1>2. \A k \in Key : row[r][k].kind # "none" => row'[r][k] = row[r][k]
  <2>1. CASE row' = row
    BY <2>1
  <2>2. ASSUME NEW k \in Key, NEW new, job[p].run \in RunId, row[job[p].run][k].kind = "none",
               row' = [row EXCEPT ![job[p].run][k] = new]
        PROVE  \A l \in Key : row[r][l].kind # "none" => row'[r][l] = row[r][l]
    BY <1>1, <2>2
  <2>3. CASE row' # row
    <3>0. PICK k \in Key, kind \in Kinds, n \in {0, 1} : Writes(p, k, kind, n)
      BY <2>3, RowStep
    <3>1. /\ job[p].run \in RunId /\ row[job[p].run][k].kind = "none"
          /\ row' = [row EXCEPT ![job[p].run][k] = [kind |-> kind, calls |-> n]]
      BY <3>0 DEF Writes
    <3>2. QED
      BY <2>2, <3>1
  <2>4. QED
    BY <2>1, <2>3
<1>3. Done(r) \subseteq Done(r)'
  BY <1>2 DEF Done
<1>4. Done(r) = Key => row'[r] = row[r]
  <2>1. SUFFICES ASSUME Done(r) = Key PROVE row'[r] = row[r]
    OBVIOUS
  <2>2. \A k \in Key : row'[r][k] = row[r][k]
    BY <1>2, <2>1 DEF Done
  <2>3. QED
    BY <1>1, <2>2
<1>5. QED
  BY <1>2, <1>3, <1>4
(* The use record of a Portfolio stays as it was written. *)
LEMMA UsesStay ==
    ASSUME IInv, NEW p \in Proc, Step(p), NEW f \in Portfolio, use[f] # None
    PROVE  use'[f] = use[f]
<1> USE DEF store, work, stops, fixed, history
<1>1. CASE RecordHoldoutUse(p)
  <2>1. use' = [use EXCEPT ![job[p].portfolio] = Recorded(job[p])] /\ f \in DOMAIN use
    BY <1>1 DEF RecordHoldoutUse, IInv, TypeOK
  <2>2. QED
    BY <2>1 DEF Recorded
<1>2. CASE ~RecordHoldoutUse(p)
  BY <1>2 DEF Step, Check, CreateRun, OpenCheckpoint, Opens, Take, StopOffering, IsFatal, Returns, Unpriced, Sinks,
              EndPass, WriteValidation, finishRun, Cancel, Dies
<1>3. QED
  BY <1>1, <1>2

(* A job is taken up at a check and given up at an end. *)
LEMMA JobStep ==
    ASSUME NEW p \in Proc, Step(p)
    PROVE  \/ UNCHANGED <<job, shared>>
           \/ \E j \in Jobs, c \in Caps : Check(p, j, c)
           \/ Ends(p)
<1> USE DEF store, work, stops, fixed, history
<1>1. QED
  BY DEF Step, CreateRun, RecordHoldoutUse, OpenCheckpoint, Opens, Take, StopOffering, IsFatal, Returns, Unpriced, Sinks,
         EndPass, WriteValidation, finishRun, Cancel, Dies

-----------------------------------------------------------------------------
(* One lemma for each conjunct of ReadInv. *)

(* A row is written for a settled call, a panic or a refused estimate. *)
LEMMA CostStep ==
    ASSUME ReadInv, NEW p \in Proc, Step(p)
    PROVE  UnpaidRowsAreFaults'
<1>1. IInv /\ UnpaidRowsAreFaults
  BY DEF ReadInv
<1>2. row \in [RunId -> [Key -> Row]]
  BY <1>1 DEF IInv, TypeOK
<1>3. CASE row' = row
  BY <1>1, <1>3 DEF UnpaidRowsAreFaults
<1>4. CASE row' # row
  <2>0. PICK k \in Key, kind \in Kinds, n \in {0, 1} : Writes(p, k, kind, n)
    BY <1>1, <1>4, RowStep
  <2>1. /\ job[p].run \in RunId /\ Outcome(kind, n)
        /\ row' = [row EXCEPT ![job[p].run][k] = [kind |-> kind, calls |-> n]]
    BY <2>0 DEF Writes
  <2> HIDE DEF Key
  <2>2. ASSUME NEW r \in RunId, NEW l \in Key, row'[r][l].kind # "none", row'[r][l].calls = 0
        PROVE  row'[r][l].kind \in {"unpriced", "panic"}
    <3>1. CASE r = job[p].run /\ l = k
      <4>1. row'[r][l] = [kind |-> kind, calls |-> n]
        BY <1>2, <2>1, <3>1
      <4>2. QED
        BY <2>1, <2>2, <4>1 DEF Outcome
    <3>2. CASE ~(r = job[p].run /\ l = k)
      <4>1. row'[r][l] = row[r][l]
        BY <1>2, <2>1, <3>2
      <4>2. QED
        BY <1>1, <2>2, <4>1 DEF UnpaidRowsAreFaults
    <3>3. QED
      BY <3>1, <3>2
  <2>3. QED
    BY <2>2 DEF UnpaidRowsAreFaults
<1>5. QED
  BY <1>3, <1>4

(* Two processes come to have one run open by the check of the second. *)
LEMMA AloneStep ==
    ASSUME ReadInv, NEW p \in Proc, Step(p)
    PROVE  AloneUnlessShared'
<1>1. AloneUnlessShared /\ DOMAIN job = Proc
  BY Functions DEF ReadInv, IInv
<1>2. CASE UNCHANGED <<job, shared>>
  BY <1>1, <1>2 DEF AloneUnlessShared
<1>3. CASE Ends(p)
  BY <1>1, <1>3 DEF AloneUnlessShared, Ends, history
<1>4. ASSUME NEW j \in Jobs, NEW c \in Caps, Check(p, j, c) PROVE AloneUnlessShared'
  <2>1. job' = [job EXCEPT ![p] = j]
          /\ shared' = IF Open(j.run) THEN shared \cup {j.run} ELSE shared
    BY <1>4 DEF Check
  <2>2. \A q \in Proc \ {p} : job[q] # None /\ job[q].run = j.run => j.run \in shared'
    BY <2>1 DEF Open
  <2>3. QED
    BY <1>1, <2>1, <2>2 DEF AloneUnlessShared
<1>5. QED
  BY <1>2, <1>3, <1>4, JobStep

(* Between the run row and the use record nobody else has the run. *)
LEMMA FreshStep ==
    ASSUME ReadInv, NEW p \in Proc, Step(p)
    PROVE  CreatedIsFresh'
<1> USE DEF store, work, stops, fixed, history
<1>1. IInv /\ TypeOK /\ CreatedIsFresh
  BY DEF ReadInv, IInv
<1>2. DOMAIN at = Proc /\ DOMAIN job = Proc
  BY <1>1, Functions
<1> SUFFICES ASSUME NEW q \in Proc, at'[q] = "created"
             PROVE  /\ Done(job[q].run)' = {}
                    /\ \A s \in Proc \ {q} : job'[s] # None => job'[s].run # job'[q].run
                    /\ \A f \in Portfolio : use'[f] # None => use'[f].run # job'[q].run
  BY DEF CreatedIsFresh, Done
<1>3. CASE CreateRun(p) /\ q = p
  <2>1. at[p] = "checked" /\ job[p].run \in RunId /\ job[p].resume = FALSE
          /\ UNCHANGED <<job, row, use>>
    BY <1>1, <1>3, JobsOfTheBusy DEF CreateRun
  <2>2. status[job[p].run] = "ABSENT"
          /\ \A s \in Proc \ {p} : job[s] # None => job[s].run # job[p].run
    BY <1>1, <2>1 DEF IInv, FreshRunsAreNew
  <2>3. owner[job[p].run] = None
    BY <1>1, <2>1, <2>2 DEF IInv, RunsHaveOwners
  <2>4. Done(job[p].run) = {}
    BY <1>1, <2>1, <2>3 DEF IInv, LookersHold
  <2>5. \A f \in Portfolio : use[f] # None => use[f].run # job[p].run
    BY <1>1, <2>3 DEF IInv, RunsHaveOwners
  <2>6. QED
    BY <1>3, <2>1, <2>2, <2>4, <2>5 DEF Done
<1>4. CASE ~(CreateRun(p) /\ q = p)
  <2>1. at[q] = "created" /\ job'[q] = job[q]
    <3>1. CASE q # p
      BY <1>1, <3>1, OthersKeep
    <3>2. CASE q = p
      BY <1>2, <1>4, <3>2 DEF Step, Check, RecordHoldoutUse, OpenCheckpoint, Opens, Take, StopOffering,
              IsFatal, Returns, Unpriced, Sinks, EndPass, WriteValidation, finishRun, Cancel, Dies, Ends
    <3>3. QED
      BY <3>1, <3>2
  <2> DEFINE r == job[q].run
  <2>2. /\ Done(r) = {} /\ r \in RunId
        /\ \A s \in Proc \ {q} : job[s] # None => job[s].run # r
        /\ \A f \in Portfolio : use[f] # None => use[f].run # r
    BY <1>1, <2>1, JobsOfTheBusy DEF CreatedIsFresh
  <2>3. Done(r)' = {}
    <3>1. CASE row' = row
      BY <2>1, <2>2, <3>1 DEF Done
    <3>2. CASE row' # row
      <4>0. PICK k \in Key, kind \in Kinds, n \in {0, 1} : Writes(p, k, kind, n)
        BY <1>1, <3>2, RowStep
      <4>1. /\ at[p] = "arm" /\ job[p].run \in RunId
            /\ row[job[p].run][k].kind = "none"
            /\ row' = [row EXCEPT ![job[p].run][k] = [kind |-> kind, calls |-> n]]
        BY <4>0 DEF Writes
      <4>2. job[p].run # r
        BY <1>1, <2>1, <2>2, <4>1 DEF IInv, ProcessesHaveJobs
      <4>3. row'[r] = row[r]
        BY <1>1, <2>2, <4>1, <4>2 DEF TypeOK
      <4>4. QED
        BY <2>1, <2>2, <4>3 DEF Done
    <3>3. QED
      BY <3>1, <3>2
  <2>4. \A s \in Proc \ {q} : job'[s] # None => job'[s].run # r
    <3>1. CASE UNCHANGED <<job, shared>>
      BY <2>2, <3>1
    <3>2. CASE Ends(p)
      BY <1>2, <2>2, <3>2 DEF Ends
    <3>3. ASSUME NEW j \in Jobs, NEW c \in Caps, Check(p, j, c) 
          PROVE  \A s \in Proc \ {q} : job'[s] # None => job'[s].run # r
      <4>1. j.run # r
        <5>1. CASE j.resume
          BY <2>2, <3>3, <5>1 DEF Check, oneShot, Jobs
        <5>2. CASE ~j.resume
          BY <1>1, <2>1, <3>3, <5>2 DEF Check, Open, IInv, ProcessesHaveJobs
        <5>3. QED
          BY <5>1, <5>2
      <4>2. QED
        BY <1>2, <2>2, <3>3, <4>1 DEF Check
    <3>4. QED
      BY <3>1, <3>2, <3>3, JobStep
  <2>5. \A f \in Portfolio : use'[f] # None => use'[f].run # r
    <3>1. CASE RecordHoldoutUse(p)
      <4>1. p # q
        BY <1>1, <1>2, <3>1 DEF RecordHoldoutUse, Opens
      <4>2. job[p] # None /\ job[p].run # r
        BY <1>1, <2>2, <3>1, <4>1 DEF RecordHoldoutUse, IInv, ProcessesHaveJobs
      <4>3. /\ use' = [use EXCEPT ![job[p].portfolio] = Recorded(job[p])]
            /\ DOMAIN use = Portfolio
        BY <1>1, <3>1 DEF RecordHoldoutUse, TypeOK
      <4>4. QED
        BY <2>2, <4>2, <4>3 DEF Recorded
    <3>2. CASE ~RecordHoldoutUse(p)
      <4>1. use' = use
        BY <3>2 DEF Step, Check, CreateRun, OpenCheckpoint, Opens, Take, StopOffering, IsFatal,
                    Returns, Unpriced, Sinks, EndPass, WriteValidation, finishRun, Cancel, Dies
      <4>2. QED
        BY <2>2, <4>1
    <3>3. QED
      BY <3>1, <3>2
  <2>6. QED
    BY <2>1, <2>3, <2>4, <2>5 DEF Done
<1>5. QED
  BY <1>3, <1>4
(* A run that only one process has open is read by no other. *)
LEMMA OthersRows ==
    ASSUME ReadInv, NEW p \in Proc, Step(p), NEW q \in Proc \ {p}, at[q] # "idle",
           job[q].run \notin shared
    PROVE  row'[job[q].run] = row[job[q].run]
<1>1. IInv /\ TypeOK /\ AloneUnlessShared /\ job[q].run \in RunId /\ job[q] # None
  BY JobsOfTheBusy DEF ReadInv, IInv, ProcessesHaveJobs
<1>2. CASE row' = row
  BY <1>2
<1>3. CASE row' # row
  <2>0. PICK k \in Key, kind \in Kinds, n \in {0, 1} : Writes(p, k, kind, n)
    BY <1>1, <1>3, RowStep
  <2>1. /\ at[p] = "arm" /\ job[p].run \in RunId
        /\ row[job[p].run][k].kind = "none"
        /\ row' = [row EXCEPT ![job[p].run][k] = [kind |-> kind, calls |-> n]]
    BY <2>0 DEF Writes
  <2>2. job[p].run # job[q].run
    BY <1>1, <2>1 DEF IInv, ProcessesHaveJobs, AloneUnlessShared
  <2>3. QED
    BY <1>1, <2>1, <2>2 DEF TypeOK
<1>4. QED
  BY <1>2, <1>3

(* Shared runs stay in the history. *)
LEMMA SharedGrows ==
    ASSUME NEW p \in Proc, Step(p) PROVE shared \subseteq shared'
<1>1. CASE \E j \in Jobs, c \in Caps : Check(p, j, c)
  BY <1>1 DEF Check
<1>2. QED
  BY <1>1, JobStep DEF Ends, history

(* How a process comes to be at an arm: it opens a run whose rows it counts *)
(* as completed, goes on to the next pass, or was there.                    *)
LEMMA ArmStep ==
    ASSUME ReadInv, NEW p \in Proc, Step(p), at'[p] = "arm"
    PROVE  /\ job'[p] = job[p] /\ job[p].run \in RunId
           /\ \/ /\ at[p] \in {"checked", "created"} /\ row' = row /\ calling[p] = {}
                 /\ pass[p] = 1 /\ pass'[p] = 1 /\ calling'[p] = {}
                 /\ completed'[p] = Done(job[p].run)
                 /\ left'[p] = ToMeasure(1, completed'[p])
              \/ /\ at[p] = "arm" /\ row' = row /\ completed'[p] = completed[p]
                 /\ pass[p] # 2 * Trials /\ pass'[p] = pass[p] + 1
                 /\ left[p] = {} /\ calling[p] = {} /\ calling'[p] = {}
                 /\ ~Stopped(p) /\ ~(refusing[p] > 0)
                 /\ left'[p] = ToMeasure(pass[p] + 1, completed[p])
              \/ /\ at[p] = "arm" /\ completed'[p] = completed[p] /\ pass'[p] = pass[p]
                 /\ \/ Take(p) \/ Unpriced(p) \/ StopOffering(p) \/ IsFatal(p) \/ Cancel(p)
                    \/ \E k \in Key, kind \in {"scored", "errored", "panic"} : Returns(p, k, kind)
<1> USE DEF store, work, stops, fixed, history
<1>1. IInv /\ TypeOK /\ CreatedIsFresh /\ BehindIsRead
  BY DEF ReadInv, IInv
<1> USE <1>1, Functions
<1>2. CASE RecordHoldoutUse(p)
  <2>1. at[p] = "created" /\ row' = row /\ calling' = calling /\ pass' = pass /\ job' = job
          /\ completed'[p] = {} /\ left'[p] = ToMeasure(1, {})
    BY <1>2 DEF RecordHoldoutUse, Opens
  <2>2. Done(job[p].run) = {} /\ pass[p] = 1 /\ calling[p] = {}
    BY <2>1 DEF CreatedIsFresh, BehindIsRead, IInv, ProcessesHaveJobs
  <2>3. QED
    BY <2>1, <2>2, JobsOfTheBusy
<1>3. CASE OpenCheckpoint(p)
  <2>1. at[p] = "checked" /\ row' = row /\ calling' = calling /\ pass' = pass /\ job' = job
          /\ completed'[p] = Done(job[p].run) /\ left'[p] = ToMeasure(1, Done(job[p].run))
    BY <1>3 DEF OpenCheckpoint, Opens, CompletedMeasurements
  <2>2. pass[p] = 1 /\ calling[p] = {}
    BY <2>1 DEF BehindIsRead, IInv, ProcessesHaveJobs
  <2>3. QED
    BY <2>1, <2>2, JobsOfTheBusy
<1>4. CASE EndPass(p)
  <2>1. /\ at[p] = "arm" /\ left[p] = {} /\ calling[p] = {}
        /\ refusing[p] > 0 => stopReason[p] # "none"
        /\ row' = row /\ ~Ends(p)
    BY <1>4 DEF EndPass, Ends
  <2>2. /\ Measured(p) /\ pass[p] # 2 * Trials
        /\ pass' = [pass EXCEPT ![p] = @ + 1] /\ UNCHANGED <<calling, job, completed>>
        /\ left' = [left EXCEPT ![p] = ToMeasure(pass[p] + 1, completed[p])]
    BY <1>4, <2>1 DEF EndPass
  <2>3. ~Stopped(p) /\ ~(refusing[p] > 0)
    BY <2>1, <2>2 DEF Measured, Stopped
  <2>4. QED
    BY <2>1, <2>2, <2>3, JobsOfTheBusy
<1>5. CASE \/ Take(p) \/ Unpriced(p) \/ StopOffering(p) \/ IsFatal(p) \/ Cancel(p)
           \/ \E k \in Key, kind \in {"scored", "errored", "panic"} : Returns(p, k, kind)
  <2>1. UNCHANGED <<at, job, completed, pass>>
    BY <1>5 DEF Take, StopOffering, IsFatal, Cancel, Returns, Unpriced, Sinks
  <2>2. QED
    BY <1>5, <2>1, JobsOfTheBusy
<1>6. CASE \/ \E j \in Jobs, c \in Caps : Check(p, j, c)
           \/ CreateRun(p) \/ WriteValidation(p) \/ finishRun(p) \/ Dies(p)
  <2>1. \E s \in {"checked", "created", "finish", "idle"} : at' = [at EXCEPT ![p] = s]
    BY <1>6 DEF Check, CreateRun, WriteValidation, finishRun, Dies, Ends
  <2>2. QED
    BY <2>1
<1>7. QED
  BY <1>2, <1>3, <1>4, <1>5, <1>6 DEF Step

(* What a take does to the cases and to the calls. *)
LEMMA TakeIs ==
    ASSUME TypeOK, NEW p \in Proc, Take(p)
    PROVE  /\ row' = row /\ job' = job
           /\ \E c \in left[p] :
                 \/ left'[p] = left[p] \ {c} /\ calling'[p] = calling[p] \cup {KeyOf(pass[p], c)}
                    /\ refusing'[p] = refusing[p]
                 \/ left'[p] = left[p] \ {c} /\ calling'[p] = calling[p] /\ refusing'[p] > 0
                 \/ Stopped(p) /\ left'[p] = {} /\ calling'[p] = calling[p]
                    /\ refusing'[p] = refusing[p]
<1>1. row' = row /\ job' = job
  BY DEF Take, AfterStop, fixed
<1>2. PICK c \in left[p] :
         \/ /\ calling' = [calling EXCEPT ![p] = @ \cup {KeyOf(pass[p], c)}]
            /\ left' = [left EXCEPT ![p] = @ \ {c}] /\ UNCHANGED refusing
         \/ /\ refusing' = [refusing EXCEPT ![p] = @ + 1]
            /\ left' = [left EXCEPT ![p] = @ \ {c}] /\ UNCHANGED calling
         \/ /\ Stopped(p) /\ left' = [left EXCEPT ![p] = {}] /\ UNCHANGED <<calling, refusing>>
  BY Zenon DEF Take
<1>3. /\ left \in [Proc -> SUBSET Case] /\ calling \in [Proc -> SUBSET Key]
      /\ refusing \in [Proc -> Nat]
  BY DEF TypeOK
<1>4. QED
  BY <1>1, <1>2, <1>3
(* What a result does to the rows of its run.                               *)
LEMMA SinksIs ==
    ASSUME TypeOK, NEW p \in Proc, NEW k \in Key, NEW kind, kind # "none", NEW n, job[p].run \in RunId,
           \/ RecordMeasurement(job[p].run, k, kind, n)
           \/ row' = row /\ failed' = [failed EXCEPT ![p] = TRUE]
    PROVE  /\ \A l \in Key \ {k} : row'[job[p].run][l] = row[job[p].run][l]
           /\ row'[job[p].run][k].kind # "none" \/ failed'[p]
<1> DEFINE new == [kind |-> kind, calls |-> n]
<1>1. /\ row \in [RunId -> [Key -> Row]] /\ new.kind # "none" /\ DOMAIN failed = Proc
  BY DEF TypeOK
<1>2. \/ row' = row /\ row[job[p].run][k].kind # "none"
      \/ row' = [row EXCEPT ![job[p].run][k] = new]
      \/ row' = row /\ failed' = [failed EXCEPT ![p] = TRUE]
  BY DEF RecordMeasurement
<1> HIDE DEF new
<1>3. QED
  BY <1>1, <1>2

(* What a call that comes back does to the calls and the rows of its run.   *)
LEMMA ReturnsIs ==
    ASSUME TypeOK, NEW p \in Proc, NEW k \in Key, NEW kind \in {"scored", "errored", "panic"},
           Returns(p, k, kind), job[p].run \in RunId
    PROVE  /\ job' = job /\ left' = left /\ refusing' = refusing /\ k \in calling[p]
           /\ calling'[p] = calling[p] \ {k}
           /\ \A l \in Key \ {k} : row'[job[p].run][l] = row[job[p].run][l]
           /\ row'[job[p].run][k].kind # "none" \/ failed'[p]
<1>1. job' = job /\ left' = left /\ refusing' = refusing /\ k \in calling[p]
        /\ calling'[p] = calling[p] \ {k}
  BY DEF TypeOK, Returns, fixed
<1>2. \E n : \/ RecordMeasurement(job[p].run, k, kind, n)
             \/ row' = row /\ failed' = [failed EXCEPT ![p] = TRUE]
  BY DEF Returns, Sinks
<1>3. QED
  BY <1>1, <1>2, SinksIs

(* What a case that cannot be priced does to the cases and the rows.        *)
LEMMA UnpricedIs ==
    ASSUME TypeOK, NEW p \in Proc, Unpriced(p), job[p].run \in RunId
    PROVE  /\ job' = job /\ calling' = calling /\ refusing' = refusing
           /\ \E c \in left[p] :
                 /\ left'[p] = left[p] \ {c} \/ (Stopped(p) /\ left'[p] = {})
                 /\ \A l \in Key \ {KeyOf(pass[p], c)} : row'[job[p].run][l] = row[job[p].run][l]
                 /\ row'[job[p].run][KeyOf(pass[p], c)].kind # "none" \/ failed'[p]
<1>1. job' = job /\ calling' = calling /\ refusing' = refusing
  BY DEF Unpriced, fixed
<1>2. PICK c \in left[p], kind \in {"unpriced", "panic"} :
         /\ Sinks(p, KeyOf(pass[p], c), kind, 0)
         /\ left' = [left EXCEPT ![p] = IF Stopped(p) THEN {} ELSE @ \ {c}]
  BY DEF Unpriced
<1>3. KeyOf(pass[p], c) \in Key
  BY KeysAreKeys DEF TypeOK
<1>4. left'[p] = left[p] \ {c} \/ (Stopped(p) /\ left'[p] = {})
  BY <1>2 DEF TypeOK
<1>5. QED
  BY <1>1, <1>2, <1>3, <1>4, SinksIs DEF Sinks

(* What lies ahead of a process that is alone stays unread. *)
LEMMA AheadStep ==
    ASSUME ReadInv, NEW p \in Proc, Step(p)
    PROVE  AheadIsUnread'
<1>1. IInv /\ TypeOK /\ AheadIsUnread
  BY DEF ReadInv, IInv
<1> SUFFICES ASSUME NEW q \in Proc, at'[q] = "arm", job'[q].run \notin shared',
                    NEW i \in pass'[q]..(2 * Trials), NEW c \in Case,
                    IF i = pass'[q] THEN c \in left'[q] ELSE KeyOf(i, c) \notin completed'[q]
             PROVE  KeyOf(i, c) \notin Done(job[q].run)' /\ KeyOf(i, c) \notin calling'[q]
  BY DEF AheadIsUnread, Done
<1>2. /\ pass \in [Proc -> 1..(2 * Trials)] /\ pass' \in [Proc -> 1..(2 * Trials)]
      /\ left \in [Proc -> SUBSET Case]
  BY <1>1, NextType DEF IInv, TypeOK
<1>3. i \in 1..(2 * Trials) /\ KeyOf(i, c) \in Key
  <2>1. pass'[q] \in 1..(2 * Trials)
    BY <1>2
  <2>2. i \in 1..(2 * Trials)
    BY <2>1
  <2>3. QED
    BY <2>2, KeysAreKeys
<1>4. CASE q # p
  <2>1. /\ at[q] = "arm" /\ job'[q] = job[q] /\ pass'[q] = pass[q] /\ left'[q] = left[q]
        /\ completed'[q] = completed[q] /\ calling'[q] = calling[q] /\ job[q].run \notin shared
    BY <1>1, <1>4, OthersKeep, SharedGrows
  <2>2. row'[job[q].run] = row[job[q].run]
    BY <1>4, <2>1, OthersRows
  <2>3. KeyOf(i, c) \notin Done(job[q].run) \cup calling[q]
    BY <1>1, <2>1 DEF AheadIsUnread
  <2>4. QED
    BY <2>1, <2>2, <2>3 DEF Done
<1>5. CASE q = p
  <2> DEFINE r == job[p].run
  <2>1. r \in RunId /\ job'[p] = job[p] /\ r \notin shared
    BY <1>5, ArmStep, SharedGrows
  <2>2. CASE /\ row' = row /\ completed'[p] = Done(r) /\ pass'[p] = 1 /\ calling'[p] = {}
             /\ left'[p] = ToMeasure(1, completed'[p])
    <3>1. KeyOf(i, c) \notin Done(r)
      BY <1>5, <2>2 DEF ToMeasure
    <3>2. QED
      BY <1>5, <2>1, <2>2, <3>1 DEF Done
  <2>3. CASE /\ at[p] = "arm" /\ row' = row /\ completed'[p] = completed[p]
             /\ pass'[p] = pass[p] + 1 /\ calling'[p] = {}
             /\ left'[p] = ToMeasure(pass[p] + 1, completed[p])
    <3>1. i # pass[p] /\ i \in pass[p]..(2 * Trials)
      BY <1>2, <1>5, <2>3
    <3>2. KeyOf(i, c) \notin completed[p]
      BY <1>5, <2>3 DEF ToMeasure
    <3>3. KeyOf(i, c) \notin Done(r)
      BY <1>1, <2>1, <2>3, <3>1, <3>2 DEF AheadIsUnread
    <3>4. QED
      BY <1>5, <2>1, <2>3, <3>3 DEF Done
  <2>4. CASE /\ at[p] = "arm" /\ completed'[p] = completed[p] /\ pass'[p] = pass[p]
             /\ \/ Take(p) \/ Unpriced(p) \/ StopOffering(p) \/ IsFatal(p) \/ Cancel(p)
                \/ \E k \in Key, kind \in {"scored", "errored", "panic"} : Returns(p, k, kind)
    <3>1. ASSUME left'[p] \subseteq left[p]
          PROVE  KeyOf(i, c) \notin Done(r) /\ KeyOf(i, c) \notin calling[p]
      BY <1>1, <1>5, <2>1, <2>4, <3>1 DEF AheadIsUnread
    <3>2. CASE StopOffering(p) \/ IsFatal(p) \/ Cancel(p)
      <4>1. row' = row /\ calling' = calling /\ left'[p] \subseteq left[p]
        BY <1>2, <3>2 DEF StopOffering, IsFatal, Cancel, store, work
      <4>2. QED
        BY <1>5, <2>1, <3>1, <4>1 DEF Done
    <3>3. CASE Take(p)
      <4>1. row' = row /\ left'[p] \subseteq left[p]
        BY <1>1, <3>3, TakeIs
      <4>2. KeyOf(i, c) \notin calling'[p]
        <5>1. CASE calling'[p] = calling[p]
          BY <3>1, <4>1, <5>1
        <5>2. CASE calling'[p] # calling[p]
          <6>1. PICK d \in left[p] : /\ left'[p] = left[p] \ {d}
                                     /\ calling'[p] = calling[p] \cup {KeyOf(pass[p], d)}
            BY <1>1, <3>3, <5>2, TakeIs
          <6>2. KeyOf(i, c) # KeyOf(pass[p], d)
            <7>1. ~(i = pass[p] /\ c = d)
              BY <1>5, <2>4, <6>1
            <7>2. d \in Case /\ pass[p] \in 1..(2 * Trials)
              BY <1>2
            <7>3. QED
              BY <1>3, <7>1, <7>2, KeysDiffer
          <6>3. QED
            BY <3>1, <4>1, <6>1, <6>2
        <5>3. QED
          BY <5>1, <5>2
      <4>3. QED
        BY <1>5, <2>1, <3>1, <4>1, <4>2 DEF Done
    <3>4. CASE \E k \in Key, kind \in {"scored", "errored", "panic"} : Returns(p, k, kind)
      <4>1. PICK k \in Key, kind \in {"scored", "errored", "panic"} : Returns(p, k, kind)
        BY <3>4
      <4>2. /\ left' = left /\ k \in calling[p] /\ calling'[p] = calling[p] \ {k}
            /\ \A l \in Key \ {k} : row'[r][l] = row[r][l]
        BY <1>1, <2>1, <4>1, ReturnsIs
      <4>3. KeyOf(i, c) \notin Done(r) /\ KeyOf(i, c) \notin calling[p] /\ KeyOf(i, c) # k
        BY <3>1, <4>2
      <4>4. QED
        BY <1>3, <1>5, <2>1, <4>2, <4>3 DEF Done
    <3>5. CASE Unpriced(p)
      <4>1. PICK d \in left[p] :
               /\ left'[p] = left[p] \ {d} \/ left'[p] = {}
               /\ \A l \in Key \ {KeyOf(pass[p], d)} : row'[r][l] = row[r][l]
        BY <1>1, <2>1, <3>5, UnpricedIs
      <4>2. KeyOf(i, c) \notin Done(r) /\ KeyOf(i, c) \notin calling[p] /\ calling' = calling
        BY <1>1, <2>1, <3>1, <3>5, <4>1, UnpricedIs
      <4>3. KeyOf(i, c) # KeyOf(pass[p], d)
        <5>1. ~(i = pass[p] /\ c = d)
          BY <1>5, <2>4, <4>1
        <5>2. d \in Case /\ pass[p] \in 1..(2 * Trials)
          BY <1>2
        <5>3. QED
          BY <1>3, <5>1, <5>2, KeysDiffer
      <4>4. QED
        BY <1>3, <1>5, <2>1, <4>1, <4>2, <4>3 DEF Done
    <3>6. QED
      BY <2>4, <3>2, <3>3, <3>4, <3>5
  <2>5. QED
    BY <1>5, <2>2, <2>3, <2>4, ArmStep
<1>6. QED
  BY <1>4, <1>5

(* What a process has out is unread, unless the run is shared. *)
LEMMA UnreadStep ==
    ASSUME ReadInv, NEW p \in Proc, Step(p)
    PROVE  ResumeReadsTheRest'
<1>1. IInv /\ TypeOK /\ AheadIsUnread /\ ResumeReadsTheRest /\ IInv'
  <2>1. IInv' 
    BY NextIInv DEF ReadInv, Next
  <2>2. QED
    BY <2>1 DEF ReadInv, IInv
<1> SUFFICES ASSUME NEW q \in Proc, NEW k \in calling'[q], job'[q].run \notin shared'
             PROVE  row'[job'[q].run][k].kind = "none"
  BY DEF ResumeReadsTheRest
<1>2. at'[q] = "arm" /\ calling' \in [Proc -> SUBSET Key] /\ k \in Key
        /\ pass \in [Proc -> 1..(2 * Trials)]
  BY <1>1 DEF IInv, TypeOK, ProcessesHaveJobs
<1>3. CASE q # p
  <2>1. at[q] = "arm" /\ job'[q] = job[q] /\ calling'[q] = calling[q] /\ job[q].run \notin shared
    BY <1>1, <1>2, <1>3, OthersKeep, SharedGrows
  <2>2. row'[job[q].run] = row[job[q].run]
    BY <1>3, <2>1, OthersRows
  <2>3. QED
    BY <1>1, <2>1, <2>2 DEF ResumeReadsTheRest
<1>4. CASE q = p
  <2> DEFINE r == job[p].run
  <2>1. r \in RunId /\ job'[p] = job[p] /\ r \notin shared
    BY <1>2, <1>4, ArmStep, SharedGrows
  <2>2. \A l \in calling[p] : row[r][l].kind = "none"
    BY <1>1, <2>1 DEF ResumeReadsTheRest
  <2>3. CASE calling'[p] = {}
    BY <1>4, <2>3
  <2>4. CASE StopOffering(p) \/ IsFatal(p) \/ Cancel(p)
    BY <1>4, <2>1, <2>2, <2>4 DEF StopOffering, IsFatal, Cancel, store, work
  <2>5. CASE Take(p)
    <3>1. row' = row /\ at[p] = "arm"
      BY <1>1, <2>5, TakeIs DEF Take
    <3>2. CASE calling'[p] = calling[p]
      BY <1>4, <2>1, <2>2, <3>1, <3>2
    <3>3. CASE calling'[p] # calling[p]
      <4>1. PICK d \in left[p] : calling'[p] = calling[p] \cup {KeyOf(pass[p], d)}
        BY <1>1, <2>5, <3>3, TakeIs
      <4>2. pass[p] \in pass[p]..(2 * Trials) /\ d \in Case /\ KeyOf(pass[p], d) \in Key
        <5>1. pass[p] \in 1..(2 * Trials) /\ d \in Case
          BY <1>1, <1>2 DEF TypeOK
        <5>2. pass[p] \in pass[p]..(2 * Trials)
          BY <5>1
        <5>3. QED
          BY <5>1, <5>2, KeysAreKeys
      <4>3. KeyOf(pass[p], d) \notin Done(r)
        BY <1>1, <2>1, <3>1, <4>2 DEF AheadIsUnread
      <4>4. QED
        BY <1>4, <2>1, <2>2, <3>1, <4>1, <4>2, <4>3 DEF Done
    <3>4. QED
      BY <3>2, <3>3
  <2>6. CASE \E l \in Key, kind \in {"scored", "errored", "panic"} : Returns(p, l, kind)
    <3>1. PICK l \in Key, kind \in {"scored", "errored", "panic"} : Returns(p, l, kind)
      BY <2>6
    <3>2. calling'[p] = calling[p] \ {l} /\ \A m \in Key \ {l} : row'[r][m] = row[r][m]
      BY <1>1, <2>1, <3>1, ReturnsIs
    <3>3. QED
      BY <1>2, <1>4, <2>1, <2>2, <3>2
  <2>7. CASE Unpriced(p)
    <3>1. PICK d \in left[p] : \A l \in Key \ {KeyOf(pass[p], d)} : row'[r][l] = row[r][l]
      BY <1>1, <2>1, <2>7, UnpricedIs
    <3>2. calling' = calling /\ at[p] = "arm"
      BY <2>7 DEF Unpriced
    <3>3. KeyOf(pass[p], d) \notin calling[p]
      <4>1. pass[p] \in 1..(2 * Trials) /\ d \in Case
        BY <1>1, <1>2 DEF TypeOK
      <4>2. pass[p] \in pass[p]..(2 * Trials)
        BY <4>1
      <4>3. QED
        BY <1>1, <2>1, <3>2, <4>1, <4>2 DEF AheadIsUnread
    <3>4. QED
      BY <1>2, <1>4, <2>1, <2>2, <3>1, <3>2, <3>3
  <2>8. QED
    BY <1>2, <1>4, <2>3, <2>4, <2>5, <2>6, <2>7, ArmStep
<1>5. QED
  BY <1>3, <1>4
(* What lies behind a process is in the store. *)
LEMMA BehindStep ==
    ASSUME ReadInv, NEW p \in Proc, Step(p)
    PROVE  BehindIsRead'
<1>1. IInv /\ TypeOK /\ BehindIsRead /\ TypeOK'
  BY NextType DEF ReadInv, IInv
<1>2. /\ pass \in [Proc -> 1..(2 * Trials)] /\ left \in [Proc -> SUBSET Case]
      /\ calling \in [Proc -> SUBSET Key] /\ refusing \in [Proc -> Nat]
  BY <1>1 DEF TypeOK
<1> DEFINE Behind(q, i, c) ==
              \/ KeyOf(i, c) \in Done(job[q].run)
              \/ i = pass[q] /\ (c \in left[q] \/ KeyOf(i, c) \in calling[q])
              \/ i = pass[q] /\ (Stopped(q) \/ refusing[q] > 0)
<1>3. ASSUME NEW q \in Proc \ {p}
      PROVE  /\ at'[q] \in {"idle", "checked", "created"} => pass'[q] = 1
             /\ at'[q] = "arm" =>
                   /\ completed'[q] \subseteq Done(job[q].run)'
                   /\ \A i \in 1..pass'[q], c \in Case : Behind(q, i, c)'
             /\ at'[q] = "validation" => Done(job[q].run)' = Key
  <2>1. /\ at'[q] = at[q] /\ job'[q] = job[q] /\ pass'[q] = pass[q] /\ left'[q] = left[q]
        /\ completed'[q] = completed[q] /\ calling'[q] = calling[q] /\ refusing'[q] = refusing[q]
        /\ Stopped(q)' = Stopped(q)
    BY <1>1, OthersKeep DEF Stopped
  <2>2. at[q] # "idle" => Done(job[q].run) \subseteq Done(job[q].run)' /\ Done(job[q].run)' \subseteq Key
    <3>1. at[q] # "idle" => job[q].run \in RunId
      BY <1>1, JobsOfTheBusy
    <3>2. \A r \in RunId : \A k \in Key : row[r][k].kind # "none" => row'[r][k] = row[r][k]
      BY <1>1, RowsStay
    <3>3. QED
      BY <2>1, <3>1, <3>2 DEF Done
  <2> HIDE DEF Behind
  <2>3. \A i, c : Behind(q, i, c) /\ at[q] # "idle" => Behind(q, i, c)'
    BY <2>1, <2>2 DEF Behind
  <2>4. QED
    BY <1>1, <2>1, <2>2, <2>3 DEF BehindIsRead, Behind
<1> DEFINE r == job[p].run
<1>4. at'[p] \in {"idle", "checked", "created"} => pass'[p] = 1
  <2>1. CASE Ends(p)
    BY <1>2, <2>1 DEF Ends
  <2>2. CASE ~Ends(p)
    <3>1. \/ at[p] \in {"idle", "checked"} /\ pass' = pass
          \/ at'[p] \in {"arm", "validation", "finish"}
      <4>1. CASE \/ \E j \in Jobs, c \in Caps : Check(p, j, c)
                 \/ CreateRun(p)
        BY <4>1 DEF Check, CreateRun, work
      <4>2. CASE RecordHoldoutUse(p) \/ OpenCheckpoint(p) \/ WriteValidation(p)
        BY <1>1, <4>2, Functions DEF RecordHoldoutUse, OpenCheckpoint, Opens, WriteValidation
      <4>3. CASE \/ Take(p) \/ Unpriced(p) \/ StopOffering(p) \/ IsFatal(p) \/ Cancel(p)
                 \/ \E k \in Key, kind \in {"scored", "errored", "panic"} : Returns(p, k, kind)
        BY <1>1, <4>3 DEF Take, StopOffering, IsFatal, Cancel, Returns, Unpriced, Sinks, IInv, ProcessesHaveJobs
      <4>4. CASE EndPass(p)
        BY <1>1, <2>2, <4>4, Functions DEF EndPass
      <4>5. QED
        BY <2>2, <4>1, <4>2, <4>3, <4>4 DEF Step, finishRun, Dies
    <3>2. QED
      BY <1>1, <3>1 DEF BehindIsRead
  <2>3. QED
    BY <2>1, <2>2
<1>5. ASSUME at'[p] = "arm"
      PROVE  /\ completed'[p] \subseteq Done(job[p].run)'
             /\ \A i \in 1..pass'[p], c \in Case : Behind(p, i, c)'
  <2>1. r \in RunId /\ job'[p] = job[p]
    BY <1>5, ArmStep
  <2>2. Done(r) \subseteq Done(job[p].run)'
    <3>1. \A k \in Key : row[r][k].kind # "none" => row'[r][k] = row[r][k]
      BY <1>1, <2>1, RowsStay
    <3>2. QED
      BY <2>1, <3>1 DEF Done
  <2>3. CASE /\ completed'[p] = Done(r) /\ pass'[p] = 1 /\ left'[p] = ToMeasure(1, completed'[p])
    <3>1. \A i \in 1..1, c \in Case : i = pass'[p] /\ (KeyOf(i, c) \in Done(r) \/ c \in left'[p])
      BY <2>3 DEF ToMeasure
    <3>2. QED
      BY <2>2, <2>3, <3>1
  <2>4. CASE /\ at[p] = "arm" /\ completed'[p] = completed[p] /\ pass'[p] = pass[p] + 1
             /\ left[p] = {} /\ calling[p] = {} /\ ~Stopped(p) /\ ~(refusing[p] > 0)
             /\ left'[p] = ToMeasure(pass[p] + 1, completed[p])
    <3>1. completed[p] \subseteq Done(r)
      BY <1>1, <2>4 DEF BehindIsRead
    <3>2. \A i \in 1..pass[p], c \in Case : KeyOf(i, c) \in Done(r)
      BY <1>1, <2>4 DEF BehindIsRead
    <3>3. \A c \in Case : KeyOf(pass'[p], c) \in Done(r) \/ c \in left'[p]
      BY <2>4, <3>1 DEF ToMeasure
    <3>4. \A i \in 1..pass'[p] : i = pass'[p] \/ i \in 1..pass[p]
      BY <1>2, <2>4
    <3>5. QED
      BY <2>2, <2>4, <3>1, <3>2, <3>3, <3>4
  <2>5. CASE /\ at[p] = "arm" /\ completed'[p] = completed[p] /\ pass'[p] = pass[p]
             /\ \/ Take(p) \/ Unpriced(p) \/ StopOffering(p) \/ IsFatal(p) \/ Cancel(p)
                \/ \E k \in Key, kind \in {"scored", "errored", "panic"} : Returns(p, k, kind)
    <3>1. completed[p] \subseteq Done(r) /\ \A i \in 1..pass[p], c \in Case : Behind(p, i, c)
      BY <1>1, <2>5 DEF BehindIsRead
    <3>2. \/ Stopped(p)' /\ (\A i \in 1..pass[p], c \in Case : i = pass[p] \/ KeyOf(i, c) \in Done(r))
          \/ refusing'[p] > 0
          \/ /\ Stopped(p) => Stopped(p)'
             /\ refusing'[p] = refusing[p]
             /\ \A c \in left[p] : \/ c \in left'[p] \/ KeyOf(pass[p], c) \in calling'[p]
                                   \/ KeyOf(pass[p], c) \in Done(job[p].run)'
             /\ \A k \in calling[p] : k \in calling'[p] \/ k \in Done(job[p].run)'
      <4>1. CASE StopOffering(p) \/ IsFatal(p) \/ Cancel(p)
        <5>1. Stopped(p)'
          BY <1>1, <4>1, Functions DEF StopOffering, IsFatal, Cancel, Stopped, stops
        <5>2. QED
          BY <3>1, <5>1
      <4>2. CASE Take(p)
        <5>1. Stopped(p)' = Stopped(p)
          BY <4>2 DEF Take, Stopped, stops
        <5>2. QED
          BY <1>1, <3>1, <4>2, <5>1, TakeIs
      <4>3. CASE \E k \in Key, kind \in {"scored", "errored", "panic"} : Returns(p, k, kind)
        <5>1. PICK k \in Key, kind \in {"scored", "errored", "panic"} : Returns(p, k, kind)
          BY <4>3
        <5>2. /\ left' = left /\ refusing' = refusing /\ calling'[p] = calling[p] \ {k}
              /\ row'[r][k].kind # "none" \/ failed'[p]
          BY <1>1, <2>1, <5>1, ReturnsIs
        <5>3. Stopped(p) => Stopped(p)'
          BY <1>1, <5>1, Functions DEF Returns, Sinks, Stopped
        <5>4. CASE failed'[p]
          BY <3>1, <5>4 DEF Stopped
        <5>5. CASE row'[r][k].kind # "none"
          BY <2>1, <5>2, <5>3, <5>5 DEF Done
        <5>6. QED
          BY <5>2, <5>4, <5>5
      <4>4. CASE Unpriced(p)
        <5>1. PICK d \in left[p] :
                 /\ left'[p] = left[p] \ {d} \/ (Stopped(p) /\ left'[p] = {})
                 /\ row'[r][KeyOf(pass[p], d)].kind # "none" \/ failed'[p]
          BY <1>1, <2>1, <4>4, UnpricedIs
        <5>2. calling' = calling /\ refusing' = refusing /\ KeyOf(pass[p], d) \in Key
          BY <1>1, <2>1, <4>4, UnpricedIs, KeysAreKeys DEF TypeOK
        <5>3. Stopped(p) => Stopped(p)'
          BY <1>1, <4>4, Functions DEF Unpriced, Sinks, Stopped
        <5>4. CASE failed'[p] \/ Stopped(p)
          BY <3>1, <5>3, <5>4 DEF Stopped
        <5>5. CASE ~Stopped(p) /\ row'[r][KeyOf(pass[p], d)].kind # "none"
          <6>1. left'[p] = left[p] \ {d} /\ KeyOf(pass[p], d) \in Done(job[p].run)'
            BY <2>1, <5>1, <5>2, <5>5 DEF Done
          <6>2. QED
            BY <2>5, <5>2, <5>5, <6>1
        <5>6. QED
          BY <5>1, <5>4, <5>5
      <4>5. QED
        BY <2>5, <4>1, <4>2, <4>3, <4>4
    <3>3. QED
      BY <2>1, <2>2, <2>5, <3>1, <3>2
  <2>6. QED
    BY <1>5, <2>3, <2>4, <2>5, ArmStep
<1>6. ASSUME at'[p] = "validation" PROVE Done(job[p].run)' = Key
  <2>1. EndPass(p)
    <3>1. CASE \/ Take(p) \/ Unpriced(p) \/ StopOffering(p) \/ IsFatal(p) \/ Cancel(p)
               \/ \E k \in Key, kind \in {"scored", "errored", "panic"} : Returns(p, k, kind)
      BY <1>1, <1>6, <3>1 DEF Take, StopOffering, IsFatal, Cancel, Returns, Unpriced, Sinks, IInv, ProcessesHaveJobs
    <3>2. CASE \/ \E j \in Jobs, c \in Caps : Check(p, j, c)
               \/ CreateRun(p) \/ RecordHoldoutUse(p) \/ OpenCheckpoint(p) \/ WriteValidation(p)
      BY <1>1, <1>6, <3>2, Functions DEF Check, CreateRun, RecordHoldoutUse, OpenCheckpoint, Opens,
                                         WriteValidation
    <3>3. CASE finishRun(p) \/ Dies(p)
      BY <1>1, <1>6, <3>3, Functions DEF finishRun, Dies, Ends
    <3>4. QED
      BY <3>1, <3>2, <3>3 DEF Step
  <2>2. /\ at[p] = "arm" /\ left[p] = {} /\ calling[p] = {} /\ row' = row
        /\ refusing[p] > 0 => stopReason[p] # "none"
    BY <2>1 DEF EndPass, store
  <2>3. Measured(p) /\ pass[p] = 2 * Trials /\ job' = job
    BY <1>1, <1>6, <2>1, Functions DEF EndPass, Ends, fixed
  <2>4. ~Stopped(p) /\ ~(refusing[p] > 0)
    BY <2>2, <2>3 DEF Measured, Stopped
  <2>5. \A i \in 1..(2 * Trials), c \in Case : KeyOf(i, c) \in Done(r)
    BY <1>1, <2>2, <2>3, <2>4 DEF BehindIsRead
  <2>6. \A k \in Key : k \in Done(r)
    BY <2>5, KeysAreOfPasses
  <2>7. QED
    BY <2>2, <2>3, <2>6 DEF Done
<1>7. QED
  BY <1>3, <1>4, <1>5, <1>6 DEF BehindIsRead
(* The place a process discloses is that of the use record, or it raced. *)
LEMMA IndexStep ==
    ASSUME ReadInv, NEW p \in Proc, Step(p)
    PROVE  IndexIsDisclosed'
<1>1. IInv /\ TypeOK /\ IndexIsDisclosed
  BY DEF ReadInv, IInv
<1>2. raced \subseteq raced'
  BY DEF Step, Check, CreateRun, RecordHoldoutUse, OpenCheckpoint, Opens, Take, StopOffering, IsFatal,
         Returns, Unpriced, Sinks, EndPass, WriteValidation, finishRun, Cancel, Dies, Ends, history
<1> DEFINE r == job[p].run
           f == job[p].portfolio
<1>3. CASE RecordHoldoutUse(p)
  <2>1. /\ at[p] = "created" /\ at' = [at EXCEPT ![p] = "arm"] /\ UNCHANGED <<job, index>>
        /\ use' = [use EXCEPT ![f] = Recorded(job[p])]
        /\ raced' = IF Uses + 1 # index[p] THEN raced \cup {r} ELSE raced
    BY <1>3 DEF RecordHoldoutUse, Opens
  <2>2. r \in RunId /\ f \in Portfolio /\ job[p].resume = FALSE /\ index[p] \in Nat
    BY <1>1, <2>1, JobsOfTheBusy DEF IInv, CreatedIsOwned, TypeOK
  <2>3. use[f] # None => index[p] <= Uses
    BY <1>1, <2>1, <2>2 DEF IInv, ChecksAreDated
  <2>4. index'[p] = use'[f].nth \/ r \in raced'
    <3>1. CASE use[f] = None
      <4>1. use'[f].nth = Uses + 1
        BY <1>1, <2>1, <2>2, <3>1 DEF Recorded, TypeOK
      <4>2. QED
        BY <2>1, <4>1
    <3>2. CASE use[f] # None
      BY <2>1, <2>2, <2>3, <3>2, UsesNat
    <3>3. QED
      BY <3>1, <3>2
  <2> SUFFICES ASSUME NEW q \in Proc, q # p,
                      at[q] \in {"arm", "validation"} \/ (at[q] = "checked" /\ job[q].resume)
               PROVE  index[q] = use'[job[q].portfolio].nth \/ job[q].run \in raced'
    BY <1>1, <2>1, <2>4 DEF IndexIsDisclosed, TypeOK
  <2>5. use[job[q].portfolio] # None /\ job[q].portfolio \in Portfolio
    BY <1>1, JobsOfTheBusy DEF IInv, LookersHold, Holds, ResumesHoldTheUse
  <2>6. use'[job[q].portfolio] = use[job[q].portfolio]
    BY <1>1, <2>5, UsesStay
  <2>7. QED
    BY <1>1, <1>2, <2>6 DEF IndexIsDisclosed
<1>4. CASE ~RecordHoldoutUse(p)
  <2> SUFFICES ASSUME NEW q \in Proc,
                      at'[q] \in {"arm", "validation"} \/ (at'[q] = "checked" /\ job'[q].resume)
               PROVE  index'[q] = use'[job'[q].portfolio].nth \/ job'[q].run \in raced'
    BY DEF IndexIsDisclosed
  <2>1. use' = use
    BY <1>4 DEF Step, Check, CreateRun, OpenCheckpoint, Opens, Take, StopOffering, IsFatal,
              Returns, Unpriced, Sinks, EndPass, WriteValidation, finishRun, Cancel, Dies, store
  <2>2. CASE \E j \in Jobs, c \in Caps : Check(p, j, c)
    <3>1. PICK j \in Jobs, c \in Caps : Check(p, j, c)
      BY <2>2
    <3>2. /\ at' = [at EXCEPT ![p] = "checked"] /\ job' = [job EXCEPT ![p] = j]
          /\ index' = [index EXCEPT ![p] = UseIndex(j)]
      BY <3>1 DEF Check
    <3>3. CASE q = p
      BY <1>1, <2>1, <3>2, <3>3, Functions DEF UseIndex
    <3>4. CASE q # p
      BY <1>1, <1>2, <2>1, <3>2, <3>4, Functions DEF IndexIsDisclosed
    <3>5. QED
      BY <3>3, <3>4
  <2>3. CASE ~(\E j \in Jobs, c \in Caps : Check(p, j, c))
    <3>1. /\ at[q] \in {"arm", "validation"} \/ (at[q] = "checked" /\ job[q].resume)
          /\ job'[q] = job[q] /\ index'[q] = index[q]
      <4>1. CASE q # p
        BY <1>1, <4>1, OthersKeep
      <4>2. CASE q = p
        <5>1. CASE OpenCheckpoint(p) \/ EndPass(p) \/ WriteValidation(p)
          BY <1>1, <4>2, <5>1, Functions DEF OpenCheckpoint, Opens, EndPass, WriteValidation, Ends,
                                             fixed
        <5>2. CASE CreateRun(p) \/ finishRun(p) \/ Dies(p)
          BY <1>1, <4>2, <5>2, Functions DEF CreateRun, finishRun, Dies, Ends
        <5>3. CASE \/ Take(p) \/ Unpriced(p) \/ StopOffering(p) \/ IsFatal(p) \/ Cancel(p)
                   \/ \E k \in Key, kind \in {"scored", "errored", "panic"} : Returns(p, k, kind)
          BY <1>1, <4>2, <5>3 DEF Take, StopOffering, IsFatal, Cancel, Returns, Unpriced, Sinks, fixed
        <5>4. QED
          BY <1>4, <2>3, <5>1, <5>2, <5>3 DEF Step
      <4>3. QED
        BY <4>1, <4>2
    <3>2. QED
      BY <1>1, <1>2, <2>1, <3>1 DEF IndexIsDisclosed
  <2>4. QED
    BY <2>2, <2>3
<1>5. QED
  BY <1>3, <1>4

(* A Validation reads the rows of its run only. *)
LEMMA SameRowsSameValidation ==
    ASSUME NEW r \in RunId, row'[r] = row[r], NEW n
    PROVE  validationFor(r, n)' = validationFor(r, n)
<1>1. \A arm, c : Scored(r, arm, c)' = Scored(r, arm, c)
  BY DEF Scored
<1>2. \A c : DroppedOf(r, c)' = DroppedOf(r, c)
  BY <1>1 DEF DroppedOf
<1>3. /\ {c \in Case : Scored(r, "treatment", c) \cap Scored(r, "control", c) # {}}'
         = {c \in Case : Scored(r, "treatment", c) \cap Scored(r, "control", c) # {}}
      /\ [c \in Case |-> DroppedOf(r, c)]' = [c \in Case |-> DroppedOf(r, c)]
  BY <1>1, <1>2
<1>4. QED
  BY <1>3 DEF validationFor

(* A Validation is written once both arms are in, and they stay as they are. *)
LEMMA WholeStep ==
    ASSUME ReadInv, NEW p \in Proc, Step(p)
    PROVE  ValidationIsWhole'
<1>1. IInv /\ TypeOK /\ BehindIsRead /\ IndexIsDisclosed /\ ValidationIsWhole
  BY DEF ReadInv, IInv
<1>2. raced \subseteq raced'
  BY DEF Step, Check, CreateRun, RecordHoldoutUse, OpenCheckpoint, Opens, Take, StopOffering, IsFatal,
         Returns, Unpriced, Sinks, EndPass, WriteValidation, finishRun, Cancel, Dies, Ends, history
<1> SUFFICES ASSUME NEW r \in RunId, validation'[r] # None
             PROVE  /\ Done(r)' = Key
                    /\ \E n : n = validation'[r].index /\ validation'[r] = validationFor(r, n)'
                    /\ validation'[r].index = use'[owner'[r]].nth \/ r \in raced'
  BY DEF ValidationIsWhole, validationFor, Done
<1>3. ASSUME Done(r) = Key
      PROVE  row'[r] = row[r] /\ Done(r)' = Key
             /\ owner[r] # None /\ use[owner[r]] # None /\ owner[r] \in Portfolio
  <2>1. row'[r] = row[r]
    BY <1>1, <1>3, RowsStay
  <2>2. \E c \in Case : KeyOf(1, c) \in Key
    <3>1. 1 \in 1..(2 * Trials)
      OBVIOUS
    <3>2. PICK c \in Case : TRUE
      OBVIOUS
    <3>3. KeyOf(1, c) \in Key
      BY <3>1, KeysAreKeys
    <3>4. QED
      BY <3>3
  <2>3. owner[r] # None /\ use[owner[r]] # None
    BY <1>1, <1>3, <2>2 DEF IInv, LookersHold, Holds
  <2>4. QED
    BY <1>1, <1>3, <2>1, <2>3 DEF Done, TypeOK
<1>4. CASE WriteValidation(p) /\ r = job[p].run
  <2>1. /\ at[p] = "validation" /\ UNCHANGED <<use, owner>>
        /\ validation'[r] = validationFor(r, index[p])
    BY <1>1, <1>4, Functions DEF WriteValidation
  <2>2. Done(r) = Key /\ Holds(r, job[p].portfolio)
    BY <1>1, <1>4, <2>1 DEF BehindIsRead, IInv, LookersHold
  <2>3. index[p] = use[job[p].portfolio].nth \/ r \in raced
    BY <1>1, <1>4, <2>1 DEF IndexIsDisclosed
  <2>4. PICK n : n = index[p]
    OBVIOUS
  <2>5. validation'[r] = validationFor(r, n) /\ validationFor(r, n).index = n
    BY <2>1, <2>4 DEF validationFor
  <2>6. validationFor(r, n)' = validationFor(r, n)
    BY <1>3, <2>2, SameRowsSameValidation
  <2>7. owner[r] = job[p].portfolio
    BY <2>2 DEF Holds
  <2>8. QED
    BY <1>2, <1>3, <2>1, <2>2, <2>3, <2>4, <2>5, <2>6, <2>7
<1>5. CASE ~(WriteValidation(p) /\ r = job[p].run)
  <2>1. validation'[r] = validation[r]
    BY <1>1, <1>5, Functions DEF Step, Check, CreateRun, RecordHoldoutUse, OpenCheckpoint, Opens, Take,
         StopOffering, IsFatal, Returns, Unpriced, Sinks, EndPass, WriteValidation, finishRun, Cancel, Dies, store
  <2>2. /\ Done(r) = Key /\ validation[r] = validationFor(r, validation[r].index)
        /\ validation[r].index = use[owner[r]].nth \/ r \in raced
    BY <1>1, <2>1 DEF ValidationIsWhole
  <2>3. PICK n : n = validation[r].index /\ validation[r] = validationFor(r, n)
    BY <2>2
  <2>4. validationFor(r, n)' = validationFor(r, n)
    BY <1>3, <2>2, SameRowsSameValidation
  <2>5. owner'[r] = owner[r]
    <3>1. CASE CreateRun(p)
      <4>1. owner' = [owner EXCEPT ![job[p].run] = job[p].portfolio] /\ at[p] = "checked"
              /\ ~job[p].resume
        BY <3>1 DEF CreateRun
      <4>2. job[p].run \in RunId /\ status[job[p].run] = "ABSENT"
        BY <1>1, <4>1, JobsOfTheBusy DEF IInv, FreshRunsAreNew
      <4>3. owner[job[p].run] = None
        BY <1>1, <4>2 DEF IInv, RunsHaveOwners
      <4>4. QED
        BY <1>1, <1>3, <2>2, <4>1, <4>3 DEF TypeOK
    <3>2. CASE ~CreateRun(p)
      BY <3>2 DEF Step, Check, RecordHoldoutUse, OpenCheckpoint, Opens, Take, StopOffering, IsFatal,
           Returns, Unpriced, Sinks, EndPass, WriteValidation, finishRun, Cancel, Dies, store
    <3>3. QED
      BY <3>1, <3>2
  <2>6. use'[owner[r]] = use[owner[r]]
    BY <1>1, <1>3, <2>2, UsesStay
  <2>7. QED
    BY <1>2, <1>3, <2>1, <2>2, <2>3, <2>4, <2>5, <2>6
<1>6. QED
  BY <1>4, <1>5

-----------------------------------------------------------------------------
(* Together. *)

(* Nothing is read or disclosed before anything is done. *)
LEMMA InitReadInv == Init => ReadInv
<1> SUFFICES ASSUME Init PROVE ReadInv
  OBVIOUS
<1>1. IInv
  BY InitIInv
<1>2. \A r \in RunId, k \in Key : row[r][k].kind = "none"
  BY DEF Init, NoRow
<1>3. UnpaidRowsAreFaults
  BY <1>2 DEF UnpaidRowsAreFaults
<1>4. AloneUnlessShared /\ CreatedIsFresh /\ AheadIsUnread /\ ResumeReadsTheRest /\ BehindIsRead
        /\ IndexIsDisclosed /\ ValidationIsWhole
  BY DEF Init, AloneUnlessShared, CreatedIsFresh, AheadIsUnread, ResumeReadsTheRest, BehindIsRead,
         IndexIsDisclosed, ValidationIsWhole
<1>5. QED
  BY <1>1, <1>3, <1>4 DEF ReadInv

(* Every step keeps it. *)
LEMMA NextReadInv == ReadInv /\ [Next]_vars => ReadInv'
<1> SUFFICES ASSUME ReadInv, [Next]_vars PROVE ReadInv'
  OBVIOUS
<1>1. IInv'
  BY NextIInv DEF ReadInv
<1>2. CASE UNCHANGED vars
  <2> USE <1>2 DEF vars, store, work, stops, fixed, history
  <2>1. UnpaidRowsAreFaults' /\ AloneUnlessShared' /\ ResumeReadsTheRest' /\ IndexIsDisclosed'
    BY DEF ReadInv, UnpaidRowsAreFaults, AloneUnlessShared, ResumeReadsTheRest, IndexIsDisclosed
  <2>2. CreatedIsFresh' /\ AheadIsUnread' /\ BehindIsRead'
    BY DEF ReadInv, CreatedIsFresh, AheadIsUnread, BehindIsRead, Done, Stopped
  <2>3. ValidationIsWhole'
    <3>1. ASSUME NEW r \in RunId, validation'[r] # None
          PROVE  /\ Done(r)' = Key
                 /\ \E n : n = validation'[r].index /\ validation'[r] = validationFor(r, n)'
                 /\ validation'[r].index = use'[owner'[r]].nth \/ r \in raced'
      <4>1. /\ Done(r) = Key /\ validation[r] = validationFor(r, validation[r].index)
            /\ validation[r].index = use[owner[r]].nth \/ r \in raced
        BY <3>1 DEF ReadInv, ValidationIsWhole
      <4>2. PICK n : n = validation[r].index /\ validation[r] = validationFor(r, n)
        BY <4>1
      <4>3. validationFor(r, n)' = validationFor(r, n)
        BY SameRowsSameValidation
      <4>4. Done(r)' = Done(r)
        BY DEF Done
      <4>5. QED
        BY <4>1, <4>2, <4>3, <4>4
    <3>2. QED
      BY <3>1 DEF ValidationIsWhole, validationFor, Done
  <2>4. QED
    BY <1>1, <2>1, <2>2, <2>3 DEF ReadInv
<1>3. CASE Next
  <2>1. PICK p \in Proc : Step(p)
    BY <1>3 DEF Next
  <2>2. QED
    BY <1>1, <2>1, CostStep, AloneStep, FreshStep, AheadStep, UnreadStep, BehindStep, IndexStep,
       WholeStep DEF ReadInv
<1>4. QED
  BY <1>2, <1>3

(* A row without a settled call is that of a panic or of a refused          *)
(* estimate: no refusal by the budget and no cancelled measurement leaves   *)
(* one to keep its case from the resume (validate_loop.go:438-460).         *)
THEOREM OnlyFaultsCostACase == Spec => []UnpaidRowsAreFaults
<1>1. ReadInv => UnpaidRowsAreFaults
  BY DEF ReadInv
<1>2. QED
  BY <1>1, InitReadInv, NextReadInv, PTL DEF Spec

(* A resumed process has out only the measurements no earlier one recorded, *)
(* unless two had the run open at once.                                     *)
THEOREM ResumesReadTheRest == Spec => []ResumeReadsTheRest
<1>1. ReadInv => ResumeReadsTheRest
  BY DEF ReadInv
<1>2. QED
  BY <1>1, InitReadInv, NextReadInv, PTL DEF Spec

(* A Validation was computed with every measurement of both arms in, is     *)
(* what the rows say now, and discloses the place of its use, or raced.     *)
THEOREM ValidationsAreWhole == Spec => []ValidationIsWhole
<1>1. ReadInv => ValidationIsWhole
  BY DEF ReadInv
<1>2. QED
  BY <1>1, InitReadInv, NextReadInv, PTL DEF Spec
=============================================================================
