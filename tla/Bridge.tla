------------------------------- MODULE Bridge -------------------------------
(***************************************************************************)
(* A bridge run over its processes (bridge/run.go, submit.go, hosting.go,  *)
(* reconcile.go): for every ablation group a fine-tuning job is submitted, *)
(* polled and reconciled, its model deployed, measured and torn down, and  *)
(* a verdict emitted.  Jobs and endpoints live at the provider and bill    *)
(* whether or not a process is there to see it; the tuning_jobs row of a   *)
(* group is what the next process knows of them.                           *)
(*                                                                         *)
(* The main goroutine takes one step per store or provider call.  Any such *)
(* call may fail, and does once the context is cancelled.  A request that  *)
(* was sent may take effect at any later time, its sender dead or alive.   *)
(* A job costs 1 and so does a minute of hosting; the budget guard is a    *)
(* call that may refuse.                                                   *)
(***************************************************************************)
EXTENDS Integers, Sequences, Sums

CONSTANTS
    Groups,          \* the number of groups; group 1 is the all-in group
    Cases,           \* how many cases each group is measured over
    MaxServe,        \* --bridge-max-serve-minutes
    MaxMinutes,      \* bound: how many minutes the provider bills, in all
    MaxUnwritten,    \* bound: minutes of a group settled whose row write failed
    MaxProcesses     \* bound: how often Run is called

ASSUME BridgeAssumption ==
    /\ Groups \in Nat \ {0} /\ Cases \in Nat \ {0}
    /\ MaxServe \in Nat /\ MaxMinutes \in Nat /\ MaxUnwritten \in Nat /\ MaxProcesses \in Nat

Group == 1..Groups
AllIn == 1

VARIABLES
    \* The store.
    row,         \* the tuning_jobs row of each group
    scored,      \* how many cases of each group have a measurement
    orphan,      \* runs.orphan_cost
    verdicts,    \* BridgeGroupMeasured events of each group
    \* The provider.
    job,         \* "none", "sent", "running", "succeeded" or "failed"
    over,        \* whether the job's actual cost is above its estimate, by 1
    endpoint,    \* the deploy requests for each group, [at, billed]
    \* The process.
    pc, cur,     \* where Run is, and at which group
    rec,         \* the row as measureGroup was given it
    owed,        \* what the sweep is about to record as orphan spend
    mine,        \* the endpoint DeployGroup has returned, or 0
    clock,       \* whether that endpoint has a ReadyAt
    got,         \* scores Measure returned and recordScores has not written
    failed,      \* retErr # nil in deployAndMeasure
    ticker,      \* whether the serve ticker runs
    tickErr,     \* its firstErr
    ctxDone,     \* the caller's context is cancelled
    \* History variables.
    processes,
    submits,     \* Submit requests for each group
    charged,     \* hosting minutes the ticks have settled with the guard for each group
    unwritten,   \* those of them whose tick failed to write them to the row
    untried      \* Run was cancelled and returned without calling Teardown

store == <<row, scored, orphan, verdicts>>
provider == <<job, over, endpoint>>
hosting == <<mine, clock, got, failed>>
tick == <<ticker, tickErr>>
history == <<processes, submits, charged, unwritten, untried>>
bridgeVars == <<store, provider, pc, cur, rec, owed, hosting, tick, ctxDone, history>>

NoRow == [state |-> "none", status |-> "none", deployed |-> FALSE, endpoint |-> 0,
          tornDown |-> FALSE, minutes |-> 0, cost |-> 0, verdict |-> FALSE]

BridgeInit ==
    /\ row = [g \in Group |-> NoRow]
    /\ scored = [g \in Group |-> 0] /\ orphan = 0 /\ verdicts = [g \in Group |-> 0]
    /\ job = [g \in Group |-> "none"] /\ over = [g \in Group |-> FALSE]
    /\ endpoint = [g \in Group |-> <<>>]
    /\ pc = "down" /\ cur = 1 /\ rec = NoRow /\ owed = 0
    /\ mine = 0 /\ clock = FALSE /\ got = 0 /\ failed = FALSE
    /\ ticker = FALSE /\ tickErr = FALSE /\ ctxDone = FALSE
    /\ processes = 0 /\ submits = [g \in Group |-> 0]
    /\ charged = [g \in Group |-> 0] /\ unwritten = [g \in Group |-> 0] /\ untried = FALSE

Exists(g) == {i \in DOMAIN endpoint[g] : endpoint[g][i].at \in {"starting", "ready"}}

Newest(g) == endpoint[g][Len(endpoint[g])]

\* A call of the main goroutine that succeeds.
At(place) == pc = place /\ ~ctxDone

Write(g, r) == row' = [row EXCEPT ![g] = r]

(* The process ends, and its memory with it. *)
Gone ==
    /\ pc' = "down" /\ cur' = 1 /\ rec' = NoRow /\ owed' = 0
    /\ mine' = 0 /\ clock' = FALSE /\ got' = 0 /\ failed' = FALSE
    /\ ticker' = FALSE /\ tickErr' = FALSE /\ ctxDone' = FALSE

(* The group is done with; after the last, Run returns. *)
NextGroup ==
    /\ mine' = 0 /\ clock' = FALSE /\ rec' = NoRow
    /\ IF cur < Groups THEN pc' = "submit" /\ cur' = cur + 1
                       ELSE pc' = "down" /\ cur' = 1

Stays == UNCHANGED <<mine, clock, rec, cur>>

-----------------------------------------------------------------------------
(* The provider. *)

Land(g) ==
    /\ job[g] = "sent"
    /\ job' = [job EXCEPT ![g] = "running"]
    /\ UNCHANGED <<store, over, endpoint, pc, cur, rec, owed, hosting, tick, ctxDone, history>>

JobEnds(g) ==
    /\ job[g] = "running"
    /\ \E how \in {"succeeded", "failed"}, o \in BOOLEAN :
          /\ job' = [job EXCEPT ![g] = how]
          /\ over' = [over EXCEPT ![g] = o]
    /\ UNCHANGED <<store, endpoint, pc, cur, rec, owed, hosting, tick, ctxDone, history>>

EndpointMoves(g, i) ==
    /\ endpoint[g][i].at \in {"asked", "starting"}
    /\ endpoint' = [endpoint EXCEPT ![g][i].at = IF @ = "asked" THEN "starting" ELSE "ready"]
    /\ UNCHANGED <<store, job, over, pc, cur, rec, owed, hosting, tick, ctxDone, history>>

Billed(g) == SumOver([i \in DOMAIN endpoint[g] |-> endpoint[g][i].billed], DOMAIN endpoint[g])

\* A minute of a ready endpoint is billed.
Minute(g, i) ==
    /\ endpoint[g][i].at = "ready"
    /\ SumOver([h \in Group |-> Billed(h)], Group) < MaxMinutes
    /\ endpoint' = [endpoint EXCEPT ![g][i].billed = @ + 1]
    /\ UNCHANGED <<store, job, over, pc, cur, rec, owed, hosting, tick, ctxDone, history>>

Provider ==
    \E g \in Group :
        \/ Land(g) \/ JobEnds(g)
        \/ \E i \in DOMAIN endpoint[g] : EndpointMoves(g, i) \/ Minute(g, i)

-----------------------------------------------------------------------------
(* SweepEndpoints, before anything is submitted. *)

Start ==
    /\ pc = "down" /\ processes < MaxProcesses
    /\ pc' = "sweep" /\ processes' = processes + 1
    /\ UNCHANGED <<store, provider, cur, rec, owed, hosting, tick, ctxDone, submits, charged,
                   unwritten, untried>>

Sweepable(r) == ~r.tornDown /\ (r.endpoint # 0 \/ r.deployed)

SweepNext ==
    IF cur < Groups THEN pc' = "sweep" /\ cur' = cur + 1
                    ELSE pc' = "submit" /\ cur' = 1

SweepSkip ==
    /\ At("sweep") /\ ~Sweepable(row[cur])
    /\ SweepNext
    /\ UNCHANGED <<store, provider, rec, owed, hosting, tick, ctxDone, history>>

\* The endpoint's id was never recorded: take the first the provider lists.
SweepList ==
    /\ At("sweep") /\ Sweepable(row[cur]) /\ row[cur].endpoint = 0
    /\ \/ Exists(cur) = {} /\ pc' = "sweepSettle" /\ UNCHANGED row
       \/ \E i \in Exists(cur) :
             Write(cur, [row[cur] EXCEPT !.endpoint = i]) /\ UNCHANGED pc
    /\ UNCHANGED <<scored, orphan, verdicts, provider, cur, rec, owed, hosting, tick, ctxDone,
                   history>>

Removed(g, i) == endpoint' = [endpoint EXCEPT ![g][i].at = "gone"]

SweepTeardown ==
    /\ At("sweep") /\ Sweepable(row[cur]) /\ row[cur].endpoint # 0
    /\ Removed(cur, row[cur].endpoint)
    /\ pc' = "sweepSettle"
    /\ UNCHANGED <<store, job, over, cur, rec, owed, hosting, tick, ctxDone, history>>

\* settleSweptMinutes: the row is charged up to the cap at the rate it has paid so far,
\* in the minutes now and in the orphan spend next.
settleSweptMinutes ==
    /\ At("sweepSettle")
    /\ LET r == row[cur]
           rate == IF r.minutes > 0 THEN r.cost \div r.minutes ELSE 0
       IN IF MaxServe > r.minutes
          THEN /\ Write(cur, [r EXCEPT !.minutes = MaxServe])
               /\ owed' = rate * (MaxServe - r.minutes)
          ELSE owed' = 0 /\ UNCHANGED row
    /\ pc' = "sweepMark"
    /\ UNCHANGED <<scored, orphan, verdicts, provider, cur, rec, hosting, tick, ctxDone, history>>

SweepOrphan ==
    /\ At("sweepMark") /\ owed > 0
    /\ orphan' = orphan + owed /\ owed' = 0
    /\ UNCHANGED <<row, scored, verdicts, provider, pc, cur, rec, hosting, tick, ctxDone,
                   history>>

SweepMark ==
    /\ At("sweepMark") /\ owed = 0
    /\ IF row[cur].endpoint # 0 THEN Write(cur, [row[cur] EXCEPT !.tornDown = TRUE])
                                ELSE UNCHANGED row
    /\ SweepNext
    /\ UNCHANGED <<scored, orphan, verdicts, provider, rec, owed, hosting, tick, ctxDone, history>>

Sweep == SweepSkip \/ SweepList \/ SweepTeardown \/ settleSweptMinutes \/ SweepOrphan \/ SweepMark

-----------------------------------------------------------------------------
(* One group: submission. *)

\* The guard agreed; the row is written before the request is sent.
WriteAhead ==
    /\ At("submit") /\ row[cur].state = "none"
    /\ Write(cur, [NoRow EXCEPT !.state = "submitting"])
    /\ pc' = "send"
    /\ UNCHANGED <<scored, orphan, verdicts, provider, cur, rec, owed, hosting, tick, ctxDone,
                   history>>

\* Mutant: a submission that cannot be found again is made again.
BugAdoptOrAbandon ==
    /\ At("submit") /\ row[cur].state = "submitting"
    /\ IF job[cur] \notin {"none", "sent"}
       THEN Write(cur, [row[cur] EXCEPT !.state = "submitted"]) /\ pc' = "poll"
       ELSE pc' = "send" /\ UNCHANGED row
    /\ Stays
    /\ UNCHANGED <<scored, orphan, verdicts, provider, owed, got, failed, tick, ctxDone, history>>

adoptOrAbandon ==
    /\ At("submit") /\ row[cur].state = "submitting"
    /\ IF job[cur] \notin {"none", "sent"}
       THEN /\ Write(cur, [row[cur] EXCEPT !.state = "submitted"])
            /\ pc' = "poll" /\ Stays
       ELSE /\ Write(cur, [row[cur] EXCEPT !.state = "abandoned"])
            /\ NextGroup
    /\ UNCHANGED <<scored, orphan, verdicts, provider, owed, got, failed, tick, ctxDone, history>>

AlreadySubmitted ==
    /\ At("submit") /\ row[cur].state \in {"submitted", "abandoned"}
    /\ IF row[cur].state = "submitted" THEN pc' = "poll" /\ Stays ELSE NextGroup
    /\ UNCHANGED <<store, provider, owed, got, failed, tick, ctxDone, history>>

Submit ==
    /\ At("send")
    /\ job' = [job EXCEPT ![cur] = "sent"]
    /\ submits' = [submits EXCEPT ![cur] = @ + 1]
    /\ pc' = "await"
    /\ UNCHANGED <<store, over, endpoint, cur, rec, owed, hosting, tick, ctxDone, processes,
                   charged, unwritten, untried>>

\* The provider's answer: the reservation is settled and the row says so.
RecordSubmitted ==
    /\ At("await") /\ job[cur] # "sent"
    /\ Write(cur, [row[cur] EXCEPT !.state = "submitted"])
    /\ pc' = "poll"
    /\ UNCHANGED <<scored, orphan, verdicts, provider, cur, rec, owed, hosting, tick, ctxDone,
                   history>>

-----------------------------------------------------------------------------
(* One group: the end of the job. *)

Ended(g) == job[g] \in {"succeeded", "failed"}

\* Mutant: the row is closed before the overshoot is recorded.
BugRecordOvershoot ==
    /\ At("poll") /\ Ended(cur)
    /\ pc' = "reconcile"
    /\ Write(cur, [row[cur] EXCEPT !.status = job[cur]])
    /\ UNCHANGED <<scored, orphan, verdicts, provider, cur, rec, owed, hosting, tick, ctxDone,
                   history>>

\* ReconcileTerminal, in two writes.
RecordOvershoot ==
    /\ At("poll") /\ Ended(cur)
    /\ orphan' = IF over[cur] THEN orphan + 1 ELSE orphan
    /\ pc' = "reconcile"
    /\ UNCHANGED <<row, scored, verdicts, provider, cur, rec, owed, hosting, tick, ctxDone,
                   history>>

RecordTerminal ==
    /\ At("reconcile")
    /\ Write(cur, [row[cur] EXCEPT !.status = job[cur]])
    /\ IF job[cur] = "succeeded" THEN pc' = "measure" /\ Stays ELSE NextGroup
    /\ UNCHANGED <<scored, orphan, verdicts, provider, owed, got, failed, tick, ctxDone, history>>

-----------------------------------------------------------------------------
(* One group: its measurement. *)

\* Mutant: a resume measures every case again.
BugMissing(g) == Cases

Missing(g) == Cases - scored[g]

\* Mutant: a resume does not look for a verdict that was already given.
BugReported == FALSE

Reported == cur # AllIn /\ row[cur].verdict

measureGroup ==
    /\ At("measure")
    /\ \/ /\ Reported /\ scored[AllIn] > 0
          /\ NextGroup
       \/ /\ ~Reported /\ Missing(cur) = 0 /\ cur = AllIn
          /\ NextGroup
       \/ /\ ~Reported /\ Missing(cur) = 0 /\ cur # AllIn
          /\ pc' = "verdict" /\ rec' = row[cur] /\ UNCHANGED <<cur, mine, clock>>
       \/ /\ ~Reported /\ Missing(cur) > 0
          /\ pc' = "deploy" /\ rec' = row[cur] /\ UNCHANGED <<cur, mine, clock>>
    /\ UNCHANGED <<store, provider, owed, got, failed, tick, ctxDone, history>>

\* Mutant: the attempt is recorded with the endpoint's id, after the fact.
BugDeployAhead ==
    /\ At("deploy")
    /\ pc' = "ask"
    /\ UNCHANGED <<store, provider, cur, rec, owed, hosting, tick, ctxDone, history>>

DeployAhead ==
    /\ At("deploy")
    /\ Write(cur, [row[cur] EXCEPT !.deployed = TRUE])
    /\ pc' = "ask"
    /\ UNCHANGED <<scored, orphan, verdicts, provider, cur, rec, owed, hosting, tick, ctxDone,
                   history>>

Deploy ==
    /\ At("ask")
    /\ endpoint' = [endpoint EXCEPT ![cur] = Append(@, [at |-> "asked", billed |-> 0])]
    /\ pc' = "deploying"
    /\ UNCHANGED <<store, job, over, cur, rec, owed, hosting, tick, ctxDone, history>>

\* The answer says whether the endpoint is ready yet, and only then since when.
RecordEndpoint ==
    /\ At("deploying") /\ Newest(cur).at \in {"starting", "ready"}
    /\ Write(cur, [row[cur] EXCEPT !.endpoint = Len(endpoint[cur])])
    /\ clock' \in {FALSE, Newest(cur).at = "ready"}
    /\ pc' = "announce"
    /\ UNCHANGED <<scored, orphan, verdicts, provider, cur, rec, owed, mine, got, failed, tick,
                   ctxDone, history>>

\* DeployGroup returns: from here on the teardown is deferred and the ticker runs.
Serve ==
    /\ At("announce")
    /\ mine' = Len(endpoint[cur]) /\ ticker' = TRUE
    /\ pc' = "measuring"
    /\ UNCHANGED <<store, provider, cur, rec, owed, clock, got, failed, tickErr, ctxDone, history>>

MeasureReturns ==
    /\ pc = "measuring"
    /\ got' \in 0..Missing(cur)
    /\ failed' \in {TRUE, ctxDone}
    /\ pc' = "record"
    /\ UNCHANGED <<store, provider, cur, rec, owed, mine, clock, tick, ctxDone, history>>

\* recordScores, before Measure's error is looked at; a write may fail on the way.
recordScores ==
    /\ pc = "record"
    /\ \E n \in 0..got :
          /\ n > 0 => ~ctxDone
          /\ scored' = [scored EXCEPT ![cur] = @ + n]
          /\ failed' = (failed \/ n < got)
    /\ got' = 0
    /\ pc' = "stopTick"
    /\ UNCHANGED <<row, orphan, verdicts, provider, cur, rec, owed, mine, clock, tick, ctxDone,
                   history>>

-----------------------------------------------------------------------------
(* The serve ticker. *)

\* Mutant: every tick settles all the minutes served so far.
BugSettledBy(elapsed) == elapsed

SettledBy(elapsed) == elapsed - row[cur].minutes

(* SettleServeTick.  The store, the guard or the context may refuse; the    *)
(* guard has settled the minutes by the time the row is written, and keeps  *)
(* them when that write fails.                                              *)
SettleServeTick ==
    LET elapsed == IF clock THEN endpoint[cur][mine].billed ELSE 0
        due == SettledBy(elapsed)
    IN
    \/ ~ctxDone /\ elapsed <= row[cur].minutes /\ UNCHANGED <<row, charged, unwritten, tickErr>>
    \/ /\ ~ctxDone /\ elapsed > row[cur].minutes
       /\ charged' = [charged EXCEPT ![cur] = @ + due]
       /\ \/ /\ Write(cur, [row[cur] EXCEPT !.minutes = elapsed, !.cost = @ + due])
             /\ UNCHANGED <<unwritten, tickErr>>
          \/ /\ unwritten[cur] + due <= MaxUnwritten
             /\ unwritten' = [unwritten EXCEPT ![cur] = @ + due]
             /\ tickErr' = TRUE /\ UNCHANGED row
    \/ tickErr' = TRUE /\ UNCHANGED <<row, charged, unwritten>>

Tick ==
    /\ ticker /\ SettleServeTick
    /\ UNCHANGED <<scored, orphan, verdicts, provider, pc, cur, rec, owed, hosting, ticker,
                   ctxDone, processes, submits, untried>>

\* Told to stop, it settles once more; a cancelled context ends it at once.
TickerEnds ==
    /\ ticker /\ ticker' = FALSE
    /\ \/ pc = "stopTick" /\ SettleServeTick
       \/ ctxDone /\ UNCHANGED <<row, charged, unwritten, tickErr>>
    /\ UNCHANGED <<scored, orphan, verdicts, provider, pc, cur, rec, owed, hosting, ctxDone,
                   processes, submits, untried>>

stopTick ==
    /\ pc = "stopTick" /\ ~ticker
    /\ failed' = (failed \/ tickErr)
    /\ tickErr' = FALSE
    /\ pc' = "teardown"
    /\ UNCHANGED <<store, provider, cur, rec, owed, mine, clock, got, ticker, ctxDone, history>>

-----------------------------------------------------------------------------
(* One group: its teardown and its verdict. *)

\* The row is read first; then the provider is called.
Teardown ==
    /\ At("teardown")
    /\ \/ /\ Removed(cur, mine)
          /\ pc' = "markTornDown" /\ Stays
          /\ UNCHANGED <<owed, got, failed, tick, ctxDone>>
       \/ /\ Gone
          /\ Removed(cur, mine) \/ UNCHANGED endpoint
    /\ UNCHANGED <<store, job, over, history>>

\* A failed teardown or measurement ends the run; nothing else does.
MarkTornDown ==
    /\ At("markTornDown")
    /\ Write(cur, [row[cur] EXCEPT !.tornDown = TRUE])
    /\ \/ failed /\ Gone
       \/ /\ ~failed
          /\ IF cur = AllIn THEN NextGroup
             ELSE pc' = "verdict" /\ mine' = 0 /\ clock' = FALSE /\ UNCHANGED <<rec, cur>>
          /\ UNCHANGED <<owed, got, failed, tick, ctxDone>>
    /\ UNCHANGED <<scored, orphan, verdicts, provider, history>>

emitVerdict ==
    /\ At("verdict") /\ scored[AllIn] > 0
    /\ verdicts' = [verdicts EXCEPT ![cur] = @ + 1]
    /\ pc' = "mark"
    /\ UNCHANGED <<row, scored, orphan, provider, cur, rec, owed, hosting, tick, ctxDone, history>>

\* The record measureGroup was given is written back, with the verdict.
MarkVerdict ==
    /\ At("mark")
    /\ Write(cur, [rec EXCEPT !.verdict = TRUE])
    /\ NextGroup
    /\ UNCHANGED <<scored, orphan, verdicts, provider, owed, got, failed, tick, ctxDone, history>>

Place == {"sweep", "sweepSettle", "sweepMark", "submit", "send", "await", "poll", "reconcile",
          "measure", "deploy", "ask", "deploying", "announce", "measuring", "record",
          "stopTick", "teardown", "markTornDown", "verdict", "mark"}

\* Mutant: a group whose submission failed is skipped like one whose job failed.
BugFails ==
    /\ pc \in Place \ {"measuring", "record", "stopTick"}
    /\ IF pc \in {"send", "await"}
       THEN NextGroup /\ UNCHANGED <<owed, got, failed, tick, ctxDone, untried>>
       ELSE Gone /\ untried' = (untried \/ (pc = "teardown" /\ ctxDone))
    /\ UNCHANGED <<store, provider, processes, submits, charged, unwritten>>

\* A call fails, or the guard refuses, or a wait times out: Run returns the error.
Fails ==
    /\ pc \in Place \ {"measuring", "record", "stopTick"}
    /\ Gone
    /\ untried' = (untried \/ (pc = "teardown" /\ ctxDone))
    /\ UNCHANGED <<store, provider, processes, submits, charged, unwritten>>

Cancel ==
    /\ pc # "down" /\ ~ctxDone
    /\ ctxDone' = TRUE
    /\ UNCHANGED <<store, provider, pc, cur, rec, owed, hosting, tick, history>>

Crash ==
    /\ pc # "down"
    /\ Gone
    /\ UNCHANGED <<store, provider, history>>

Process ==
    \/ Sweep
    \/ WriteAhead \/ adoptOrAbandon \/ AlreadySubmitted \/ Submit \/ RecordSubmitted
    \/ RecordOvershoot \/ RecordTerminal
    \/ measureGroup \/ DeployAhead \/ Deploy \/ RecordEndpoint \/ Serve \/ MeasureReturns \/ recordScores
    \/ Tick \/ TickerEnds \/ stopTick
    \/ Teardown \/ MarkTornDown \/ emitVerdict \/ MarkVerdict
    \/ Fails \/ Cancel \/ Crash

BridgeNext == Start \/ Provider \/ Process

BridgeSpec == BridgeInit /\ [][BridgeNext]_bridgeVars

-----------------------------------------------------------------------------
(* Properties. *)

(* A group's job is requested once, whatever happens to the request, to its *)
(* answer and to the process that sent it (submit.go:96-110, 127).         *)
SubmittedOnce == \A g \in Group : submits[g] <= 1

(* No process goes on to spend, on another group or on hosting, while a    *)
(* job the provider may have is missing from SettledSpend                  *)
(* (submit.go:150-177; sqlite.go:908-917).                                 *)
JobsAreCounted ==
    \A g \in Group :
        /\ job[g] # "none"
        /\ pc \notin {"down", "sweep", "sweepSettle", "sweepMark"}
        /\ g < cur \/ (g = cur /\ pc \notin {"submit", "await"})
        => row[g].state \in {"submitted", "abandoned"}

(* A job that cost more than its estimate is in the orphan spend by the    *)
(* time its row says it has ended, over kills between the two writes       *)
(* (reconcile.go:60-77).                                                   *)
OvershootIsRecorded ==
    orphan >= Cardinality({g \in Group : over[g] /\ row[g].status # "none"})

(* An endpoint that exists at the provider, even one that came up after    *)
(* its process died, is found by the next sweep, unless its group was      *)
(* deployed more than once (hosting.go:41-46, 310-345).                    *)
OnlyARedeployHides ==
    \A g \in Group :
        Exists(g) # {} /\ Len(endpoint[g]) = 1 =>
            Sweepable(row[g]) /\ row[g].endpoint \in {0, 1}

(* Once a group's verdict is marked, no process deploys, measures or       *)
(* reports it again (run.go:286-292).                                      *)
VerdictIsFinal ==
    [][\A g \in Group : row[g].verdict =>
          /\ Len(endpoint'[g]) = Len(endpoint[g])
          /\ scored'[g] = scored[g] /\ verdicts'[g] = verdicts[g]]_bridgeVars

(* Over failed ticks, a cancellation and a second deployment the row holds  *)
(* no minute the provider did not bill, and the guards have settled a       *)
(* minute again only where the row write after its settlement failed; the   *)
(* row keeps all other settled minutes until a verdict is marked            *)
(* (hosting.go:149-185, run.go:636-647).                                    *)
HostingIsAccounted ==
    \A g \in Group :
        /\ row[g].cost <= Billed(g) /\ charged[g] <= Billed(g) + unwritten[g]
        /\ ~row[g].verdict => charged[g] = row[g].cost + unwritten[g]

(* The row keeps the hosting cost that was settled and written to it:       *)
(* leaving it out of SettledSpend is a double-spend (sqlite.go:919).        *)
HostingIsKept == \A g \in Group : charged[g] = row[g].cost + unwritten[g]

(* The teardown is unconditional: it runs on success, on eval-pass failure *)
(* and on cancellation (run.go:333-334, core/ring0.go:287).                *)
TeardownIsTried == ~untried

-----------------------------------------------------------------------------
(* The inductive invariant. *)

TuningRow ==
    [state : {"none", "submitting", "submitted", "abandoned"},
     status : {"none", "succeeded", "failed"}, deployed : BOOLEAN, endpoint : Nat,
     tornDown : BOOLEAN, minutes : Nat, cost : Nat, verdict : BOOLEAN]

Endpoint == [at : {"asked", "starting", "ready", "gone"}, billed : Nat]

BridgeTypeOK ==
    /\ row \in [Group -> TuningRow] /\ scored \in [Group -> 0..Cases]
    /\ orphan \in Nat /\ verdicts \in [Group -> Nat]
    /\ job \in [Group -> {"none", "sent", "running", "succeeded", "failed"}]
    /\ over \in [Group -> BOOLEAN] /\ endpoint \in [Group -> Seq(Endpoint)]
    /\ pc \in Place \cup {"down"} /\ cur \in Group /\ rec \in TuningRow /\ owed \in Nat
    /\ mine \in Nat /\ clock \in BOOLEAN /\ got \in 0..Cases /\ failed \in BOOLEAN
    /\ ticker \in BOOLEAN /\ tickErr \in BOOLEAN /\ ctxDone \in BOOLEAN
    /\ processes \in 0..MaxProcesses /\ submits \in [Group -> Nat]
    /\ charged \in [Group -> Nat] /\ unwritten \in [Group -> Nat] /\ untried \in BOOLEAN

\* From measureGroup's read of the row to the write of its verdict.
Measuring == {"deploy", "ask", "deploying", "announce", "measuring", "record", "stopTick",
              "teardown", "markTornDown", "verdict", "mark"}

\* What the row of a group says of its job.
JobOK ==
    \A g \in Group :
        /\ submits[g] = (IF job[g] = "none" THEN 0 ELSE 1)
        /\ row[g].state = "none" => row[g] = NoRow /\ job[g] = "none"
        /\ row[g].status # "none" => Ended(g)

\* What Run has seen to when it is at a place.
PlaceOK ==
    /\ pc \in {"sweepSettle", "sweepMark"} => row[cur].state # "none"
    /\ pc = "send" => job[cur] = "none"
    /\ pc \in {"send", "await"} => row[cur].state = "submitting"
    /\ pc \in {"poll", "reconcile", "measure"} \cup Measuring => row[cur].state = "submitted"
    /\ pc \notin {"down", "sweep", "sweepSettle", "sweepMark"} =>
          \A g \in 1..(cur - 1) : row[g].state \in {"submitted", "abandoned"}
    /\ pc = "reconcile" => Ended(cur)
    /\ pc = "record" => got <= Missing(cur)

\* What is known of the row while its group is measured, and of its copy.
RecOK ==
    /\ ~row[AllIn].verdict
    /\ pc \in Measuring => ~row[cur].verdict
    /\ pc \in {"measure"} \cup Measuring => row[cur].status = "succeeded"
    /\ pc \in Measuring => /\ rec.state = "submitted" /\ rec.status = "succeeded"
                           /\ rec.endpoint <= Len(endpoint[cur])
                           /\ rec.tornDown => endpoint[cur] # <<>>
    /\ pc \in {"verdict", "mark"} => cur # AllIn

\* The groups whose overshoot the orphan spend must hold by now.
Overshot == {g \in Group : over[g] /\ (row[g].status # "none" \/ (pc = "reconcile" /\ g = cur))}

OvershootOK == orphan >= Cardinality(Overshot)

\* Where endpoints are, by the rows.
EndpointsOK ==
    /\ \A g \in Group :
          /\ row[g].endpoint <= Len(endpoint[g])
          /\ row[g].tornDown => endpoint[g] # <<>>
          /\ Len(endpoint[g]) = 1 /\ endpoint[g][1].at # "gone" => Sweepable(row[g])
    /\ pc \in {"sweepSettle", "sweepMark"} /\ row[cur].endpoint # 0 =>
          endpoint[cur][row[cur].endpoint].at = "gone"
    /\ pc = "ask" => row[cur].deployed
    /\ pc \in {"deploying", "announce"} => endpoint[cur] # <<>>
    /\ pc \in {"measuring", "record", "stopTick", "teardown", "markTornDown"} =>
          mine = Len(endpoint[cur]) /\ mine > 0
    /\ pc = "markTornDown" => endpoint[cur][mine].at = "gone"
    /\ pc \in {"verdict", "mark"} /\ Len(endpoint[cur]) = 1 /\ endpoint[cur][1].at # "gone" =>
          Sweepable(rec)

MinutesOK ==
    /\ ticker => pc \in {"measuring", "record", "stopTick"}
    /\ pc \in Measuring => rec.cost <= Billed(cur)
    /\ \A g \in Group :
          /\ row[g].cost <= Billed(g) /\ charged[g] <= Billed(g) + unwritten[g]
          /\ ~row[g].verdict => charged[g] = row[g].cost + unwritten[g] /\ row[g].cost <= row[g].minutes

BridgeInv ==
    /\ BridgeTypeOK /\ JobOK /\ PlaceOK /\ RecOK /\ OvershootOK /\ EndpointsOK /\ MinutesOK

=============================================================================
