----------------------------- MODULE Selection ------------------------------
(***************************************************************************)
(* The Select stage: core.SelectOptions.Select and decide.  It reads the   *)
(* valuations of one Value run, decides each asset in turn - the best      *)
(* ranked first, under the rejection rules and the caps - and records the  *)
(* portfolio.  A Select run is one process: nothing resumes it, and a      *)
(* later Select has a run of its own.                                      *)
(*                                                                         *)
(* An interval is known by where it lies from zero once it is corrected    *)
(* for the number of assets screened, contents by the pairs whose shingles *)
(* overlap.  The gain, the events and the wording of a rejection are left  *)
(* out.                                                                    *)
(***************************************************************************)
EXTENDS Integers, FiniteSets, Sums

CONSTANTS
    Asset,       \* the ids, in their order
    Sources,     \* what the store may hold of the Value run, [status, valuations]
    Pools,       \* what --pool may name: [destination, bytes] of some assets, or None
    Overlap,     \* the pairs of assets whose contents overlap to the threshold
    Budgets,     \* the caps of each resource, 0 for no cap
    None

Resource == {"context", "training", "knowledge", "cost"}
Destination == {"context", "knowledge_base", "tuning_set"}

Valuation ==
    [kind : {"knowledge", "behavior", "unspecified"}, perCost : Int, delta : Int,
     interval : {"none", "below", "crosses", "above"}, net : {"none", "harm", "clear"},
     powered : BOOLEAN, tokens : Nat, acquisition : Nat,
     notMeasured : {"none", "IRRELEVANT", "UNDERPOWERED", "BUDGET_EXHAUSTED"}]

Verdict == {"SELECTED", "REGRESSION", "NO_EFFECT", "REDUNDANT", "COST_DOMINATED",
            "WRONG_MECHANISM", "UNDERPOWERED", "IRRELEVANT", "BUDGET_EXHAUSTED"}

ASSUME SelectionAssumption ==
    /\ Asset \subseteq Nat /\ IsFiniteSet(Asset) /\ None \notin Asset
    /\ \A s \in Sources :
          /\ s.valuations \in [Asset -> Valuation \cup {None}]
          /\ s.status \in {"RUNNING", "COMPLETED", "BUDGET_STOPPED", "INTERRUPTED"}
    /\ \A pool \in Pools \ {None} :
          /\ DOMAIN pool \subseteq Asset
          /\ \A a \in DOMAIN pool : /\ pool[a].destination \in Destination \cup {"unspecified"}
                                    /\ pool[a].bytes \in Nat
    /\ \A a, b \in Asset : <<a, b>> \in Overlap => <<b, a>> \in Overlap
    /\ Budgets \subseteq [Resource -> Nat]
    /\ None \notin Valuation /\ None \notin Verdict

VARIABLES
    source,      \* runs.status and valuations of the Value run
    opts,        \* [pool, budget, allowPartial]
    at,          \* the step of Select the process is at
    status,      \* runs.status of the Select run, "ABSENT" before CreateRun
    portfolio,   \* portfolios: what was decided of each asset and its rank, or None
    todo,        \* the measured assets still to decide
    verdict,     \* what is decided of each asset: "SELECTED", a reason, or None
    rank,        \* PortfolioEntry.rank, 0 if not selected
    spent        \* the spend of decide, by resource

inputs == <<source, opts>>
decisions == <<todo, verdict, rank, spent>>
vars == <<inputs, at, status, portfolio, decisions>>

valuations == source.valuations
Valued == {a \in Asset : valuations[a] # None}
Measured == {a \in Valued : valuations[a].notMeasured = "none"}
nScreened == Cardinality(Measured)

InPool(a) == opts.pool # None /\ a \in DOMAIN opts.pool

Init ==
    /\ source \in Sources
    /\ opts \in [pool : Pools, budget : Budgets, allowPartial : BOOLEAN]
    /\ at = "opening" /\ status = "ABSENT" /\ portfolio = None
    /\ todo = {} /\ verdict = [a \in Asset |-> None] /\ rank = [a \in Asset |-> 0]
    /\ spent = [r \in Resource |-> 0]

-----------------------------------------------------------------------------
(* What an asset is, and what it uses. *)

kindOf(v) == IF v.kind = "unspecified" THEN "knowledge" ELSE v.kind

IsKnowledge(a) == InPool(a) /\ kindOf(valuations[a]) = "knowledge"

destinationFor(a) ==
    IF InPool(a) /\ opts.pool[a].destination # "unspecified" THEN opts.pool[a].destination
    ELSE IF kindOf(valuations[a]) = "behavior" THEN "tuning_set" ELSE "context"

ResourceOf(dest) ==
    CASE dest = "tuning_set" -> "training"
      [] dest = "knowledge_base" -> "knowledge"
      [] OTHER -> "context"

\* What the destination's cap counts.
Room(a) ==
    CASE destinationFor(a) = "tuning_set" -> 1
      [] destinationFor(a) = "knowledge_base" -> IF InPool(a) THEN opts.pool[a].bytes ELSE 0
      [] OTHER -> valuations[a].tokens

Use(a, r) ==
    IF r = "cost" THEN valuations[a].acquisition
    ELSE IF r = ResourceOf(destinationFor(a)) THEN Room(a) ELSE 0

-----------------------------------------------------------------------------
(* The rules, in their precedence. *)

\* delta_per_cost, then delta, then the id.
rankLess(a, b) ==
    LET v == valuations[a]
        w == valuations[b]
    IN \/ v.perCost > w.perCost
       \/ v.perCost = w.perCost /\ v.delta > w.delta
       \/ v.perCost = w.perCost /\ v.delta = w.delta /\ a < b

\* portfolio.Correct: a lone asset was not screened against any other.
Corrected(a) == IF nScreened < 2 THEN "none" ELSE valuations[a].interval

Selected == {a \in Asset : verdict[a] = "SELECTED"}

redundantWith(a) == {b \in Selected : IsKnowledge(b) /\ <<a, b>> \in Overlap}

\* Mutant: the cost cap is for the assets of the context, as the other caps are for one
\* destination each.
BugOverRoom(a) ==
    LET resource == ResourceOf(destinationFor(a))
    IN \E r \in {resource} \cup (IF resource = "context" THEN {"cost"} ELSE {}) :
           opts.budget[r] > 0 /\ spent[r] + Use(a, r) > opts.budget[r]

\* Mutant: what fills a cap exactly is taken for over it.
BugOverBudget(a) ==
    \E r \in {ResourceOf(destinationFor(a)), "cost"} :
        opts.budget[r] > 0 /\ spent[r] + Use(a, r) >= opts.budget[r]

overBudget(a) ==
    \E r \in {ResourceOf(destinationFor(a)), "cost"} :
        opts.budget[r] > 0 /\ spent[r] + Use(a, r) > opts.budget[r]

\* The first rule that applies, and the strongest.
rejectReason(a) ==
    IF valuations[a].powered /\ valuations[a].net = "harm" THEN "REGRESSION"
    ELSE IF Corrected(a) = "crosses" THEN "NO_EFFECT"
    ELSE IF IsKnowledge(a) /\ redundantWith(a) # {} THEN "REDUNDANT"
    ELSE IF overBudget(a) THEN "COST_DOMINATED"
    ELSE IF IsKnowledge(a) /\ destinationFor(a) = "tuning_set" THEN "WRONG_MECHANISM"
    ELSE "SELECTED"

Decision(a) == IF Corrected(a) = "none" THEN "UNDERPOWERED" ELSE rejectReason(a)

-----------------------------------------------------------------------------
(* The stage. *)

CreateRun ==
    /\ at = "opening"
    /\ source.status = "COMPLETED" \/ opts.allowPartial
    /\ status' = "RUNNING" /\ at' = "deciding"
    /\ todo' = Measured
    /\ UNCHANGED <<inputs, portfolio, verdict, rank, spent>>

Refuse ==
    /\ at = "opening"
    /\ source.status # "COMPLETED" /\ ~opts.allowPartial
    /\ at' = "gone"
    /\ UNCHANGED <<inputs, status, portfolio, decisions>>

\* One round of decide's loop.
decide ==
    /\ at = "deciding"
    /\ \E a \in todo :
          /\ \A b \in todo \ {a} : rankLess(a, b)
          /\ todo' = todo \ {a}
          /\ verdict' = [verdict EXCEPT ![a] = Decision(a)]
          /\ IF Decision(a) = "SELECTED"
             THEN /\ rank' = [rank EXCEPT ![a] = Cardinality(Selected) + 1]
                  /\ spent' = [r \in Resource |-> spent[r] + Use(a, r)]
             ELSE UNCHANGED <<rank, spent>>
    /\ UNCHANGED <<inputs, at, status, portfolio>>

\* What Value did not measure is rejected for the reason it gave.
Reject ==
    [a \in Asset |-> IF a \in Valued \ Measured THEN valuations[a].notMeasured ELSE verdict[a]]

WritePortfolio ==
    /\ at = "deciding" /\ todo = {}
    /\ verdict' = Reject
    /\ portfolio' = [verdict |-> Reject, rank |-> rank, sourceStatus |-> source.status]
    /\ at' = "written"
    /\ UNCHANGED <<inputs, status, todo, rank, spent>>

FinishRun ==
    /\ at = "written"
    /\ status' = "COMPLETED" /\ at' = "gone"
    /\ UNCHANGED <<inputs, portfolio, decisions>>

\* Killed, or a store call fails: the run stays open and nothing resumes it.
Dies ==
    /\ at # "gone" /\ at' = "gone"
    /\ UNCHANGED <<inputs, status, portfolio, decisions>>

Next == CreateRun \/ Refuse \/ decide \/ WritePortfolio \/ FinishRun \/ Dies

Spec == Init /\ [][Next]_vars

-----------------------------------------------------------------------------
(* Properties. *)

TypeOK ==
    /\ source \in Sources
    /\ opts \in [pool : Pools, budget : Budgets, allowPartial : BOOLEAN]
    /\ at \in {"opening", "deciding", "written", "gone"}
    /\ status \in {"ABSENT", "RUNNING", "COMPLETED"}
    /\ todo \subseteq Measured
    /\ verdict \in [Asset -> Verdict \cup {None}]
    /\ rank \in [Asset -> Nat]
    /\ spent \in [Resource -> Nat]

UseOf(S, r) == SumOver([a \in S |-> Use(a, r)], S)

(* The selected set stays within every cap: what each of its assets takes   *)
(* of its own destination's room, and the acquisition cost of all of them,  *)
(* whichever order and mixture of destinations the ranking brings           *)
(* (select.go:500-566).                                                     *)
SelectionFits ==
    \A r \in Resource : opts.budget[r] > 0 => UseOf(Selected, r) <= opts.budget[r]

(* An asset is rejected as cost-dominated only if it does not fit beside    *)
(* the selected assets that rank above it; then it does not fit beside the  *)
(* final selection either, however much cheaper what came after it was      *)
(* (select.go:464-469).                                                     *)
RoomWasTaken ==
    \A a \in Asset :
        verdict[a] = "COST_DOMINATED" =>
            \E r \in Resource :
                /\ opts.budget[r] > 0
                /\ UseOf({b \in Selected : rankLess(b, a)}, r) + Use(a, r) > opts.budget[r]

(* No two selected knowledge assets say the same, and what was rejected as  *)
(* redundant repeats a selected asset that ranks above it                   *)
(* (select.go:455-463, 655-671).                                            *)
NothingTwice ==
    /\ \A a, b \in Selected :
          a # b /\ IsKnowledge(a) /\ IsKnowledge(b) => <<a, b>> \notin Overlap
    /\ \A a \in Asset :
          verdict[a] = "REDUNDANT" =>
              \E b \in Selected : rankLess(b, a) /\ <<a, b>> \in Overlap

(* A recorded portfolio decides every asset the source valued, and no other *)
(* (select.go:284-372).                                                     *)
EveryValuationIsDecided ==
    portfolio # None => \A a \in Asset : (portfolio.verdict[a] # None) <=> a \in Valued

(* What makes them inductive: the best ranked are decided first, and spent  *)
(* is the sum of what the selected assets use.                              *)
BestFirst == at # "opening" => \A a \in Measured \ todo, b \in todo : rankLess(a, b)

SpentIsSum == \A r \in Resource : spent[r] = UseOf(Selected, r)

SpentFits == \A r \in Resource : opts.budget[r] > 0 => spent[r] <= opts.budget[r]

Progress ==
    /\ at = "opening" => todo = {} /\ \A a \in Asset : verdict[a] = None
    /\ \A a \in Asset : verdict[a] # None => a \in Valued \ todo
    /\ at = "deciding" => \A a \in Asset : verdict[a] # None <=> a \in Measured \ todo
    /\ Selected \subseteq Measured /\ \A a \in Asset \ Measured : verdict[a] # "COST_DOMINATED"

IInv ==
    /\ TypeOK /\ Progress /\ BestFirst /\ SpentIsSum /\ SpentFits
    /\ RoomWasTaken /\ NothingTwice /\ EveryValuationIsDecided

=============================================================================
