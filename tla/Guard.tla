------------------------------- MODULE Guard --------------------------------
(***************************************************************************)
(* The budget guard: stats/budget/budget.go.  Every call that spends money *)
(* reserves headroom first (Authorize), then either settles what it really *)
(* cost or releases the reservation.  Reservations count against the caps  *)
(* while outstanding, an estimate at or above the threshold needs a human  *)
(* to agree, and the human is asked with the accounting lock released.     *)
(*                                                                         *)
(* g.mu is never held across a step, so each of its critical sections is   *)
(* one action.  g.confirmMu is held while the human answers, so it is a    *)
(* variable.  A caller holds one reservation at a time, as core's invoker  *)
(* does, and names it: open[c] stands for g.open[id].                      *)
(***************************************************************************)
EXTENDS Integers, Sums

CONSTANTS
    Caller,         \* goroutines sharing the guard
    MaxCost,        \* Limits.MaxCostUSDMicros, 0 for no cap
    MaxCalls,       \* Limits.MaxLLMCalls, 0 for no cap
    HasConfirm,     \* whether a ConfirmFunc was supplied
    Threshold,      \* estimates at or above this ask first
    Estimate,       \* what callers ask Authorize for, [cost, calls]
    Total,          \* what callers ask PreConfirm for, [cost, calls]
    Actual,         \* what providers report at settlement, [cost, calls]
    MaxInt,         \* math.MaxInt64
    None

(* The two capped dimensions of an Estimate and of a Spend. *)
Dim == {"cost", "calls"}

ASSUME GuardAssumption ==
    /\ IsFiniteSet(Caller)
    /\ MaxInt \in Nat
    /\ MaxCost \in 0..(MaxInt - 1) /\ MaxCalls \in 0..(MaxInt - 1)
    /\ HasConfirm \in BOOLEAN /\ Threshold \in Int
    /\ Estimate \subseteq [Dim -> Int]
    /\ Total \subseteq [Dim -> Int]
    /\ Actual \subseteq [Dim -> Int]
    /\ None \notin Caller \cup [Dim -> Int]

VARIABLES
    spent,        \* g.spent
    reserved,     \* g.reserved
    open,         \* g.open, by the caller holding the reservation
    issued,       \* g.nextID > 0: some Authorize has succeeded
    confirmed,    \* g.confirmed
    declined,     \* g.declined
    confirmMu,    \* the holder of g.confirmMu, or None
    pc,           \* where each caller is
    want,         \* the estimate each caller is asking about, or None
    once,         \* whether each caller's Reservation.once has fired
    \* History variables: nothing in the code reads them.
    slack,        \* by how much settlements have passed their estimates since
                  \* the caps last admitted a call
    reported,     \* the sum of the deltas Settle has returned
    inherited,    \* the overshoot Restore brought in
    refused       \* whether a human refused the run at PreConfirm

gvars == <<spent, reserved, open, issued, confirmed, declined, confirmMu>>
history == <<slack, reported, inherited, refused>>
vars == <<gvars, pc, want, once, history>>

Zero == [d \in Dim |-> 0]
Limit == [d \in Dim |-> IF d = "cost" THEN MaxCost ELSE MaxCalls]
Capped == {d \in Dim : Limit[d] > 0}

Larger(a, b) == IF a >= b THEN a ELSE b
Smaller(a, b) == IF a <= b THEN a ELSE b

-----------------------------------------------------------------------------

(* Mutant: the unclamped sum of docs/debt.md#48. *)
BugWrappingSum(total, figure) == total + figure

(* A negative report is ignored and the sum stops at MaxInt. *)
addSpend(total, figure) ==
    IF figure <= 0 THEN total ELSE Smaller(total + figure, MaxInt)

AddAll(total, figures) == [d \in Dim |-> addSpend(total[d], figures[d])]

validate(e) == \A d \in Dim : e[d] >= 0

(* Mutants: reservations are not counted; the estimate is not counted. *)
BugFitsSettledOnly(e) == \A d \in Capped : addSpend(spent[d], e[d]) <= Limit[d]
BugFitsOnePast(e) == \A d \in Capped : addSpend(spent[d], reserved[d]) < Limit[d]

fitsLocked(e) ==
    \A d \in Capped : addSpend(addSpend(spent[d], reserved[d]), e[d]) <= Limit[d]

needsConfirm(e) ==
    HasConfirm /\ Threshold > 0 /\ e["cost"] >= Threshold /\ ~confirmed

remainingLocked ==
    [d \in Dim |-> IF d \in Capped THEN Larger(0, Limit[d] - spent[d] - reserved[d]) ELSE 0]

overshootOf(s) == IF MaxCost <= 0 THEN 0 ELSE Larger(0, s["cost"] - MaxCost)

(* The bounded quote a run-level confirmation shows: calls first, at the   *)
(* rate the estimate implies, then cost.                                   *)
permitted(total, rem) ==
    LET byCalls == IF MaxCalls > 0 /\ total["calls"] > rem["calls"]
                   THEN rem["calls"] * (IF total["calls"] > 0 THEN total["cost"] \div total["calls"] ELSE 0)
                   ELSE total["cost"]
    IN IF MaxCost > 0 THEN Smaller(byCalls, Smaller(rem["cost"], MaxCost)) ELSE byCalls

Init ==
    /\ spent = Zero /\ reserved = Zero
    /\ open = [c \in Caller |-> None] /\ issued = FALSE
    /\ confirmed = FALSE /\ declined = FALSE /\ confirmMu = None
    /\ pc = [c \in Caller |-> "idle"]
    /\ want = [c \in Caller |-> None]
    /\ once = [c \in Caller |-> FALSE]
    /\ slack = Zero /\ reported = 0 /\ inherited = 0
    /\ refused = FALSE

-----------------------------------------------------------------------------

(* Restore adds what an earlier process recorded; it comes before any       *)
(* Authorize has succeeded.                                                *)
Restore(s) ==
    /\ ~issued
    /\ spent' = AddAll(spent, s)
    /\ slack' = [d \in Dim |-> Larger(0, spent'[d] - Limit[d])]
    /\ inherited' = overshootOf(spent')
    /\ UNCHANGED <<reserved, open, issued, confirmed, declined, confirmMu, pc, want,
                   once, reported, refused>>

(* tryReserve's three outcomes, each one critical section of g.mu. *)
grants(e) == ~declined /\ ~needsConfirm(e) /\ fitsLocked(e)
mustAsk(e) == ~declined /\ needsConfirm(e)

Reserve(c, e) ==
    /\ open' = [open EXCEPT ![c] = e]
    /\ reserved' = [d \in Dim |-> reserved[d] + e[d]]
    /\ issued' = TRUE
    /\ once' = [once EXCEPT ![c] = FALSE]
    /\ pc' = [pc EXCEPT ![c] = "holding"]
    /\ slack' = Zero
    /\ UNCHANGED <<spent, confirmed, declined, confirmMu, reported, inherited, refused>>

(* Authorize: an invalid or refused estimate returns an error and changes  *)
(* nothing, so it is no step here.                                         *)
Authorize(c, e) ==
    /\ pc[c] = "idle"
    /\ validate(e)
    /\ \/ /\ grants(e)
          /\ Reserve(c, e)
          /\ UNCHANGED want
       \/ /\ mustAsk(e)
          /\ want' = [want EXCEPT ![c] = e]
          /\ pc' = [pc EXCEPT ![c] = "asking"]
          /\ UNCHANGED <<gvars, once, history>>

(* Mutant: askOnce does not look at g.confirmed again under g.confirmMu. *)
BugAskLock(c) ==
    /\ pc[c] = "asking"
    /\ confirmMu = None
    /\ pc' = [pc EXCEPT ![c] = "prompting"]
    /\ confirmMu' = c
    /\ UNCHANGED <<spent, reserved, open, issued, confirmed, declined, want, once, slack,
                   reported, inherited, refused>>

(* askOnce, from taking g.confirmMu: somebody may have agreed meanwhile. *)
AskLock(c) ==
    /\ pc[c] = "asking"
    /\ confirmMu = None
    /\ IF confirmed
       THEN /\ pc' = [pc EXCEPT ![c] = "retrying"]
            /\ UNCHANGED confirmMu
       ELSE /\ pc' = [pc EXCEPT ![c] = "prompting"]
            /\ confirmMu' = c
    /\ UNCHANGED <<spent, reserved, open, issued, confirmed, declined, want, once, slack,
                   reported, inherited, refused>>

AnswerYes(c) ==
    /\ pc[c] = "prompting"
    /\ confirmed' = TRUE
    /\ confirmMu' = None
    /\ pc' = [pc EXCEPT ![c] = "retrying"]
    /\ UNCHANGED <<spent, reserved, open, issued, declined, want, once, history>>

(* Mutant: the refusing path returns without unlocking g.confirmMu. *)
BugAnswerNo(c) ==
    /\ pc[c] = "prompting"
    /\ pc' = [pc EXCEPT ![c] = "idle"]
    /\ want' = [want EXCEPT ![c] = None]
    /\ UNCHANGED <<gvars, once, history>>

(* A no, or no way to ask: Authorize returns ErrBudgetExceeded. *)
AnswerNo(c) ==
    /\ pc[c] = "prompting"
    /\ confirmMu' = None
    /\ pc' = [pc EXCEPT ![c] = "idle"]
    /\ want' = [want EXCEPT ![c] = None]
    /\ UNCHANGED <<spent, reserved, open, issued, confirmed, declined, once, history>>

(* Authorize's second tryReserve: the headroom may have gone meanwhile. *)
Retry(c) ==
    /\ pc[c] = "retrying"
    /\ want' = [want EXCEPT ![c] = None]
    /\ \/ /\ grants(want[c])
          /\ Reserve(c, want[c])
       \/ /\ ~grants(want[c])
          /\ pc' = [pc EXCEPT ![c] = "idle"]
          /\ UNCHANGED <<gvars, once, history>>

(* Mutant: the reservation is forgotten but its headroom is not returned. *)
BugReleaseLocked(c) == open' = [open EXCEPT ![c] = None] /\ UNCHANGED reserved

(* releaseLocked: an id that is no longer open gives nothing back. *)
releaseLocked(c) ==
    /\ open' = [open EXCEPT ![c] = None]
    /\ reserved' = IF open[c] = None THEN reserved
                   ELSE [d \in Dim |-> reserved[d] - open[c][d]]

(* Mutant: the delta is the whole overshoot, not what this call added. *)
BugSettle(c, actual) ==
    /\ pc[c] = "holding" /\ ~once[c]
    /\ releaseLocked(c)
    /\ spent' = AddAll(spent, actual)
    /\ reported' = reported + overshootOf(spent')
    /\ once' = [once EXCEPT ![c] = TRUE]
    /\ slack' = [d \in Dim |-> slack[d] + Larger(0, actual[d] - open[c][d])]
    /\ UNCHANGED <<issued, confirmed, declined, confirmMu, pc, want, inherited, refused>>

Settle(c, actual) ==
    /\ pc[c] = "holding" /\ ~once[c]
    /\ releaseLocked(c)
    /\ spent' = AddAll(spent, actual)
    /\ reported' = reported + overshootOf(spent') - overshootOf(spent)
    /\ once' = [once EXCEPT ![c] = TRUE]
    /\ slack' = [d \in Dim |-> slack[d] + Larger(0, actual[d] - open[c][d])]
    /\ UNCHANGED <<issued, confirmed, declined, confirmMu, pc, want, inherited, refused>>

(* The deferred Release, on every path out of the call. *)
Release(c) ==
    /\ pc[c] = "holding"
    /\ IF once[c] THEN UNCHANGED <<open, reserved>> ELSE releaseLocked(c)
    /\ once' = [once EXCEPT ![c] = FALSE]
    /\ pc' = [pc EXCEPT ![c] = "idle"]
    /\ UNCHANGED <<spent, issued, confirmed, declined, confirmMu, want, history>>

(* PreConfirm holds g.confirmMu throughout; nobody else writes g.confirmed *)
(* meanwhile, so the snapshot and the latch below the threshold are one    *)
(* step.  Already confirmed: it returns at once.                           *)
PreConfirm(c, total) ==
    /\ pc[c] = "idle"
    /\ confirmMu = None
    /\ ~confirmed
    /\ IF ~HasConfirm \/ Threshold <= 0 \/ permitted(total, remainingLocked) < Threshold
       THEN /\ confirmed' = TRUE
            /\ UNCHANGED <<confirmMu, pc>>
       ELSE /\ confirmMu' = c
            /\ pc' = [pc EXCEPT ![c] = "quoting"]
            /\ UNCHANGED confirmed
    /\ UNCHANGED <<spent, reserved, open, issued, declined, want, once, history>>

QuoteYes(c) ==
    /\ pc[c] = "quoting"
    /\ confirmed' = TRUE
    /\ confirmMu' = None
    /\ pc' = [pc EXCEPT ![c] = "idle"]
    /\ UNCHANGED <<spent, reserved, open, issued, declined, want, once, history>>

(* Mutant: a refusal of the run is not recorded. *)
BugQuoteNo(c) ==
    /\ pc[c] = "quoting"
    /\ refused' = TRUE
    /\ confirmMu' = None
    /\ pc' = [pc EXCEPT ![c] = "idle"]
    /\ UNCHANGED <<spent, reserved, open, issued, confirmed, declined, want, once, slack,
                   reported, inherited>>

QuoteNo(c) ==
    /\ pc[c] = "quoting"
    /\ declined' = TRUE
    /\ refused' = TRUE
    /\ confirmMu' = None
    /\ pc' = [pc EXCEPT ![c] = "idle"]
    /\ UNCHANGED <<spent, reserved, open, issued, confirmed, want, once, slack, reported,
                   inherited>>

Next ==
    \/ \E s \in Actual : Restore(s)
    \/ \E c \in Caller :
        \/ \E e \in Estimate : Authorize(c, e)
        \/ AskLock(c)
        \/ AnswerYes(c)
        \/ AnswerNo(c)
        \/ Retry(c)
        \/ \E a \in Actual : Settle(c, a)
        \/ Release(c)
        \/ \E t \in Total : PreConfirm(c, t)
        \/ QuoteYes(c)
        \/ QuoteNo(c)

(* The scheduler runs every goroutine that can run, a call returns, a      *)
(* prompt is answered or fails, and a mutex waiter is not passed over      *)
(* forever (sync.Mutex hands over to a waiter starved for 1ms).            *)
Fairness ==
    \A c \in Caller :
        /\ SF_vars(AskLock(c))
        /\ WF_vars(AnswerYes(c) \/ AnswerNo(c))
        /\ WF_vars(QuoteYes(c) \/ QuoteNo(c))
        /\ WF_vars(Retry(c))
        /\ WF_vars(Release(c))

Spec == Init /\ [][Next]_vars
FairSpec == Spec /\ Fairness

-----------------------------------------------------------------------------
Estimates == {e \in Estimate : validate(e)}
NatPair == [Dim -> Nat]

MoneyOK ==
    /\ spent \in NatPair /\ \A d \in Dim : spent[d] <= MaxInt
    /\ reserved \in [Dim -> Int]
    /\ slack \in NatPair
    /\ reported \in Int /\ inherited \in Int

FlagsOK ==
    /\ issued \in BOOLEAN /\ confirmed \in BOOLEAN /\ declined \in BOOLEAN
    /\ refused \in BOOLEAN
    /\ once \in [Caller -> BOOLEAN]

CallersOK ==
    /\ confirmMu \in Caller \cup {None}
    /\ pc \in [Caller -> {"idle", "asking", "prompting", "retrying", "holding", "quoting"}]
    /\ want \in [Caller -> Estimates \cup {None}]
    /\ open \in [Caller -> Estimates \cup {None}]

TypeOK == MoneyOK /\ FlagsOK /\ CallersOK

Amount(h, d) == IF h = None THEN 0 ELSE h[d]
HeldOf(d) == SumOver([c \in Caller |-> Amount(open[c], d)], Caller)

(* The running total g.reserved is exactly the sum of the reservations     *)
(* still open, whatever order settlements and deferred releases come in:   *)
(* no headroom leaks and none is given back twice.                         *)
ReservedIsOpenSum == \A d \in Dim : reserved[d] = HeldOf(d)

(* Spend plus reservations stay within every cap, but for the amounts by   *)
(* which settlements have passed their own estimates since the cap last    *)
(* admitted a call (what Overshoot's comment promises), or what Restore    *)
(* brought in above a lowered cap.                                         *)
CapHolds == \A d \in Capped : spent[d] + reserved[d] <= Limit[d] + slack[d]

(* The deltas Settle returns account for all of Overshoot that this        *)
(* process caused: none is reported twice by concurrent settlements, none  *)
(* is lost.                                                                *)
OvershootReported == overshootOf(spent) = inherited + reported

(* ConfirmFunc never runs concurrently with itself, and nobody is still    *)
(* being asked once somebody has agreed.                                   *)
PromptsAreNeeded ==
    LET facing == {c \in Caller : pc[c] \in {"prompting", "quoting"}}
    IN /\ Cardinality(facing) <= 1
       /\ facing # {} => ~confirmed

(* After a human has refused the run, no Authorize succeeds, not even one  *)
(* that was already waiting to ask and is then told yes.                   *)
NothingAfterRefusal ==
    [][refused => \A c \in Caller : open'[c] # None => open'[c] = open[c]]_vars

(* A caller that has to ask gets its answer: a prompt somebody abandons    *)
(* never leaves the others waiting on g.confirmMu.                         *)
AuthorizeReturns == \A c \in Caller : pc[c] = "asking" ~> pc[c] \in {"idle", "holding"}

(* What makes the properties inductive: who is where holds what.          *)
HoldersAreOpen ==
    \A c \in Caller : open[c] # None <=> (pc[c] = "holding" /\ ~once[c])

WantKnown ==
    \A c \in Caller : pc[c] \in {"asking", "prompting", "retrying"} => want[c] # None

AskersHoldTheLock ==
    \A c \in Caller : pc[c] \in {"prompting", "quoting"} => confirmMu = c /\ ~confirmed

RefusalIsRecorded == refused => declined

NothingBeforeTheFirst ==
    ~issued => /\ \A c \in Caller : open[c] = None
               /\ \A d \in Dim : reserved[d] = 0
               /\ reported = 0

IInv ==
    /\ TypeOK /\ HoldersAreOpen /\ WantKnown /\ AskersHoldTheLock /\ RefusalIsRecorded
    /\ NothingBeforeTheFirst /\ ReservedIsOpenSum /\ CapHolds /\ OvershootReported

L == INSTANCE Ledger WITH
        Cap <- Limit, settled <- spent, holds <- open, Estimate <- Estimates

(* The counters implement the ledger of explicit holds.                    *)
ImplementsLedger == L!Spec

=============================================================================
