------------------------------- MODULE Ledger -------------------------------
(***************************************************************************)
(* What a budget guard promises the person paying, without saying how: a   *)
(* hold may be taken only while everything spent plus everything held      *)
(* stays within the caps, and a hold ends by becoming spend or by being    *)
(* returned.  There are no running totals, no locks and no prompts here;   *)
(* module Guard implements this with counters.                             *)
(***************************************************************************)
EXTENDS Integers, Sums

CONSTANTS
    Caller,    \* the concurrent users of the budget
    Capped,    \* the dimensions that carry a cap, a subset of {"cost", "calls"}
    Cap,       \* Cap[d] for every capped dimension d
    Estimate,  \* the estimates that may be held, [cost, calls]
    None       \* no hold

VARIABLES
    settled,   \* what has been spent, [cost, calls]
    holds      \* holds[c] is the estimate caller c holds, or None

ledgerVars == <<settled, holds>>

Amount(h, d) == IF h = None THEN 0 ELSE h[d]

Held(d) == SumOver([c \in Caller |-> Amount(holds[c], d)], Caller)

Init ==
    /\ settled \in [{"cost", "calls"} -> Nat]
    /\ holds = [c \in Caller |-> None]

(* Spend recorded by an earlier process counts before anything is held. *)
CarryOver ==
    /\ \A c \in Caller : holds[c] = None
    /\ settled' \in [{"cost", "calls"} -> Nat]
    /\ \A d \in {"cost", "calls"} : settled'[d] >= settled[d]
    /\ UNCHANGED holds

Take(c, e) ==
    /\ holds[c] = None
    /\ \A d \in Capped : settled[d] + Held(d) + e[d] <= Cap[d]
    /\ holds' = [holds EXCEPT ![c] = e]
    /\ UNCHANGED settled

Spend(c) ==
    /\ holds[c] # None
    /\ holds' = [holds EXCEPT ![c] = None]
    /\ settled' \in [{"cost", "calls"} -> Nat]
    /\ \A d \in {"cost", "calls"} : settled'[d] >= settled[d]

GiveBack(c) ==
    /\ holds[c] # None
    /\ holds' = [holds EXCEPT ![c] = None]
    /\ UNCHANGED settled

Next ==
    \/ CarryOver
    \/ \E c \in Caller : Spend(c) \/ GiveBack(c) \/ \E e \in Estimate : Take(c, e)

Spec == Init /\ [][Next]_ledgerVars

=============================================================================
