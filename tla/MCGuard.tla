------------------------------ MODULE MCGuard -------------------------------
(* Instances of Guard for TLC.  Amounts are small enough for the saturating *)
(* sum to be reached and large enough for two estimates to race for a cap.  *)
EXTENDS Guard, TLC

\* A negative estimate, a call under the threshold and one above it.
MCEstimate == {[cost |-> -1, calls |-> 1], [cost |-> 1, calls |-> 1], [cost |-> 2, calls |-> 1]}
\* A report below, at and above the estimate, and a nonsense one.
MCActual == {[cost |-> -2, calls |-> 1], [cost |-> 1, calls |-> 1], [cost |-> 3, calls |-> 1]}
\* A run under the threshold and one above it.
MCTotal == {[cost |-> 1, calls |-> 1], [cost |-> 6, calls |-> 4]}

=============================================================================
