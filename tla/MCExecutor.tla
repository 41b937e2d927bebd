----------------------------- MODULE MCExecutor -----------------------------
(* An instance of Executor for TLC: two workers race for three items, and a *)
(* fourth is skipped as already complete.                                   *)
EXTENDS Executor

MCCompleted == {2}

=============================================================================
