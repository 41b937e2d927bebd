--------------------------- MODULE MCEventStream ----------------------------
(* An instance of EventStream for TLC; every constant is a number.         *)
EXTENDS EventStream

=============================================================================
