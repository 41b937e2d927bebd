------------------------------ MODULE MCBridge ------------------------------
(* Instances of Bridge for TLC: the all-in group and one more.             *)
EXTENDS Bridge

=============================================================================
