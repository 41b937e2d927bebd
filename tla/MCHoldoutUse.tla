---------------------------- MODULE MCHoldoutUse ----------------------------
(* Instances of HoldoutUse for TLC.                                        *)
EXTENDS HoldoutUse, TLC

Symmetry == Permutations(Proc) \cup Permutations(Portfolio) \cup Permutations(RunId)

=============================================================================
