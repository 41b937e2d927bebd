--------------------------- MODULE MCBaselineRun ----------------------------
(* Instances of BaselineRun for TLC.                                       *)
EXTENDS BaselineRun, TLC

\* Two cases that can be priced are alike, and so are the workers.
MCSymmetry == Permutations(Case \ Unpriceable) \cup Permutations(Worker)

=============================================================================
