-------------------------------- MODULE Sums --------------------------------
(***************************************************************************)
(* The sum of a natural-valued function over a finite set, defined by      *)
(* counting: an element x contributes f[x] units.  A fold would need       *)
(* induction over the set to reason about; a cardinality does not, so the  *)
(* modules that carry proofs use this definition.                          *)
(***************************************************************************)
EXTENDS Naturals, FiniteSets

Units(f, S) == UNION {{x} \X (1..f[x]) : x \in S}

SumOver(f, S) == Cardinality(Units(f, S))

=============================================================================
