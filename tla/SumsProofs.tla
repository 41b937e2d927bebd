----------------------------- MODULE SumsProofs -----------------------------
(***************************************************************************)
(* What module Sums' counting definition of a sum gives: a natural number, *)
(* and a change of one term changes the sum by the difference.             *)
(***************************************************************************)
EXTENDS Sums, Integers, FiniteSetTheorems, TLAPS

(* One element contributes its value in units. *)
LEMMA UnitsOfOne ==
    ASSUME NEW x, NEW n \in Nat
    PROVE  IsFiniteSet({x} \X (1..n)) /\ Cardinality({x} \X (1..n)) = n
<1>1. IsFiniteSet({x}) /\ Cardinality({x}) = 1
  BY FS_Singleton
<1>2. IsFiniteSet(1..n) /\ Cardinality(1..n) = n
  BY FS_Interval
<1>3. /\ IsFiniteSet({x} \X (1..n))
      /\ Cardinality({x} \X (1..n)) = Cardinality({x}) * Cardinality(1..n)
  <2> DEFINE A == {x}
             B == 1..n
  <2>1. IsFiniteSet(A) /\ IsFiniteSet(B)
    BY <1>1, <1>2
  <2> HIDE DEF A, B
  <2>2. IsFiniteSet(A \X B) /\ Cardinality(A \X B) = Cardinality(A) * Cardinality(B)
    BY <2>1, FS_Product
  <2>3. QED
    BY <2>2 DEF A, B
<1>4. Cardinality(1..n) = n
  BY <1>2
<1>5. Cardinality({x}) * Cardinality(1..n) = n
  BY <1>1, <1>4
<1>6. QED
  BY <1>3, <1>5

(* The units of a finite sum are finitely many. *)
LEMMA UnitsFinite ==
    ASSUME NEW S, IsFiniteSet(S), NEW f \in [S -> Nat]
    PROVE  IsFiniteSet(Units(f, S))
<1> DEFINE Us == {{x} \X (1..f[x]) : x \in S}
<1>1. \A T \in Us : IsFiniteSet(T)
  <2>1. \A x \in S : f[x] \in Nat
    OBVIOUS
  <2>2. \A x \in S : IsFiniteSet({x} \X (1..f[x]))
    BY <2>1, UnitsOfOne
  <2>3. QED
    BY <2>2
<1> DEFINE g == [x \in S |-> {x} \X (1..f[x])]
<1>2. g \in Surjection(S, Us)
  BY DEF Surjection
<1>3. IsFiniteSet(Us)
  BY <1>2, FS_Surjection
<1>4. QED
  BY <1>1, <1>3, FS_UNION DEF Units

(* A sum of naturals over a finite set is a natural. *)
LEMMA SumOverNat ==
    ASSUME NEW S, IsFiniteSet(S), NEW f \in [S -> Nat]
    PROVE  SumOver(f, S) \in Nat
BY UnitsFinite, FS_CardinalityType DEF SumOver

(* A sum of zeroes is zero. *)
LEMMA SumOverZero ==
    ASSUME NEW S, NEW f, \A x \in S : f[x] = 0
    PROVE  SumOver(f, S) = 0
<1>1. \A x \in S : {x} \X (1..f[x]) = {}
  OBVIOUS
<1>2. Units(f, S) = {}
  BY <1>1 DEF Units
<1>3. QED
  BY <1>2, FS_EmptySet DEF SumOver

(* A sum of larger terms, over more of them, is larger. *)
LEMMA SumOverMonotone ==
    ASSUME NEW T, IsFiniteSet(T), NEW S \in SUBSET T, NEW f \in [S -> Nat], NEW g \in [T -> Nat],
           \A x \in S : f[x] <= g[x]
    PROVE  SumOver(f, S) <= SumOver(g, T)
<1>1. ASSUME NEW u \in Units(f, S)  PROVE u \in Units(g, T)
  <2>1. PICK x \in S : u \in {x} \X (1..f[x])
    BY DEF Units
  <2>2. f[x] \in Nat /\ g[x] \in Nat /\ f[x] <= g[x] /\ x \in T
    BY <2>1
  <2>3. u \in {x} \X (1..g[x])
    BY <2>1, <2>2
  <2>4. QED
    BY <2>2, <2>3 DEF Units
<1>2. Units(f, S) \subseteq Units(g, T)
  BY <1>1
<1>3. IsFiniteSet(Units(g, T))
  BY UnitsFinite
<1>4. QED
  BY <1>2, <1>3, FS_Subset DEF SumOver

(* The sum splits into one term and the rest. *)
LEMMA SumOverSplit ==
    ASSUME NEW S, IsFiniteSet(S), NEW f \in [S -> Nat], NEW c \in S
    PROVE  SumOver(f, S) = f[c] + SumOver(f, S \ {c})
<1> DEFINE One == {c} \X (1..f[c])
           Rest == Units(f, S \ {c})
<1>1. Units(f, S) = One \cup Rest
  BY DEF Units
<1>2. One \cap Rest = {}
  BY DEF Units
<1>3. IsFiniteSet(One) /\ Cardinality(One) = f[c]
  BY UnitsOfOne
<1>4. IsFiniteSet(Rest)
  <2>1. Rest \subseteq Units(f, S)
    BY <1>1
  <2>2. QED
    BY <2>1, UnitsFinite, FS_Subset
<1>5. Cardinality(One \cup Rest) = Cardinality(One) + Cardinality(Rest) - Cardinality({})
  <2> HIDE DEF One, Rest
  <2>1. Cardinality(One \cup Rest)
          = Cardinality(One) + Cardinality(Rest) - Cardinality(One \cap Rest)
    BY <1>3, <1>4, FS_Union
  <2>2. QED
    BY <2>1, <1>2
<1>6. Cardinality(Rest) \in Nat
  BY <1>4, FS_CardinalityType
<1>7. QED
  BY <1>1, <1>3, <1>5, <1>6, FS_EmptySet DEF SumOver

(* Changing one term changes the sum by the difference. *)
LEMMA SumOverUpdate ==
    ASSUME NEW S, IsFiniteSet(S), NEW f \in [S -> Nat], NEW g \in [S -> Nat], NEW c \in S,
           \A x \in S \ {c} : g[x] = f[x]
    PROVE  SumOver(g, S) = SumOver(f, S) - f[c] + g[c]
<1>1. Units(g, S \ {c}) = Units(f, S \ {c})
  BY DEF Units
<1>2. SumOver(f, S) = f[c] + SumOver(f, S \ {c})
  BY SumOverSplit
<1>3. SumOver(g, S) = g[c] + SumOver(f, S \ {c})
  BY <1>1, SumOverSplit DEF SumOver
<1>4. SumOver(f, S \ {c}) \in Nat
  <2>1. IsFiniteSet(S \ {c})
    BY FS_RemoveElement
  <2>2. IsFiniteSet(Units(f, S \ {c}))
    <3>1. Units(f, S \ {c}) \subseteq Units(f, S)
      BY DEF Units
    <3>2. QED
      BY <3>1, UnitsFinite, FS_Subset
  <2>3. QED
    BY <2>2, FS_CardinalityType DEF SumOver
<1>5. f[c] \in Nat /\ g[c] \in Nat
  OBVIOUS
<1>6. QED
  BY <1>2, <1>3, <1>4, <1>5

(* A sum of the sizes of disjoint finite sets is the size of their union.   *)
LEMMA SumOfDisjoint ==
    ASSUME NEW S, IsFiniteSet(S), NEW F, \A x \in S : IsFiniteSet(F[x]),
           \A x, y \in S : x # y => F[x] \cap F[y] = {}
    PROVE  /\ IsFiniteSet(UNION {F[x] : x \in S})
           /\ Cardinality(UNION {F[x] : x \in S}) = SumOver([x \in S |-> Cardinality(F[x])], S)
<1> DEFINE f == [x \in S |-> Cardinality(F[x])]
           U == Units(f, S)
           All == UNION {F[x] : x \in S}
           numbering(x) == CHOOSE b : b \in Bijection(1..f[x], F[x])
           g == [u \in U |-> numbering(u[1])[u[2]]]
<1>1. \A x \in S : f[x] \in Nat
  BY FS_CardinalityType
<1>2. ASSUME NEW x \in S  PROVE numbering(x) \in Bijection(1..f[x], F[x])
  <2>1. ExistsBijection(1..Cardinality(F[x]), F[x])
    BY FS_NatBijection, FS_CountingElements, FS_CardinalityType
  <2>2. \E b : b \in Bijection(1..f[x], F[x])
    BY <2>1 DEF ExistsBijection
  <2>3. QED
    BY <2>2
<1> HIDE DEF f, numbering
<1>3. ASSUME NEW x \in S
      PROVE  /\ \A n \in 1..f[x] : numbering(x)[n] \in F[x]
             /\ \A n, m \in 1..f[x] : numbering(x)[n] = numbering(x)[m] => n = m
             /\ \A e \in F[x] : \E n \in 1..f[x] : numbering(x)[n] = e
  <2> DEFINE n == 1..f[x]
             T == F[x]
             b == numbering(x)
  <2>1. b \in Bijection(n, T)
    BY <1>2
  <2> HIDE DEF n, T, b
  <2>2. /\ \A k \in n : b[k] \in T
        /\ \A k, m \in n : b[k] = b[m] => k = m
        /\ \A e \in T : \E k \in n : b[k] = e
    BY <2>1 DEF Bijection, Injection, Surjection, IsInjective
  <2>3. QED
    BY <2>2 DEF n, T, b
<1>4. \A u : u \in U <=> \E x \in S : \E n \in 1..f[x] : u = <<x, n>>
  BY DEF Units
<1> HIDE DEF U
<1>5. ASSUME NEW x \in S, NEW n \in 1..f[x]
      PROVE  <<x, n>> \in U /\ g[<<x, n>>] = numbering(x)[n]
  BY <1>4
<1> HIDE DEF g
<1>6. g \in [U -> All]
  <2>1. \A u \in U : g[u] \in All
    BY <1>3, <1>4, <1>5
  <2>2. QED
    BY <2>1 DEF g
<1>7. ASSUME NEW u \in U, NEW v \in U, g[u] = g[v]  PROVE u = v
  <2>1. PICK x \in S : \E n \in 1..f[x] : u = <<x, n>>
    BY <1>4
  <2>2. PICK n \in 1..f[x] : u = <<x, n>>
    BY <2>1
  <2>3. PICK y \in S : \E m \in 1..f[y] : v = <<y, m>>
    BY <1>4
  <2>4. PICK m \in 1..f[y] : v = <<y, m>>
    BY <2>3
  <2>5. numbering(x)[n] = numbering(y)[m] /\ numbering(x)[n] \in F[x] /\ numbering(y)[m] \in F[y]
    BY <1>3, <1>5, <1>7, <2>2, <2>4
  <2>6. x = y
    BY <2>5
  <2>7. QED
    BY <1>3, <2>2, <2>4, <2>5, <2>6
<1>8. ASSUME NEW e \in All  PROVE \E u \in U : g[u] = e
  <2>1. PICK x \in S : e \in F[x]
    OBVIOUS
  <2>2. PICK n \in 1..f[x] : numbering(x)[n] = e
    BY <1>3, <2>1
  <2>3. QED
    BY <1>5, <2>2
<1> HIDE DEF All
<1>9. g \in Bijection(U, All)
  BY <1>6, <1>7, <1>8 DEF Bijection, Injection, Surjection, IsInjective
<1>10. IsFiniteSet(U)
  <2>1. f \in [S -> Nat]
    BY <1>1 DEF f
  <2>2. QED
    BY <2>1, UnitsFinite DEF U
<1>11. IsFiniteSet(All) /\ Cardinality(All) = Cardinality(U)
  BY <1>9, <1>10, FS_Bijection DEF ExistsBijection
<1>12. QED
  BY <1>11 DEF All, U, f, SumOver

=============================================================================
