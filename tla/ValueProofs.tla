---------------------------- MODULE ValueProofs ----------------------------
(***************************************************************************)
(* Proofs about Routing and ValueRun, for every pool, every dev set, every *)
(* routing and every number of workers and processes: first what a plan    *)
(* routes and schedules, then that each step preserves IInv part by part.  *)
(***************************************************************************)
EXTENDS ValueRun, SumsProofs, TLAPS

-----------------------------------------------------------------------------
(* What a plan routes. *)

(* A sample is no larger than what it is drawn from.                        *)
LEMMA SampleSizeBound ==
    ASSUME NEW len \in Nat, NEW rate \in Nat, NEW minSample \in Nat
    PROVE  SampleSize(len, rate, minSample) \in 0..len
<1>1. (len * rate + 50) \div 100 \in Int
  OBVIOUS
<1>2. QED
  BY <1>1 DEF SampleSize

(* The reserve leaves at least one case to be routed.                       *)
LEMMA ReserveSizeBound ==
    ASSUME RoutingAssumption, NEW o \in Options
    PROVE  ReserveSize(o) \in 0..Cardinality(Pairable)
<1> DEFINE len == Cardinality(Pairable)
<1>1. len \in Nat /\ len > 0
  <2>1. IsFiniteSet(Pairable)
    BY FS_Subset DEF RoutingAssumption
  <2>2. QED
    BY <2>1, FS_CardinalityType, FS_EmptySet DEF RoutingAssumption
<1>2. o.reserve \in Nat
  BY DEF RoutingAssumption
<1> HIDE DEF len
<1>3. len * o.reserve \in Nat
  BY <1>1, <1>2
<1>4. (len * o.reserve) \div 100 \in Nat
  BY <1>3
<1>5. QED
  BY <1>1, <1>4 DEF ReserveSize, len

(* A sample comes from its candidates.                                      *)
LEMMA SampleFrom ==
    ASSUME RoutingAssumption, DrawAssumption, NEW o \in Options,
           NEW label \in Asset \cup {"reserve", "control"}, NEW S \in SUBSET Case,
           NEW rate \in Nat
    PROVE  sampleIDs(o, label, S, rate) \subseteq S
<1> DEFINE n == SampleSize(Cardinality(S), rate, o.minSample)
<1>1. Cardinality(S) \in Nat
  BY FS_Subset, FS_CardinalityType DEF RoutingAssumption
<1>2. o.minSample \in Nat
  BY DEF RoutingAssumption
<1>3. n \in 0..Cardinality(S)
  BY <1>1, <1>2, SampleSizeBound
<1> HIDE DEF n
<1>4. Draw([seed |-> o.seed, label |-> label], S, n) \subseteq S
  BY <1>3 DEF DrawAssumption
<1>5. QED
  BY <1>4 DEF sampleIDs, n

(* The reserve is a part of the pairable cases.                             *)
LEMMA ReserveFrom ==
    ASSUME RoutingAssumption, DrawAssumption, NEW o \in Options
    PROVE  reserve(o) \subseteq Pairable
BY ReserveSizeBound DEF DrawAssumption, RoutingAssumption, reserve

(* An asset is measured on eligible cases only.                             *)
LEMMA CandidatesEligible ==
    ASSUME RoutingAssumption, NEW o \in Options, NEW a \in Asset
    PROVE  candidatesFor(a, o) \subseteq Eligible(o)
<1>1. \A t \in assetTags[a] : clusters(o)[t] \subseteq Eligible(o)
  BY DEF RoutingAssumption, clusters
<1>2. QED
  BY <1>1 DEF candidatesFor

(* What the rest needs of a plan: the cases of the treatment and the fresh  *)
(* control arm are not those of the reserve, and there is a trial.          *)
LEMMA PlanParts ==
    ASSUME RoutingAssumption, DrawAssumption, NEW o \in Options, NEW a \in Asset
    PROVE  /\ Plans[o].routed[a] \subseteq Case
           /\ Plans[o].control \subseteq Case
           /\ Plans[o].routed[a] \cap Plans[o].control = {}
           /\ Plans[o].trials \in Nat \ {0}
           /\ Plans[o].fresh \in BOOLEAN
<1>1. Plans[o] = Route(o)
  BY DEF Plans
<1>2. o.rate \in Nat /\ o.controlRate \in Nat /\ o.trials \in Nat \ {0} /\ o.disable \in BOOLEAN
  BY DEF RoutingAssumption
<1>3. reserve(o) \subseteq Case /\ Eligible(o) \subseteq Case /\ reserve(o) \cap Eligible(o) = {}
  BY ReserveFrom DEF Eligible, RoutingAssumption
<1>4. candidatesFor(a, o) \subseteq Eligible(o)
  BY CandidatesEligible
<1>5. sampleIDs(o, a, candidatesFor(a, o), o.rate) \subseteq candidatesFor(a, o)
  BY <1>2, <1>3, <1>4, SampleFrom
<1>6. sampleIDs(o, "control", reserve(o), o.controlRate) \subseteq reserve(o)
  BY <1>2, <1>3, SampleFrom
<1>7. /\ Plans[o].routed[a] = sampleIDs(o, a, candidatesFor(a, o), o.rate)
      /\ Plans[o].control = sampleIDs(o, "control", reserve(o), o.controlRate)
      /\ Plans[o].trials = o.trials
      /\ Plans[o].fresh = ~o.disable
  BY <1>1 DEF Route
<1>8. QED
  BY <1>2, <1>3, <1>4, <1>5, <1>6, <1>7

-----------------------------------------------------------------------------
(* What a plan schedules. *)

(* The arms, spelled out.                                                   *)
LEMMA ArmsAre ==
    ASSUME NEW p, NEW a
    PROVE  /\ Arms = {1, 2, 3}
           /\ ArmKind[1] = "treatment" /\ ArmKind[2] = "control" /\ ArmKind[3] = "treatment"
           /\ CasesOf(p, a, 1) = p.routed[a]
           /\ CasesOf(p, a, 2) = IF p.fresh THEN p.routed[a] ELSE {}
           /\ CasesOf(p, a, 3) = p.control
BY DEF Arms, ArmKind, CasesOf

(* The cases of an arm are dev cases.                                       *)
LEMMA CasesAreCases ==
    ASSUME RoutingAssumption, DrawAssumption, NEW o \in Options, NEW a \in Asset, NEW i \in Arms
    PROVE  CasesOf(Plans[o], a, i) \subseteq Case
<1> DEFINE p == Plans[o]
<1>1. p.routed[a] \subseteq Case /\ p.control \subseteq Case
  BY PlanParts
<1> HIDE DEF p
<1>2. CasesOf(p, a, i) \subseteq Case
  BY <1>1, ArmsAre
<1>3. QED
  BY <1>2 DEF p

(* No two measurements of an asset share a key: the two arms of treatment   *)
(* are over cases that the partition keeps apart.                           *)
LEMMA KeyUnique ==
    ASSUME RoutingAssumption, DrawAssumption, NEW o \in Options, NEW a \in Asset,
           NEW i \in Arms, NEW j \in Arms, NEW t, NEW u,
           NEW c \in CasesOf(Plans[o], a, i), NEW d \in CasesOf(Plans[o], a, j),
           KeyOf(a, i, t, c) = KeyOf(a, j, u, d)
    PROVE  i = j /\ t = u /\ c = d
<1> DEFINE p == Plans[o]
<1>1. p.routed[a] \cap p.control = {}
  BY PlanParts
<1>2. ArmKind[i] = ArmKind[j] /\ t = u /\ c = d
  BY DEF KeyOf
<1>3. c \in CasesOf(p, a, i) /\ c \in CasesOf(p, a, j)
  BY <1>2
<1> HIDE DEF p
<1>4. i = j
  BY <1>1, <1>2, <1>3, ArmsAre
<1>5. QED
  BY <1>2, <1>4

(* The schedule of an asset is what its arms measure, trial by trial.       *)
LEMMA ScheduleMembers ==
    ASSUME NEW o \in Options, NEW a \in Asset
    PROVE  \A k : k \in Schedule[o][a] <=>
              /\ Plans[o].routed[a] # {}
              /\ \E i \in Arms, t \in 1..Plans[o].trials : \E c \in CasesOf(Plans[o], a, i) :
                    k = KeyOf(a, i, t, c)
<1> DEFINE p == Plans[o]
<1>1. Schedule[o][a] = measurementsFor(p, a)
  BY DEF Schedule
<1> HIDE DEF p
<1>2. CASE p.routed[a] = {}
  BY <1>1, <1>2 DEF measurementsFor, p
<1>3. CASE p.routed[a] # {}
  <2> DEFINE pass(i) == KeysOver(a, CasesOf(p, a, i), ArmKind[i], p.trials)
  <2>1. \A i : \A k : k \in pass(i) <=>
          \E t \in 1..p.trials : \E c \in CasesOf(p, a, i) : k = KeyOf(a, i, t, c)
    BY DEF KeysOver, KeyOf
  <2>2. measurementsFor(p, a) = pass(1) \cup pass(2) \cup pass(3)
    <3>1. KeysOver(a, {}, "control", p.trials) = {}
      BY DEF KeysOver
    <3>2. QED
      BY <1>3, <3>1, ArmsAre, Zenon DEF measurementsFor
  <2>3. \A k : k \in Schedule[o][a] <=> \E i \in Arms : k \in pass(i)
    <3> HIDE DEF pass
    <3>1. QED
      BY <1>1, <2>2, ArmsAre
  <2> HIDE DEF pass
  <2>4. QED
    BY <1>3, <2>1, <2>3 DEF p
<1>4. QED
  BY <1>2, <1>3

(* A scheduled measurement names its asset, a dev case and a trial of the   *)
(* plan.                                                                    *)
LEMMA ScheduledShape ==
    ASSUME RoutingAssumption, DrawAssumption, NEW o \in Options, NEW a \in Asset,
           NEW k \in Schedule[o][a]
    PROVE  /\ k \in [asset : {a}, case : Case, arm : {"treatment", "control"},
                     trial : 1..Plans[o].trials]
           /\ k.asset = a
<1>1. PICK i \in Arms, t \in 1..Plans[o].trials : \E c \in CasesOf(Plans[o], a, i) :
        k = KeyOf(a, i, t, c)
  BY ScheduleMembers
<1>2. PICK c \in CasesOf(Plans[o], a, i) : k = KeyOf(a, i, t, c)
  BY <1>1
<1>3. c \in Case
  BY CasesAreCases
<1>4. ArmKind[i] \in {"treatment", "control"}
  BY ArmsAre
<1>5. QED
  BY <1>2, <1>3, <1>4 DEF KeyOf

(* What is scheduled of an asset under some options is a key of it.         *)
LEMMA KeysOfAsset ==
    ASSUME NEW o \in Options, NEW a \in Asset
    PROVE  Schedule[o][a] \subseteq Key
BY DEF Key, Scheduled

(* A key says which asset, case, arm and trial.                             *)
LEMMA KeyShape ==
    ASSUME RoutingAssumption, DrawAssumption, NEW k \in Key
    PROVE  /\ k = [asset |-> k.asset, case |-> k.case, arm |-> k.arm, trial |-> k.trial]
           /\ k.asset \in Asset /\ k.case \in Case /\ k.trial \in Nat \ {0}
<1>1. PICK o \in Options, a \in Asset : k \in Schedule[o][a]
  BY DEF Key, Scheduled
<1>2. Plans[o].trials \in Nat
  BY PlanParts
<1>3. k \in [asset : {a}, case : Case, arm : {"treatment", "control"}, trial : 1..Plans[o].trials]
  BY <1>1, ScheduledShape
<1>4. QED
  BY <1>2, <1>3

(* What a pass measures is scheduled.                                       *)
LEMMA PassScheduled ==
    ASSUME NEW o \in Options, NEW a \in Asset, Plans[o].routed[a] # {},
           NEW i \in Arms, NEW t \in 1..Plans[o].trials, NEW c \in CasesOf(Plans[o], a, i)
    PROVE  KeyOf(a, i, t, c) \in Schedule[o][a] /\ KeyOf(a, i, t, c) \in Key
BY ScheduleMembers, KeysOfAsset

(* A pass over finitely many cases is finite.                               *)
LEMMA KeysOverFinite ==
    ASSUME NEW a, NEW cases, IsFiniteSet(cases), NEW side, NEW n \in Nat
    PROVE  /\ IsFiniteSet(KeysOver(a, cases, side, n))
           /\ Cardinality(KeysOver(a, cases, side, n)) = Cardinality(cases) * n
<1> DEFINE T == 1..n
           key(x) == [asset |-> a, case |-> x[1], arm |-> side, trial |-> x[2]]
           K == KeysOver(a, cases, side, n)
           f == [x \in cases \X T |-> key(x)]
<1>1. IsFiniteSet(T) /\ Cardinality(T) = n
  BY FS_Interval
<1>2. f \in [cases \X T -> K]
  BY DEF KeysOver
<1>3. \A x, y \in cases \X T : f[x] = f[y] => x = y
  OBVIOUS
<1>4. \A k \in K : \E x \in cases \X T : f[x] = k
  <2> TAKE k \in K
  <2>1. PICK c \in cases, t \in T : k = [asset |-> a, case |-> c, arm |-> side, trial |-> t]
    BY DEF KeysOver
  <2>2. <<c, t>> \in cases \X T /\ f[<<c, t>>] = k
    BY <2>1
  <2>3. QED
    BY <2>2
<1> HIDE DEF T, K, f
<1>5. f \in Bijection(cases \X T, K)
  BY <1>2, <1>3, <1>4 DEF Bijection, Injection, Surjection, IsInjective
<1>6. IsFiniteSet(cases \X T) /\ Cardinality(cases \X T) = Cardinality(cases) * Cardinality(T)
  BY <1>1, FS_Product
<1>7. IsFiniteSet(K) /\ Cardinality(K) = Cardinality(cases \X T)
  BY <1>1, <1>5, <1>6, FS_Bijection DEF ExistsBijection
<1>8. QED
  BY <1>1, <1>6, <1>7 DEF K

(* Disjoint sets add up.                                                    *)
LEMMA DisjointSizes ==
    ASSUME NEW S, NEW T, IsFiniteSet(S), IsFiniteSet(T), S \cap T = {}
    PROVE  IsFiniteSet(S \cup T) /\ Cardinality(S \cup T) = Cardinality(S) + Cardinality(T)
<1>1. Cardinality(S) \in Nat /\ Cardinality(T) \in Nat
  BY FS_CardinalityType
<1>2. /\ IsFiniteSet(S \cup T)
      /\ Cardinality(S \cup T) = Cardinality(S) + Cardinality(T) - Cardinality(S \cap T)
  BY FS_Union
<1>3. Cardinality(S \cap T) = 0
  BY FS_EmptySet
<1>4. QED
  BY <1>1, <1>2, <1>3

(* What is scheduled of an asset is as much as it is quoted at.             *)
LEMMA ScheduleQuoted ==
    ASSUME RoutingAssumption, DrawAssumption, NEW o \in Options, NEW a \in Asset
    PROVE  /\ IsFiniteSet(Schedule[o][a])
           /\ Cardinality(Schedule[o][a]) = AssetQuote(Plans[o], a)
<1> DEFINE p == Plans[o]
           R == p.routed[a]
           C == p.control
           n == p.trials
           First == KeysOver(a, R, "treatment", n)
           Fresh == KeysOver(a, R, "control", n)
           Second == IF p.fresh THEN Fresh ELSE {}
           Third == KeysOver(a, C, "treatment", n)
<1>1. /\ R \subseteq Case /\ C \subseteq Case /\ R \cap C = {}
      /\ n \in Nat \ {0} /\ p.fresh \in BOOLEAN
  BY PlanParts
<1>2. Schedule[o][a] = measurementsFor(p, a)
  BY DEF Schedule
<1> HIDE DEF p
<1>3. CASE R = {}
  BY <1>2, <1>3, FS_EmptySet DEF measurementsFor, AssetQuote, p
<1>4. CASE R # {}
  <2>1. IsFiniteSet(R) /\ IsFiniteSet(C)
    BY <1>1, FS_Subset DEF RoutingAssumption
  <2>2. Cardinality(R) \in Nat /\ Cardinality(C) \in Nat
    BY <2>1, FS_CardinalityType
  <2>3. Schedule[o][a] = (First \cup Second) \cup Third
    BY <1>2, <1>4, Zenon DEF measurementsFor
  <2>4. First \cap Second = {} /\ (First \cup Second) \cap Third = {}
    <3>1. /\ \A k \in First : k.arm = "treatment" /\ k.case \in R
          /\ \A k \in Second : k.arm = "control"
          /\ \A k \in Third : k.arm = "treatment" /\ k.case \in C
      BY DEF KeysOver
    <3> HIDE DEF First, Second, Third, R, C
    <3>2. QED
      BY <1>1, <3>1
  <2> HIDE DEF R, C, n, First, Second, Third
  <2>5. IsFiniteSet(First) /\ Cardinality(First) = Cardinality(R) * n
    BY <1>1, <2>1, KeysOverFinite DEF First
  <2>6. /\ IsFiniteSet(Second)
        /\ Cardinality(Second) = IF p.fresh THEN Cardinality(R) * n ELSE 0
    BY <1>1, <2>1, KeysOverFinite, FS_EmptySet DEF Second
  <2>7. IsFiniteSet(Third) /\ Cardinality(Third) = Cardinality(C) * n
    BY <1>1, <2>1, KeysOverFinite DEF Third
  <2>8. /\ IsFiniteSet(First \cup Second)
        /\ Cardinality(First \cup Second) = Cardinality(First) + Cardinality(Second)
    BY <2>4, <2>5, <2>6, DisjointSizes
  <2>9. /\ IsFiniteSet((First \cup Second) \cup Third)
        /\ Cardinality((First \cup Second) \cup Third)
              = Cardinality(First \cup Second) + Cardinality(Third)
    BY <2>4, <2>7, <2>8, DisjointSizes
  <2>10. AssetQuote(p, a) = ((IF p.fresh THEN 2 ELSE 1) * Cardinality(R) + Cardinality(C)) * n
    BY <1>4 DEF AssetQuote, R, C, n
  <2> DEFINE r == Cardinality(R)
             c == Cardinality(C)
  <2>11. r \in Nat /\ c \in Nat /\ n \in Nat
    BY <1>1, <2>2
  <2>12. Cardinality(Schedule[o][a]) = (r * n + IF p.fresh THEN r * n ELSE 0) + c * n
    BY <2>3, <2>5, <2>6, <2>7, <2>8, <2>9
  <2>13. AssetQuote(p, a) = ((IF p.fresh THEN 2 ELSE 1) * r + c) * n
    BY <2>10
  <2> HIDE DEF r, c
  <2>14. /\ (2 * r + c) * n = (r * n + r * n) + c * n
         /\ (1 * r + c) * n = (r * n + 0) + c * n
    BY <2>11
  <2>15. Cardinality(Schedule[o][a]) = AssetQuote(p, a)
    BY <1>1, <2>12, <2>13, <2>14
  <2>16. QED
    BY <2>3, <2>9, <2>15 DEF p
<1>5. QED
  BY <1>3, <1>4

(* A plan schedules as many measurements as it is quoted at.                *)
LEMMA PlanQuoted ==
    ASSUME RoutingAssumption, DrawAssumption, NEW o \in Options
    PROVE  IsFiniteSet(Scheduled(o)) /\ Cardinality(Scheduled(o)) = Measurements(Plans[o])
<1> DEFINE F == Schedule[o]
           f == [a \in Asset |-> Cardinality(F[a])]
<1>1. \A a \in Asset : IsFiniteSet(F[a]) /\ Cardinality(F[a]) = AssetQuote(Plans[o], a)
  BY ScheduleQuoted
<1>2. \A a, b \in Asset : a # b => F[a] \cap F[b] = {}
  BY ScheduledShape
<1>3. IsFiniteSet(Asset)
  BY DEF RoutingAssumption
<1>4. f = [a \in Asset |-> AssetQuote(Plans[o], a)]
  BY <1>1
<1> HIDE DEF F
<1>5. /\ IsFiniteSet(UNION {F[a] : a \in Asset})
      /\ Cardinality(UNION {F[a] : a \in Asset}) = SumOver(f, Asset)
  BY <1>1, <1>2, <1>3, SumOfDisjoint
<1>6. QED
  BY <1>4, <1>5 DEF Scheduled, Measurements, F

(* There are finitely many keys.                                            *)
LEMMA KeyFinite ==
    ASSUME RoutingAssumption, DrawAssumption, ValueAssumption
    PROVE  IsFiniteSet(Key)
<1> DEFINE All == {Scheduled(o) : o \in Options}
           g == [o \in Options |-> Scheduled(o)]
<1>1. IsFiniteSet(Options)
  BY DEF ValueAssumption
<1>2. g \in Surjection(Options, All)
  BY DEF Surjection
<1>3. IsFiniteSet(All)
  BY <1>1, <1>2, FS_Surjection
<1>4. \A T \in All : IsFiniteSet(T)
  BY PlanQuoted
<1>5. QED
  BY <1>3, <1>4, FS_UNION DEF Key

-----------------------------------------------------------------------------
(* Valuations, as the rows grow. *)

(* The trials of a side are numbers, finitely many.                         *)
LEMMA TrialsFinite ==
    ASSUME RoutingAssumption, DrawAssumption, ValueAssumption, NEW a, NEW c, NEW side
    PROVE  IsFiniteSet(Trials(a, c, side))
<1> DEFINE S == {j \in Done : /\ j.asset = a /\ j.case = c /\ j.arm = side
                              /\ row[j].kind = "scored"}
           g == [k \in S |-> k.trial]
<1>1. S \subseteq Key
  BY DEF Done
<1>2. IsFiniteSet(S)
  BY <1>1, KeyFinite, FS_Subset
<1>3. g \in Surjection(S, Trials(a, c, side))
  BY DEF Surjection, Trials
<1>4. QED
  BY <1>2, <1>3, FS_Surjection

(* A case counts for a number of dropped pairs.                             *)
LEMMA DroppedType ==
    ASSUME RoutingAssumption, DrawAssumption, ValueAssumption, NEW a, NEW c, NEW fresh
    PROVE  DroppedOf(a, c, fresh) \in Nat
<1> DEFINE tr == Trials(a, c, "treatment")
           ct == Trials(a, c, "control")
<1>1. IsFiniteSet(tr) /\ IsFiniteSet(ct)
  BY TrialsFinite
<1> HIDE DEF tr, ct
<1>2. IsFiniteSet(tr \cup ct)
  BY <1>1, FS_Union
<1>3. IsFiniteSet((tr \cup ct) \ (tr \cap ct))
  BY <1>2, FS_Subset
<1>4. Cardinality((tr \cup ct) \ (tr \cap ct)) \in Nat
  BY <1>3, FS_CardinalityType
<1>5. QED
  BY <1>4 DEF DroppedOf, tr, ct

(* What valuationFor returns is a valuation under its options, and no stop  *)
(* cut it short.                                                            *)
LEMMA ValuationType ==
    ASSUME RoutingAssumption, DrawAssumption, ValueAssumption, NEW o \in Options, NEW a \in Asset
    PROVE  /\ valuationFor(o, a) \in Valuation
           /\ valuationFor(o, a).opts = o /\ valuationFor(o, a).reason # "BUDGET_EXHAUSTED"
<1> DEFINE p == Plans[o]
           goal == PairedCases(a, p.routed[a], p.fresh)
           harm == PairedCases(a, p.control, FALSE)
           fg == [c \in p.routed[a] |-> DroppedOf(a, c, p.fresh)]
           fh == [c \in p.control |-> DroppedOf(a, c, FALSE)]
           pairs == Cardinality(goal)
           dropped == SumOver(fg, p.routed[a]) + SumOver(fh, p.control)
           V(reason) == [reason |-> reason, opts |-> o, pairs |-> pairs, dropped |-> dropped,
                         delta |-> reason = "none" /\ goal # {},
                         control |-> reason = "none" /\ harm # {}]
<1>1. IsFiniteSet(p.routed[a]) /\ IsFiniteSet(p.control)
  <2>1. p.routed[a] \subseteq Case /\ p.control \subseteq Case
    BY PlanParts
  <2> HIDE DEF p
  <2>2. QED
    BY <2>1, FS_Subset DEF RoutingAssumption
<1>2. pairs \in Nat
  <2>1. goal \subseteq p.routed[a]
    BY DEF PairedCases
  <2>2. QED
    BY <1>1, <2>1, FS_Subset, FS_CardinalityType
<1>3. dropped \in Nat
  <2>1. fg \in [p.routed[a] -> Nat] /\ fh \in [p.control -> Nat]
    BY DroppedType
  <2> HIDE DEF fg, fh, p
  <2>2. SumOver(fg, p.routed[a]) \in Nat /\ SumOver(fh, p.control) \in Nat
    BY <1>1, <2>1, SumOverNat
  <2>3. QED
    BY <2>2
<1>4. MeasuredValuation(o, a) = V("UNDERPOWERED") \/ MeasuredValuation(o, a) = V("none")
  BY DEF MeasuredValuation
<1> HIDE DEF p, goal, harm, pairs, dropped
<1>5. \A reason \in {"UNDERPOWERED", "none"} :
        V(reason) \in Valuation /\ V(reason).opts = o /\ V(reason).reason = reason
  BY <1>2, <1>3 DEF Valuation
<1>6. Irrelevant(o) \in Valuation
  BY DEF Irrelevant, Valuation
<1>7. Irrelevant(o).opts = o /\ Irrelevant(o).reason = "IRRELEVANT"
  BY DEF Irrelevant
<1> HIDE DEF V
<1>8. CASE valuationFor(o, a) = Irrelevant(o)
  BY <1>6, <1>7, <1>8
<1>9. CASE valuationFor(o, a) = MeasuredValuation(o, a)
  <2>1. CASE MeasuredValuation(o, a) = V("UNDERPOWERED")
    BY <1>5, <1>9, <2>1
  <2>2. CASE MeasuredValuation(o, a) = V("none")
    BY <1>5, <1>9, <2>2
  <2>3. QED
    BY <1>4, <2>1, <2>2
<1>10. QED
  BY <1>8, <1>9 DEF valuationFor

\* A step at most adds rows.
RowsKept == Done \subseteq Done' /\ \A k \in Done : row'[k] = row[k]

\* An asset has no row of a trial that the plan does not have.
NoMoreTrials(o, a) == \A k \in Done : k.asset = a => k.trial <= Plans[o].trials

(* Once both arms of an asset are in, the trials that count are settled:    *)
(* only one that the plan does not have can come to them.                   *)
LEMMA TrialsStable ==
    ASSUME RoutingAssumption, DrawAssumption, NEW o \in Options, NEW a \in Asset,
           Plans[o].routed[a] # {}, Schedule[o][a] \subseteq Done, RowsKept, NoMoreTrials(o, a)',
           NEW i \in Arms, NEW c \in CasesOf(Plans[o], a, i)
    PROVE  Trials(a, c, ArmKind[i])' = Trials(a, c, ArmKind[i])
<1> DEFINE side == ArmKind[i]
           mine(j) == j.asset = a /\ j.case = c /\ j.arm = side
<1>1. ASSUME NEW j \in Done', mine(j)  PROVE j \in Done
  <2>1. j \in Key
    BY DEF Done
  <2>2. j.trial \in Nat \ {0} /\ j.trial <= Plans[o].trials
    BY <1>1, <2>1, KeyShape DEF NoMoreTrials
  <2>3. j.trial \in 1..Plans[o].trials
    BY <2>2, PlanParts
  <2>4. j = KeyOf(a, i, j.trial, c)
    BY <1>1, <2>1, KeyShape DEF KeyOf
  <2>5. KeyOf(a, i, j.trial, c) \in Schedule[o][a]
    BY <2>3, PassScheduled
  <2>6. QED
    BY <2>4, <2>5
<1>2. {j \in Done' : mine(j) /\ row'[j].kind = "scored"}
        = {j \in Done : mine(j) /\ row[j].kind = "scored"}
  BY <1>1 DEF RowsKept
<1>3. QED
  BY <1>2 DEF Trials

(* A valuation computed when both arms were in stays what it was computed   *)
(* to be.                                                                   *)
LEMMA ValuationStable ==
    ASSUME RoutingAssumption, DrawAssumption, NEW o \in Options, NEW a \in Asset,
           Schedule[o][a] \subseteq Done, RowsKept, NoMoreTrials(o, a)'
    PROVE  valuationFor(o, a)' = valuationFor(o, a)
<1> DEFINE p == Plans[o]
<1>1. CASE p.routed[a] = {}
  BY <1>1 DEF valuationFor, Irrelevant
<1>2. CASE p.routed[a] # {}
  <2> DEFINE same(i) == \A c \in CasesOf(p, a, i) :
                           Trials(a, c, ArmKind[i])' = Trials(a, c, ArmKind[i])
  <2>0. same(1) /\ same(2) /\ same(3)
    <3>1. \A i \in Arms : same(i)
      BY <1>2, TrialsStable
    <3> HIDE DEF same
    <3>2. QED
      BY <3>1, ArmsAre
  <2>1. \A c \in p.routed[a] : Trials(a, c, "treatment")' = Trials(a, c, "treatment")
    BY <2>0, ArmsAre
  <2>2. p.fresh => \A c \in p.routed[a] : Trials(a, c, "control")' = Trials(a, c, "control")
    <3>1. p.fresh => CasesOf(p, a, 2) = p.routed[a]
      BY ArmsAre
    <3>2. ArmKind[2] = "control"
      BY ArmsAre
    <3>3. QED
      BY <2>0, <3>1, <3>2
  <2>3. \A c \in p.control : Trials(a, c, "treatment")' = Trials(a, c, "treatment")
    <3>1. CasesOf(p, a, 3) = p.control /\ ArmKind[3] = "treatment"
      BY ArmsAre
    <3>2. QED
      BY <2>0, <3>1
  <2>4. \A c \in p.routed[a] : PairedTrials(a, c, p.fresh)' = PairedTrials(a, c, p.fresh)
    BY <2>1, <2>2 DEF PairedTrials
  <2>5. \A c \in p.control : PairedTrials(a, c, FALSE)' = PairedTrials(a, c, FALSE)
    BY <2>3 DEF PairedTrials
  <2>6. \A c \in p.routed[a] : DroppedOf(a, c, p.fresh)' = DroppedOf(a, c, p.fresh)
    BY <2>1, <2>2 DEF DroppedOf
  <2>7. \A c \in p.control : DroppedOf(a, c, FALSE)' = DroppedOf(a, c, FALSE)
    BY <2>3 DEF DroppedOf
  <2> DEFINE goal == PairedCases(a, p.routed[a], p.fresh)
             harm == PairedCases(a, p.control, FALSE)
             fg == [c \in p.routed[a] |-> DroppedOf(a, c, p.fresh)]
             fh == [c \in p.control |-> DroppedOf(a, c, FALSE)]
  <2>8. goal' = goal /\ harm' = harm
    BY <2>4, <2>5 DEF PairedCases
  <2>9. HasInterval(a, goal, p.fresh)' = HasInterval(a, goal, p.fresh)
    <3>1. goal \subseteq p.routed[a]
      BY DEF PairedCases
    <3>2. QED
      BY <2>4, <2>8, <3>1 DEF HasInterval
  <2>10. HasInterval(a, harm, FALSE)' = HasInterval(a, harm, FALSE)
    <3>1. harm \subseteq p.control
      BY DEF PairedCases
    <3>2. \A c \in harm : PairedTrials(a, c, FALSE)' = PairedTrials(a, c, FALSE)
      BY <2>5, <3>1
    <3> HIDE DEF harm
    <3>3. QED
      BY <2>8, <3>2 DEF HasInterval
  <2>11. fg' = fg /\ fh' = fh
    BY <2>6, <2>7
  <2>12. MeasuredValuation(o, a)' = MeasuredValuation(o, a)
    BY <2>8, <2>9, <2>10, <2>11 DEF MeasuredValuation
  <2>13. QED
    BY <1>2, <2>12 DEF valuationFor
<1>3. QED
  BY <1>1, <1>2

-----------------------------------------------------------------------------
(* What a step does, where several parts of the invariant need it. *)

\* The assumptions on the constants, together.
Assumed == RoutingAssumption /\ DrawAssumption /\ ValueAssumption

(* The numbers among the constants.                                         *)
LEMMA Params ==
    ASSUME Assumed
    PROVE  /\ Workers \in Nat /\ Workers > 0 /\ MaxProcesses \in Nat /\ Caps \subseteq Nat
           /\ Len(AssetOrder) \in Nat /\ DOMAIN AssetOrder = 1..Len(AssetOrder)
           /\ \A j \in DOMAIN AssetOrder : AssetOrder[j] \in Asset
BY DEF Assumed, ValueAssumption

(* The calls that are out are a number.                                     *)
LEMMA CallsCount ==
    ASSUME Assumed, TypeOK
    PROVE  IsFiniteSet(calling) /\ Cardinality(calling) \in Nat
<1>1. IsFiniteSet(Key)
  BY KeyFinite DEF Assumed
<1>2. IsFiniteSet(calling)
  BY <1>1, FS_Subset DEF TypeOK
<1>3. QED
  BY <1>2, FS_CardinalityType

(* While an asset is worked on it is one of the pool.                       *)
LEMMA AskedIs ==
    ASSUME Assumed, TypeOK, ProcessOK, at \in {"pass", "valuation", "truncated"}
    PROVE  Asked \in Asset /\ next \in 1..Len(AssetOrder) /\ opts \in Options
BY DEF Asked, ProcessOK, Assumed, ValueAssumption, TypeOK

(* The keys of the pass are keys of the plan.                               *)
LEMMA PassKeys ==
    ASSUME Assumed, TypeOK, ProcessOK, at = "pass", NEW c \in CasesOf(plan, Asked, arm)
    PROVE  /\ KeyOf(Asked, arm, trial, c) \in Key
           /\ KeyOf(Asked, arm, trial, c) \in Schedule[opts][Asked]
<1>1. Asked \in Asset /\ opts \in Options
  BY AskedIs
<1>2. Plans[opts].routed[Asked] # {} /\ arm \in Arms
  BY DEF ProcessOK, TypeOK, plan
<1>3. trial \in 1..Plans[opts].trials
  <2>1. trial \in Nat \ {0} /\ trial <= Plans[opts].trials
    BY DEF ProcessOK, TypeOK, plan
  <2>2. Plans[opts].trials \in Nat
    BY <1>1, PlanParts DEF Assumed
  <2>3. QED
    BY <2>1, <2>2
<1>4. c \in CasesOf(Plans[opts], Asked, arm)
  BY DEF plan
<1>5. QED
  BY <1>1, <1>2, <1>3, <1>4, PassScheduled

(* So is what the run has settled.                                          *)
LEMMA SettledNat ==
    ASSUME Assumed, TypeOK
    PROVE  SettledSpend \in Nat
<1> DEFINE f == [j \in Key |-> row[j].calls]
<1>1. f \in [Key -> Nat]
  BY DEF TypeOK, Row, NoRow
<1> HIDE DEF f
<1>2. SumOver(f, Key) \in Nat
  BY <1>1, SumOverNat, KeyFinite DEF Assumed
<1>3. QED
  BY <1>2 DEF SettledSpend, f

\* A row is written for a case of the pass, and charged.
Records ==
    /\ at = "pass"
    /\ \E c \in CasesOf(plan, Asked, arm), kind \in {"scored", "errored"}, n \in 0..1 :
          /\ row[KeyOf(Asked, arm, trial, c)].kind = "none"
          /\ row' = [row EXCEPT ![KeyOf(Asked, arm, trial, c)] = [kind |-> kind, calls |-> n]]
          /\ spent' = spent + n

(* A step writes one row, of the pass it is at, or none.                    *)
LEMMA StepRows ==
    ASSUME TypeOK, ProcessOK, PassOK, Next
    PROVE  row' = row \/ Records
<1>1. CASE Begin
  <2>1. PICK c \in left : UNCHANGED row \/ Mark(KeyOf(Asked, arm, trial, c))
    BY <1>1 DEF Begin
  <2>2. c \in CasesOf(plan, Asked, arm)
    BY <1>1 DEF Begin, PassOK
  <2>3. spent' = spent + 0 /\ at = "pass"
    BY <1>1 DEF Begin, TypeOK
  <2>4. CASE Mark(KeyOf(Asked, arm, trial, c))
    BY <2>2, <2>3, <2>4 DEF Mark, Records
  <2>5. QED
    BY <2>1, <2>4
<1>2. ASSUME NEW k \in calling, NEW kind \in {"scored", "errored"}, NEW charge \in {0, 1},
             Measured(k, kind, charge)
      PROVE  row' = row \/ Records
  <2>1. at = "pass"
    BY DEF ProcessOK
  <2>2. PICK c \in CasesOf(plan, Asked, arm) : k = KeyOf(Asked, arm, trial, c)
    BY <2>1 DEF PassOK
  <2>3. spent' = spent + charge
    BY <1>2 DEF Measured
  <2>4. \/ row' = row
        \/ row[k].kind = "none" /\ row' = [row EXCEPT ![k] = [kind |-> kind, calls |-> charge]]
    BY <1>2 DEF Measured, RecordMeasurement
  <2>5. QED
    BY <2>1, <2>2, <2>3, <2>4 DEF Records
<1>3. CASE \/ \E o \in Options, c \in Caps : openRun(o, c)
           \/ StartAsset \/ StopOffering \/ IsFatal \/ EndPass
           \/ \E k \in calling : Unrecorded(k)
           \/ WriteValuation \/ WriteTruncated \/ finishRun \/ Cancel \/ Dies
  BY <1>3 DEF openRun, StartAsset, StopOffering, IsFatal, EndPass, Unrecorded, WriteValuation,
     WriteTruncated, finishRun, Cancel, Dies, store
<1>4. CASE Unpriced
  <2>1. PICK c \in left :
           row' = row \/ RecordMeasurement(KeyOf(Asked, arm, trial, c), "errored", 0)
    BY <1>4 DEF Unpriced
  <2>2. at = "pass" /\ c \in CasesOf(plan, Asked, arm) /\ spent' = spent + 0
    BY <1>4 DEF Unpriced, PassOK, TypeOK
  <2>3. QED
    BY <2>1, <2>2 DEF RecordMeasurement, Records
<1>5. QED
  BY <1>1, <1>2, <1>3, <1>4 DEF Next, Step

(* What writing a row does to the rows.                                     *)
LEMMA RecordsRow ==
    ASSUME Assumed, TypeOK, ProcessOK, Records
    PROVE  \E c \in CasesOf(plan, Asked, arm) :
              /\ Done' = Done \cup {KeyOf(Asked, arm, trial, c)}
              /\ KeyOf(Asked, arm, trial, c) \notin Done
              /\ RowsKept
              /\ row' \in [Key -> Row]
              /\ SettledSpend' - SettledSpend = spent' - spent
<1>1. PICK c \in CasesOf(plan, Asked, arm), kind \in {"scored", "errored"}, n \in 0..1 :
        /\ row[KeyOf(Asked, arm, trial, c)].kind = "none"
        /\ row' = [row EXCEPT ![KeyOf(Asked, arm, trial, c)] = [kind |-> kind, calls |-> n]]
        /\ spent' = spent + n
  BY DEF Records
<1> DEFINE k == KeyOf(Asked, arm, trial, c)
           r == [kind |-> kind, calls |-> n]
<1>2. k \in Key
  BY PassKeys DEF Records
<1> HIDE DEF k
<1>3. row[k].kind = "none" /\ row' = [row EXCEPT ![k] = r]
  BY <1>1 DEF k
<1>4. row' \in [Key -> Row]
  BY <1>3 DEF TypeOK, Row
<1>5. \A j \in Key : row'[j] = IF j = k THEN r ELSE row[j]
  BY <1>3 DEF TypeOK
<1>6. Done' = Done \cup {k} /\ k \notin Done /\ RowsKept
  BY <1>2, <1>3, <1>5 DEF Done, RowsKept
<1>7. SettledSpend' = SettledSpend + n
  <2> DEFINE f == [j \in Key |-> row[j].calls]
             g == [j \in Key |-> row'[j].calls]
  <2>1. f \in [Key -> Nat] /\ g \in [Key -> Nat]
    BY <1>4 DEF TypeOK, Row, NoRow
  <2>2. \A j \in Key \ {k} : g[j] = f[j]
    BY <1>5
  <2>3. g[k] = n
    BY <1>2, <1>5
  <2>4. f[k] = 0
    BY <1>2, <1>3 DEF TypeOK, Row, NoRow
  <2>5. IsFiniteSet(Key)
    BY KeyFinite DEF Assumed
  <2> HIDE DEF f, g
  <2>6. SumOver(g, Key) = SumOver(f, Key) - f[k] + g[k]
    BY <1>2, <2>1, <2>2, <2>5, SumOverUpdate
  <2>7. SettledSpend = SumOver(f, Key) /\ SettledSpend' = SumOver(g, Key)
    BY DEF SettledSpend, f, g
  <2>8. SumOver(f, Key) \in Nat
    BY <2>1, <2>5, SumOverNat
  <2>9. QED
    BY <2>3, <2>4, <2>6, <2>7, <2>8
<1>8. SettledSpend \in Nat /\ spent \in Nat
  BY SettledNat DEF TypeOK
<1>9. QED
  BY <1>1, <1>4, <1>6, <1>7, <1>8 DEF k

-----------------------------------------------------------------------------
(* Types. *)

(* Writing an event keeps the stream one of events.                         *)
LEMMA AppendedType ==
    ASSUME TypeOK, NEW kind \in {"RunStarted", "RunResumed", "AssetRouted", "AssetValued",
                                 "RunFinished"}
    PROVE  appended(kind) \in Seq(Event)
<1>1. [kind |-> kind, by |-> processes] \in Event
  BY DEF TypeOK, Event
<1>2. log \in Seq(Event)
  BY DEF TypeOK
<1>3. QED
  BY <1>1, <1>2 DEF appended

(* A process that is gone leaves nothing of another type.                   *)
LEMMA EndsType ==
    ASSUME Assumed, TypeOK, Ends
    PROVE  /\ at' \in {"down", "asset", "pass", "valuation", "truncated", "close"}
           /\ opts' \in Options \cup {None} /\ cap' \in Nat /\ completed' \subseteq Key
           /\ next' \in 1..(Len(AssetOrder) + 1) /\ arm' \in Arms /\ trial' \in Nat \ {0}
           /\ left' \subseteq Case /\ calling' \subseteq Key /\ refusing' \in 0..Workers
           /\ stopReason' \in {"none", "BUDGET_STOPPED", "INTERRUPTED"}
           /\ tripped' \in BOOLEAN /\ broken' \in BOOLEAN /\ ctxDone' \in BOOLEAN
           /\ spent' \in Nat /\ seq' \in Nat /\ processes' \in 0..MaxProcesses
<1>1. next' \in 1..(Len(AssetOrder) + 1) /\ refusing' \in 0..Workers
  BY Params DEF Ends
<1>2. arm' \in Arms /\ trial' \in Nat \ {0}
  BY DEF Ends, Arms
<1>3. processes' \in 0..MaxProcesses
  BY DEF Ends, TypeOK
<1>4. QED
  BY <1>1, <1>2, <1>3 DEF Ends

(* A pass is over dev cases.                                                *)
LEMMA ToMeasureCases ==
    ASSUME Assumed, TypeOK, ProcessOK, at \in {"asset", "pass"}, NEW a \in Asset,
           NEW i \in Arms, NEW t
    PROVE  ToMeasure(a, i, t) \subseteq CasesOf(plan, a, i) /\ ToMeasure(a, i, t) \subseteq Case
<1>1. opts \in Options
  BY DEF ProcessOK
<1>2. CasesOf(plan, a, i) \subseteq Case
  BY <1>1, CasesAreCases DEF Assumed, plan
<1>3. QED
  BY <1>2 DEF ToMeasure

(* Every step keeps the types.                                              *)
LEMMA StepType ==
    ASSUME Assumed, TypeOK, ProcessOK, PassOK, Next
    PROVE  TypeOK'
<1>1. row' \in [Key -> Row]
  <2>1. CASE row' = row
    BY <2>1 DEF TypeOK
  <2>2. CASE Records
    BY <2>2, RecordsRow
  <2>3. QED
    BY <2>1, <2>2, StepRows
<1>2. ASSUME NEW o \in Options, NEW c \in Caps, openRun(o, c)  PROVE TypeOK'
  <2>1. c \in Nat
    BY DEF Assumed, ValueAssumption
  <2>2. log' \in Seq(Event)
    <3>1. processes + 1 \in Nat
      BY DEF TypeOK
    <3>2. \A e \in Event : <<e>> \in Seq(Event)
      OBVIOUS
    <3>3. QED
      BY <1>2, <3>1, <3>2 DEF openRun, TypeOK, Event
  <2>3. spent' \in Nat
    BY <1>2, SettledNat DEF openRun, Restore
  <2>4. completed' \subseteq Key
    BY <1>2 DEF openRun, CompletedMeasurements, Done
  <2>5. processes' \in 0..MaxProcesses
    BY <1>2 DEF openRun, TypeOK, Assumed, ValueAssumption
  <2> HIDE DEF Event, Valuation, Row
  <2>6. QED
    BY <1>1, <1>2, <2>1, <2>2, <2>3, <2>4, <2>5 DEF openRun, TypeOK, work, stops
<1>3. CASE StartAsset
  <2>1. opts \in Options
    BY <1>3 DEF ProcessOK, StartAsset
  <2>2. Asked \in Asset
    BY <1>3 DEF StartAsset, Asked, TypeOK, Assumed, ValueAssumption
  <2>3. ToMeasure(Asked, 1, 1) \subseteq Case
    BY <1>3, <2>2, ToMeasureCases, ArmsAre DEF StartAsset
  <2>4. log' \in Seq(Event) /\ seq' \in Nat
    BY <1>3, AppendedType DEF StartAsset, append, TypeOK
  <2>5. left' \subseteq Case /\ arm' \in Arms /\ trial' \in Nat \ {0}
    BY <1>3, <2>3, ArmsAre DEF StartAsset, TypeOK
  <2>6. /\ at' \in {"down", "asset", "pass", "valuation", "truncated", "close"}
        /\ stopReason' \in {"none", "BUDGET_STOPPED", "INTERRUPTED"}
        /\ tripped' = tripped /\ broken' = broken /\ ctxDone' = ctxDone
    BY <1>3 DEF StartAsset, stops, TypeOK
  <2>7. QED
    BY <1>1, <1>3, <2>4, <2>5, <2>6 DEF StartAsset, TypeOK, fixed
<1>4. CASE Begin
  <2>1. PICK c \in left :
          /\ left' \in {left \ {c}, {}}
          /\ calling' \in {calling, calling \cup {KeyOf(Asked, arm, trial, c)}}
          /\ refusing' \in {refusing, refusing + 1}
          /\ stopped' \in {stopped, stopped + 1}
    BY <1>4 DEF Begin, Mark
  <2>2. KeyOf(Asked, arm, trial, c) \in Key
    BY <1>4, PassKeys DEF Begin, PassOK
  <2>3. refusing + 1 \in 0..Workers
    <3>1. Cardinality(calling) + refusing < Workers
      BY <1>4 DEF Begin
    <3>2. Cardinality(calling) \in Nat /\ refusing \in Nat /\ Workers \in Nat
      BY CallsCount, Params DEF TypeOK
    <3>3. QED
      BY <3>1, <3>2
  <2>4. /\ left' \subseteq Case /\ calling' \subseteq Key /\ refusing' \in 0..Workers
        /\ stopped' \in Nat
    BY <2>1, <2>2, <2>3 DEF TypeOK
  <2>5. QED
    BY <1>1, <1>4, <2>4 DEF Begin, TypeOK, place, stops, fixed
<1>5. CASE StopOffering \/ IsFatal \/ Cancel \/ Unpriced \/ \E k \in calling : Unrecorded(k)
  <2>1. CASE StopOffering
    BY <1>1, <2>1 DEF StopOffering, TypeOK, store, place, stops, fixed
  <2>2. CASE IsFatal
    BY <1>1, <2>2 DEF IsFatal, TypeOK, store, place, work, fixed
  <2>3. CASE Cancel
    BY <1>1, <2>3 DEF Cancel, TypeOK, store, place, work, fixed
  <2>4. ASSUME NEW k \in calling, Unrecorded(k)  PROVE TypeOK'
    BY <1>1, <2>4 DEF Unrecorded, TypeOK, store, place, fixed
  <2>5. CASE Unpriced
    <3>1. left' \subseteq Case /\ broken' \in BOOLEAN
      BY <2>5 DEF Unpriced, TypeOK
    <3>2. QED
      BY <1>1, <2>5, <3>1 DEF Unpriced, TypeOK, place, fixed
  <2>6. QED
    BY <1>5, <2>1, <2>2, <2>3, <2>4, <2>5
<1>6. ASSUME NEW k \in calling, NEW kind \in {"scored", "errored"}, NEW charge \in {0, 1},
             Measured(k, kind, charge)
      PROVE  TypeOK'
  <2>1. tripped' \in BOOLEAN
    BY <1>6 DEF Measured, TypeOK
  <2>2. calling' \subseteq Key /\ spent' \in Nat /\ stopped' \in Nat
    BY <1>6 DEF Measured, TypeOK
  <2>3. QED
    BY <1>1, <1>6, <2>1, <2>2 DEF Measured, TypeOK, place, fixed
<1>7. CASE EndPass
  <2>1. CASE Ends
    BY <1>1, <1>7, <2>1, EndsType DEF EndPass, store, TypeOK
  <2>2. CASE /\ at' = "truncated" /\ stopReason' = StopOf
             /\ UNCHANGED <<next, arm, trial, work, tripped, broken, ctxDone, fixed, spent, seq>>
    BY <1>1, <1>7, <2>2 DEF EndPass, StopOf, store, work, fixed, TypeOK
  <2>3. CASE /\ at' \in {"pass", "valuation"}
             /\ left' = left \/ \E i \in Arms : \E t : left' = ToMeasure(Asked, i, t)
             /\ arm' \in Arms /\ trial' \in Nat \ {0}
             /\ UNCHANGED <<next, calling, refusing, stops, fixed, spent, seq>>
    <3>1. Asked \in Asset
      BY <1>7, AskedIs DEF EndPass
    <3>2. left' \subseteq Case
      BY <1>7, <2>3, <3>1, ToMeasureCases DEF EndPass, TypeOK
    <3>3. QED
      BY <1>1, <1>7, <2>3, <3>2 DEF EndPass, store, stops, fixed, TypeOK
  <2>4. CASE /\ StopOf = "none" /\ ~tripped /\ ~broken
             /\ \/ /\ trial' = trial + 1 /\ left' = ToMeasure(Asked, arm, trial + 1)
                   /\ UNCHANGED <<at, arm>>
                \/ \E i \in LaterArms : /\ arm' = i /\ trial' = 1 /\ left' = ToMeasure(Asked, i, 1)
                                        /\ UNCHANGED at
                \/ at' = "valuation" /\ UNCHANGED <<arm, trial, left>>
             /\ UNCHANGED <<next, calling, refusing, stops, fixed, spent, seq>>
    <3>1. /\ at = "pass" /\ arm \in Arms /\ trial \in Nat \ {0} /\ trial + 1 \in Nat \ {0}
          /\ 1 \in Nat \ {0} /\ LaterArms \subseteq Arms
      BY <1>7 DEF EndPass, TypeOK, LaterArms
    <3>2. QED
      BY <2>3, <2>4, <3>1
  <2>5. QED
    BY <1>7, <2>1, <2>2, <2>4, Zenon DEF EndPass
<1>8. CASE WriteValuation
  <2>1. Asked \in Asset /\ next \in 1..Len(AssetOrder) /\ opts \in Options
    BY <1>8, AskedIs DEF WriteValuation
  <2>2. CASE ctxDone
    BY <1>1, <1>8, <2>2, EndsType DEF WriteValuation, TypeOK
  <2>3. CASE ~ctxDone
    <3>1. valuationFor(opts, Asked) \in Valuation
      BY <2>1, ValuationType DEF Assumed
    <3>2. valuation' \in [Asset -> Valuation \cup {None}]
      BY <1>8, <2>1, <2>3, <3>1 DEF WriteValuation, TypeOK
    <3>3. log' \in Seq(Event) /\ seq' \in Nat
      BY <1>8, <2>3, AppendedType DEF WriteValuation, append, TypeOK
    <3>4. next' \in 1..(Len(AssetOrder) + 1) /\ arm' \in Arms /\ trial' \in Nat \ {0}
      <4>1. next' = next + 1 /\ arm' = 1 /\ trial' = 1
        BY <1>8, <2>3 DEF WriteValuation
      <4>2. Len(AssetOrder) \in Nat
        BY Params
      <4>3. QED
        BY <2>1, <4>1, <4>2 DEF Arms
    <3>5. QED
      BY <1>1, <1>8, <2>3, <3>2, <3>3, <3>4 DEF WriteValuation, TypeOK, work, stops, fixed
  <2>4. QED
    BY <2>2, <2>3
<1>9. CASE WriteTruncated
  <2>1. Asked \in Asset /\ opts \in Options
    BY <1>9, AskedIs DEF WriteTruncated
  <2>2. Truncated \in Valuation
    BY <2>1 DEF Truncated, Valuation
  <2>3. valuation' \in [Asset -> Valuation \cup {None}]
    BY <1>9, <2>1, <2>2 DEF WriteTruncated, TypeOK
  <2>4. log' \in Seq(Event) /\ seq' \in Nat
    BY <1>9, AppendedType DEF WriteTruncated, append, TypeOK
  <2>5. QED
    BY <1>1, <1>9, <2>3, <2>4 DEF WriteTruncated, TypeOK, work, stops, fixed
<1>10. CASE finishRun
  <2>1. opts \in Options
    BY <1>10 DEF finishRun, ProcessOK
  <2>2. runPlan' \in {Plans[o] : o \in Options} \cup {None}
    BY <1>10, <2>1 DEF finishRun, plan
  <2>3. log' \in Seq(Event)
    BY <1>10, AppendedType DEF finishRun
  <2>4. status' \in {"ABSENT", "RUNNING", "COMPLETED", "BUDGET_STOPPED", "INTERRUPTED"}
    BY <1>10 DEF finishRun, TypeOK
  <2>5. QED
    BY <1>1, <1>10, <2>2, <2>3, <2>4, EndsType DEF finishRun, TypeOK
<1>11. CASE Dies
  BY <1>1, <1>11, EndsType DEF Dies, store, TypeOK
<1>12. QED
  BY <1>2, <1>3, <1>4, <1>5, <1>6, <1>7, <1>8, <1>9, <1>10, <1>11 DEF Next, Step

-----------------------------------------------------------------------------
(* The process, its pass and its assets. *)

(* No step loses a row or changes one.                                      *)
LEMMA StepKeeps ==
    ASSUME Assumed, TypeOK, ProcessOK, PassOK, Next
    PROVE  RowsKept
<1>1. CASE row' = row
  BY <1>1 DEF RowsKept, Done
<1>2. CASE Records
  BY <1>2, RecordsRow
<1>3. QED
  BY <1>1, <1>2, StepRows

(* A process that is gone has nothing.                                      *)
LEMMA EndsProcess ==
    ASSUME Ends
    PROVE  ProcessOK' /\ PassOK' /\ AssetsOK' /\ MoneyOK'
BY DEF Ends, ProcessOK, PassOK, AssetsOK, MoneyOK, Stopped

(* Every step keeps what a process that is at a step of Value has.          *)
LEMMA StepProcess ==
    ASSUME Assumed, TypeOK, ProcessOK, PassOK, Next
    PROVE  ProcessOK'
<1>1. Done \subseteq Done'
  BY StepKeeps DEF RowsKept
<1>2. ASSUME NEW o \in Options, NEW c \in Caps, openRun(o, c)  PROVE ProcessOK'
  <2>1. completed' \subseteq Done'
    BY <1>1, <1>2 DEF openRun, CompletedMeasurements
  <2>2. /\ left' = {} /\ calling' = {} /\ opts' \in Options /\ at' = "asset"
        /\ stopReason' = "none" /\ ~tripped' /\ ~broken'
    BY <1>2 DEF openRun, ProcessOK, work, stops, Stopped
  <2>3. processes' > 0
    BY <1>2 DEF openRun, TypeOK
  <2>4. QED
    BY <2>1, <2>2, <2>3 DEF ProcessOK
<1>3. CASE StartAsset
  <2>1. next \in DOMAIN AssetOrder
    BY <1>3, Params DEF StartAsset, TypeOK
  <2>2. opts \in Options /\ completed \subseteq Done' /\ processes > 0
    BY <1>1, <1>3 DEF StartAsset, ProcessOK
  <2>3. 1 <= plan.trials
    <3>1. AssetOrder[next] \in Asset
      BY <2>1, Params
    <3>2. Plans[opts].trials \in Nat \ {0}
      BY <2>2, <3>1, PlanParts DEF Assumed
    <3>3. QED
      BY <3>2 DEF plan
  <2>4. opts' = opts /\ completed' = completed /\ processes' = processes /\ next' = next /\ calling' = {}
    BY <1>3 DEF StartAsset, ProcessOK, fixed
  <2>5. CASE ctxDone
    BY <1>3, <2>2, <2>4, <2>5 DEF StartAsset, ProcessOK
  <2>6. CASE ~ctxDone /\ plan.routed[Asked] = {}
    BY <1>3, <2>1, <2>2, <2>4, <2>6 DEF StartAsset, ProcessOK, stops
  <2>7. CASE ~ctxDone /\ plan.routed[Asked] # {}
    <3>1. at' = "pass" /\ trial' = 1 /\ plan' = plan /\ Asked' = Asked
      BY <1>3, <2>4, <2>7 DEF StartAsset, plan, Asked
    <3>2. QED
      BY <2>1, <2>2, <2>3, <2>4, <2>7, <3>1 DEF ProcessOK
  <2>8. QED
    BY <2>5, <2>6, <2>7
<1>4. ASSUME at # "down", UNCHANGED <<at, next, trial, opts, completed, processes>>,
             at # "pass" => UNCHANGED <<left, calling, stopReason, tripped, broken>>
      PROVE  ProcessOK'
  <2>1. plan' = plan /\ Asked' = Asked
    BY <1>4 DEF plan, Asked
  <2>2. QED
    BY <1>1, <1>4, <2>1 DEF ProcessOK
<1>5. CASE \/ Begin \/ Unpriced \/ StopOffering \/ IsFatal \/ Cancel
           \/ \E k \in calling : \/ \E kind \in {"scored", "errored"}, charge \in {0, 1} : Measured(k, kind, charge)
                                 \/ Unrecorded(k)
  <2>1. CASE Begin
    BY <1>4, <2>1 DEF Begin, place, stops, fixed
  <2>2. CASE StopOffering
    BY <1>4, <2>2 DEF StopOffering, place, stops, fixed
  <2>3. CASE IsFatal
    BY <1>4, <2>3 DEF IsFatal, place, work, fixed
  <2>4. CASE Cancel
    BY <1>4, <2>4 DEF Cancel, place, work, fixed
  <2>5. CASE \E k \in calling : \/ \E kind \in {"scored", "errored"}, charge \in {0, 1} : Measured(k, kind, charge)
                                \/ Unrecorded(k)
    <3>1. at = "pass"
      BY <2>5 DEF ProcessOK
    <3>2. QED
      BY <1>4, <2>5, <3>1 DEF Measured, Unrecorded, place, fixed
  <2>6. CASE Unpriced
    BY <1>4, <2>6 DEF Unpriced, place, fixed
  <2>7. QED
    BY <1>5, <2>1, <2>2, <2>3, <2>4, <2>5, <2>6
<1>6. CASE EndPass
  <2>1. /\ at = "pass" /\ opts \in Options /\ completed \subseteq Done' /\ processes > 0
        /\ next \in DOMAIN AssetOrder /\ plan.routed[Asked] # {}
    BY <1>1, <1>6 DEF EndPass, ProcessOK
  <2>2. CASE Ends
    BY <2>2, EndsProcess
  <2>3. CASE /\ StopOf # "none" /\ at' = "truncated" /\ stopReason' = StopOf
             /\ UNCHANGED <<next, arm, trial, work, tripped, broken, ctxDone, fixed, spent, seq>>
    BY <1>6, <2>1, <2>3 DEF EndPass, ProcessOK, work, fixed
  <2>4. CASE /\ StopOf = "none" /\ ~tripped /\ ~broken
             /\ \/ at' = "pass" /\ trial' <= plan.trials
                \/ at' = "valuation" /\ left' = left
             /\ UNCHANGED <<next, calling, refusing, stops, fixed, spent, seq>>
    <3>1. plan' = plan /\ Asked' = Asked /\ opts' = opts /\ next' = next
      BY <2>4 DEF plan, Asked, fixed
    <3>2. stopReason' = "none" /\ ~tripped' /\ ~broken'
      BY <2>4 DEF StopOf, stops
    <3>3. left = {} /\ calling = {} /\ calling' = {} /\ completed' = completed /\ processes' = processes
      BY <1>6, <2>4 DEF EndPass, fixed
    <3>4. QED
      BY <2>1, <2>4, <3>1, <3>2, <3>3 DEF ProcessOK
  <2>5. trial < plan.trials => trial + 1 <= plan.trials
    <3>1. AssetOrder[next] \in Asset /\ trial \in Nat
      BY <2>1, Params DEF TypeOK
    <3>2. plan.trials \in Nat
      BY <2>1, <3>1, PlanParts DEF plan, Assumed
    <3>3. QED
      BY <3>1, <3>2
  <2>6. 1 <= plan.trials
    <3>1. AssetOrder[next] \in Asset
      BY <2>1, Params
    <3>2. plan.trials \in Nat \ {0}
      BY <2>1, <3>1, PlanParts DEF plan, Assumed
    <3>3. QED
      BY <3>2
  <2>7. QED
    BY <1>6, <2>1, <2>2, <2>3, <2>4, <2>5, <2>6 DEF EndPass
<1>7. CASE WriteValuation
  <2>1. /\ opts \in Options /\ completed \subseteq Done' /\ processes > 0
        /\ next \in DOMAIN AssetOrder /\ left = {} /\ calling = {}
        /\ stopReason = "none" /\ ~tripped /\ ~broken
    BY <1>1, <1>7 DEF WriteValuation, ProcessOK
  <2>2. CASE Ends
    BY <2>2, EndsProcess
  <2>3. CASE /\ next' = next + 1
             /\ at' = IF next = Len(AssetOrder) THEN "close" ELSE "asset"
             /\ UNCHANGED <<work, stops, fixed, spent>>
    BY <2>1, <2>3 DEF ProcessOK, work, stops, fixed
  <2>4. QED
    BY <1>7, <2>2, <2>3 DEF WriteValuation
<1>8. CASE WriteTruncated
  BY <1>1, <1>8 DEF WriteTruncated, ProcessOK, work, stops, fixed
<1>9. CASE finishRun \/ Dies
  BY <1>9, EndsProcess DEF finishRun, Dies
<1>10. QED
  BY <1>2, <1>3, <1>5, <1>6, <1>7, <1>8, <1>9 DEF Next, Step

(* No two measurements of the asset being measured share a key.             *)
LEMMA PassUnique ==
    ASSUME Assumed, TypeOK, ProcessOK, at = "pass"
    PROVE  \A i, j \in Arms : \A t, u : \A c \in CasesOf(plan, Asked, i), d \in CasesOf(plan, Asked, j) :
              KeyOf(Asked, i, t, c) = KeyOf(Asked, j, u, d) => i = j /\ t = u /\ c = d
<1>1. Asked \in Asset /\ opts \in Options
  BY AskedIs
<1>2. QED
  BY <1>1, KeyUnique DEF Assumed, plan

\* What PassOK says of the passes behind and ahead.
PassesOK ==
    \A i \in Arms, t \in 1..plan.trials : \A c \in CasesOf(plan, Asked, i) :
        /\ Earlier(i, t) => KeyOf(Asked, i, t, c) \in Done
        /\ Later(i, t) /\ KeyOf(Asked, i, t, c) \in Done => KeyOf(Asked, i, t, c) \in completed

(* A row of the pass it is at says nothing of the others.                   *)
LEMMA PassesKept ==
    ASSUME Assumed, TypeOK, ProcessOK, PassOK, at = "pass",
           UNCHANGED <<place, opts, completed>>,
           \/ Done' = Done
           \/ \E c \in CasesOf(plan, Asked, arm) : Done' = Done \cup {KeyOf(Asked, arm, trial, c)}
    PROVE  PassesOK'
<1>1. PassesOK
  BY DEF PassOK, PassesOK
<1>2. plan' = plan /\ Asked' = Asked /\ arm' = arm /\ trial' = trial /\ completed' = completed
  BY DEF plan, Asked, place
<1>3. \A i \in Arms, t \in 1..plan.trials : \A c \in CasesOf(plan, Asked, i) :
        /\ Earlier(i, t) => KeyOf(Asked, i, t, c) \in Done'
        /\ Later(i, t) /\ KeyOf(Asked, i, t, c) \in Done' => KeyOf(Asked, i, t, c) \in completed
  <2>1. CASE Done' = Done
    BY <1>1, <2>1 DEF PassesOK
  <2>2. ASSUME NEW d \in CasesOf(plan, Asked, arm), Done' = Done \cup {KeyOf(Asked, arm, trial, d)}
        PROVE  \A i \in Arms, t \in 1..plan.trials : \A c \in CasesOf(plan, Asked, i) :
                  /\ Earlier(i, t) => KeyOf(Asked, i, t, c) \in Done'
                  /\ Later(i, t) /\ KeyOf(Asked, i, t, c) \in Done'
                        => KeyOf(Asked, i, t, c) \in completed
    <3>1. SUFFICES ASSUME NEW i \in Arms, NEW t \in 1..plan.trials, NEW c \in CasesOf(plan, Asked, i),
                          Later(i, t), KeyOf(Asked, i, t, c) = KeyOf(Asked, arm, trial, d)
                   PROVE  FALSE
      BY <1>1, <2>2 DEF PassesOK
    <3>2. arm \in Arms
      BY DEF TypeOK
    <3>3. i = arm /\ t = trial
      BY <3>1, <3>2, PassUnique
    <3>4. arm \in Int /\ trial \in Int
      BY DEF TypeOK, Arms
    <3>5. QED
      BY <3>1, <3>3, <3>4 DEF Later
  <2>3. QED
    BY <2>1, <2>2
<1>4. QED
  BY <1>2, <1>3 DEF PassesOK, Earlier, Later

(* A step within a pass keeps PassOK when it keeps what is said of that     *)
(* pass.                                                                    *)
LEMMA SamePass ==
    ASSUME at = "pass", UNCHANGED <<place, opts, completed>>, PassesOK',
           left' \subseteq CasesOf(plan, Asked, arm),
           \A c \in left' : KeyOf(Asked, arm, trial, c) \notin Done' \cup calling',
           \A k \in calling' :
              k \notin Done' /\ \E c \in CasesOf(plan, Asked, arm) : k = KeyOf(Asked, arm, trial, c),
           ~Stopped' => \A c \in CasesOf(plan, Asked, arm) \ left' :
                           KeyOf(Asked, arm, trial, c) \in Done' \cup calling'
    PROVE  PassOK'
<1>1. plan' = plan /\ Asked' = Asked /\ arm' = arm /\ trial' = trial
  BY DEF plan, Asked, place
<1>2. QED
  BY <1>1 DEF PassOK, PassesOK

(* Handing a case over keeps PassOK.                                        *)
LEMMA BeginPass ==
    ASSUME Assumed, TypeOK, ProcessOK, PassOK, Begin
    PROVE  PassOK'
<1> DEFINE key(c) == KeyOf(Asked, arm, trial, c)
           cases == CasesOf(plan, Asked, arm)
<1>1. at = "pass" /\ UNCHANGED <<place, opts, completed>> /\ Stopped' = Stopped
  BY DEF Begin, fixed, stops, Stopped
<1>2. PICK c \in left :
        \/ /\ ~Stopped /\ calling' = calling \cup {key(c)} /\ left' = left \ {c} /\ row' = row
        \/ /\ ~Stopped /\ calling' = calling /\ left' = left \ {c} /\ Mark(key(c))
        \/ /\ Stopped /\ calling' = calling /\ left' = {} /\ Mark(key(c))
  BY DEF Begin
<1>3. /\ left \subseteq cases
      /\ \A d \in left : key(d) \notin Done \cup calling
      /\ \A k \in calling : k \notin Done /\ \E d \in cases : k = key(d)
      /\ ~Stopped => \A d \in cases \ left : key(d) \in Done \cup calling
  BY <1>1 DEF PassOK
<1>4. \A d, e \in cases : key(d) = key(e) => d = e
  <2>1. arm \in Arms
    BY DEF TypeOK
  <2>2. QED
    BY <1>1, <2>1, PassUnique
<1>5. key(c) \in Key /\ c \in cases
  BY <1>1, <1>2, <1>3, PassKeys
<1>6. row[key(c)].kind = "none" /\ (~Stopped => ~broken)
  BY <1>2, <1>3, <1>5 DEF Done, Stopped
<1>7. ASSUME Mark(key(c))
      PROVE  Done' = Done \/ Done' = Done \cup {key(c)}
  BY <1>5, <1>7 DEF Mark, Done, TypeOK
<1>8. ASSUME Mark(key(c)), ~Stopped
      PROVE  Done' = Done \cup {key(c)}
  BY <1>5, <1>6, <1>8 DEF Mark, Done, TypeOK
<1>9. row' = row => Done' = Done
  BY DEF Done
<1>10. PassesOK'
  BY <1>1, <1>2, <1>5, <1>7, <1>9, PassesKept
<1> HIDE DEF key, cases
<1>11. CASE ~Stopped /\ calling' = calling \cup {key(c)} /\ left' = left \ {c} /\ row' = row
  <2>1. /\ left' \subseteq cases
        /\ \A d \in left' : key(d) \notin Done' \cup calling'
        /\ \A k \in calling' : k \notin Done' /\ \E d \in cases : k = key(d)
        /\ \A d \in cases \ left' : key(d) \in Done' \cup calling'
    BY <1>2, <1>3, <1>4, <1>5, <1>9, <1>11
  <2>2. QED
    BY <1>1, <1>10, <2>1, SamePass DEF key, cases
<1>12. CASE ~Stopped /\ calling' = calling /\ left' = left \ {c} /\ Mark(key(c))
  <2>1. /\ left' \subseteq cases
        /\ \A d \in left' : key(d) \notin Done' \cup calling'
        /\ \A k \in calling' : k \notin Done' /\ \E d \in cases : k = key(d)
        /\ \A d \in cases \ left' : key(d) \in Done' \cup calling'
    BY <1>2, <1>3, <1>4, <1>5, <1>8, <1>12
  <2>2. QED
    BY <1>1, <1>10, <2>1, SamePass DEF key, cases
<1>13. CASE Stopped /\ calling' = calling /\ left' = {} /\ Mark(key(c))
  <2>1. \A k \in calling' : k \notin Done' /\ \E d \in cases : k = key(d)
    BY <1>2, <1>3, <1>7, <1>13
  <2>2. QED
    BY <1>1, <1>10, <1>13, <2>1, SamePass DEF key, cases
<1>14. QED
  BY <1>2, <1>11, <1>12, <1>13 DEF key

(* A case that gets no further than its estimate keeps PassOK.              *)
LEMMA UnpricedPass ==
    ASSUME Assumed, TypeOK, ProcessOK, PassOK, Unpriced
    PROVE  PassOK'
<1> DEFINE key(c) == KeyOf(Asked, arm, trial, c)
           cases == CasesOf(plan, Asked, arm)
<1>1. at = "pass" /\ UNCHANGED <<place, opts, completed, calling>> /\ ~Stopped
  BY DEF Unpriced, fixed
<1>2. PICK c \in left :
        /\ left' = left \ {c}
        /\ \/ RecordMeasurement(key(c), "errored", 0)
           \/ row' = row /\ broken'
  BY DEF Unpriced
<1>3. /\ left \subseteq cases
      /\ \A d \in left : key(d) \notin Done \cup calling
      /\ \A k \in calling : k \notin Done /\ \E d \in cases : k = key(d)
      /\ \A d \in cases \ left : key(d) \in Done \cup calling
  BY <1>1 DEF PassOK
<1>4. \A d, e \in cases : key(d) = key(e) => d = e
  <2>1. arm \in Arms
    BY DEF TypeOK
  <2>2. QED
    BY <1>1, <2>1, PassUnique
<1>5. key(c) \in Key /\ c \in cases
  BY <1>1, <1>2, <1>3, PassKeys
<1>6. row[key(c)].kind = "none"
  BY <1>2, <1>3, <1>5 DEF Done
<1>7. Done' = Done \cup {key(c)} \/ (Done' = Done /\ Stopped')
  BY <1>2, <1>5, <1>6 DEF RecordMeasurement, Done, TypeOK, Stopped
<1>8. PassesOK'
  BY <1>1, <1>5, <1>7, PassesKept
<1> HIDE DEF key, cases
<1>9. /\ left' \subseteq cases
      /\ \A d \in left' : key(d) \notin Done' \cup calling'
      /\ \A k \in calling' : k \notin Done' /\ \E d \in cases : k = key(d)
      /\ ~Stopped' => \A d \in cases \ left' : key(d) \in Done' \cup calling'
  BY <1>1, <1>2, <1>3, <1>4, <1>5, <1>7
<1>10. QED
  BY <1>1, <1>8, <1>9, SamePass DEF key, cases

(* A call that comes back keeps PassOK.                                     *)
LEMMA MeasuredPass ==
    ASSUME Assumed, TypeOK, ProcessOK, PassOK, NEW k \in calling,
           \/ \E kind \in {"scored", "errored"}, charge \in {0, 1} : Measured(k, kind, charge)
           \/ Unrecorded(k)
    PROVE  PassOK'
<1> DEFINE key(c) == KeyOf(Asked, arm, trial, c)
           cases == CasesOf(plan, Asked, arm)
<1>1. at = "pass"
  BY DEF ProcessOK
<1>2. UNCHANGED <<place, opts, completed>> /\ left' = left /\ calling' = calling \ {k}
  BY DEF Measured, Unrecorded, fixed
<1>3. /\ left \subseteq cases
      /\ \A d \in left : key(d) \notin Done \cup calling
      /\ \A j \in calling : j \notin Done /\ \E d \in cases : j = key(d)
      /\ ~Stopped => \A d \in cases \ left : key(d) \in Done \cup calling
  BY <1>1 DEF PassOK
<1>4. k \in Key /\ \E c \in cases : k = key(c)
  BY <1>3 DEF TypeOK
<1>5. row[k].kind = "none"
  BY <1>3, <1>4 DEF Done
<1>6. CASE \E kind \in {"scored", "errored"}, charge \in {0, 1} : Measured(k, kind, charge)
  <2>1. Done' = Done \cup {k}
    BY <1>4, <1>5, <1>6 DEF Measured, RecordMeasurement, Done, TypeOK
  <2>2. PassesOK'
    BY <1>1, <1>2, <1>4, <2>1, PassesKept
  <2>3. ~Stopped' => ~Stopped
    BY <1>6 DEF Measured, Stopped, TypeOK
  <2> HIDE DEF key, cases
  <2>4. /\ left' \subseteq cases
        /\ \A d \in left' : key(d) \notin Done' \cup calling'
        /\ \A j \in calling' : j \notin Done' /\ \E d \in cases : j = key(d)
        /\ ~Stopped' => \A d \in cases \ left' : key(d) \in Done' \cup calling'
    BY <1>2, <1>3, <2>1, <2>3
  <2>5. QED
    BY <1>1, <1>2, <2>2, <2>4, SamePass DEF key, cases
<1>7. CASE Unrecorded(k)
  <2>1. Done' = Done /\ Stopped'
    BY <1>7 DEF Unrecorded, Done, store, Stopped
  <2>2. PassesOK'
    BY <1>1, <1>2, <2>1, PassesKept
  <2> HIDE DEF key, cases
  <2>3. /\ left' \subseteq cases
        /\ \A d \in left' : key(d) \notin Done' \cup calling'
        /\ \A j \in calling' : j \notin Done' /\ \E d \in cases : j = key(d)
    BY <1>2, <1>3, <2>1
  <2>4. QED
    BY <1>1, <1>2, <2>1, <2>2, <2>3, SamePass DEF key, cases
<1>8. QED
  BY <1>6, <1>7

\* A pass just begun: what it has to measure is what had no row.
Begun ==
    /\ UNCHANGED <<row, opts, completed>>
    /\ left' = ToMeasure(Asked, arm', trial') /\ next' = next /\ calling' = {}
    /\ arm' \in Arms /\ trial' \in 1..plan.trials
    /\ \A c \in CasesOf(plan, Asked, arm') :
          KeyOf(Asked, arm', trial', c) \in Done => KeyOf(Asked, arm', trial', c) \in completed

(* Such a pass has what PassOK says.                                        *)
LEMMA BegunPass ==
    ASSUME Begun, completed \subseteq Done, PassesOK'
    PROVE  PassOK'
<1>1. plan' = plan /\ Asked' = Asked /\ Done' = Done /\ calling' = {}
  BY DEF Begun, plan, Asked, Done
<1>2. /\ left' \subseteq CasesOf(plan, Asked, arm')
      /\ \A c \in left' : KeyOf(Asked, arm', trial', c) \notin Done
      /\ \A c \in CasesOf(plan, Asked, arm') \ left' : KeyOf(Asked, arm', trial', c) \in Done
  BY DEF Begun, ToMeasure
<1>3. QED
  BY <1>1, <1>2 DEF PassOK, PassesOK

(* The first pass of an asset is begun when its rows are those the process  *)
(* was opened with.                                                         *)
LEMMA StartPass ==
    ASSUME Assumed, TypeOK, ProcessOK, AssetsOK, StartAsset
    PROVE  PassOK'
<1>1. CASE at' # "pass"
  BY <1>1 DEF PassOK
<1>2. CASE at' = "pass"
  <2>1. /\ at = "asset" /\ plan.routed[Asked] # {} /\ arm' = 1 /\ trial' = 1
        /\ left' = ToMeasure(Asked, 1, 1)
    BY <1>2 DEF StartAsset
  <2>2. next \in DOMAIN AssetOrder /\ opts \in Options /\ completed \subseteq Done /\ calling = {}
    BY <2>1, Params DEF StartAsset, TypeOK, ProcessOK
  <2>3. Asked \in Asset
    BY <2>2, Params DEF Asked
  <2>4. plan.trials \in Nat \ {0}
    BY <2>2, <2>3, PlanParts DEF plan, Assumed
  <2>5. Schedule[opts][Asked] \cap Done \subseteq completed
    BY <2>1, <2>2 DEF AssetsOK, Asked
  <2>6. \A i \in Arms, t \in 1..plan.trials : \A c \in CasesOf(plan, Asked, i) :
           KeyOf(Asked, i, t, c) \in Done => KeyOf(Asked, i, t, c) \in completed
    <3>1. \A i \in Arms, t \in 1..plan.trials : \A c \in CasesOf(plan, Asked, i) :
             KeyOf(Asked, i, t, c) \in Schedule[opts][Asked]
      BY <2>1, <2>2, <2>3, PassScheduled DEF plan
    <3>2. QED
      BY <2>5, <3>1
  <2>7. 1 \in Arms /\ 1 \in 1..plan.trials
    BY <2>4 DEF Arms
  <2>8. UNCHANGED <<row, opts, completed, next, calling>>
    BY DEF StartAsset, fixed
  <2>9. Begun
    BY <2>1, <2>2, <2>6, <2>7, <2>8 DEF Begun
  <2>10. PassesOK'
    <3>1. plan' = plan /\ Asked' = Asked /\ Done' = Done /\ completed' = completed
      BY <2>8 DEF plan, Asked, Done
    <3>2. \A i \in Arms, t \in 1..plan.trials : ~Earlier(i, t)'
      BY <2>1 DEF Earlier, Arms
    <3>3. QED
      BY <2>6, <3>1, <3>2 DEF PassesOK
  <2>11. QED
    BY <2>2, <2>9, <2>10, BegunPass
<1>3. QED
  BY <1>1, <1>2

(* When a pass is over and nothing stopped it, its rows are all there.      *)
LEMMA PassIsDone ==
    ASSUME PassOK, EndPass, StopOf = "none", ~tripped, ~broken
    PROVE  \A c \in CasesOf(plan, Asked, arm) : KeyOf(Asked, arm, trial, c) \in Done
<1>1. at = "pass" /\ left = {} /\ calling = {}
  BY DEF EndPass
<1>2. ~Stopped
  BY DEF Stopped, StopOf
<1>3. QED
  BY <1>1, <1>2 DEF PassOK

(* The next trial of an arm, and the next arm with cases, are begun when    *)
(* all before them is measured.                                             *)
LEMMA EndPassPass ==
    ASSUME Assumed, TypeOK, ProcessOK, PassOK, EndPass
    PROVE  PassOK'
<1>1. CASE at' # "pass"
  BY <1>1 DEF PassOK
<1>2. CASE at' = "pass"
  <2>1. /\ at = "pass" /\ calling = {} /\ completed \subseteq Done /\ opts \in Options
        /\ trial <= plan.trials
    BY DEF EndPass, ProcessOK
  <2>2. /\ StopOf = "none" /\ ~tripped /\ ~broken
        /\ UNCHANGED <<next, calling, refusing, stops, fixed, spent, seq, row>>
    BY <1>2 DEF EndPass, Ends, store
  <2>3. \A c \in CasesOf(plan, Asked, arm) : KeyOf(Asked, arm, trial, c) \in Done
    BY <2>2, PassIsDone
  <2>4. PassesOK
    BY <2>1 DEF PassOK, PassesOK
  <2>5. plan.trials \in Nat \ {0}
    BY <2>1, AskedIs, PlanParts DEF plan, Assumed
  <2>6. arm \in Arms /\ trial \in Nat
    BY DEF TypeOK
  <2>7. UNCHANGED <<row, opts, completed, next, calling>>
    BY <2>2 DEF fixed
  <2>8. plan' = plan /\ Asked' = Asked /\ Done' = Done /\ completed' = completed
    BY <2>7 DEF plan, Asked, Done
  <2>9. CASE /\ trial < plan.trials
             /\ trial' = trial + 1 /\ left' = ToMeasure(Asked, arm, trial + 1) /\ arm' = arm
    <3>1. Later(arm, trial + 1) /\ trial + 1 \in 1..plan.trials
      BY <2>5, <2>6, <2>9 DEF Later, Arms
    <3>2. Begun
      BY <2>1, <2>4, <2>6, <2>7, <2>9, <3>1 DEF Begun, PassesOK
    <3>3. \A i \in Arms, t \in 1..plan.trials :
            /\ Earlier(i, t)' => Earlier(i, t) \/ (i = arm /\ t = trial)
            /\ Later(i, t)' => Later(i, t)
      BY <2>5, <2>6, <2>9 DEF Earlier, Later, Arms
    <3>4. PassesOK'
      BY <2>3, <2>4, <2>8, <3>3 DEF PassesOK
    <3>5. QED
      BY <2>1, <3>2, <3>4, BegunPass
  <2>10. ASSUME trial = plan.trials, NEW j \in LaterArms, \A later \in LaterArms : j <= later,
                arm' = j, trial' = 1, left' = ToMeasure(Asked, j, 1)
         PROVE  PassOK'
    <3>1. j \in Arms /\ j > arm
      BY DEF LaterArms
    <3>2. Later(j, 1) /\ 1 \in 1..plan.trials
      BY <2>5, <3>1 DEF Later
    <3>3. Begun
      BY <2>1, <2>4, <2>7, <2>10, <3>1, <3>2 DEF Begun, PassesOK
    <3>4. \A i \in Arms, t \in 1..plan.trials :
            /\ Earlier(i, t)' => \/ Earlier(i, t)
                                 \/ i = arm /\ t = trial
                                 \/ CasesOf(plan, Asked, i) = {}
            /\ Later(i, t)' => Later(i, t)
      <4>1. \A i \in Arms : i > arm /\ i < j => CasesOf(plan, Asked, i) = {}
        BY <2>6, <2>10, <3>1 DEF LaterArms, Arms
      <4>2. QED
        BY <2>5, <2>6, <2>10, <3>1, <4>1 DEF Earlier, Later, Arms
    <3>5. PassesOK'
      BY <2>3, <2>4, <2>8, <3>4 DEF PassesOK
    <3>6. QED
      BY <2>1, <3>3, <3>5, BegunPass
  <2>11. QED
    BY <1>2, <2>2, <2>9, <2>10 DEF EndPass, Ends
<1>3. QED
  BY <1>1, <1>2

(* Every step keeps what is said of the pass.                               *)
LEMMA StepPass ==
    ASSUME Assumed, TypeOK, ProcessOK, PassOK, AssetsOK, Next
    PROVE  PassOK'
<1>1. ASSUME NEW o \in Options, NEW c \in Caps, openRun(o, c)  PROVE PassOK'
  BY <1>1 DEF openRun, PassOK
<1>2. ASSUME UNCHANGED <<row, place, opts, completed, calling>>, left' \in {left, {}},
             left' = left \/ Stopped', ~Stopped' => ~Stopped
      PROVE  PassOK'
  <2>1. CASE at # "pass"
    BY <1>2, <2>1 DEF PassOK, place
  <2>2. CASE at = "pass"
    <3>1. Done' = Done
      BY <1>2 DEF Done
    <3>2. PassesOK'
      BY <1>2, <2>2, <3>1, PassesKept
    <3>3. QED
      BY <1>2, <2>2, <3>1, <3>2, SamePass DEF PassOK
  <2>3. QED
    BY <2>1, <2>2
<1>3. CASE StopOffering
  BY <1>2, <1>3 DEF StopOffering, store, stops, fixed, Stopped
<1>4. CASE IsFatal \/ Cancel
  <2>1. UNCHANGED <<row, place, opts, completed, calling, left>>
    BY <1>4 DEF IsFatal, Cancel, store, work, fixed
  <2>2. Stopped'
    BY <1>4 DEF IsFatal, Cancel, Stopped
  <2>3. QED
    BY <1>2, <2>1, <2>2
<1>5. CASE WriteValuation \/ WriteTruncated \/ finishRun \/ Dies
  <2>1. at' # "pass"
    BY <1>5 DEF WriteValuation, WriteTruncated, finishRun, Dies, Ends
  <2>2. QED
    BY <2>1 DEF PassOK
<1>6. QED
  BY <1>1, <1>3, <1>4, <1>5, StartPass, BeginPass, UnpricedPass,
     MeasuredPass, EndPassPass DEF Next, Step

(* A row that is written is one of the asset being measured.                *)
LEMMA RecordedIsAsked ==
    ASSUME Assumed, TypeOK, ProcessOK, PassOK, Next
    PROVE  \/ Done' = Done
           \/ at = "pass" /\ \A k \in Done' \ Done : k \in Key /\ k.asset = Asked
<1>1. CASE row' = row
  BY <1>1 DEF Done
<1>2. CASE Records
  <2>1. at = "pass"
    BY <1>2 DEF Records
  <2>2. PICK c \in CasesOf(plan, Asked, arm) : Done' = Done \cup {KeyOf(Asked, arm, trial, c)}
    BY <1>2, RecordsRow
  <2>3. KeyOf(Asked, arm, trial, c) \in Key
    BY <2>1, PassKeys
  <2>4. KeyOf(Asked, arm, trial, c).asset = Asked
    BY DEF KeyOf
  <2>5. QED
    BY <2>1, <2>2, <2>3, <2>4
<1>3. QED
  BY <1>1, <1>2, StepRows

(* Assets are measured one after the other, each once.                      *)
LEMMA AskedIsNot ==
    ASSUME Assumed, NEW i \in DOMAIN AssetOrder, NEW j \in DOMAIN AssetOrder, i # j
    PROVE  AssetOrder[i] # AssetOrder[j]
BY DEF Assumed, ValueAssumption

(* When no arm is left, the asset is measured.                              *)
LEMMA AssetIsDone ==
    ASSUME Assumed, TypeOK, ProcessOK, PassOK, EndPass, StopOf = "none", ~tripped, ~broken,
           trial = plan.trials, LaterArms = {}
    PROVE  Schedule[opts][Asked] \subseteq Done
<1>1. at = "pass"
  BY DEF EndPass
<1>2. Asked \in Asset /\ opts \in Options
  BY <1>1, AskedIs
<1>3. \A c \in CasesOf(plan, Asked, arm) : KeyOf(Asked, arm, trial, c) \in Done
  BY PassIsDone
<1>4. PassesOK
  BY <1>1 DEF PassOK, PassesOK
<1>5. \A i \in Arms : i > arm => CasesOf(plan, Asked, i) = {}
  BY DEF LaterArms
<1>6. plan.trials \in Nat
  BY <1>2, PlanParts DEF plan, Assumed
<1>7. ASSUME NEW i \in Arms, NEW t \in 1..plan.trials, NEW c \in CasesOf(plan, Asked, i)
      PROVE  KeyOf(Asked, i, t, c) \in Done
  <2>1. Earlier(i, t) \/ (i = arm /\ t = trial) \/ i > arm
    BY <1>6 DEF Earlier, TypeOK, Arms
  <2>2. QED
    BY <1>3, <1>4, <1>5, <2>1 DEF PassesOK
<1>8. QED
  BY <1>2, <1>7, ScheduleMembers DEF plan

(* Every step keeps what is behind whole and what is ahead untouched.       *)
LEMMA StepAssets ==
    ASSUME Assumed, TypeOK, ProcessOK, PassOK, AssetsOK, Next
    PROVE  AssetsOK'
<1>1. Done \subseteq Done'
  BY StepKeeps DEF RowsKept
<1>2. ASSUME NEW o \in Options, NEW c \in Caps, openRun(o, c)  PROVE AssetsOK'
  <2>1. next' = 1 /\ at' = "asset" /\ completed' = Done /\ Done' = Done
    BY <1>2 DEF openRun, ProcessOK, CompletedMeasurements, Done
  <2>2. \A j \in DOMAIN AssetOrder : ~(j < 1)
    BY Params
  <2>3. QED
    BY <2>1, <2>2 DEF AssetsOK
<1>3. ASSUME at # "down", UNCHANGED <<opts, completed, next>>,
             at' = "asset" => at = "asset",
             at' = "valuation" => at = "valuation" \/ Schedule[opts][Asked] \subseteq Done,
             \A j \in DOMAIN AssetOrder :
                j # next => valuation'[AssetOrder[j]] = valuation[AssetOrder[j]]
      PROVE  AssetsOK'
  <2>1. Asked' = Asked
    BY <1>3 DEF Asked
  <2>2. ASSUME NEW j \in DOMAIN AssetOrder, j < next
        PROVE  /\ Schedule[opts][AssetOrder[j]] \subseteq Done'
               /\ valuation'[AssetOrder[j]].opts = opts
               /\ valuation'[AssetOrder[j]].reason # "BUDGET_EXHAUSTED"
    <3>1. j # next
      BY <2>2, Params DEF TypeOK
    <3>2. QED
      BY <1>1, <1>3, <2>2, <3>1 DEF AssetsOK
  <2>3. ASSUME NEW j \in DOMAIN AssetOrder, j > next \/ (j = next /\ at = "asset")
        PROVE  Schedule[opts][AssetOrder[j]] \cap Done' \subseteq completed
    <3>1. Schedule[opts][AssetOrder[j]] \cap Done \subseteq completed
      BY <1>3, <2>3 DEF AssetsOK
    <3>2. CASE Done' = Done
      BY <3>1, <3>2
    <3>3. CASE at = "pass" /\ \A k \in Done' \ Done : k \in Key /\ k.asset = Asked
      <4>1. next \in DOMAIN AssetOrder /\ j # next /\ opts \in Options
        BY <2>3, <3>3, Params DEF ProcessOK
      <4>2. AssetOrder[j] # Asked /\ AssetOrder[j] \in Asset
        BY <4>1, AskedIsNot, Params DEF Asked
      <4>3. ASSUME NEW a \in Asset, NEW k \in Schedule[opts][a]  PROVE k.asset = a
        BY <4>1, <4>3, ScheduledShape, RoutingAssumption, DrawAssumption
      <4>4. QED
        BY <3>1, <3>3, <4>2, <4>3, SMTT(30)
    <3>4. QED
      BY <3>2, <3>3, RecordedIsAsked
  <2>4. at' = "valuation" => Schedule[opts][Asked] \subseteq Done'
    BY <1>1, <1>3 DEF AssetsOK
  <2>5. QED
    BY <1>3, <2>1, <2>2, <2>3, <2>4 DEF AssetsOK
<1>4. CASE StartAsset
  <2>1. at' = "valuation" => Schedule[opts][Asked] \subseteq Done
    <3>1. SUFFICES ASSUME at' = "valuation"  PROVE Schedule[opts][Asked] = {}
      OBVIOUS
    <3>2. plan.routed[Asked] = {}
      BY <1>4, <3>1 DEF StartAsset
    <3>3. next \in DOMAIN AssetOrder /\ opts \in Options
      BY <1>4, Params DEF StartAsset, TypeOK, ProcessOK
    <3>4. QED
      BY <3>2, <3>3, ScheduleMembers, Params DEF plan, Asked
  <2>2. QED
    BY <1>3, <1>4, <2>1 DEF StartAsset, fixed
<1>5. CASE Begin \/ Unpriced
  BY <1>3, <1>5 DEF Begin, Unpriced, place, fixed
<1>6. CASE StopOffering \/ IsFatal \/ Cancel
  BY <1>3, <1>6 DEF StopOffering, IsFatal, Cancel, store, place, fixed
<1>7. CASE \E k \in calling : \/ \E kind \in {"scored", "errored"}, charge \in {0, 1} : Measured(k, kind, charge)
                              \/ Unrecorded(k)
  <2>1. at = "pass"
    BY <1>7 DEF ProcessOK
  <2>2. QED
    BY <1>3, <1>7, <2>1 DEF Measured, Unrecorded, store, place, fixed
<1>8. CASE EndPass
  <2>1. CASE Ends
    BY <2>1, EndsProcess
  <2>2. CASE ~Ends
    <3>1. UNCHANGED <<opts, completed, next, valuation>> /\ at = "pass"
      BY <1>8, <2>2 DEF EndPass, store, fixed
    <3>2. at' # "asset"
      BY <1>8, <2>2 DEF EndPass
    <3>3. at' = "valuation" => Schedule[opts][Asked] \subseteq Done
      BY <1>8, <2>2, <3>1, AssetIsDone DEF EndPass
    <3>4. QED
      BY <1>3, <3>1, <3>2, <3>3
  <2>3. QED
    BY <2>1, <2>2
<1>9. CASE WriteValuation
  <2>1. CASE Ends
    BY <2>1, EndsProcess
  <2>2. CASE ~Ends
    <3>1. /\ at = "valuation" /\ next' = next + 1
          /\ valuation' = [valuation EXCEPT ![Asked] = valuationFor(opts, Asked)]
          /\ UNCHANGED <<row, opts, completed>> /\ at' \in {"asset", "close"}
      BY <1>9, <2>2 DEF WriteValuation, fixed
    <3>2. Asked \in Asset /\ next \in DOMAIN AssetOrder /\ opts \in Options /\ next \in Nat
      BY <3>1, AskedIs, Params
    <3>3. Done' = Done
      BY <3>1 DEF Done
    <3>4. Schedule[opts][Asked] \subseteq Done
      BY <3>1 DEF AssetsOK
    <3>5. valuationFor(opts, Asked).opts = opts
          /\ valuationFor(opts, Asked).reason # "BUDGET_EXHAUSTED"
      BY <3>2, ValuationType DEF Assumed
    <3>6. ASSUME NEW j \in DOMAIN AssetOrder, j < next + 1
          PROVE  /\ Schedule[opts][AssetOrder[j]] \subseteq Done
                 /\ valuation'[AssetOrder[j]].opts = opts
                 /\ valuation'[AssetOrder[j]].reason # "BUDGET_EXHAUSTED"
      <4>1. CASE j = next
        BY <3>1, <3>2, <3>4, <3>5, <4>1 DEF Asked, TypeOK
      <4>2. CASE j # next
        <5>1. j < next
          BY <3>2, <3>6, <4>2, Params
        <5>2. AssetOrder[j] # Asked /\ AssetOrder[j] \in Asset
          BY <3>2, <4>2, AskedIsNot, Params DEF Asked
        <5>3. valuation'[AssetOrder[j]] = valuation[AssetOrder[j]]
          BY <3>1, <5>2 DEF TypeOK
        <5>4. QED
          BY <3>1, <5>1, <5>3 DEF AssetsOK
      <4>3. QED
        BY <4>1, <4>2
    <3>7. ASSUME NEW j \in DOMAIN AssetOrder, j > next + 1 \/ j = next + 1
          PROVE  Schedule[opts][AssetOrder[j]] \cap Done \subseteq completed
      <4>1. j > next
        BY <3>2, <3>7, Params
      <4>2. QED
        BY <3>1, <4>1 DEF AssetsOK
    <3>8. QED
      BY <3>1, <3>3, <3>6, <3>7 DEF AssetsOK
  <2>3. QED
    BY <2>1, <2>2
<1>10. CASE WriteTruncated
  <2>1. at = "truncated" /\ at' = "close" /\ UNCHANGED <<opts, completed, next>>
    BY <1>10 DEF WriteTruncated, fixed
  <2>2. next \in DOMAIN AssetOrder
    BY <2>1 DEF ProcessOK
  <2>3. \A j \in DOMAIN AssetOrder : j # next => valuation'[AssetOrder[j]] = valuation[AssetOrder[j]]
    BY <1>10, <2>2, AskedIsNot, Params DEF WriteTruncated, Asked, TypeOK
  <2>4. QED
    BY <1>3, <2>1, <2>3
<1>11. CASE finishRun \/ Dies
  BY <1>11, EndsProcess DEF finishRun, Dies
<1>12. QED
  BY <1>2, <1>4, <1>5, <1>6, <1>7, <1>8, <1>9, <1>10, <1>11 DEF Next, Step

-----------------------------------------------------------------------------
(* Money, stops and valuations. *)

(* A call that begins adds one, and one that ends takes one away.           *)
LEMMA CallsMove ==
    ASSUME Assumed, TypeOK, NEW k
    PROVE  /\ Cardinality(calling \cup {k}) \in Nat
           /\ Cardinality(calling \cup {k}) <= Cardinality(calling) + 1
           /\ k \in calling => Cardinality(calling \ {k}) = Cardinality(calling) - 1
<1>1. IsFiniteSet(calling) /\ Cardinality(calling) \in Nat
  BY CallsCount
<1>2. Cardinality(calling \cup {k})
        = IF k \in calling THEN Cardinality(calling) ELSE Cardinality(calling) + 1
  BY <1>1, FS_AddElement
<1>3. Cardinality(calling \ {k})
        = IF k \in calling THEN Cardinality(calling) - 1 ELSE Cardinality(calling)
  BY <1>1, FS_RemoveElement
<1>4. QED
  BY <1>1, <1>2, <1>3

(* Every step keeps the money.                                              *)
LEMMA StepMoney ==
    ASSUME Assumed, TypeOK, ProcessOK, PassOK, MoneyOK, Next
    PROVE  MoneyOK'
<1>1. SettledSpend \in Nat /\ spent \in Nat /\ cap \in Nat /\ Cardinality(calling) \in Nat
  BY SettledNat, CallsCount DEF TypeOK
<1>2. row' = row => SettledSpend' = SettledSpend
  BY DEF SettledSpend
<1>3. ASSUME NEW o \in Options, NEW c \in Caps, openRun(o, c)  PROVE MoneyOK'
  <2>1. calling' = {} /\ spent' = SettledSpend /\ row' = row
    BY <1>3 DEF openRun, ProcessOK, work, Restore
  <2>2. QED
    BY <1>1, <1>2, <2>1 DEF MoneyOK
<1>4. ASSUME at # "down", spent' \in Nat, spent' >= spent, SettledSpend' \in Nat,
             calling' # {} => spent' + Cardinality(calling') <= cap'
      PROVE  MoneyOK'
  <2>1. SettledSpend <= spent
    BY <1>4 DEF MoneyOK
  <2>2. SettledSpend' <= spent'
    <3>1. CASE row' = row
      BY <1>1, <1>2, <1>4, <2>1, <3>1
    <3>2. CASE Records
      <4>1. SettledSpend' - SettledSpend = spent' - spent
        BY <3>2, RecordsRow
      <4>2. QED
        BY <1>1, <1>4, <2>1, <4>1
    <3>3. QED
      BY <3>1, <3>2, StepRows
  <2>3. QED
    BY <1>4, <2>2 DEF MoneyOK
<1>5. SettledSpend' \in Nat
  <2>1. CASE row' = row
    BY <1>1, <1>2, <2>1
  <2>2. TypeOK'
    BY StepType
  <2>3. CASE Records
    <3> DEFINE f == [j \in Key |-> row'[j].calls]
    <3>0. row' \in [Key -> Row]
      BY <2>3, RecordsRow
    <3>1. f \in [Key -> Nat]
      BY <3>0 DEF Row, NoRow
    <3> HIDE DEF f
    <3>2. SumOver(f, Key) \in Nat
      BY <3>1, SumOverNat, KeyFinite DEF Assumed
    <3>3. QED
      BY <3>2 DEF SettledSpend, f
  <2>4. QED
    BY <2>1, <2>3, StepRows
<1>6. ASSUME at # "down", spent' = spent, cap' = cap, calling' = calling \/ calling' = {}
      PROVE  MoneyOK'
  BY <1>1, <1>4, <1>5, <1>6 DEF MoneyOK
<1>7. CASE Begin
  <2>1. at # "down" /\ spent' = spent /\ cap' = cap
    BY <1>7 DEF Begin, fixed
  <2>2. CASE calling' = calling
    BY <1>6, <2>1, <2>2
  <2>3. ASSUME NEW k, Fits, calling' = calling \cup {k}  PROVE MoneyOK'
    <3>1. spent + Cardinality(calling) + 1 <= cap
      BY <2>3 DEF Fits
    <3>2. spent' + Cardinality(calling') <= cap'
      BY <1>1, <2>1, <2>3, <3>1, CallsMove
    <3>3. QED
      BY <1>1, <1>4, <1>5, <2>1, <3>2
  <2>4. QED
    BY <1>7, <2>2, <2>3 DEF Begin
<1>8. ASSUME NEW k \in calling,
             \/ \E kind \in {"scored", "errored"}, charge \in {0, 1} : Measured(k, kind, charge)
             \/ Unrecorded(k)
      PROVE  MoneyOK'
  <2>1. spent' \in {spent, spent + 1} /\ cap' = cap /\ calling' = calling \ {k}
    BY <1>8 DEF Measured, Unrecorded, fixed, TypeOK
  <2>2. at # "down" /\ spent + Cardinality(calling) <= cap
    BY DEF ProcessOK, MoneyOK
  <2>3. Cardinality(calling') = Cardinality(calling) - 1
    BY <2>1, CallsMove
  <2>4. QED
    BY <1>1, <1>4, <1>5, <2>1, <2>2, <2>3
<1>9. CASE EndPass \/ WriteValuation
  <2>1. CASE Ends
    BY <2>1, EndsProcess
  <2>2. CASE ~Ends
    BY <1>6, <1>9, <2>2 DEF EndPass, WriteValuation, work, fixed
  <2>3. QED
    BY <2>1, <2>2
<1>10. CASE StartAsset \/ Unpriced \/ StopOffering \/ IsFatal \/ Cancel \/ WriteTruncated
  BY <1>6, <1>10 DEF StartAsset, Unpriced, StopOffering, IsFatal, Cancel, WriteTruncated, work, fixed
<1>11. CASE finishRun \/ Dies
  BY <1>11, EndsProcess DEF finishRun, Dies
<1>12. QED
  BY <1>3, <1>7, <1>8, <1>9, <1>10, <1>11 DEF Next, Step

\* What the processes before this one may have taken.
Before == (processes - 1) * (Workers + 1)

(* This process adds one worker's worth for each worker, and one more.      *)
LEMMA BeforeType ==
    ASSUME Assumed, TypeOK
    PROVE  /\ Before \in Int
           /\ processes * (Workers + 1) = Before + Workers + 1
<1> DEFINE W == Workers + 1
<1>1. processes \in Int /\ W \in Int /\ Workers \in Int
  BY Params DEF TypeOK
<1>2. (processes - 1) * W = processes * W - W
  <2> HIDE DEF W
  <2>1. QED
    BY <1>1
<1>3. processes * W \in Int
  BY <1>1
<1>4. QED
  BY <1>1, <1>2, <1>3 DEF Before

(* A process that ends has taken no more than that.                         *)
LEMMA EndsStops ==
    ASSUME Assumed, TypeOK, ProcessOK, StopsOK, at # "down", Ends, stopped' = stopped
    PROVE  StopsOK'
<1>1. /\ Before \in Int /\ processes * (Workers + 1) = Before + Workers + 1
      /\ Workers \in Nat /\ refusing \in Nat /\ Cardinality(calling) \in Nat /\ stopped \in Nat
  BY BeforeType, Params, CallsCount DEF TypeOK
<1>2. stopped <= Before + Workers + 1
  BY <1>1 DEF StopsOK, Before
<1>3. at' = "down" /\ processes' = processes
  BY DEF Ends
<1>4. stopped' <= processes' * (Workers + 1)
  BY <1>1, <1>2, <1>3
<1>5. QED
  BY <1>3, <1>4 DEF StopsOK, StopCostsFew

(* Every step keeps the price of stops.                                     *)
LEMMA StepStops ==
    ASSUME Assumed, TypeOK, ProcessOK, StopsOK, Next
    PROVE  StopsOK'
<1> DEFINE n == Cardinality(calling)
<1>1. /\ Before \in Int /\ Workers \in Nat /\ refusing \in Nat /\ n \in Nat /\ stopped \in Nat
      /\ processes * (Workers + 1) = Before + Workers + 1
  BY BeforeType, Params, CallsCount DEF TypeOK
<1>2. at # "down" =>
        /\ ~Stopped => stopped <= Before + refusing /\ n + refusing <= Workers
        /\ Stopped => stopped + n <= Before + Workers + (IF left = {} THEN 1 ELSE 0)
  BY DEF StopsOK, Before
<1>3. ASSUME at' # "down", processes' = processes,
             ~Stopped' => /\ stopped' <= Before + refusing'
                          /\ Cardinality(calling') + refusing' <= Workers,
             Stopped' => stopped' + Cardinality(calling')
                            <= Before + Workers + (IF left' = {} THEN 1 ELSE 0)
      PROVE  StopsOK'
  BY <1>3 DEF StopsOK, Before
<1>4. ASSUME NEW o \in Options, NEW c \in Caps, openRun(o, c)  PROVE StopsOK'
  <2>1. /\ at = "down" /\ at' # "down" /\ processes' = processes + 1
        /\ UNCHANGED <<work, stops, stopped>>
    BY <1>4 DEF openRun
  <2>2. stopped <= processes * (Workers + 1)
    BY <2>1 DEF StopsOK, StopCostsFew
  <2>3. processes \in Int
    BY DEF TypeOK
  <2>4. processes' - 1 = processes
    BY <2>1, <2>3
  <2>5. ~Stopped' /\ calling' = {} /\ refusing' = 0 /\ stopped' = stopped
    BY <2>1 DEF ProcessOK, Stopped, work, stops
  <2>6. Cardinality(calling') = 0
    BY <2>5, FS_EmptySet
  <2>7. stopped' <= (processes' - 1) * (Workers + 1)
    BY <2>2, <2>4, <2>5
  <2>8. stopped' <= (processes' - 1) * (Workers + 1) + refusing'
    <3>1. (processes' - 1) * (Workers + 1) \in Int
      BY <1>1, <2>4
    <3>2. QED
      BY <2>5, <2>7, <3>1
  <2>9. QED
    BY <1>1, <2>1, <2>5, <2>6, <2>8 DEF StopsOK
<1>5. ASSUME at # "down", at' # "down", processes' = processes,
             UNCHANGED <<calling, refusing, stopped>>, Stopped => Stopped',
             Stopped => (left = {} => left' = {}) \/ ~Stopped
      PROVE  StopsOK'
  BY <1>1, <1>2, <1>3, <1>5
<1>6. CASE StartAsset
  <2>1. ~Stopped \/ ctxDone
    BY <1>6 DEF StartAsset, ProcessOK, Stopped
  <2>2. CASE ctxDone
    BY <1>5, <1>6, <2>2 DEF StartAsset, fixed, Stopped
  <2>3. CASE ~ctxDone
    BY <1>5, <1>6, <2>1, <2>3 DEF StartAsset, fixed, stops, Stopped
  <2>4. QED
    BY <2>2, <2>3
<1>7. CASE Begin
  <2>1. /\ at # "down" /\ at' # "down" /\ processes' = processes /\ Stopped' = Stopped
        /\ n + refusing < Workers /\ left # {}
    BY <1>7 DEF Begin, place, stops, fixed, Stopped
  <2>2. CASE ~Stopped /\ stopped' = stopped /\ refusing' = refusing
             /\ \E k : calling' = calling \cup {k}
    <3>1. Cardinality(calling') <= n + 1 /\ Cardinality(calling') \in Nat
      BY <2>2, CallsMove
    <3>2. QED
      BY <1>1, <1>2, <1>3, <2>1, <2>2, <3>1
  <2>3. CASE ~Stopped /\ stopped' \in {stopped, stopped + 1} /\ refusing' = refusing + 1
             /\ calling' = calling
    BY <1>1, <1>2, <1>3, <2>1, <2>3
  <2>4. CASE Stopped /\ stopped' \in {stopped, stopped + 1} /\ left' = {}
             /\ calling' = calling
    BY <1>1, <1>2, <1>3, <2>1, <2>4
  <2>5. QED
    BY <1>7, <2>2, <2>3, <2>4 DEF Begin, Mark
<1>8. CASE StopOffering \/ IsFatal \/ Cancel \/ Unpriced
  <2>0. CASE Unpriced
    <3>1. at # "down" /\ at' # "down" /\ ~Stopped
      BY <2>0 DEF Unpriced, place
    <3>2. UNCHANGED <<processes, calling, refusing, stopped>>
      BY <2>0 DEF Unpriced, fixed
    <3>3. QED
      BY <1>5, <3>1, <3>2
  <2>1. CASE StopOffering
    BY <1>5, <2>1 DEF StopOffering, place, fixed, stops, Stopped
  <2>2. CASE IsFatal
    BY <1>5, <2>2 DEF IsFatal, place, work, fixed, Stopped
  <2>3. CASE Cancel
    BY <1>5, <2>3 DEF Cancel, place, work, fixed, Stopped
  <2>4. QED
    BY <1>8, <2>0, <2>1, <2>2, <2>3
<1>9. ASSUME NEW k \in calling,
             \/ \E kind \in {"scored", "errored"}, charge \in {0, 1} : Measured(k, kind, charge)
             \/ Unrecorded(k)
      PROVE  StopsOK'
  <2>1. /\ at # "down" /\ at' # "down" /\ processes' = processes
        /\ left' = left /\ refusing' = refusing
    BY <1>9 DEF Measured, Unrecorded, place, fixed, ProcessOK
  <2>2. Cardinality(calling') = n - 1
    BY <1>9, CallsMove DEF Measured, Unrecorded
  <2>3. /\ Stopped => Stopped'
        /\ ~Stopped => stopped' = stopped
        /\ stopped' \in {stopped, stopped + 1}
    BY <1>9 DEF Measured, Unrecorded, Stopped, TypeOK
  <2>4. QED
    BY <1>1, <1>2, <1>3, <2>1, <2>2, <2>3
<1>10. CASE EndPass \/ WriteValuation
  <2>1. at # "down" /\ stopped' = stopped
    BY <1>10 DEF EndPass, WriteValuation
  <2>2. CASE Ends
    BY <2>1, <2>2, EndsStops
  <2>3. CASE EndPass /\ ~Ends
    <3>1. at' # "down" /\ processes' = processes /\ UNCHANGED <<calling, refusing>>
      BY <2>3 DEF EndPass, work, fixed
    <3>2. Stopped => Stopped' /\ left' = left
      BY <2>3 DEF EndPass, StopOf, Stopped, work
    <3>3. QED
      BY <1>5, <2>1, <3>1, <3>2
  <2>4. CASE WriteValuation /\ ~Ends
    BY <1>5, <2>1, <2>4 DEF WriteValuation, work, fixed, stops, Stopped
  <2>5. QED
    BY <1>10, <2>2, <2>3, <2>4
<1>11. CASE WriteTruncated
  BY <1>5, <1>11 DEF WriteTruncated, work, fixed, stops, Stopped
<1>12. CASE finishRun \/ Dies
  BY <1>12, EndsStops DEF finishRun, Dies
<1>13. QED
  BY <1>4, <1>6, <1>7, <1>8, <1>9, <1>10, <1>11, <1>12 DEF Next, Step

(* Every step keeps the stored valuations current.                          *)
LEMMA StepValuations ==
    ASSUME Assumed, TypeOK, ProcessOK, PassOK, AssetsOK, StoredValuationIsCurrent, Next
    PROVE  StoredValuationIsCurrent'
<1>1. RowsKept
  BY StepKeeps
<1>2. SUFFICES ASSUME NEW a \in Asset, NEW o \in Options, valuation'[a].opts = o,
                      valuation'[a] # None, valuation'[a].reason # "BUDGET_EXHAUSTED"
               PROVE  /\ Schedule[o][a] \subseteq Done'
                      /\ NoMoreTrials(o, a)' => valuation'[a] = valuationFor(o, a)'
  <2>1. valuation' \in [Asset -> Valuation \cup {None}]
    BY StepType DEF TypeOK
  <2>2. \A a \in Asset : valuation'[a] # None => valuation'[a].opts \in Options
    BY <2>1 DEF Valuation
  <2>3. QED
    BY <2>2 DEF StoredValuationIsCurrent, NoMoreTrials
<1>3. ASSUME Schedule[o][a] \subseteq Done, NoMoreTrials(o, a)' => valuation'[a] = valuationFor(o, a)
      PROVE  /\ Schedule[o][a] \subseteq Done'
             /\ NoMoreTrials(o, a)' => valuation'[a] = valuationFor(o, a)'
  <2>1. Schedule[o][a] \subseteq Done'
    BY <1>1, <1>3 DEF RowsKept
  <2>2. NoMoreTrials(o, a)' => valuationFor(o, a)' = valuationFor(o, a)
    BY <1>1, <1>3, ValuationStable DEF Assumed
  <2>3. QED
    BY <1>3, <2>1, <2>2
<1>4. CASE valuation'[a] = valuation[a]
  <2>1. /\ Schedule[o][a] \subseteq Done
        /\ NoMoreTrials(o, a) => valuation[a] = valuationFor(o, a)
    BY <1>2, <1>4 DEF StoredValuationIsCurrent, NoMoreTrials
  <2>2. NoMoreTrials(o, a)' => NoMoreTrials(o, a)
    BY <1>1 DEF NoMoreTrials, RowsKept
  <2>3. QED
    BY <1>3, <1>4, <2>1, <2>2
<1>5. CASE WriteValuation /\ valuation'[a] # valuation[a]
  <2>1. /\ at = "valuation"
        /\ valuation' = [valuation EXCEPT ![Asked] = valuationFor(opts, Asked)]
    BY <1>5 DEF WriteValuation
  <2>2. a = Asked /\ valuation'[a] = valuationFor(opts, a)
    BY <1>5, <2>1 DEF TypeOK
  <2>3. opts \in Options
    BY <2>1, AskedIs
  <2>4. o = opts
    <3>1. valuationFor(opts, a).opts = opts
      BY <2>3, ValuationType, RoutingAssumption, DrawAssumption, ValueAssumption
    <3>2. QED
      BY <1>2, <2>2, <3>1
  <2>5. Schedule[o][a] \subseteq Done
    BY <2>1, <2>2, <2>4 DEF AssetsOK
  <2>6. QED
    BY <1>3, <2>2, <2>4, <2>5
<1>6. CASE WriteTruncated /\ valuation'[a] # valuation[a]
  <2>1. valuation'[a] = Truncated
    BY <1>6 DEF WriteTruncated, TypeOK
  <2>2. QED
    BY <1>2, <2>1 DEF Truncated
<1>7. CASE ~WriteValuation /\ ~WriteTruncated
  <2>1. valuation' = valuation
    BY <1>7 DEF Next, Step, openRun, StartAsset, Begin, Unpriced, StopOffering, IsFatal, EndPass,
       Measured, Unrecorded, finishRun, Cancel, Dies, store
  <2>2. QED
    BY <1>4, <2>1
<1>8. QED
  BY <1>4, <1>5, <1>6, <1>7

-----------------------------------------------------------------------------
(* The theorems. *)

(* The invariant holds before the first process.                            *)
LEMMA InitIInv ==
    ASSUME Assumed, Init
    PROVE  IInv
<1>1. TypeOK
  <2>1. row \in [Key -> Row]
    BY DEF Init, Row
  <2>2. valuation \in [Asset -> Valuation \cup {None}]
    BY DEF Init
  <2>3. log \in Seq(Event)
    BY DEF Init
  <2>4. next \in 1..(Len(AssetOrder) + 1) /\ arm \in Arms /\ trial \in Nat \ {0}
    BY Params DEF Init, Arms
  <2>5. refusing \in 0..Workers /\ processes \in 0..MaxProcesses
    BY Params DEF Init
  <2>6. QED
    BY <2>1, <2>2, <2>3, <2>4, <2>5 DEF Init, TypeOK
<1>2. ProcessOK /\ PassOK /\ AssetsOK /\ MoneyOK
  BY DEF Init, ProcessOK, PassOK, AssetsOK, MoneyOK, Stopped
<1>3. StopsOK
  <2>1. stopped <= processes * (Workers + 1)
    BY Params DEF Init
  <2>2. QED
    BY <2>1 DEF Init, StopsOK, StopCostsFew
<1>4. StoredValuationIsCurrent
  BY DEF Init, StoredValuationIsCurrent
<1>5. QED
  BY <1>1, <1>2, <1>3, <1>4 DEF IInv

(* Every step keeps it.                                                     *)
LEMMA NextIInv ==
    ASSUME Assumed, IInv, [Next]_vars
    PROVE  IInv'
<1>1. CASE Next
  BY <1>1, StepType, StepProcess, StepPass, StepAssets, StepMoney, StepStops, StepValuations DEF IInv
<1>2. CASE UNCHANGED vars
  <2>1. TypeOK' /\ ProcessOK' /\ StopsOK' /\ MoneyOK'
    BY <1>2 DEF IInv, TypeOK, ProcessOK, StopsOK, StopCostsFew, MoneyOK, SettledSpend, Stopped, Asked,
       plan, Done, vars, store, place, work, stops, fixed
  <2>2. PassOK'
    BY <1>2 DEF IInv, PassOK, Stopped, Asked, plan, Done, Earlier, Later, vars, store, place, work,
       stops, fixed
  <2>3. AssetsOK'
    BY <1>2 DEF IInv, AssetsOK, Asked, Done, vars, store, place, fixed
  <2>4. StoredValuationIsCurrent'
    <3>1. row' = row /\ valuation' = valuation
      BY <1>2 DEF vars, store
    <3>2. Done' = Done
      BY <3>1 DEF Done
    <3>3. ASSUME NEW o \in Options, NEW a \in Asset  PROVE valuationFor(o, a)' = valuationFor(o, a)
      BY <3>1, <3>2 DEF valuationFor, MeasuredValuation, PairedCases, HasInterval, PairedTrials,
         DroppedOf, Trials
    <3>4. ASSUME NEW a \in Asset, valuation[a] # None  PROVE valuation[a].opts \in Options
      BY <3>4 DEF IInv, TypeOK, Valuation
    <3>5. QED
      BY <3>1, <3>2, <3>3, <3>4 DEF IInv, StoredValuationIsCurrent
  <2>5. QED
    BY <2>1, <2>2, <2>3, <2>4 DEF IInv
<1>3. QED
  BY <1>1, <1>2

(* The assumptions on the constants, together.                              *)
LEMMA AllAssumed == Assumed
BY RoutingAssumption, DrawAssumption, ValueAssumption DEF Assumed

(* A Value run never leaves its invariant, over all its processes, kills    *)
(* and resumes (value_loop.go:187-310).                                     *)
THEOREM ValueInvariant == Spec => []IInv
<1>1. Init => IInv
  BY InitIInv, AllAssumed
<1>2. IInv /\ [Next]_vars => IInv'
  BY NextIInv, AllAssumed
<1>3. QED
  BY <1>1, <1>2, PTL DEF Spec

(* The store and the process hold what their Go types allow, and no call,   *)
(* arm or trial is outside the plan (value_loop.go:187-310).                *)
THEOREM ValueTypeCorrect == Spec => []TypeOK
<1>1. IInv => TypeOK
  BY DEF IInv
<1>2. QED
  BY <1>1, ValueInvariant, PTL

(* A stored valuation that claims to have measured its asset had both arms  *)
(* in, and is what the rows say now (value_loop.go:638,                     *)
(* store/measurement.go:449-461).                                           *)
THEOREM StoredValuationsAreCurrent == Spec => []StoredValuationIsCurrent
<1>1. IInv => StoredValuationIsCurrent
  BY DEF IInv
<1>2. QED
  BY <1>1, ValueInvariant, PTL

(* At the close of a run that nothing stopped, every asset is behind.       *)
LEMMA AllBehind ==
    ASSUME IInv, at = "close", stopReason = "none", NEW a \in Asset
    PROVE  /\ opts \in Options /\ Schedule[opts][a] \subseteq Done
           /\ valuation[a].opts = opts /\ valuation[a].reason # "BUDGET_EXHAUSTED"
<1>1. next = Len(AssetOrder) + 1 /\ opts \in Options
  BY DEF IInv, ProcessOK
<1>2. PICK j \in DOMAIN AssetOrder : AssetOrder[j] = a
  BY ValueAssumption DEF ValueAssumption
<1>3. j < next
  BY <1>1, <1>2, Params, AllAssumed
<1>4. QED
  BY <1>1, <1>2, <1>3 DEF IInv, AssetsOK

(* It holds the rows of its whole plan.                                     *)
LEMMA PlanIsIn ==
    ASSUME IInv, at = "close", stopReason = "none"
    PROVE  opts \in Options /\ Scheduled(opts) \subseteq Done
<1>1. opts \in Options
  BY DEF IInv, ProcessOK
<1>2. QED
  BY <1>1, AllBehind DEF Scheduled

(* A run closed as completed is whole: the rows of its plan, and a          *)
(* valuation of every asset under that plan (value_loop.go:243-297).        *)
THEOREM CompletedValueIsWhole == Spec => []CompletesWhole
<1>1. IInv => CompletesWhole
  BY AllBehind, PlanIsIn DEF CompletesWhole
<1>2. QED
  BY <1>1, ValueInvariant, PTL

(* No process pays for a measurement that has a row, nor past its cap       *)
(* (value_loop.go:470-478, 716-720).                                        *)
THEOREM ResumesPayOnce == Spec => []ResumePaysOnce
<1>1. ASSUME IInv  PROVE ResumePaysOnce
  <2>1. ASSUME NEW k \in calling  PROVE row[k].kind = "none"
    <3>1. at = "pass" /\ k \in Key
      BY <1>1 DEF IInv, ProcessOK, TypeOK
    <3>2. k \notin Done
      BY <1>1, <3>1 DEF IInv, PassOK
    <3>3. QED
      BY <3>1, <3>2 DEF Done
  <2>2. ASSUME calling # {}  PROVE SettledSpend + Cardinality(calling) <= cap
    <3>1. TypeOK /\ ProcessOK /\ MoneyOK /\ at # "down"
      BY <1>1, <2>2 DEF IInv, ProcessOK
    <3>2. SettledSpend \in Nat /\ spent \in Nat /\ cap \in Nat /\ Cardinality(calling) \in Nat
      BY <3>1, AllAssumed, SettledNat, CallsCount DEF TypeOK
    <3>3. SettledSpend <= spent /\ spent + Cardinality(calling) <= cap
      BY <2>2, <3>1 DEF MoneyOK
    <3>4. QED
      BY <3>2, <3>3
  <2>3. QED
    BY <2>1, <2>2 DEF ResumePaysOnce
<1>2. QED
  BY <1>1, ValueInvariant, PTL

(* A stop takes at most a measurement for each worker and one more from the *)
(* run, however often it is resumed (value_loop.go:721-731, 861-885).       *)
THEOREM StopsCostFew == Spec => []StopCostsFew
<1>1. ASSUME IInv  PROVE StopCostsFew
  <2>1. CASE at = "down"
    BY <1>1, <2>1 DEF IInv, StopsOK
  <2>2. CASE at # "down"
    <3>1. /\ Before \in Int /\ processes * (Workers + 1) = Before + Workers + 1
          /\ Workers \in Nat /\ Cardinality(calling) \in Nat /\ refusing \in 0..Workers
          /\ stopped \in Nat
      BY <1>1, AllAssumed, BeforeType, Params, CallsCount DEF IInv, TypeOK
    <3>2. \/ stopped <= Before + refusing
          \/ stopped + Cardinality(calling) <= Before + Workers + 1
          \/ stopped + Cardinality(calling) <= Before + Workers + 0
      BY <1>1, <2>2 DEF IInv, StopsOK, Before
    <3>3. stopped <= Before + Workers + 1
      BY <3>1, <3>2
    <3>4. QED
      BY <3>1, <3>3 DEF StopCostsFew
  <2>3. QED
    BY <2>1, <2>2
<1>2. QED
  BY <1>1, ValueInvariant, PTL

(* A run that completes under one plan made exactly as many measurements as *)
(* its quote said (core/value/route.go:381, value_measure.go:393).          *)
THEOREM QuotesAreExact == Spec => []QuoteIsExact
<1>1. ASSUME IInv  PROVE QuoteIsExact
  <2>1. SUFFICES ASSUME at = "close", stopReason = "none", Done \subseteq Scheduled(opts)
                 PROVE  Cardinality(Done) = Measurements(plan)
    BY DEF QuoteIsExact
  <2>2. opts \in Options /\ Done = Scheduled(opts)
    BY <1>1, <2>1, PlanIsIn
  <2>3. QED
    BY <2>2, PlanQuoted, RoutingAssumption, DrawAssumption DEF plan
<1>2. QED
  BY <1>1, ValueInvariant, PTL

(* A measurement that is in the store is never written again, whatever is   *)
(* resumed (store/measurement.go:33-116, INSERT OR IGNORE).                 *)
THEOREM RowsAreFinal == Spec => [][RowsKept]_vars
<1>1. IInv /\ [Next]_vars => [RowsKept]_vars
  BY StepKeeps, AllAssumed DEF IInv
<1>2. QED
  BY <1>1, ValueInvariant, PTL DEF Spec

=============================================================================
