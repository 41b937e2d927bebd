-------------------------- MODULE PortfolioProofs ---------------------------
(***************************************************************************)
(* Deciding a portfolio and tuning on it.  The first part is about the     *)
(* portfolio Select records, for any number of assets, valuations, pools   *)
(* and caps: it fits the caps, what it turned away for room would not fit, *)
(* nothing is said twice, and every valuation is decided.  The second is   *)
(* about the bridge run over the groups made of such a portfolio           *)
(* (bridge/plan.go:31), for any number of groups, cases, minutes and       *)
(* processes.                                                              *)
(***************************************************************************)
EXTENDS Selection, Bridge, SumsProofs

(* The portfolio. *)

-----------------------------------------------------------------------------
(* Facts about the inputs. *)

(* A valued asset has a valuation, and what it uses is a natural number.    *)
LEMMA UseNat ==
    ASSUME TypeOK, NEW a \in Valued, NEW r \in Resource
    PROVE  valuations[a] \in Valuation /\ Use(a, r) \in Nat
<1>1. valuations[a] \in Valuation
  BY SelectionAssumption DEF TypeOK, Valued, valuations
<1>2. opts.pool \in Pools
  BY DEF TypeOK
<1>3. InPool(a) => opts.pool[a].bytes \in Nat
  BY <1>2, SelectionAssumption DEF InPool
<1>4. valuations[a].tokens \in Nat /\ valuations[a].acquisition \in Nat
  BY <1>1 DEF Valuation
<1>5. Room(a) \in Nat
  <2>1. CASE destinationFor(a) = "tuning_set"
    BY <2>1 DEF Room
  <2>2. CASE destinationFor(a) = "knowledge_base"
    BY <2>2, <1>3 DEF Room
  <2>3. CASE destinationFor(a) \notin {"tuning_set", "knowledge_base"}
    BY <2>3, <1>4 DEF Room
  <2>4. QED
    BY <2>1, <2>2, <2>3
<1>6. QED
  BY <1>1, <1>4, <1>5 DEF Use

(* The inputs of a Select run do not change, nor what is read off them.     *)
LEMMA SameInputs ==
    ASSUME UNCHANGED inputs
    PROVE  /\ Valued' = Valued /\ Measured' = Measured
           /\ \A a, r : Use(a, r)' = Use(a, r)
           /\ \A a, b : rankLess(a, b)' <=> rankLess(a, b)
           /\ \A a : IsKnowledge(a)' <=> IsKnowledge(a)
<1>1. source' = source /\ opts' = opts /\ valuations' = valuations
  BY DEF inputs, valuations
<1>2. Valued' = Valued /\ Measured' = Measured
  BY <1>1 DEF Valued, Measured
<1>3. \A a : (InPool(a)' <=> InPool(a)) /\ destinationFor(a)' = destinationFor(a)
  BY <1>1 DEF InPool, destinationFor
<1>4. \A a : Room(a)' = Room(a)
  BY <1>1, <1>3 DEF Room
<1>5. \A a, r : Use(a, r)' = Use(a, r)
  BY <1>1, <1>3, <1>4 DEF Use
<1>6. \A a, b : rankLess(a, b)' <=> rankLess(a, b)
  BY <1>1 DEF rankLess
<1>7. \A a : IsKnowledge(a)' <=> IsKnowledge(a)
  BY <1>1, <1>3 DEF IsKnowledge
<1>8. QED
  BY <1>2, <1>5, <1>6, <1>7

(* Two measured assets are ranked one way or the other, never both.         *)
LEMMA RankIsStrict ==
    ASSUME TypeOK, NEW a \in Valued, NEW b \in Valued, rankLess(a, b)
    PROVE  ~rankLess(b, a)
<1>1. valuations[a] \in Valuation /\ valuations[b] \in Valuation
  BY SelectionAssumption DEF TypeOK, Valued, valuations
<1>2. /\ valuations[a].perCost \in Int /\ valuations[b].perCost \in Int
      /\ valuations[a].delta \in Int /\ valuations[b].delta \in Int
  BY <1>1 DEF Valuation
<1>3. a \in Nat /\ b \in Nat
  BY SelectionAssumption DEF Valued
<1>4. QED
  BY <1>2, <1>3 DEF rankLess

(* The use of no asset is nothing.                                          *)
LEMMA NoUse == ASSUME NEW r PROVE UseOf({}, r) = 0
<1>1. \A x \in {} : [a \in {} |-> Use(a, r)][x] = 0
  OBVIOUS
<1>2. QED
  BY <1>1, SumOverZero DEF UseOf

(* One asset more uses that much more.                                      *)
LEMMA OneMoreUse ==
    ASSUME TypeOK, NEW r \in Resource, NEW S \in SUBSET Valued, NEW a \in Valued \ S
    PROVE  UseOf(S \cup {a}, r) = UseOf(S, r) + Use(a, r) /\ UseOf(S, r) \in Nat
<1> DEFINE T == S \cup {a}
           f == [x \in T |-> Use(x, r)]
           g == [x \in S |-> Use(x, r)]
<1>1. IsFiniteSet(T) /\ IsFiniteSet(S)
  <2>1. T \subseteq Asset /\ S \subseteq Asset
    BY DEF Valued
  <2>2. IsFiniteSet(Asset)
    BY SelectionAssumption
  <2> HIDE DEF T
  <2>3. QED
    BY <2>1, <2>2, FS_Subset
<1>2. f \in [T -> Nat] /\ g \in [S -> Nat]
  BY UseNat
<1>3. SumOver(f, T) = f[a] + SumOver(f, T \ {a})
  <2>1. a \in T
    OBVIOUS
  <2> HIDE DEF T, f
  <2>2. QED
    BY <1>1, <1>2, <2>1, SumOverSplit
<1>4. T \ {a} = S
  OBVIOUS
<1>5. Units(f, S) = Units(g, S)
  BY DEF Units
<1>6. SumOver(f, S) = SumOver(g, S)
  BY <1>5 DEF SumOver
<1>7. f[a] = Use(a, r)
  OBVIOUS
<1>8. SumOver(g, S) \in Nat
  BY <1>1, <1>2, SumOverNat
<1>9. Use(a, r) \in Nat
  BY UseNat
<1>10. UseOf(T, r) = SumOver(f, T) /\ UseOf(S, r) = SumOver(g, S)
  BY DEF UseOf
<1>11. SumOver(f, T) = Use(a, r) + SumOver(g, S)
  BY <1>3, <1>4, <1>6, <1>7
<1>12. QED
  BY <1>8, <1>9, <1>10, <1>11

(* The same set uses the same after a step.                                 *)
LEMMA SameUse ==
    ASSUME UNCHANGED inputs, NEW S, NEW r
    PROVE  UseOf(S, r)' = UseOf(S, r)
<1>1. \A a : Use(a, r)' = Use(a, r)
  BY SameInputs
<1>2. QED
  BY <1>1 DEF UseOf

-----------------------------------------------------------------------------
(* The invariant. *)

(* Nothing is decided yet.                                                  *)
LEMMA InitIInv == Init => IInv
<1> SUFFICES ASSUME Init PROVE IInv
  OBVIOUS
<1>1. TypeOK
  BY DEF Init, TypeOK, Resource
<1>2. Selected = {} /\ \A a \in Asset : verdict[a] \notin Verdict
  BY SelectionAssumption DEF Init, Selected, Verdict
<1>3. Progress /\ BestFirst
  BY <1>2 DEF Init, Progress, BestFirst, Verdict
<1>4. \A r \in Resource : spent[r] = 0
  BY DEF Init
<1>5. SpentIsSum
  BY <1>2, <1>4, NoUse DEF SpentIsSum
<1>6. SpentFits
  <2>1. opts.budget \in [Resource -> Nat]
    BY SelectionAssumption DEF Init
  <2>2. QED
    BY <1>4, <2>1 DEF SpentFits
<1>7. RoomWasTaken /\ NothingTwice /\ EveryValuationIsDecided
  BY <1>2 DEF RoomWasTaken, NothingTwice, EveryValuationIsDecided, Init, Verdict
<1>8. QED
  BY <1>1, <1>3, <1>5, <1>6, <1>7 DEF IInv

(* A step that changes no decision keeps what the decisions are.            *)
LEMMA KeepsDecisions ==
    ASSUME IInv, UNCHANGED <<inputs, verdict, spent, todo, portfolio>>,
           at' \in {at, "written", "gone"}, at # "opening" \/ todo = {}
    PROVE  /\ BestFirst' /\ SpentIsSum' /\ SpentFits'
           /\ RoomWasTaken' /\ NothingTwice' /\ EveryValuationIsDecided' /\ Progress'
<1>1. /\ Valued' = Valued /\ Measured' = Measured /\ Selected' = Selected
      /\ \A a, b : rankLess(a, b)' <=> rankLess(a, b)
      /\ \A a : IsKnowledge(a)' <=> IsKnowledge(a)
      /\ \A a, r : Use(a, r)' = Use(a, r)
      /\ opts' = opts
  BY SameInputs DEF Selected, inputs
<1>2. BestFirst'
  BY <1>1 DEF BestFirst, IInv
<1>3. \A S, r : UseOf(S, r)' = UseOf(S, r)
  BY <1>1 DEF UseOf
<1>4. SpentIsSum' /\ SpentFits'
  BY <1>1, <1>3 DEF SpentIsSum, SpentFits, IInv
<1>5. RoomWasTaken'
  <2> SUFFICES ASSUME NEW a \in Asset, (verdict[a] = "COST_DOMINATED")'
               PROVE  (\E r \in Resource :
                          /\ opts.budget[r] > 0
                          /\ UseOf({b \in Selected : rankLess(b, a)}, r) + Use(a, r)
                               > opts.budget[r])'
    BY DEF RoomWasTaken
  <2>1. PICK r \in Resource :
            /\ opts.budget[r] > 0
            /\ UseOf({b \in Selected : rankLess(b, a)}, r) + Use(a, r) > opts.budget[r]
    BY DEF RoomWasTaken, IInv
  <2>2. {b \in Selected : rankLess(b, a)}' = {b \in Selected : rankLess(b, a)}
    BY <1>1
  <2>3. UseOf({b \in Selected : rankLess(b, a)}, r)' = UseOf({b \in Selected : rankLess(b, a)}, r)
    BY <1>1, <2>2 DEF UseOf
  <2>4. QED
    BY <1>1, <2>1, <2>3
<1>6. NothingTwice'
  BY <1>1 DEF NothingTwice, IInv
<1>7. EveryValuationIsDecided'
  BY <1>1 DEF EveryValuationIsDecided, IInv
<1>8. Progress'
  BY <1>1 DEF Progress, IInv
<1>9. QED
  BY <1>2, <1>4, <1>5, <1>6, <1>7, <1>8

(* The run row is created, and every measured asset is to be decided.       *)
LEMMA CreateRunInv ==
    ASSUME IInv, CreateRun
    PROVE  IInv'
<1>1. /\ Valued' = Valued /\ Measured' = Measured /\ Measured \subseteq Valued
      /\ \A a, r : Use(a, r)' = Use(a, r)
      /\ opts' = opts /\ source' = source
  BY SameInputs DEF CreateRun, inputs, Measured
<1>2. \A a \in Asset : verdict[a] = None /\ verdict'[a] = None
  BY DEF IInv, Progress, CreateRun
<1>3. Selected = {} /\ Selected' = {}
  BY <1>2, SelectionAssumption DEF Selected, Verdict
<1>4. TypeOK'
  BY <1>1 DEF IInv, TypeOK, CreateRun
<1>5. Progress'
  BY <1>1, <1>2, <1>3, SelectionAssumption DEF Progress, CreateRun, Verdict, Measured, Valued
<1>6. BestFirst'
  BY <1>1 DEF BestFirst, CreateRun
<1>7. SpentIsSum' /\ SpentFits'
  <2>1. \A r \in Resource : UseOf(Selected, r)' = UseOf(Selected, r)
    BY <1>1, <1>3 DEF UseOf
  <2>2. QED
    BY <1>1, <2>1 DEF SpentIsSum, SpentFits, IInv, CreateRun
<1>8. RoomWasTaken' /\ NothingTwice'
  BY <1>2, <1>3, SelectionAssumption DEF RoomWasTaken, NothingTwice, Verdict
<1>9. EveryValuationIsDecided'
  BY <1>1 DEF EveryValuationIsDecided, IInv, CreateRun
<1>10. QED
  BY <1>4, <1>5, <1>6, <1>7, <1>8, <1>9 DEF IInv

(* One asset is decided.                                                    *)
LEMMA DecideInv ==
    ASSUME IInv, decide
    PROVE  IInv'
<1>1. PICK a \in todo :
          /\ \A b \in todo \ {a} : rankLess(a, b)
          /\ todo' = todo \ {a}
          /\ verdict' = [verdict EXCEPT ![a] = Decision(a)]
          /\ IF Decision(a) = "SELECTED"
             THEN /\ rank' = [rank EXCEPT ![a] = Cardinality(Selected) + 1]
                  /\ spent' = [r \in Resource |-> spent[r] + Use(a, r)]
             ELSE UNCHANGED <<rank, spent>>
  BY DEF decide
<1>2. at = "deciding" /\ at' = "deciding" /\ UNCHANGED <<inputs, status, portfolio>>
  BY DEF decide
<1>3. /\ Valued' = Valued /\ Measured' = Measured /\ opts' = opts /\ source' = source
      /\ \A x, y : rankLess(x, y)' <=> rankLess(x, y)
      /\ \A x : IsKnowledge(x)' <=> IsKnowledge(x)
      /\ \A x, r : Use(x, r)' = Use(x, r)
  BY <1>2, SameInputs DEF inputs
<1>4. /\ TypeOK /\ Progress /\ BestFirst /\ SpentIsSum /\ SpentFits
      /\ RoomWasTaken /\ NothingTwice /\ EveryValuationIsDecided
  BY DEF IInv
<1>5. a \in Measured /\ a \in Valued /\ a \in Asset /\ Measured \subseteq Valued
  BY <1>4 DEF TypeOK, Measured, Valued
<1>6. verdict \in [Asset -> Verdict \cup {None}] /\ None \notin Verdict
  BY <1>4, SelectionAssumption DEF TypeOK
<1>7. Decision(a) \in Verdict
  BY DEF Decision, rejectReason, Verdict
<1>8. a \notin Selected /\ Selected \subseteq Measured \ todo
  BY <1>4, <1>6 DEF Progress, Selected, Verdict
<1>9. /\ verdict'[a] = Decision(a)
      /\ \A x \in Asset \ {a} : verdict'[x] = verdict[x]
  BY <1>1, <1>5, <1>6
<1>10. Selected' = IF Decision(a) = "SELECTED" THEN Selected \cup {a} ELSE Selected
  BY <1>5, <1>8, <1>9 DEF Selected
<1>11. \A b \in Selected : rankLess(b, a)
  BY <1>2, <1>4, <1>8 DEF BestFirst
<1>12. \A r \in Resource : spent[r] = UseOf(Selected, r) /\ spent[r] \in Nat
  BY <1>4 DEF SpentIsSum, TypeOK
<1>13. \A r \in Resource : Use(a, r) \in Nat
  BY <1>4, <1>5, UseNat
<1>14. TypeOK'
  <2>1. verdict' \in [Asset -> Verdict \cup {None}]
    BY <1>1, <1>6, <1>7
  <2>2. rank' \in [Asset -> Nat] /\ spent' \in [Resource -> Nat]
    <3>1. IsFiniteSet(Selected)
      BY SelectionAssumption, FS_Subset DEF Selected
    <3>2. Cardinality(Selected) + 1 \in Nat
      BY <3>1, FS_CardinalityType
    <3>3. rank \in [Asset -> Nat] /\ spent \in [Resource -> Nat]
      BY <1>4 DEF TypeOK
    <3>4. CASE Decision(a) = "SELECTED"
      BY <1>1, <1>12, <1>13, <3>2, <3>3, <3>4
    <3>5. CASE Decision(a) # "SELECTED"
      BY <1>1, <3>3, <3>5
    <3>6. QED
      BY <3>4, <3>5
  <2>3. todo' \subseteq Measured'
    BY <1>1, <1>3, <1>4 DEF TypeOK
  <2>4. QED
    BY <1>2, <1>3, <1>4, <2>1, <2>2, <2>3 DEF TypeOK
<1>15. Progress'
  <2>1. \A x \in Asset : verdict'[x] # None => x \in Valued \ todo'
    BY <1>1, <1>4, <1>5, <1>9 DEF Progress
  <2>2. \A x \in Asset : verdict'[x] # None <=> x \in Measured \ todo'
    BY <1>1, <1>2, <1>4, <1>5, <1>6, <1>7, <1>9 DEF Progress
  <2>3. Selected' \subseteq Measured
    BY <1>5, <1>8, <1>10
  <2>4. \A x \in Asset \ Measured : verdict'[x] # "COST_DOMINATED"
    BY <1>4, <1>5, <1>9 DEF Progress
  <2>5. QED
    BY <1>2, <1>3, <2>1, <2>2, <2>3, <2>4 DEF Progress
<1>16. BestFirst'
  <2>1. \A x \in Measured \ todo, b \in todo : rankLess(x, b)
    BY <1>2, <1>4 DEF BestFirst
  <2>2. \A x \in Measured \ todo', b \in todo' : rankLess(x, b)
    BY <1>1, <2>1
  <2>3. QED
    BY <1>3, <2>2 DEF BestFirst
<1>17. \A S, r : UseOf(S, r)' = UseOf(S, r)
  BY <1>3 DEF UseOf
<1>18. SpentIsSum' /\ SpentFits'
  <2>1. CASE Decision(a) = "SELECTED"
    <3>1. \A r \in Resource : spent'[r] = spent[r] + Use(a, r)
      BY <1>1, <2>1
    <3>2. Selected \in SUBSET Valued /\ a \in Valued \ Selected
      BY <1>5, <1>8
    <3>3. \A r \in Resource : UseOf(Selected \cup {a}, r) = UseOf(Selected, r) + Use(a, r)
      BY <1>4, <3>2, OneMoreUse
    <3>4. \A r \in Resource : UseOf(Selected', r) = spent'[r]
      BY <1>10, <1>12, <2>1, <3>1, <3>3
    <3>5. SpentIsSum'
      BY <1>17, <3>4 DEF SpentIsSum
    <3>6. ~overBudget(a)
      BY <2>1 DEF Decision, rejectReason
    <3>7. \A r \in Resource :
              r \in {ResourceOf(destinationFor(a)), "cost"} \/ Use(a, r) = 0
      BY DEF Use
    <3>8. \A r \in Resource : opts.budget[r] > 0 => spent'[r] <= opts.budget[r]
      <4> SUFFICES ASSUME NEW r \in Resource, opts.budget[r] > 0
                   PROVE  spent'[r] <= opts.budget[r]
        OBVIOUS
      <4>1. opts.budget[r] \in Nat /\ spent[r] \in Nat
        <5>1. opts.budget \in [Resource -> Nat]
          BY <1>4, SelectionAssumption DEF TypeOK
        <5>2. QED
          BY <1>12, <5>1
      <4>2. CASE r \in {ResourceOf(destinationFor(a)), "cost"}
        <5>1. ~(spent[r] + Use(a, r) > opts.budget[r])
          BY <3>6, <4>2 DEF overBudget
        <5>2. QED
          BY <1>13, <3>1, <4>1, <5>1
      <4>3. CASE Use(a, r) = 0
        BY <1>4, <3>1, <4>1, <4>3 DEF SpentFits
      <4>4. QED
        BY <3>7, <4>2, <4>3
    <3>9. QED
      BY <1>3, <3>5, <3>8 DEF SpentFits
  <2>2. CASE Decision(a) # "SELECTED"
    <3>1. spent' = spent /\ Selected' = Selected
      BY <1>1, <1>10, <2>2
    <3>2. QED
      BY <1>3, <1>4, <1>17, <3>1 DEF SpentIsSum, SpentFits
  <2>3. QED
    BY <2>1, <2>2
<1>19. RoomWasTaken'
  <2> SUFFICES ASSUME NEW x \in Asset, verdict'[x] = "COST_DOMINATED"
               PROVE  (\E r \in Resource :
                          /\ opts.budget[r] > 0
                          /\ UseOf({b \in Selected : rankLess(b, x)}, r) + Use(x, r)
                               > opts.budget[r])'
    BY DEF RoomWasTaken
  <2> SUFFICES \E r \in Resource :
                    /\ opts.budget[r] > 0
                    /\ UseOf({b \in Selected' : rankLess(b, x)}, r) + Use(x, r) > opts.budget[r]
    <3>1. {b \in Selected : rankLess(b, x)}' = {b \in Selected' : rankLess(b, x)}
      BY <1>3
    <3>2. \A r : UseOf({b \in Selected : rankLess(b, x)}, r)'
                    = UseOf({b \in Selected' : rankLess(b, x)}, r)
      BY <1>3, <3>1 DEF UseOf
    <3>3. QED
      BY <1>3, <3>2
  <2>2. CASE x = a
    <3>1. Decision(a) = "COST_DOMINATED" /\ Selected' = Selected
      BY <1>9, <1>10, <2>2
    <3>2. overBudget(a)
      BY <3>1 DEF Decision, rejectReason
    <3>3. PICK r \in {ResourceOf(destinationFor(a)), "cost"} :
              opts.budget[r] > 0 /\ spent[r] + Use(a, r) > opts.budget[r]
      BY <3>2 DEF overBudget
    <3>4. r \in Resource
      BY DEF ResourceOf, Resource
    <3>5. {b \in Selected' : rankLess(b, a)} = Selected
      BY <1>11, <3>1
    <3>6. UseOf({b \in Selected' : rankLess(b, a)}, r) = spent[r]
      BY <1>12, <3>4, <3>5
    <3>7. QED
      BY <2>2, <3>3, <3>4, <3>6
  <2>3. CASE x # a
    <3>1. verdict[x] = "COST_DOMINATED"
      BY <1>9, <2>3
    <3>2. x \in Measured \ todo
      BY <1>4, <1>6, <3>1 DEF Progress, Verdict
    <3>3. rankLess(x, a)
      BY <1>2, <1>4, <3>2 DEF BestFirst
    <3>4. ~rankLess(a, x)
      BY <1>4, <1>5, <3>2, <3>3, RankIsStrict
    <3>5. {b \in Selected' : rankLess(b, x)} = {b \in Selected : rankLess(b, x)}
      BY <1>10, <3>4
    <3>6. QED
      BY <1>4, <3>1, <3>5 DEF RoomWasTaken
  <2>4. QED
    BY <2>2, <2>3
<1>20. NothingTwice'
  <2>1. CASE Decision(a) = "SELECTED"
    <3>1. IsKnowledge(a) => redundantWith(a) = {}
      BY <2>1 DEF Decision, rejectReason
    <3>2. \A b \in Selected : IsKnowledge(a) /\ IsKnowledge(b) =>
              <<a, b>> \notin Overlap /\ <<b, a>> \notin Overlap
      BY <1>5, <3>1, SelectionAssumption DEF redundantWith, Selected
    <3>3. \A x, y \in Selected' :
              x # y /\ IsKnowledge(x) /\ IsKnowledge(y) => <<x, y>> \notin Overlap
      BY <1>4, <1>10, <2>1, <3>2 DEF NothingTwice
    <3>4. \A x \in Asset : verdict'[x] = "REDUNDANT" =>
              \E b \in Selected' : rankLess(b, x) /\ <<x, b>> \in Overlap
      BY <1>4, <1>9, <1>10, <2>1 DEF NothingTwice
    <3>5. QED
      BY <1>3, <3>3, <3>4 DEF NothingTwice
  <2>2. CASE Decision(a) # "SELECTED"
    <3>1. Selected' = Selected
      BY <1>10, <2>2
    <3>2. Decision(a) = "REDUNDANT" => \E b \in Selected : <<a, b>> \in Overlap
      BY DEF Decision, rejectReason, redundantWith
    <3>3. \A x \in Asset : verdict'[x] = "REDUNDANT" =>
              \E b \in Selected : rankLess(b, x) /\ <<x, b>> \in Overlap
      BY <1>4, <1>9, <1>11, <3>2 DEF NothingTwice
    <3>4. QED
      BY <1>3, <1>4, <3>1, <3>3 DEF NothingTwice
  <2>3. QED
    BY <2>1, <2>2
<1>21. EveryValuationIsDecided'
  BY <1>2, <1>3, <1>4 DEF EveryValuationIsDecided
<1>22. QED
  BY <1>14, <1>15, <1>16, <1>18, <1>19, <1>20, <1>21 DEF IInv

(* The portfolio is recorded, with what Value did not measure.              *)
LEMMA WritePortfolioInv ==
    ASSUME IInv, WritePortfolio
    PROVE  IInv'
<1>1. /\ Valued' = Valued /\ Measured' = Measured /\ opts' = opts /\ source' = source
      /\ \A x, y : rankLess(x, y)' <=> rankLess(x, y)
      /\ \A x : IsKnowledge(x)' <=> IsKnowledge(x)
      /\ \A x, r : Use(x, r)' = Use(x, r)
  BY SameInputs DEF WritePortfolio, inputs
<1>2. /\ TypeOK /\ Progress /\ BestFirst /\ SpentIsSum /\ SpentFits
      /\ RoomWasTaken /\ NothingTwice
  BY DEF IInv
<1>3. /\ at = "deciding" /\ at' = "written" /\ todo = {} /\ todo' = {}
      /\ verdict' = Reject /\ portfolio' = [verdict |-> Reject, rank |-> rank,
                                            sourceStatus |-> source.status]
      /\ spent' = spent /\ rank' = rank /\ status' = status
  BY DEF WritePortfolio
<1>4. Measured \subseteq Valued /\ Valued \subseteq Asset
  BY DEF Measured, Valued
<1>5. \A a \in Valued \ Measured :
          verdict'[a] \in {"IRRELEVANT", "UNDERPOWERED", "BUDGET_EXHAUSTED"}
  <2> SUFFICES ASSUME NEW a \in Valued \ Measured
               PROVE  verdict'[a] \in {"IRRELEVANT", "UNDERPOWERED", "BUDGET_EXHAUSTED"}
    OBVIOUS
  <2>1. verdict'[a] = valuations[a].notMeasured
    BY <1>3, <1>4 DEF Reject
  <2>2. valuations[a] \in Valuation
    BY <1>2, SelectionAssumption DEF TypeOK, Valued, valuations
  <2>3. valuations[a].notMeasured # "none"
    BY DEF Measured
  <2>4. QED
    BY <2>1, <2>2, <2>3 DEF Valuation
<1>6. \A a \in Asset \ (Valued \ Measured) : verdict'[a] = verdict[a]
  BY <1>3 DEF Reject
<1>7. \A a \in Valued \ Measured : verdict[a] = None /\ None \notin Verdict
  BY <1>2, <1>3, <1>4, SelectionAssumption DEF Progress
<1>8. Selected' = Selected
  BY <1>4, <1>5, <1>6, <1>7 DEF Selected, Verdict
<1>9. TypeOK'
  <2>1. verdict' \in [Asset -> Verdict \cup {None}]
    <3>1. \A a \in Asset : verdict'[a] \in Verdict \cup {None}
      BY <1>2, <1>5, <1>6 DEF TypeOK, Verdict
    <3>2. QED
      BY <1>3, <3>1 DEF Reject
  <2>2. QED
    BY <1>1, <1>2, <1>3, <2>1 DEF TypeOK
<1>10. Progress'
  <2>1. \A a \in Asset : verdict'[a] # None => a \in Valued
    BY <1>2, <1>6 DEF Progress
  <2>2. \A a \in Asset \ Measured : verdict'[a] # "COST_DOMINATED"
    BY <1>2, <1>5, <1>6 DEF Progress
  <2>3. QED
    BY <1>1, <1>2, <1>3, <1>8, <2>1, <2>2 DEF Progress
<1>11. BestFirst'
  BY <1>3 DEF BestFirst
<1>12. \A S, r : UseOf(S, r)' = UseOf(S, r)
  BY <1>1 DEF UseOf
<1>13. SpentIsSum' /\ SpentFits'
  BY <1>1, <1>2, <1>3, <1>8, <1>12 DEF SpentIsSum, SpentFits
<1>14. RoomWasTaken'
  <2> SUFFICES ASSUME NEW a \in Asset, verdict'[a] = "COST_DOMINATED"
               PROVE  (\E r \in Resource :
                          /\ opts.budget[r] > 0
                          /\ UseOf({b \in Selected : rankLess(b, a)}, r) + Use(a, r)
                               > opts.budget[r])'
    BY DEF RoomWasTaken
  <2>1. verdict[a] = "COST_DOMINATED"
    BY <1>5, <1>6
  <2>2. PICK r \in Resource :
            /\ opts.budget[r] > 0
            /\ UseOf({b \in Selected : rankLess(b, a)}, r) + Use(a, r) > opts.budget[r]
    BY <1>2, <2>1 DEF RoomWasTaken
  <2>3. {b \in Selected : rankLess(b, a)}' = {b \in Selected : rankLess(b, a)}
    BY <1>1, <1>8
  <2>4. UseOf({b \in Selected : rankLess(b, a)}, r)' = UseOf({b \in Selected : rankLess(b, a)}, r)
    BY <1>1, <2>3 DEF UseOf
  <2>5. QED
    BY <1>1, <2>2, <2>4
<1>15. NothingTwice'
  <2>1. \A a \in Asset : verdict'[a] = "REDUNDANT" => verdict[a] = "REDUNDANT"
    BY <1>5, <1>6
  <2>2. QED
    BY <1>1, <1>2, <1>8, <2>1 DEF NothingTwice
<1>16. EveryValuationIsDecided'
  <2>1. portfolio'.verdict = verdict'
    BY <1>3
  <2>2. \A a \in Asset : verdict'[a] # None <=> a \in Valued
    <3> SUFFICES ASSUME NEW a \in Asset PROVE verdict'[a] # None <=> a \in Valued
      OBVIOUS
    <3>1. CASE a \in Valued \ Measured
      BY <1>5, <1>7, <3>1 DEF Verdict
    <3>2. CASE a \notin Valued \ Measured
      BY <1>2, <1>3, <1>4, <1>6, <3>2 DEF Progress
    <3>3. QED
      BY <3>1, <3>2
  <2>3. QED
    BY <1>1, <2>1, <2>2 DEF EveryValuationIsDecided
<1>17. QED
  BY <1>9, <1>10, <1>11, <1>13, <1>14, <1>15, <1>16 DEF IInv

(* Every step keeps the invariant: a refusal, the end of the run and a kill *)
(* decide nothing.                                                          *)
LEMMA NextIInv == IInv /\ [Next]_vars => IInv'
<1> SUFFICES ASSUME IInv, [Next]_vars PROVE IInv'
  OBVIOUS
<1>1. at = "opening" => todo = {}
  BY DEF IInv, Progress
<1>2. CASE CreateRun
  BY <1>2, CreateRunInv
<1>3. CASE decide
  BY <1>3, DecideInv
<1>4. CASE WritePortfolio
  BY <1>4, WritePortfolioInv
<1>5. CASE Refuse \/ FinishRun \/ Dies \/ UNCHANGED vars
  <2>1. /\ UNCHANGED <<inputs, portfolio, decisions>>
        /\ at' \in {at, "written", "gone"} /\ status' \in {status, "COMPLETED"}
    BY <1>5 DEF Refuse, FinishRun, Dies, vars
  <2>2. UNCHANGED <<inputs, verdict, spent, todo, portfolio>>
    BY <2>1 DEF decisions
  <2>3. TypeOK'
    <3>1. Measured' = Measured
      BY <2>2, SameInputs
    <3>2. QED
      BY <2>1, <3>1 DEF IInv, TypeOK, inputs, decisions
  <2>4. QED
    BY <1>1, <2>1, <2>2, <2>3, KeepsDecisions DEF IInv
<1>6. QED
  BY <1>2, <1>3, <1>4, <1>5 DEF Next

-----------------------------------------------------------------------------
(* The theorems. *)

(* The invariant holds throughout.                                          *)
LEMMA SelectionInvariant == Spec => []IInv
BY InitIInv, NextIInv, PTL DEF Spec

(* The records of a Select run have their types, and its spend never goes   *)
(* below zero.                                                              *)
THEOREM SelectionTypeCorrect == Spec => []TypeOK
<1>1. IInv => TypeOK
  BY DEF IInv
<1>2. QED
  BY <1>1, SelectionInvariant, PTL

(* Whatever the valuations, the pool and the caps, the selected set stays   *)
(* within every cap: a cap is charged by each destination it counts.        *)
THEOREM SelectionFitsTheCaps == Spec => []SelectionFits
<1>1. IInv => SelectionFits
  BY DEF IInv, SpentIsSum, SpentFits, SelectionFits
<1>2. QED
  BY <1>1, SelectionInvariant, PTL

(* An asset turned away for its cost would not have fitted beside the       *)
(* selected assets that rank above it.                                      *)
THEOREM NoneIsTurnedAwayForNothing == Spec => []RoomWasTaken
<1>1. IInv => RoomWasTaken
  BY DEF IInv
<1>2. QED
  BY <1>1, SelectionInvariant, PTL

(* No two selected knowledge assets overlap, across destinations, and each  *)
(* redundant one repeats a better ranked that was selected.                 *)
THEOREM NothingIsSelectedTwice == Spec => []NothingTwice
<1>1. IInv => NothingTwice
  BY DEF IInv
<1>2. QED
  BY <1>1, SelectionInvariant, PTL

(* A recorded portfolio is a decision on exactly the assets with a          *)
(* valuation, whether or not they were measured.                            *)
THEOREM PortfolioIsComplete == Spec => []EveryValuationIsDecided
<1>1. IInv => EveryValuationIsDecided
  BY DEF IInv
<1>2. QED
  BY <1>1, SelectionInvariant, PTL

-----------------------------------------------------------------------------
(* The bridge. *)

(* The constants are numbers.                                               *)
LEMMA Numbers ==
    /\ Groups \in Nat /\ Groups > 0 /\ Cases \in Nat /\ Cases > 0 /\ MaxServe \in Nat
    /\ MaxMinutes \in Nat /\ MaxProcesses \in Nat
    /\ AllIn \in Group /\ Group = 1..Groups /\ IsFiniteSet(Group)
<1>1. AllIn \in Group
  BY BridgeAssumption DEF Group, AllIn
<1>2. IsFiniteSet(Group)
  BY BridgeAssumption, FS_Interval DEF Group
<1>3. QED
  BY <1>1, <1>2, BridgeAssumption DEF Group

-----------------------------------------------------------------------------
(* Which steps change what. *)

(* The store, the provider and the history: what each step may change.      *)
LEMMA Changes ==
    ASSUME BridgeNext
    PROVE  /\ scored' = scored \/ recordScores
           /\ orphan' = orphan \/ RecordOvershoot \/ SweepOrphan
           /\ verdicts' = verdicts \/ emitVerdict
           /\ job' = job \/ Submit \/ \E g \in Group : Land(g) \/ JobEnds(g)
           /\ over' = over \/ \E g \in Group : JobEnds(g)
           /\ endpoint' = endpoint \/ SweepTeardown \/ Deploy \/ Teardown
                \/ \E g \in Group : \E i \in DOMAIN endpoint[g] : EndpointMoves(g, i) \/ Minute(g, i)
           /\ row' = row \/ SweepList \/ settleSweptMinutes \/ SweepMark \/ WriteAhead \/ adoptOrAbandon
              \/ RecordSubmitted \/ RecordTerminal \/ DeployAhead \/ RecordEndpoint \/ Tick
              \/ TickerEnds \/ MarkTornDown \/ MarkVerdict
           /\ submits' = submits \/ Submit
           /\ (charged' = charged /\ unwritten' = unwritten) \/ Tick \/ TickerEnds
           /\ processes' = processes \/ Start
           /\ rec' = rec \/ rec' = NoRow \/ measureGroup
           /\ ticker' = ticker \/ ticker' = FALSE \/ Serve
<1> USE DEF BridgeNext, Provider, Process, Sweep, Start, SweepSkip, SweepList, SweepTeardown,
       settleSweptMinutes, SweepOrphan, SweepMark, WriteAhead, adoptOrAbandon, AlreadySubmitted, Submit,
       RecordSubmitted, RecordOvershoot, RecordTerminal, measureGroup, DeployAhead, Deploy,
       RecordEndpoint, Serve, MeasureReturns, recordScores, Tick, TickerEnds, stopTick, Teardown,
       MarkTornDown, emitVerdict, MarkVerdict, Fails, Cancel, Crash, Land, JobEnds, EndpointMoves,
       Minute
<1>1. scored' = scored \/ recordScores
  BY DEF store
<1>2. orphan' = orphan \/ RecordOvershoot \/ SweepOrphan
  BY DEF store
<1>3. verdicts' = verdicts \/ emitVerdict
  BY DEF store
<1>4. job' = job \/ Submit \/ \E g \in Group : Land(g) \/ JobEnds(g)
  BY DEF provider
<1>5. over' = over \/ \E g \in Group : JobEnds(g)
  BY DEF provider
<1>6. endpoint' = endpoint \/ SweepTeardown \/ Deploy \/ Teardown
         \/ \E g \in Group : \E i \in DOMAIN endpoint[g] : EndpointMoves(g, i) \/ Minute(g, i)
  BY DEF provider
<1>7. row' = row \/ SweepList \/ settleSweptMinutes \/ SweepMark \/ WriteAhead \/ adoptOrAbandon
         \/ RecordSubmitted \/ RecordTerminal \/ DeployAhead \/ RecordEndpoint \/ Tick
         \/ TickerEnds \/ MarkTornDown \/ MarkVerdict
  BY DEF store
<1>8. submits' = submits \/ Submit
  BY DEF history
<1>9. (charged' = charged /\ unwritten' = unwritten) \/ Tick \/ TickerEnds
  BY DEF history
<1>10. processes' = processes \/ Start
  BY DEF history
<1>11. rec' = rec \/ rec' = NoRow \/ measureGroup
  BY DEF Stays, NextGroup, Gone
<1>12. ticker' = ticker \/ ticker' = FALSE \/ Serve
  BY DEF Gone, tick
<1>13. QED
  BY <1>1, <1>2, <1>3, <1>4, <1>5, <1>6, <1>7, <1>8, <1>9, <1>10, <1>11, <1>12

(* What else the process holds.                                             *)
LEMMA LocalChanges ==
    ASSUME BridgeTypeOK, BridgeNext
    PROVE  /\ owed' = owed \/ owed' = 0 \/ settleSweptMinutes
           /\ mine' = mine \/ mine' = 0 \/ mine' = Len(endpoint[cur])
           /\ got' = got \/ got' = 0 \/ MeasureReturns
           /\ clock' = clock \/ clock' \in BOOLEAN
           /\ failed' = failed \/ failed' \in BOOLEAN
           /\ tickErr' = tickErr \/ tickErr' \in BOOLEAN
           /\ ctxDone' = ctxDone \/ ctxDone' \in BOOLEAN
           /\ untried' = untried \/ untried' \in BOOLEAN
<1> USE DEF BridgeNext, Provider, Process, Sweep, Start, SweepSkip, SweepList, SweepTeardown,
       settleSweptMinutes, SweepOrphan, SweepMark, WriteAhead, adoptOrAbandon, AlreadySubmitted, Submit,
       RecordSubmitted, RecordOvershoot, RecordTerminal, measureGroup, DeployAhead, Deploy,
       RecordEndpoint, Serve, MeasureReturns, recordScores, Tick, TickerEnds, stopTick, Teardown,
       MarkTornDown, emitVerdict, MarkVerdict, Fails, Cancel, Crash, Land, JobEnds, EndpointMoves,
       Minute
<1>1. owed' = owed \/ owed' = 0 \/ settleSweptMinutes
  BY DEF Gone
<1>2. mine' = mine \/ mine' = 0 \/ mine' = Len(endpoint[cur])
  BY DEF hosting, Gone, NextGroup, Stays
<1>3. got' = got \/ got' = 0 \/ MeasureReturns
  BY DEF hosting, Gone
<1>4. clock' = clock \/ clock' \in BOOLEAN
  BY DEF hosting, Gone, NextGroup, Stays
<1>5. failed' = failed \/ failed' \in BOOLEAN
  BY DEF hosting, Gone, BridgeTypeOK
<1>6. tickErr' = tickErr \/ tickErr' \in BOOLEAN
  BY DEF tick, Gone, SettleServeTick
<1>7. ctxDone' = ctxDone \/ ctxDone' \in BOOLEAN
  BY DEF Gone
<1>8. untried' = untried \/ untried' \in BOOLEAN
  BY DEF history
<1>9. QED
  BY <1>1, <1>2, <1>3, <1>4, <1>5, <1>6, <1>7, <1>8

-----------------------------------------------------------------------------
(* Types. *)

\* The row of the group Run is at may change, and no other.
RowMoves ==
    \/ row' = row
    \/ \E r \in TuningRow : row' = [row EXCEPT ![cur] = r]

(* The deploy requests of a group are numbered, and each is a record.       *)
LEMMA EndpointAt ==
    ASSUME BridgeTypeOK, NEW g \in Group, NEW i \in DOMAIN endpoint[g]
    PROVE  /\ i \in Nat /\ i > 0 /\ i <= Len(endpoint[g])
           /\ endpoint[g][i] \in Endpoint /\ endpoint[g][i].billed \in Nat
<1>1. endpoint[g] \in Seq(Endpoint)
  BY DEF BridgeTypeOK
<1>2. i \in 1..Len(endpoint[g]) /\ Len(endpoint[g]) \in Nat
  BY <1>1
<1>3. endpoint[g][i] \in Endpoint
  BY <1>1, <1>2
<1>4. QED
  BY <1>2, <1>3 DEF Endpoint

(* Every write of a row is a write of the group Run is at.                  *)
LEMMA StepWrites ==
    ASSUME BridgeTypeOK, PlaceOK, MinutesOK, EndpointsOK, BridgeNext
    PROVE  RowMoves
<1> DEFINE r == row[cur]
<1>1. cur \in Group /\ r \in TuningRow /\ rec \in TuningRow
  BY DEF BridgeTypeOK
<1>2. r.minutes \in Nat /\ r.cost \in Nat /\ MaxServe \in Nat
  BY <1>1, Numbers DEF TuningRow
<1>3. \A i \in DOMAIN endpoint[cur] : i \in Nat /\ endpoint[cur][i].billed \in Nat
  BY <1>1, EndpointAt
<1>4. CASE SweepList
  <2>1. \A i \in DOMAIN endpoint[cur] : [r EXCEPT !.endpoint = i] \in TuningRow
    BY <1>1, <1>3 DEF TuningRow
  <2>2. QED
    BY <1>4, <2>1 DEF SweepList, Write, Exists, RowMoves
<1>5. CASE settleSweptMinutes
  <2>1. [r EXCEPT !.minutes = MaxServe] \in TuningRow
    BY <1>1, <1>2 DEF TuningRow
  <2>2. QED
    BY <1>5, <2>1 DEF settleSweptMinutes, Write, RowMoves
<1>6. CASE SweepMark \/ MarkTornDown
  <2>1. [r EXCEPT !.tornDown = TRUE] \in TuningRow
    BY <1>1 DEF TuningRow
  <2>2. QED
    BY <1>6, <2>1 DEF SweepMark, MarkTornDown, Write, RowMoves
<1>7. CASE WriteAhead
  <2>1. [NoRow EXCEPT !.state = "submitting"] \in TuningRow
    BY DEF TuningRow, NoRow
  <2>2. QED
    BY <1>7, <2>1 DEF WriteAhead, Write, RowMoves
<1>8. CASE adoptOrAbandon \/ RecordSubmitted
  <2>1. \A s \in {"submitted", "abandoned"} : [r EXCEPT !.state = s] \in TuningRow
    BY <1>1 DEF TuningRow
  <2>2. QED
    BY <1>8, <2>1 DEF adoptOrAbandon, RecordSubmitted, Write, RowMoves
<1>9. CASE RecordTerminal
  <2>1. job[cur] \in {"succeeded", "failed"}
    BY <1>9 DEF RecordTerminal, At, PlaceOK, Ended
  <2>2. [r EXCEPT !.status = job[cur]] \in TuningRow
    BY <1>1, <2>1 DEF TuningRow
  <2>3. QED
    BY <1>9, <2>2 DEF RecordTerminal, Write, RowMoves
<1>10. CASE DeployAhead
  <2>1. [r EXCEPT !.deployed = TRUE] \in TuningRow
    BY <1>1 DEF TuningRow
  <2>2. QED
    BY <1>10, <2>1 DEF DeployAhead, Write, RowMoves
<1>11. CASE RecordEndpoint
  <2>1. Len(endpoint[cur]) \in Nat
    BY <1>1 DEF BridgeTypeOK
  <2>2. [r EXCEPT !.endpoint = Len(endpoint[cur])] \in TuningRow
    BY <1>1, <2>1 DEF TuningRow
  <2>3. QED
    BY <1>11, <2>2 DEF RecordEndpoint, Write, RowMoves
<1>12. CASE Tick \/ TickerEnds
  <2>1. CASE row' = row
    BY <2>1 DEF RowMoves
  <2>2. CASE SettleServeTick /\ ticker /\ row' # row
    <3> DEFINE elapsed == IF clock THEN endpoint[cur][mine].billed ELSE 0
    <3>1. elapsed \in Nat
      <4>1. mine \in DOMAIN endpoint[cur]
        BY <1>1, <2>2 DEF MinutesOK, EndpointsOK, BridgeTypeOK
      <4>2. QED
        BY <1>3, <4>1
    <3>2. elapsed > r.minutes /\ row' = [row EXCEPT ![cur] = [r EXCEPT !.minutes = elapsed,
                                                             !.cost = @ + SettledBy(elapsed)]]
      BY <2>2 DEF SettleServeTick, Write
    <3> HIDE DEF elapsed
    <3>3. SettledBy(elapsed) \in Nat
      BY <1>2, <3>1, <3>2 DEF SettledBy
    <3>4. r.cost + SettledBy(elapsed) \in Nat
      BY <1>2, <3>3
    <3>5. [r EXCEPT !.minutes = elapsed, !.cost = @ + SettledBy(elapsed)] \in TuningRow
      BY <1>1, <3>1, <3>4 DEF TuningRow
    <3>6. QED
      BY <3>2, <3>5 DEF RowMoves
  <2>3. QED
    BY <1>12, <2>1, <2>2 DEF Tick, TickerEnds
<1>13. CASE MarkVerdict
  <2>1. [rec EXCEPT !.verdict = TRUE] \in TuningRow
    BY <1>1 DEF TuningRow
  <2>2. QED
    BY <1>13, <2>1 DEF MarkVerdict, Write, RowMoves
<1>14. QED
  BY <1>4, <1>5, <1>6, <1>7, <1>8, <1>9, <1>10, <1>11, <1>12, <1>13, Changes DEF RowMoves

(* Run moves between its places, and on from a group to the next.           *)
LEMMA StepPlaces ==
    ASSUME BridgeNext
    PROVE  /\ pc' = pc \/ pc' \in Place \cup {"down"}
           /\ cur' = cur \/ cur' = 1 \/ (cur < Groups /\ cur' = cur + 1)
<1> USE DEF BridgeNext, Provider, Process, Sweep, Start, SweepSkip, SweepList, SweepTeardown,
       settleSweptMinutes, SweepOrphan, SweepMark, WriteAhead, adoptOrAbandon, AlreadySubmitted, Submit,
       RecordSubmitted, RecordOvershoot, RecordTerminal, measureGroup, DeployAhead, Deploy,
       RecordEndpoint, Serve, MeasureReturns, recordScores, Tick, TickerEnds, stopTick, Teardown,
       MarkTornDown, emitVerdict, MarkVerdict, Fails, Cancel, Crash, Land, JobEnds, EndpointMoves,
       Minute
<1>1. pc' = pc \/ pc' \in Place \cup {"down"}
  BY DEF Place, SweepNext, NextGroup, Gone
<1>2. cur' = cur \/ cur' = 1 \/ (cur < Groups /\ cur' = cur + 1)
  BY DEF SweepNext, NextGroup, Gone, Stays
<1>3. QED
  BY <1>1, <1>2

(* Every step keeps the types.                                              *)
LEMMA StepTypes ==
    ASSUME BridgeTypeOK, PlaceOK, MinutesOK, EndpointsOK, BridgeNext
    PROVE  BridgeTypeOK'
<1>1. row' \in [Group -> TuningRow]
  BY StepWrites DEF RowMoves, BridgeTypeOK
<1>2. scored' \in [Group -> 0..Cases]
  <2>1. CASE recordScores
    <3>1. scored \in [Group -> 0..Cases] /\ cur \in Group /\ got \in 0..Cases /\ Cases \in Nat
      BY Numbers DEF BridgeTypeOK
    <3>2. PICK n \in 0..got : scored' = [scored EXCEPT ![cur] = @ + n]
      BY <2>1 DEF recordScores
    <3>3. scored[cur] + got <= Cases
      BY <2>1, <3>1 DEF recordScores, PlaceOK, Missing
    <3>4. scored[cur] + n \in 0..Cases
      BY <3>1, <3>3
    <3>5. QED
      BY <3>1, <3>2, <3>4
  <2>2. QED
    BY <2>1, Changes DEF BridgeTypeOK
<1>3. orphan' \in Nat
  <2>1. orphan \in Nat /\ owed \in Nat
    BY DEF BridgeTypeOK
  <2>2. orphan' = orphan \/ RecordOvershoot \/ SweepOrphan
    BY Changes
  <2>3. QED
    BY <2>1, <2>2 DEF RecordOvershoot, SweepOrphan
<1>4. verdicts' \in [Group -> Nat] /\ submits' \in [Group -> Nat]
  <2>1. verdicts \in [Group -> Nat] /\ submits \in [Group -> Nat] /\ cur \in Group
    BY DEF BridgeTypeOK
  <2>2. verdicts' = verdicts \/ verdicts' = [verdicts EXCEPT ![cur] = @ + 1]
    BY Changes DEF emitVerdict
  <2>3. submits' = submits \/ submits' = [submits EXCEPT ![cur] = @ + 1]
    BY Changes DEF Submit
  <2>4. QED
    BY <2>1, <2>2, <2>3
<1>5. job' \in [Group -> {"none", "sent", "running", "succeeded", "failed"}]
  <2>1. ASSUME NEW g \in Group, Land(g) \/ JobEnds(g)
        PROVE  job' \in [Group -> {"none", "sent", "running", "succeeded", "failed"}]
    BY <2>1 DEF Land, JobEnds, BridgeTypeOK
  <2>2. CASE Submit
    BY <2>2 DEF Submit, BridgeTypeOK
  <2>3. QED
    BY <2>1, <2>2, Changes DEF BridgeTypeOK
<1>6. over' \in [Group -> BOOLEAN]
  <2>1. ASSUME NEW g \in Group, JobEnds(g)  PROVE over' \in [Group -> BOOLEAN]
    BY <2>1 DEF JobEnds, BridgeTypeOK
  <2>2. QED
    BY <2>1, Changes DEF BridgeTypeOK
<1>7. endpoint' \in [Group -> Seq(Endpoint)]
  <2>1. endpoint \in [Group -> Seq(Endpoint)] /\ cur \in Group
    BY DEF BridgeTypeOK
  <2>2. ASSUME NEW g \in Group, NEW i \in DOMAIN endpoint[g], NEW e \in Endpoint
        PROVE  [endpoint EXCEPT ![g][i] = e] \in [Group -> Seq(Endpoint)]
    <3>1. endpoint[g] \in Seq(Endpoint)
      BY <2>1
    <3>2. [endpoint[g] EXCEPT ![i] = e] \in Seq(Endpoint)
      BY <3>1
    <3>3. QED
      BY <2>1, <3>2
  <2>3. ASSUME NEW g \in Group, NEW i \in DOMAIN endpoint[g]  PROVE endpoint[g][i] \in Endpoint
    <3>1. endpoint[g] \in Seq(Endpoint)
      BY <2>1
    <3>2. QED
      BY <3>1
  <2>4. ASSUME NEW g \in Group, NEW i \in DOMAIN endpoint[g], EndpointMoves(g, i) \/ Minute(g, i)
        PROVE  endpoint' \in [Group -> Seq(Endpoint)]
    <3> DEFINE e == endpoint[g][i]
    <3>1. /\ [e EXCEPT !.at = "starting"] \in Endpoint /\ [e EXCEPT !.at = "ready"] \in Endpoint
          /\ [e EXCEPT !.billed = @ + 1] \in Endpoint
      BY <2>3 DEF Endpoint
    <3>2. \/ endpoint' = [endpoint EXCEPT ![g][i] = [e EXCEPT !.at = "starting"]]
          \/ endpoint' = [endpoint EXCEPT ![g][i] = [e EXCEPT !.at = "ready"]]
          \/ endpoint' = [endpoint EXCEPT ![g][i] = [e EXCEPT !.billed = @ + 1]]
      BY <2>1, <2>4 DEF EndpointMoves, Minute
    <3> DEFINE to(v) == [endpoint EXCEPT ![g][i] = v]
    <3>3. \A v \in Endpoint : to(v) \in [Group -> Seq(Endpoint)]
      BY <2>2
    <3>4. \E v \in Endpoint : endpoint' = to(v)
      BY <3>1, <3>2
    <3> HIDE DEF to
    <3>5. QED
      BY <3>3, <3>4
  <2>5. ASSUME NEW i \in DOMAIN endpoint[cur], Removed(cur, i)
        PROVE  endpoint' \in [Group -> Seq(Endpoint)]
    <3> DEFINE e == [endpoint[cur][i] EXCEPT !.at = "gone"]
    <3>1. e \in Endpoint
      BY <2>1, <2>3 DEF Endpoint
    <3>2. endpoint' = [endpoint EXCEPT ![cur][i] = e]
      BY <2>1, <2>5 DEF Removed
    <3>3. QED
      BY <2>1, <2>2, <3>1, <3>2
  <2>6. CASE SweepTeardown
    <3>1. row[cur].endpoint \in DOMAIN endpoint[cur]
      BY <2>1, <2>6 DEF SweepTeardown, EndpointsOK, BridgeTypeOK, TuningRow
    <3>2. QED
      BY <2>5, <2>6, <3>1 DEF SweepTeardown
  <2>7. CASE Teardown
    <3>1. mine \in DOMAIN endpoint[cur]
      BY <2>1, <2>7 DEF Teardown, At, EndpointsOK, BridgeTypeOK
    <3>2. QED
      BY <2>1, <2>5, <2>7, <3>1 DEF Teardown
  <2>8. CASE Deploy
    <3>1. Append(endpoint[cur], [at |-> "asked", billed |-> 0]) \in Seq(Endpoint)
      BY <2>1 DEF Endpoint
    <3>2. QED
      BY <2>1, <2>8, <3>1 DEF Deploy
  <2>9. QED
    BY <2>1, <2>4, <2>6, <2>7, <2>8, Changes
<1>8. pc' \in Place \cup {"down"} /\ cur' \in Group
  <2>1. pc \in Place \cup {"down"} /\ cur \in 1..Groups /\ Groups \in Nat /\ Group = 1..Groups
    BY Numbers DEF BridgeTypeOK
  <2>2. pc' \in Place \cup {"down"}
    BY <2>1, StepPlaces
  <2>3. cur' \in 1..Groups
    BY <2>1, StepPlaces
  <2>4. QED
    BY <2>1, <2>2, <2>3
<1>9. rec' \in TuningRow
  <2>1. NoRow \in TuningRow
    BY DEF NoRow, TuningRow
  <2>2. CASE measureGroup
    BY <2>1, <2>2 DEF measureGroup, NextGroup, BridgeTypeOK
  <2>3. QED
    BY <2>1, <2>2, Changes DEF BridgeTypeOK
<1>10. owed' \in Nat
  <2>1. CASE settleSweptMinutes
    <3> DEFINE r == row[cur]
               rate == IF r.minutes > 0 THEN r.cost \div r.minutes ELSE 0
    <3>1. r.minutes \in Nat /\ r.cost \in Nat /\ MaxServe \in Nat
      BY Numbers DEF BridgeTypeOK, TuningRow
    <3>2. rate \in Nat
      BY <3>1
    <3>3. owed' = rate * (MaxServe - r.minutes) \/ owed' = 0
      BY <2>1 DEF settleSweptMinutes
    <3>4. MaxServe > r.minutes => MaxServe - r.minutes \in Nat
      BY <3>1
    <3> HIDE DEF rate
    <3>5. MaxServe > r.minutes => rate * (MaxServe - r.minutes) \in Nat
      BY <3>2, <3>4
    <3>6. owed' # 0 => MaxServe > r.minutes
      BY <2>1, <3>1 DEF settleSweptMinutes
    <3>7. QED
      BY <3>3, <3>5, <3>6
  <2>2. QED
    BY <2>1, LocalChanges DEF BridgeTypeOK
<1>11. mine' \in Nat
  <2>1. \A g \in Group : Len(endpoint[g]) \in Nat
    BY DEF BridgeTypeOK
  <2>2. QED
    BY <2>1, LocalChanges DEF BridgeTypeOK
<1>12. got' \in 0..Cases
  <2>1. CASE MeasureReturns
    <3>1. scored[cur] \in 0..Cases /\ Cases \in Nat
      BY Numbers DEF BridgeTypeOK
    <3>2. got' \in 0..(Cases - scored[cur])
      BY <2>1 DEF MeasureReturns, Missing
    <3>3. QED
      BY <3>1, <3>2
  <2>2. got \in 0..Cases /\ Cases \in Nat
    BY Numbers DEF BridgeTypeOK
  <2>3. got' = got \/ got' = 0 \/ MeasureReturns
    BY LocalChanges
  <2>4. QED
    BY <2>1, <2>2, <2>3
<1>13. clock' \in BOOLEAN /\ failed' \in BOOLEAN /\ tickErr' \in BOOLEAN /\ ctxDone' \in BOOLEAN
       /\ untried' \in BOOLEAN
  BY LocalChanges DEF BridgeTypeOK
<1>14. ticker' \in BOOLEAN
  BY Changes DEF Serve, BridgeTypeOK
<1>15. processes' \in 0..MaxProcesses
  <2>1. processes \in 0..MaxProcesses /\ MaxProcesses \in Nat
    BY Numbers DEF BridgeTypeOK
  <2>2. CASE Start
    BY <2>1, <2>2 DEF Start
  <2>3. QED
    BY <2>1, <2>2, Changes
<1>16. charged' \in [Group -> Nat] /\ unwritten' \in [Group -> Nat]
  <2>1. CASE SettleServeTick /\ ticker /\ (charged' # charged \/ unwritten' # unwritten)
    <3> DEFINE r == row[cur]
               elapsed == IF clock THEN endpoint[cur][mine].billed ELSE 0
               due == SettledBy(elapsed)
    <3>1. /\ charged \in [Group -> Nat] /\ unwritten \in [Group -> Nat]
          /\ cur \in Group /\ r.minutes \in Nat
      BY DEF BridgeTypeOK, TuningRow
    <3>2. elapsed \in Nat
      <4>1. mine \in DOMAIN endpoint[cur]
        BY <2>1, <3>1 DEF MinutesOK, EndpointsOK, BridgeTypeOK
      <4>2. QED
        BY <3>1, <4>1, EndpointAt
    <3>3. /\ elapsed > r.minutes /\ charged' = [charged EXCEPT ![cur] = @ + due]
          /\ unwritten' = unwritten \/ unwritten' = [unwritten EXCEPT ![cur] = @ + due]
      BY <2>1 DEF SettleServeTick
    <3>4. due = elapsed - r.minutes
      BY DEF SettledBy
    <3> HIDE DEF elapsed, due
    <3>5. due \in Nat
      BY <3>1, <3>2, <3>3, <3>4
    <3>6. QED
      BY <3>1, <3>3, <3>5
  <2>2. QED
    BY <2>1, Changes DEF Tick, TickerEnds, BridgeTypeOK
<1>17. QED
  BY <1>1, <1>2, <1>3, <1>4, <1>5, <1>6, <1>7, <1>8, <1>9, <1>10, <1>11, <1>12, <1>13, <1>14, <1>15,
     <1>16 DEF BridgeTypeOK

-----------------------------------------------------------------------------
(* What a write does to the fields of a row. *)

\* Each field of the row that is written, against the row that was there.
FieldsMove ==
    LET old == row[cur]
        new == row'[cur]
    IN /\ \A g \in Group : g # cur => row'[g] = row[g]
       /\ new # old => new.state # "none"
       /\ \/ new.state = old.state
          \/ WriteAhead /\ new.state = "submitting"
          \/ (adoptOrAbandon \/ RecordSubmitted) /\ new.state \in {"submitted", "abandoned"}
       /\ new.status = old.status \/ (RecordTerminal /\ new.status = job[cur])
       /\ new.verdict = old.verdict \/ MarkVerdict
       /\ new.endpoint = old.endpoint \/ SweepList \/ RecordEndpoint \/ MarkVerdict
       /\ new.deployed = old.deployed \/ DeployAhead \/ MarkVerdict
       /\ new.tornDown = old.tornDown \/ SweepMark \/ MarkTornDown \/ MarkVerdict
       /\ new.minutes = old.minutes \/ settleSweptMinutes \/ Tick \/ TickerEnds \/ MarkVerdict
       /\ new.cost = old.cost \/ Tick \/ TickerEnds \/ MarkVerdict

(* Each write moves only the fields it is about.                            *)
LEMMA WriteEffects ==
    ASSUME BridgeTypeOK, JobOK, PlaceOK, RecOK, MinutesOK, BridgeNext
    PROVE  FieldsMove
<1> DEFINE old == row[cur]
<1>1. cur \in Group /\ old \in TuningRow /\ row \in [Group -> TuningRow] /\ rec \in TuningRow
  BY DEF BridgeTypeOK
<1>2. CASE row' = row
  BY <1>2 DEF FieldsMove
<1>3. CASE SweepList
  <2>1. old.state # "none"
    BY <1>1, <1>3 DEF SweepList, Sweepable, JobOK, NoRow
  <2>2. row' = row \/ \E i \in Exists(cur) : row' = [row EXCEPT ![cur] = [old EXCEPT !.endpoint = i]]
    BY <1>3 DEF SweepList, Write
  <2>3. QED
    BY <1>1, <1>3, <2>1, <2>2 DEF FieldsMove, TuningRow
<1>4. CASE settleSweptMinutes
  <2>1. old.state # "none"
    BY <1>4 DEF settleSweptMinutes, At, PlaceOK
  <2>2. row' = row \/ row' = [row EXCEPT ![cur] = [old EXCEPT !.minutes = MaxServe]]
    BY <1>4 DEF settleSweptMinutes, Write
  <2>3. QED
    BY <1>1, <1>4, <2>1, <2>2 DEF FieldsMove, TuningRow
<1>5. CASE SweepMark \/ MarkTornDown
  <2>1. old.state # "none"
    BY <1>5 DEF SweepMark, MarkTornDown, At, PlaceOK, Measuring
  <2>2. row' = row \/ row' = [row EXCEPT ![cur] = [old EXCEPT !.tornDown = TRUE]]
    BY <1>5 DEF SweepMark, MarkTornDown, Write
  <2>3. QED
    BY <1>1, <1>5, <2>1, <2>2 DEF FieldsMove, TuningRow
<1>6. CASE WriteAhead
  <2>1. old = NoRow
    BY <1>1, <1>6 DEF WriteAhead, JobOK
  <2>2. row' = [row EXCEPT ![cur] = [NoRow EXCEPT !.state = "submitting"]]
    BY <1>6 DEF WriteAhead, Write
  <2>3. QED
    BY <1>1, <1>6, <2>1, <2>2 DEF FieldsMove, NoRow
<1>7. CASE adoptOrAbandon \/ RecordSubmitted
  <2>1. old.state = "submitting"
    BY <1>7 DEF adoptOrAbandon, RecordSubmitted, At, PlaceOK
  <2>2. \E s \in {"submitted", "abandoned"} : row' = [row EXCEPT ![cur] = [old EXCEPT !.state = s]]
    BY <1>7 DEF adoptOrAbandon, RecordSubmitted, Write
  <2>3. QED
    BY <1>1, <1>7, <2>1, <2>2 DEF FieldsMove, TuningRow
<1>8. CASE RecordTerminal
  <2>1. old.state = "submitted"
    BY <1>8 DEF RecordTerminal, At, PlaceOK
  <2>2. row' = [row EXCEPT ![cur] = [old EXCEPT !.status = job[cur]]]
    BY <1>8 DEF RecordTerminal, Write
  <2>3. QED
    BY <1>1, <1>8, <2>1, <2>2 DEF FieldsMove, TuningRow
<1>9. CASE DeployAhead
  <2>1. old.state = "submitted"
    BY <1>9 DEF DeployAhead, At, PlaceOK, Measuring
  <2>2. row' = [row EXCEPT ![cur] = [old EXCEPT !.deployed = TRUE]]
    BY <1>9 DEF DeployAhead, Write
  <2>3. QED
    BY <1>1, <1>9, <2>1, <2>2 DEF FieldsMove, TuningRow
<1>10. CASE RecordEndpoint
  <2>1. old.state = "submitted"
    BY <1>10 DEF RecordEndpoint, At, PlaceOK, Measuring
  <2>2. row' = [row EXCEPT ![cur] = [old EXCEPT !.endpoint = Len(endpoint[cur])]]
    BY <1>10 DEF RecordEndpoint, Write
  <2>3. QED
    BY <1>1, <1>10, <2>1, <2>2 DEF FieldsMove, TuningRow
<1>11. CASE (Tick \/ TickerEnds) /\ row' # row
  <2>1. SettleServeTick /\ ticker
    BY <1>11 DEF Tick, TickerEnds
  <2>2. old.state = "submitted"
    BY <2>1 DEF PlaceOK, MinutesOK, Measuring
  <2>3. \E m, c : row' = [row EXCEPT ![cur] = [old EXCEPT !.minutes = m, !.cost = c]]
    BY <1>11, <2>1 DEF SettleServeTick, Write
  <2>4. QED
    BY <1>1, <1>11, <2>2, <2>3 DEF FieldsMove, TuningRow
<1>12. CASE MarkVerdict
  <2>1. /\ old.state = "submitted" /\ rec.state = "submitted"
        /\ old.status = "succeeded" /\ rec.status = "succeeded"
    BY <1>12 DEF MarkVerdict, At, PlaceOK, RecOK, Measuring
  <2>2. row' = [row EXCEPT ![cur] = [rec EXCEPT !.verdict = TRUE]]
    BY <1>12 DEF MarkVerdict, Write
  <2>3. QED
    BY <1>1, <1>12, <2>1, <2>2 DEF FieldsMove, TuningRow
<1>13. QED
  BY <1>2, <1>3, <1>4, <1>5, <1>6, <1>7, <1>8, <1>9, <1>10, <1>11, <1>12, Changes

-----------------------------------------------------------------------------
(* How Run comes to a place. *)

\* Run does not move.
Rests == pc' = pc /\ cur' = cur

(* A place is reached by the step before it.                                *)
LEMMA Arrivals ==
    ASSUME BridgeNext
    PROVE  /\ pc' = "send" => Rests \/ WriteAhead
           /\ pc' = "await" => Rests \/ Submit
           /\ pc' = "poll" => Rests \/ adoptOrAbandon \/ AlreadySubmitted \/ RecordSubmitted
           /\ pc' = "reconcile" => Rests \/ RecordOvershoot
           /\ pc' = "measure" => Rests \/ RecordTerminal
           /\ pc' = "deploy" => Rests \/ measureGroup
           /\ pc' = "ask" => Rests \/ DeployAhead
           /\ pc' = "deploying" => Rests \/ Deploy
           /\ pc' = "announce" => Rests \/ RecordEndpoint
           /\ pc' = "measuring" => Rests \/ Serve
           /\ pc' = "record" => Rests \/ MeasureReturns
           /\ pc' = "stopTick" => Rests \/ recordScores
           /\ pc' = "teardown" => Rests \/ stopTick
           /\ pc' = "markTornDown" => Rests \/ Teardown
           /\ pc' = "verdict" => Rests \/ measureGroup \/ MarkTornDown
           /\ pc' = "mark" => Rests \/ emitVerdict
           /\ pc' = "sweepSettle" => Rests \/ SweepList \/ SweepTeardown
           /\ pc' = "sweepMark" => Rests \/ settleSweptMinutes
<1> USE DEF BridgeNext, Provider, Process, Sweep, Start, SweepSkip, SweepList, SweepTeardown,
       settleSweptMinutes, SweepOrphan, SweepMark, WriteAhead, adoptOrAbandon, AlreadySubmitted, Submit,
       RecordSubmitted, RecordOvershoot, RecordTerminal, measureGroup, DeployAhead, Deploy,
       RecordEndpoint, Serve, MeasureReturns, recordScores, Tick, TickerEnds, stopTick, Teardown,
       MarkTornDown, emitVerdict, MarkVerdict, Fails, Cancel, Crash, Land, JobEnds, EndpointMoves,
       Minute
<1>1. pc' = "send" => Rests \/ WriteAhead
  BY DEF SweepNext, NextGroup, Gone, Stays, Rests
<1>2. pc' = "await" => Rests \/ Submit
  BY DEF SweepNext, NextGroup, Gone, Stays, Rests
<1>3. pc' = "poll" => Rests \/ adoptOrAbandon \/ AlreadySubmitted \/ RecordSubmitted
  BY DEF SweepNext, NextGroup, Gone, Stays, Rests
<1>4. pc' = "reconcile" => Rests \/ RecordOvershoot
  BY DEF SweepNext, NextGroup, Gone, Stays, Rests
<1>5. pc' = "measure" => Rests \/ RecordTerminal
  BY DEF SweepNext, NextGroup, Gone, Stays, Rests
<1>6. pc' = "deploy" => Rests \/ measureGroup
  BY DEF SweepNext, NextGroup, Gone, Stays, Rests
<1>7. pc' = "ask" => Rests \/ DeployAhead
  BY DEF SweepNext, NextGroup, Gone, Stays, Rests
<1>8. pc' = "deploying" => Rests \/ Deploy
  BY DEF SweepNext, NextGroup, Gone, Stays, Rests
<1>9. pc' = "announce" => Rests \/ RecordEndpoint
  BY DEF SweepNext, NextGroup, Gone, Stays, Rests
<1>10. pc' = "measuring" => Rests \/ Serve
  BY DEF SweepNext, NextGroup, Gone, Stays, Rests
<1>11. pc' = "record" => Rests \/ MeasureReturns
  BY DEF SweepNext, NextGroup, Gone, Stays, Rests
<1>12. pc' = "stopTick" => Rests \/ recordScores
  BY DEF SweepNext, NextGroup, Gone, Stays, Rests
<1>13. pc' = "teardown" => Rests \/ stopTick
  BY DEF SweepNext, NextGroup, Gone, Stays, Rests
<1>14. pc' = "markTornDown" => Rests \/ Teardown
  BY DEF SweepNext, NextGroup, Gone, Stays, Rests
<1>15. pc' = "verdict" => Rests \/ measureGroup \/ MarkTornDown
  BY DEF SweepNext, NextGroup, Gone, Stays, Rests
<1>16. pc' = "mark" => Rests \/ emitVerdict
  BY DEF SweepNext, NextGroup, Gone, Stays, Rests
<1>17. pc' = "sweepSettle" => Rests \/ SweepList \/ SweepTeardown
  BY DEF SweepNext, NextGroup, Gone, Stays, Rests
<1>18. pc' = "sweepMark" => Rests \/ settleSweptMinutes
  BY DEF SweepNext, NextGroup, Gone, Stays, Rests
<1>19. QED
  BY <1>1, <1>2, <1>3, <1>4, <1>5, <1>6, <1>7, <1>8, <1>9, <1>10, <1>11, <1>12, <1>13, <1>14, <1>15,
     <1>16, <1>17, <1>18

(* Submissions begin where the sweep is through, or a group is.             *)
LEMMA SubmitArrivals ==
    ASSUME BridgeNext, pc' = "submit"
    PROVE  \/ Rests
           \/ (SweepSkip \/ SweepMark) /\ cur' = 1
           \/ (adoptOrAbandon \/ AlreadySubmitted \/ RecordTerminal \/ measureGroup \/ MarkTornDown
                 \/ MarkVerdict) /\ cur' = cur + 1
<1> USE DEF BridgeNext, Provider, Process, Sweep, Start, SweepSkip, SweepList, SweepTeardown,
       settleSweptMinutes, SweepOrphan, SweepMark, WriteAhead, adoptOrAbandon, AlreadySubmitted, Submit,
       RecordSubmitted, RecordOvershoot, RecordTerminal, measureGroup, DeployAhead, Deploy,
       RecordEndpoint, Serve, MeasureReturns, recordScores, Tick, TickerEnds, stopTick, Teardown,
       MarkTornDown, emitVerdict, MarkVerdict, Fails, Cancel, Crash, Land, JobEnds, EndpointMoves,
       Minute
<1> QED
  BY DEF SweepNext, NextGroup, Gone, Stays, Rests

(* From the submission on, Run stays with its group.                        *)
LEMMA StaysWithGroup ==
    ASSUME BridgeNext, pc' \notin {"down", "sweep", "sweepSettle", "sweepMark", "submit"}
    PROVE  cur' = cur /\ pc \notin {"down", "sweep", "sweepSettle", "sweepMark"}
<1> USE DEF BridgeNext, Provider, Process, Sweep, Start, SweepSkip, SweepList, SweepTeardown,
       settleSweptMinutes, SweepOrphan, SweepMark, WriteAhead, adoptOrAbandon, AlreadySubmitted, Submit,
       RecordSubmitted, RecordOvershoot, RecordTerminal, measureGroup, DeployAhead, Deploy,
       RecordEndpoint, Serve, MeasureReturns, recordScores, Tick, TickerEnds, stopTick, Teardown,
       MarkTornDown, emitVerdict, MarkVerdict, Fails, Cancel, Crash, Land, JobEnds, EndpointMoves,
       Minute
<1> DEFINE before == {"down", "sweep", "sweepSettle", "sweepMark"}
<1>1. cur' = cur
  BY DEF SweepNext, NextGroup, Gone, Stays
<1>2. pc \notin before
  BY DEF SweepNext, NextGroup, Gone, Stays, At
<1>3. QED
  BY <1>1, <1>2

-----------------------------------------------------------------------------
(* What a row says of its job. *)

(* A job that has ended is not asked for again, and stays as it ended.      *)
LEMMA EndedStays ==
    ASSUME BridgeTypeOK, PlaceOK, NEW g \in Group, Ended(g), BridgeNext
    PROVE  Ended(g)' /\ job'[g] = job[g]
<1>1. cur \in Group /\ job \in [Group -> {"none", "sent", "running", "succeeded", "failed"}]
  BY DEF BridgeTypeOK
<1>2. ASSUME NEW h \in Group, Land(h) \/ JobEnds(h)
      PROVE  job'[g] = job[g]
  BY <1>1, <1>2 DEF Land, JobEnds, Ended
<1>3. CASE Submit
  <2>1. job[cur] = "none" /\ job' = [job EXCEPT ![cur] = "sent"]
    BY <1>3 DEF Submit, At, PlaceOK
  <2>2. QED
    BY <1>1, <2>1 DEF Ended
<1>4. job'[g] = job[g]
  BY <1>2, <1>3, Changes
<1>5. QED
  BY <1>4 DEF Ended

(* A job is requested once, from a row that says so, and ends once; a row   *)
(* is written in the order of those steps.                                  *)
LEMMA StepJobs ==
    ASSUME BridgeTypeOK, JobOK, PlaceOK, RecOK, MinutesOK, BridgeNext
    PROVE  JobOK'
<1>1. /\ cur \in Group /\ FieldsMove
      /\ job \in [Group -> {"none", "sent", "running", "succeeded", "failed"}]
      /\ submits \in [Group -> Nat]
  BY WriteEffects DEF BridgeTypeOK
<1>2. Submit => /\ job[cur] = "none" /\ row[cur].state = "submitting" /\ row' = row
                /\ job' = [job EXCEPT ![cur] = "sent"] /\ submits' = [submits EXCEPT ![cur] = @ + 1]
  BY DEF Submit, At, PlaceOK, store
<1>3. ASSUME NEW g \in Group
      PROVE  submits'[g] = (IF job'[g] = "none" THEN 0 ELSE 1)
  <2>1. submits[g] = (IF job[g] = "none" THEN 0 ELSE 1)
    BY DEF JobOK
  <2>2. ASSUME NEW h \in Group, Land(h) \/ JobEnds(h)
        PROVE  submits' = submits /\ (job'[g] = "none" <=> job[g] = "none")
    BY <1>1, <2>2 DEF Land, JobEnds, history
  <2>3. CASE Submit
    BY <1>1, <1>2, <2>1, <2>3
  <2>4. QED
    BY <2>1, <2>2, <2>3, Changes
<1>4. \A g \in Group : Ended(g) => Ended(g)'
  BY EndedStays
<1>5. ASSUME NEW g \in Group, row'[g].state = "none"
      PROVE  row'[g] = NoRow /\ job'[g] = "none"
  <2>1. row'[g] = row[g]
    BY <1>1, <1>5 DEF FieldsMove
  <2>2. row[g] = NoRow /\ job[g] = "none" /\ ~Ended(g)
    BY <1>5, <2>1 DEF JobOK, Ended
  <2>3. Submit => g # cur
    BY <1>2, <1>5
  <2>4. Submit => job'[g] = job[g]
    BY <1>1, <1>2, <2>3
  <2>5. ASSUME NEW h \in Group, Land(h) \/ JobEnds(h)  PROVE job'[g] = job[g]
    BY <1>1, <2>2, <2>5 DEF Land, JobEnds
  <2>6. QED
    BY <2>1, <2>2, <2>4, <2>5, Changes
<1>6. ASSUME NEW g \in Group, row'[g].status # "none"
      PROVE  Ended(g)'
  <2>1. CASE row'[g].status = row[g].status
    BY <1>4, <1>6, <2>1 DEF JobOK
  <2>2. CASE row'[g].status # row[g].status
    <3>1. g = cur /\ RecordTerminal
      BY <1>1, <2>2 DEF FieldsMove
    <3>2. Ended(g)
      BY <3>1 DEF RecordTerminal, At, PlaceOK
    <3>3. QED
      BY <1>4, <3>2
  <2>3. QED
    BY <2>1, <2>2
<1>7. QED
  BY <1>3, <1>5, <1>6 DEF JobOK

-----------------------------------------------------------------------------
(* What Run has seen to when it is at a place. *)

(* A job the row counts stays counted.                                      *)
LEMMA CountedStays ==
    ASSUME BridgeTypeOK, JobOK, PlaceOK, RecOK, MinutesOK, BridgeNext, NEW g \in Group,
           row[g].state \in {"submitted", "abandoned"}
    PROVE  row'[g].state = row[g].state
<1>1. FieldsMove
  BY WriteEffects
<1>2. WriteAhead => row[cur].state = "none"
  BY DEF WriteAhead
<1>3. adoptOrAbandon \/ RecordSubmitted => row[cur].state = "submitting"
  BY DEF adoptOrAbandon, RecordSubmitted, At, PlaceOK
<1>4. QED
  BY <1>1, <1>2, <1>3 DEF FieldsMove

(* Every step finds what the step before it left.                           *)
LEMMA StepPlaceOK ==
    ASSUME BridgeTypeOK, JobOK, PlaceOK, RecOK, MinutesOK, BridgeNext
    PROVE  PlaceOK'
<1> DEFINE before == {"down", "sweep", "sweepSettle", "sweepMark"}
           counted == {"submitted", "abandoned"}
           working == {"poll", "reconcile", "measure"} \cup Measuring
<1>1. /\ cur \in Group /\ FieldsMove /\ Groups \in Nat /\ Group = 1..Groups
      /\ row \in [Group -> TuningRow]
      /\ job \in [Group -> {"none", "sent", "running", "succeeded", "failed"}]
  BY WriteEffects, Numbers DEF BridgeTypeOK
<1>2. pc' \in {"sweepSettle", "sweepMark"} => row'[cur'].state # "none"
  <2>1. SUFFICES ASSUME pc' \in {"sweepSettle", "sweepMark"}
                 PROVE  cur' = cur /\ row[cur].state # "none"
    BY <1>1 DEF FieldsMove
  <2>2. CASE Rests
    BY <2>1, <2>2 DEF Rests, PlaceOK
  <2>3. CASE SweepList \/ SweepTeardown
    BY <1>1, <2>3 DEF SweepList, SweepTeardown, Sweepable, JobOK, NoRow
  <2>4. CASE settleSweptMinutes
    BY <2>4 DEF settleSweptMinutes, At, PlaceOK
  <2>5. QED
    BY <2>1, <2>2, <2>3, <2>4, Arrivals
<1>3. pc' = "send" => job'[cur'] = "none"
  <2>1. SUFFICES ASSUME pc' = "send"  PROVE job'[cur'] = "none"
    OBVIOUS
  <2>2. cur' = cur /\ job[cur] = "none"
    <3>1. CASE Rests
      BY <2>1, <3>1 DEF Rests, PlaceOK
    <3>2. CASE WriteAhead
      BY <1>1, <3>2 DEF WriteAhead, JobOK
    <3>3. QED
      BY <2>1, <3>1, <3>2, Arrivals
  <2>3. ~Submit
    BY <2>1 DEF Submit
  <2>4. ASSUME NEW h \in Group, Land(h) \/ JobEnds(h)  PROVE job'[cur] = "none"
    BY <1>1, <2>2, <2>4 DEF Land, JobEnds
  <2>5. QED
    BY <2>2, <2>3, <2>4, Changes
<1>4. pc' \in {"send", "await"} => row'[cur'].state = "submitting"
  <2>1. SUFFICES ASSUME pc' \in {"send", "await"}  PROVE row'[cur'].state = "submitting"
    OBVIOUS
  <2>2. CASE WriteAhead
    BY <1>1, <2>2 DEF WriteAhead, Write, NoRow
  <2>3. CASE Submit
    BY <2>3 DEF Submit, store, At, PlaceOK
  <2>4. CASE Rests
    <3>1. row[cur].state = "submitting" /\ pc \in {"send", "await"} /\ cur' = cur
      BY <2>1, <2>4 DEF Rests, PlaceOK
    <3>2. ~WriteAhead /\ ~adoptOrAbandon /\ ~RecordSubmitted
      BY <2>1, <3>1 DEF WriteAhead, adoptOrAbandon, RecordSubmitted, At
    <3>3. QED
      BY <1>1, <3>1, <3>2 DEF FieldsMove
  <2>5. QED
    BY <2>1, <2>2, <2>3, <2>4, Arrivals
<1>5. pc' \in working => row'[cur'].state = "submitted"
  <2>1. SUFFICES ASSUME pc' \in working  PROVE row'[cur'].state = "submitted"
    OBVIOUS
  <2>2. cur' = cur
    BY <2>1, StaysWithGroup DEF Measuring
  <2>3. CASE pc \in working
    <3>1. row[cur].state = "submitted"
      BY <2>3 DEF PlaceOK
    <3>2. QED
      BY <1>1, <2>2, <3>1, CountedStays
  <2>4. CASE adoptOrAbandon /\ pc' = "poll"
    BY <1>1, <2>2, <2>4 DEF adoptOrAbandon, NextGroup, Write, TuningRow
  <2>5. CASE AlreadySubmitted /\ pc' = "poll"
    BY <2>2, <2>5 DEF AlreadySubmitted, NextGroup, store
  <2>6. CASE RecordSubmitted
    BY <1>1, <2>2, <2>6 DEF RecordSubmitted, Write
  <2>7. pc' = "poll" \/ pc \in working
    BY <2>1, Arrivals DEF Rests, Measuring, RecordOvershoot, RecordTerminal, measureGroup, DeployAhead,
       Deploy, RecordEndpoint, Serve, MeasureReturns, recordScores, stopTick, Teardown, MarkTornDown,
       emitVerdict, At
  <2>8. pc' = "poll" => pc \in working \/ adoptOrAbandon \/ AlreadySubmitted \/ RecordSubmitted
    BY Arrivals DEF Rests
  <2>9. QED
    BY <2>3, <2>4, <2>5, <2>6, <2>7, <2>8
<1>6. pc' \notin before => \A g \in 1..(cur' - 1) : row'[g].state \in counted
  <2>1. SUFFICES ASSUME pc' \notin before, NEW g \in 1..(cur' - 1)
                 PROVE  row'[g].state \in counted
    OBVIOUS
  <2>2. cur' \in 1..Groups
    BY <1>1, StepPlaces
  <2>3. g \in Group /\ g \in Nat
    <3>1. \A c \in 1..Groups : \A h \in 1..(c - 1) : h \in 1..Groups /\ h \in Nat
      BY Numbers
    <3>2. QED
      BY <1>1, <2>1, <2>2, <3>1
  <2>4. ASSUME pc \notin before, g \in 1..(cur - 1)  PROVE row'[g].state \in counted
    <3>1. row[g].state \in counted
      BY <2>4 DEF PlaceOK
    <3>2. QED
      BY <2>3, <3>1, CountedStays
  <2>5. CASE pc' # "submit"
    BY <2>1, <2>4, <2>5, StaysWithGroup
  <2>6. CASE pc' = "submit" /\ Rests
    BY <2>1, <2>4, <2>6 DEF Rests
  <2>7. CASE cur' = 1
    BY <2>1, <2>3, <2>7
  <2>8. CASE /\ pc' = "submit" /\ cur' = cur + 1
             /\ \/ adoptOrAbandon \/ AlreadySubmitted \/ RecordTerminal \/ measureGroup
                \/ MarkTornDown \/ MarkVerdict
    <3>1. pc \notin before
      BY <2>8 DEF adoptOrAbandon, AlreadySubmitted, RecordTerminal, measureGroup, MarkTornDown,
         MarkVerdict, At
    <3>2. CASE g \in 1..(cur - 1)
      BY <2>4, <3>1, <3>2
    <3>3. CASE g = cur
      <4>1. CASE adoptOrAbandon
        BY <1>1, <2>8, <3>3, <4>1 DEF adoptOrAbandon, Write, TuningRow
      <4>2. CASE ~adoptOrAbandon
        <5>1. row[cur].state \in counted
          BY <2>8, <4>2 DEF AlreadySubmitted, RecordTerminal, measureGroup, MarkTornDown, MarkVerdict,
             At, PlaceOK, Measuring
        <5>2. QED
          BY <1>1, <3>3, <5>1, CountedStays
      <4>3. QED
        BY <4>1, <4>2
    <3>4. QED
      BY <1>1, <2>1, <2>8, <3>2, <3>3
  <2>9. QED
    BY <2>5, <2>6, <2>7, <2>8, SubmitArrivals
<1>7. pc' = "reconcile" => Ended(cur) /\ cur' = cur
  BY Arrivals DEF Rests, RecordOvershoot, PlaceOK
<1>8. pc' = "reconcile" => job'[cur'] \in {"succeeded", "failed"}
  BY <1>1, <1>7, EndedStays DEF Ended
<1>9. pc' = "record" => got' <= Cases - scored'[cur']
  <2>1. SUFFICES ASSUME pc' = "record"  PROVE got' <= Cases - scored'[cur']
    OBVIOUS
  <2>2. got \in 0..Cases /\ scored[cur] \in 0..Cases /\ Cases \in Nat
    BY <1>1, Numbers DEF BridgeTypeOK
  <2>3. scored' = scored
    BY <2>1, Changes DEF recordScores
  <2>4. CASE MeasureReturns
    BY <2>2, <2>3, <2>4 DEF MeasureReturns, Missing
  <2>5. CASE Rests
    <3>1. got <= Cases - scored[cur] /\ pc = "record"
      BY <2>1, <2>5 DEF Rests, PlaceOK, Missing
    <3>2. got' = got \/ got' = 0
      BY <3>1, LocalChanges DEF MeasureReturns
    <3>3. QED
      BY <2>2, <2>3, <2>5, <3>1, <3>2 DEF Rests
  <2>6. QED
    BY <2>1, <2>4, <2>5, Arrivals
<1>10. QED
  BY <1>2, <1>3, <1>4, <1>5, <1>6, <1>8, <1>9 DEF PlaceOK, Ended, Missing

-----------------------------------------------------------------------------
(* What happens to endpoints. *)

(* Replacing a request leaves the others, and the number of them.           *)
LEMMA EndpointPut ==
    ASSUME NEW s \in Seq(Endpoint), NEW i \in DOMAIN s, NEW e, NEW t, t = [s EXCEPT ![i] = e]
    PROVE  /\ Len(t) = Len(s) /\ DOMAIN t = DOMAIN s /\ t[i] = e
           /\ \A j \in DOMAIN s : j # i => t[j] = s[j]
<1>1. DOMAIN t = DOMAIN s /\ t[i] = e /\ \A j \in DOMAIN s : j # i => t[j] = s[j]
  OBVIOUS
<1>2. DOMAIN s = 1..Len(s) /\ Len(s) \in Nat
  OBVIOUS
<1>3. Len(t) = Len(s)
  BY <1>1, <1>2
<1>4. QED
  BY <1>1, <1>3

(* An endpoint once gone stays so, a request once made stays on the list,   *)
(* and what is billed is billed for good.                                   *)
LEMMA EndpointEffects ==
    ASSUME BridgeTypeOK, EndpointsOK, BridgeNext, NEW g \in Group
    PROVE  /\ \/ Len(endpoint'[g]) = Len(endpoint[g])
              \/ /\ Deploy /\ g = cur
                 /\ endpoint'[g] = Append(endpoint[g], [at |-> "asked", billed |-> 0])
           /\ \A i \in DOMAIN endpoint[g] :
                 /\ i \in DOMAIN endpoint'[g]
                 /\ endpoint[g][i].at = "gone" => endpoint'[g][i].at = "gone"
                 /\ \/ endpoint'[g][i].billed = endpoint[g][i].billed
                    \/ Minute(g, i) /\ endpoint'[g][i].billed = endpoint[g][i].billed + 1
<1> DEFINE s == endpoint[g]
           t == endpoint'[g]
<1>1. s \in Seq(Endpoint) /\ endpoint \in [Group -> Seq(Endpoint)] /\ cur \in Group
  BY DEF BridgeTypeOK
<1>2. \A i \in DOMAIN s : s[i] \in Endpoint
  BY EndpointAt
<1>3. CASE t = s
  BY <1>3
<1>4. ASSUME NEW h \in Group, NEW i \in DOMAIN endpoint[h], EndpointMoves(h, i), t # s
      PROVE  \E p \in {"starting", "ready"} : t = [s EXCEPT ![i] = [s[i] EXCEPT !.at = p]]
             /\ i \in DOMAIN s /\ s[i].at # "gone"
  <2>1. h = g
    BY <1>1, <1>4 DEF EndpointMoves
  <2>2. endpoint' = [endpoint EXCEPT ![g][i].at = IF @ = "asked" THEN "starting" ELSE "ready"]
        /\ s[i].at # "gone"
    BY <1>4, <2>1 DEF EndpointMoves
  <2>3. QED
    BY <1>1, <1>4, <2>1, <2>2
<1>5. ASSUME NEW h \in Group, NEW i \in DOMAIN endpoint[h], Minute(h, i), t # s
      PROVE  t = [s EXCEPT ![i] = [s[i] EXCEPT !.billed = @ + 1]] /\ h = g
  <2>1. h = g
    BY <1>1, <1>5 DEF Minute
  <2>2. QED
    BY <1>1, <1>5, <2>1 DEF Minute
<1>6. ASSUME SweepTeardown \/ Teardown, t # s
      PROVE  \E i \in DOMAIN s : t = [s EXCEPT ![i] = [s[i] EXCEPT !.at = "gone"]]
  <2>1. \E i \in DOMAIN endpoint[cur] : Removed(cur, i)
    <3>1. CASE SweepTeardown
      <4>1. row[cur].endpoint \in DOMAIN endpoint[cur]
        <5>1. row[cur].endpoint \in Nat /\ row[cur].endpoint # 0
          BY <1>1, <3>1 DEF SweepTeardown, BridgeTypeOK, TuningRow
        <5>2. row[cur].endpoint <= Len(endpoint[cur]) /\ endpoint[cur] \in Seq(Endpoint)
          BY <1>1 DEF EndpointsOK
        <5>3. QED
          BY <5>1, <5>2
      <4>2. QED
        BY <3>1, <4>1 DEF SweepTeardown
    <3>2. CASE Teardown
      <4>1. mine \in DOMAIN endpoint[cur]
        BY <1>1, <3>2 DEF Teardown, At, EndpointsOK, BridgeTypeOK
      <4>2. QED
        BY <1>1, <1>6, <3>2, <4>1 DEF Teardown
    <3>3. QED
      BY <1>6, <3>1, <3>2
  <2>2. PICK i \in DOMAIN endpoint[cur] : Removed(cur, i)
    BY <2>1
  <2>3. g = cur
    BY <1>1, <1>6, <2>2 DEF Removed
  <2>4. t = [s EXCEPT ![i].at = "gone"]
    BY <1>1, <2>2, <2>3 DEF Removed
  <2>5. t = [s EXCEPT ![i] = [s[i] EXCEPT !.at = "gone"]] /\ i \in DOMAIN s
    BY <1>1, <2>2, <2>3, <2>4
  <2>6. QED
    BY <2>5
<1>7. CASE Deploy /\ t # s
  <2>1. g = cur /\ t = Append(s, [at |-> "asked", billed |-> 0])
    BY <1>1, <1>7 DEF Deploy
  <2>2. QED
    BY <1>1, <1>7, <2>1
<1>8. ASSUME NEW h \in Group, NEW i \in DOMAIN endpoint[h], EndpointMoves(h, i), t # s
      PROVE  /\ Len(t) = Len(s) /\ DOMAIN t = DOMAIN s
             /\ \A j \in DOMAIN s : /\ s[j].at = "gone" => t[j].at = "gone"
                                    /\ t[j].billed = s[j].billed
  <2>1. PICK p \in {"starting", "ready"} : t = [s EXCEPT ![i] = [s[i] EXCEPT !.at = p]]
    BY <1>4, <1>8
  <2>2. i \in DOMAIN s /\ s[i].at # "gone" /\ s[i] \in Endpoint
    BY <1>2, <1>4, <1>8
  <2>3. [s[i] EXCEPT !.at = p].billed = s[i].billed
    BY <2>2 DEF Endpoint
  <2>4. QED
    BY <1>1, <2>1, <2>2, <2>3, EndpointPut
<1>9. ASSUME NEW h \in Group, NEW i \in DOMAIN endpoint[h], Minute(h, i), t # s
      PROVE  /\ Len(t) = Len(s) /\ DOMAIN t = DOMAIN s
             /\ \A j \in DOMAIN s : /\ s[j].at = "gone" => t[j].at = "gone"
                                    /\ \/ t[j].billed = s[j].billed
                                       \/ Minute(g, j) /\ t[j].billed = s[j].billed + 1
  <2>1. t = [s EXCEPT ![i] = [s[i] EXCEPT !.billed = @ + 1]] /\ i \in DOMAIN s /\ Minute(g, i)
    BY <1>5, <1>9
  <2>2. s[i] \in Endpoint
    BY <1>2, <2>1
  <2>3. [s[i] EXCEPT !.billed = @ + 1].billed = s[i].billed + 1
        /\ [s[i] EXCEPT !.billed = @ + 1].at = s[i].at
    BY <2>2 DEF Endpoint
  <2>4. QED
    BY <1>1, <2>1, <2>3, EndpointPut
<1>10. ASSUME SweepTeardown \/ Teardown, t # s
       PROVE  /\ Len(t) = Len(s) /\ DOMAIN t = DOMAIN s
              /\ \A j \in DOMAIN s : /\ s[j].at = "gone" => t[j].at = "gone"
                                     /\ t[j].billed = s[j].billed
  <2>1. PICK i \in DOMAIN s : t = [s EXCEPT ![i] = [s[i] EXCEPT !.at = "gone"]]
    BY <1>6, <1>10
  <2>2. s[i] \in Endpoint
    BY <1>2, <2>1
  <2>3. /\ [s[i] EXCEPT !.at = "gone"].billed = s[i].billed
        /\ [s[i] EXCEPT !.at = "gone"].at = "gone"
    BY <2>2 DEF Endpoint
  <2>4. QED
    BY <1>1, <2>1, <2>3, EndpointPut
<1>11. QED
  BY <1>3, <1>7, <1>8, <1>9, <1>10, Changes

-----------------------------------------------------------------------------
(* The copy of the row a measurement works from. *)

(* A measurement starts from the row it reads, and keeps that copy.         *)
LEMMA RecKept ==
    ASSUME BridgeNext, pc' \in Measuring
    PROVE  \/ rec' = rec /\ pc \in Measuring
           \/ /\ measureGroup /\ ~Reported /\ rec' = row[cur] /\ row' = row /\ cur' = cur
              /\ endpoint' = endpoint
<1> USE DEF BridgeNext, Provider, Process, Sweep, Start, SweepSkip, SweepList, SweepTeardown,
       settleSweptMinutes, SweepOrphan, SweepMark, WriteAhead, adoptOrAbandon, AlreadySubmitted, Submit,
       RecordSubmitted, RecordOvershoot, RecordTerminal, measureGroup, DeployAhead, Deploy,
       RecordEndpoint, Serve, MeasureReturns, recordScores, Tick, TickerEnds, stopTick, Teardown,
       MarkTornDown, emitVerdict, MarkVerdict, Fails, Cancel, Crash, Land, JobEnds, EndpointMoves,
       Minute
<1> QED
  BY DEF SweepNext, NextGroup, Gone, Stays, Measuring, At, store, provider

(* While a group is measured, the row is one whose job has succeeded and    *)
(* which has no verdict, and so is its copy.                                *)
LEMMA StepRec ==
    ASSUME BridgeTypeOK, JobOK, PlaceOK, RecOK, EndpointsOK, MinutesOK, BridgeNext
    PROVE  RecOK'
<1>1. cur \in Group /\ FieldsMove /\ AllIn \in Group /\ endpoint \in [Group -> Seq(Endpoint)]
  BY WriteEffects, Numbers DEF BridgeTypeOK
<1>2. ~row'[AllIn].verdict
  BY <1>1 DEF FieldsMove, RecOK, MarkVerdict, At
<1>3. pc' \in {"measure"} \cup Measuring => cur' = cur
  BY StaysWithGroup DEF Measuring
<1>4. pc' \in Measuring => ~row'[cur'].verdict
  <2>1. SUFFICES ASSUME pc' \in Measuring  PROVE ~row'[cur].verdict
    BY <1>3
  <2>2. ~MarkVerdict
    BY <2>1 DEF MarkVerdict, NextGroup, Measuring
  <2>3. ~row[cur].verdict
    BY <2>1, RecKept DEF RecOK, Reported
  <2>4. QED
    BY <1>1, <2>2, <2>3 DEF FieldsMove
<1>5. pc' \in {"measure"} \cup Measuring => row'[cur'].status = "succeeded"
  <2>1. SUFFICES ASSUME pc' \in {"measure"} \cup Measuring  PROVE row'[cur].status = "succeeded"
    BY <1>3
  <2>2. CASE RecordTerminal
    <3>1. job[cur] = "succeeded" /\ row[cur] \in TuningRow /\ row \in [Group -> TuningRow]
      BY <1>1, <2>1, <2>2 DEF RecordTerminal, NextGroup, Measuring, BridgeTypeOK
    <3>2. QED
      BY <1>1, <2>2, <3>1 DEF RecordTerminal, Write, TuningRow
  <2>3. CASE ~RecordTerminal
    <3>1. row[cur].status = "succeeded"
      BY <2>1, <2>3, Arrivals, RecKept DEF RecOK, Rests, measureGroup, At
    <3>2. QED
      BY <1>1, <2>3, <3>1 DEF FieldsMove
  <2>4. QED
    BY <2>2, <2>3
<1>6. ASSUME pc' \in Measuring
      PROVE  /\ rec'.state = "submitted" /\ rec'.status = "succeeded"
             /\ rec'.endpoint <= Len(endpoint'[cur'])
             /\ rec'.tornDown => endpoint'[cur'] # <<>>
  <2>1. CASE rec' = rec /\ pc \in Measuring
    <3>1. /\ rec.state = "submitted" /\ rec.status = "succeeded" /\ rec.endpoint <= Len(endpoint[cur])
          /\ rec.tornDown => endpoint[cur] # <<>>
      BY <2>1 DEF RecOK
    <3>2. /\ \/ Len(endpoint'[cur]) = Len(endpoint[cur])
             \/ endpoint'[cur] = Append(endpoint[cur], [at |-> "asked", billed |-> 0])
      BY <1>1, EndpointEffects
    <3>3. rec.endpoint \in Nat /\ endpoint[cur] \in Seq(Endpoint) /\ endpoint'[cur] \in Seq(Endpoint)
          /\ [at |-> "asked", billed |-> 0] \in Endpoint
      BY <1>1, StepTypes DEF BridgeTypeOK, TuningRow, Endpoint
    <3>4. Len(endpoint'[cur]) >= Len(endpoint[cur])
      BY <3>2, <3>3
    <3>5. endpoint[cur] # <<>> => endpoint'[cur] # <<>>
      BY <3>2, <3>3
    <3>6. Len(endpoint[cur]) \in Nat /\ Len(endpoint'[cur]) \in Nat
      BY <3>3
    <3>7. cur' = cur
      BY <1>3, <1>6
    <3>8. rec'.endpoint <= Len(endpoint'[cur'])
      BY <2>1, <3>1, <3>3, <3>4, <3>6, <3>7
    <3>9. QED
      BY <2>1, <3>1, <3>5, <3>7, <3>8
  <2>2. CASE measureGroup /\ rec' = row[cur] /\ row' = row /\ cur' = cur /\ endpoint' = endpoint
    BY <1>1, <2>2 DEF measureGroup, At, PlaceOK, RecOK, EndpointsOK, Measuring
  <2>3. QED
    BY <1>6, <2>1, <2>2, RecKept
<1>7. pc' \in {"verdict", "mark"} => cur' # AllIn
  <2>1. SUFFICES ASSUME pc' \in {"verdict", "mark"}  PROVE cur # AllIn
    BY <1>3 DEF Measuring
  <2>2. QED
    BY <2>1, Arrivals DEF Rests, measureGroup, MarkTornDown, emitVerdict, NextGroup, Gone, At, RecOK
<1>8. QED
  BY <1>2, <1>4, <1>5, <1>6, <1>7 DEF RecOK

-----------------------------------------------------------------------------
(* Overshoots. *)

(* The orphan spend only grows, and grows by one when an overshoot is seen. *)
LEMMA OrphanGrows ==
    ASSUME BridgeTypeOK, BridgeNext
    PROVE  /\ orphan' \in Nat /\ orphan' >= orphan
           /\ RecordOvershoot /\ over[cur] => orphan' = orphan + 1
<1>1. orphan \in Nat /\ owed \in Nat
  BY DEF BridgeTypeOK
<1>2. orphan' = orphan \/ orphan' = orphan + 1 \/ orphan' = orphan + owed
  BY Changes DEF RecordOvershoot, SweepOrphan
<1>3. RecordOvershoot /\ over[cur] => orphan' = orphan + 1
  BY DEF RecordOvershoot
<1>4. QED
  BY <1>1, <1>2, <1>3

(* No overshoot is due that the orphan spend does not hold.                 *)
LEMMA StepOvershoot ==
    ASSUME BridgeTypeOK, JobOK, PlaceOK, RecOK, MinutesOK, OvershootOK, BridgeNext
    PROVE  OvershootOK'
<1> DEFINE A == Overshot
           B == {g \in Group : over'[g] /\ (row'[g].status # "none" \/ (pc' = "reconcile" /\ g = cur'))}
<1>1. cur \in Group /\ FieldsMove /\ orphan \in Nat /\ orphan' \in Nat /\ over \in [Group -> BOOLEAN]
  <2>1. orphan' \in Nat
    BY OrphanGrows
  <2>2. QED
    BY <2>1, WriteEffects DEF BridgeTypeOK
<1>2. IsFiniteSet(A) /\ IsFiniteSet(B) /\ Cardinality(A) \in Nat /\ Cardinality(B) \in Nat
  <2>1. A \subseteq Group /\ B \subseteq Group
    BY DEF Overshot
  <2> HIDE DEF A, B
  <2>2. IsFiniteSet(A) /\ IsFiniteSet(B)
    BY <2>1, Numbers, FS_Subset
  <2>3. QED
    BY <2>2, FS_CardinalityType
<1>3. ASSUME NEW g \in B, g \notin A  PROVE g = cur /\ RecordOvershoot /\ over[cur]
  <2>1. CASE row'[g].status # "none"
    <3>1. CASE row'[g].status = row[g].status
      <4>1. ~over[g] /\ Ended(g)
        BY <1>3, <2>1, <3>1 DEF Overshot, JobOK
      <4>2. PICK h \in Group : JobEnds(h)
        BY <1>1, <1>3, <4>1, Changes
      <4>3. h = g
        BY <1>1, <1>3, <4>1, <4>2 DEF JobEnds
      <4>4. QED
        BY <4>1, <4>2, <4>3 DEF JobEnds, Ended
    <3>2. CASE row'[g].status # row[g].status
      <4>1. g = cur /\ RecordTerminal
        BY <1>1, <1>3, <3>2 DEF FieldsMove
      <4>2. over' = over /\ pc = "reconcile"
        BY <4>1 DEF RecordTerminal, provider, At
      <4>3. QED
        BY <1>3, <4>1, <4>2 DEF Overshot
    <3>3. QED
      BY <3>1, <3>2
  <2>2. CASE pc' = "reconcile" /\ g = cur'
    <3>1. CASE Rests
      <4>1. pc = "reconcile" /\ g = cur /\ Ended(cur)
        BY <2>2, <3>1 DEF Rests, PlaceOK
      <4>2. ~over[cur]
        BY <1>3, <4>1 DEF Overshot
      <4>3. PICK h \in Group : JobEnds(h)
        BY <1>3, <4>1, <4>2, Changes
      <4>4. h = cur
        BY <1>1, <1>3, <4>1, <4>2, <4>3 DEF JobEnds
      <4>5. QED
        BY <4>1, <4>3, <4>4 DEF JobEnds, Ended
    <3>2. CASE RecordOvershoot
      BY <1>3, <2>2, <3>2 DEF RecordOvershoot, provider
    <3>3. QED
      BY <2>2, <3>1, <3>2, Arrivals
  <2>3. QED
    BY <1>3, <2>1, <2>2
<1>4. orphan >= Cardinality(A)
  BY DEF OvershootOK
<1>5. orphan' >= orphan
  BY OrphanGrows
<1> HIDE DEF A, B
<1>6. CASE B \subseteq A
  <2>1. Cardinality(B) <= Cardinality(A)
    BY <1>2, <1>6, FS_Subset
  <2>2. QED
    BY <1>1, <1>2, <1>4, <1>5, <2>1 DEF OvershootOK, Overshot, B
<1>7. CASE ~(B \subseteq A)
  <2>1. RecordOvershoot /\ over[cur] /\ B \subseteq A \cup {cur} /\ cur \notin A
    BY <1>3, <1>7
  <2>2. orphan' = orphan + 1
    BY <2>1, OrphanGrows
  <2>3. IsFiniteSet(A \cup {cur}) /\ Cardinality(A \cup {cur}) = Cardinality(A) + 1
    BY <1>2, <2>1, FS_AddElement
  <2>4. Cardinality(B) <= Cardinality(A \cup {cur})
    BY <2>1, <2>3, FS_Subset
  <2>5. QED
    BY <1>1, <1>2, <1>4, <2>2, <2>3, <2>4 DEF OvershootOK, Overshot, B
<1>8. QED
  BY <1>6, <1>7

-----------------------------------------------------------------------------
(* Where endpoints are, by the rows. *)

\* From DeployGroup's return to the end of its teardown.
Serving == {"measuring", "record", "stopTick", "teardown", "markTornDown"}

(* The endpoint DeployGroup returned is the one in hand until it is torn    *)
(* down.                                                                    *)
LEMMA MineKept ==
    ASSUME BridgeNext, pc' \in Serving
    PROVE  cur' = cur /\ ((mine' = mine /\ pc \in Serving) \/ Serve)
<1> USE DEF BridgeNext, Provider, Process, Sweep, Start, SweepSkip, SweepList, SweepTeardown,
       settleSweptMinutes, SweepOrphan, SweepMark, WriteAhead, adoptOrAbandon, AlreadySubmitted, Submit,
       RecordSubmitted, RecordOvershoot, RecordTerminal, measureGroup, DeployAhead, Deploy,
       RecordEndpoint, Serve, MeasureReturns, recordScores, Tick, TickerEnds, stopTick, Teardown,
       MarkTornDown, emitVerdict, MarkVerdict, Fails, Cancel, Crash, Land, JobEnds, EndpointMoves,
       Minute
<1> QED
  BY DEF SweepNext, NextGroup, Gone, Stays, Serving, At, hosting

(* A recorded endpoint is one that was asked for.                           *)
LEMMA StepRecorded ==
    ASSUME BridgeTypeOK, JobOK, PlaceOK, RecOK, EndpointsOK, MinutesOK, BridgeNext, NEW g \in Group
    PROVE  row'[g].endpoint <= Len(endpoint'[g]) /\ (row'[g].tornDown => endpoint'[g] # <<>>)
<1>1. /\ cur \in Group /\ FieldsMove /\ endpoint[g] \in Seq(Endpoint) /\ endpoint'[g] \in Seq(Endpoint)
      /\ row \in [Group -> TuningRow] /\ row[g] \in TuningRow /\ row'[g] \in TuningRow /\ rec \in TuningRow
  BY WriteEffects, StepTypes DEF BridgeTypeOK
<1>2. Len(endpoint'[g]) \in Nat /\ Len(endpoint[g]) \in Nat /\ Len(endpoint'[g]) >= Len(endpoint[g])
  <2>1. [at |-> "asked", billed |-> 0] \in Endpoint
    BY DEF Endpoint
  <2>2. \/ Len(endpoint'[g]) = Len(endpoint[g])
        \/ endpoint'[g] = Append(endpoint[g], [at |-> "asked", billed |-> 0])
    BY EndpointEffects
  <2>3. QED
    BY <1>1, <2>1, <2>2
<1>3. row[g].endpoint <= Len(endpoint[g]) /\ (row[g].tornDown => endpoint[g] # <<>>)
  BY DEF EndpointsOK
<1>4. row'[g].endpoint <= Len(endpoint[g])
  <2>1. CASE row'[g].endpoint = row[g].endpoint
    BY <1>3, <2>1
  <2>2. CASE SweepList /\ g = cur /\ row'[g].endpoint # row[g].endpoint
    <3>1. PICK i \in Exists(cur) : row' = [row EXCEPT ![cur] = [row[cur] EXCEPT !.endpoint = i]]
      BY <2>2 DEF SweepList, Write
    <3>2. i \in DOMAIN endpoint[g] /\ row'[g].endpoint = i
      BY <1>1, <2>2, <3>1 DEF Exists, TuningRow
    <3>3. QED
      BY <1>1, <3>2
  <2>3. CASE RecordEndpoint /\ g = cur
    <3>1. row'[g].endpoint = Len(endpoint[g])
      BY <1>1, <2>3 DEF RecordEndpoint, Write, TuningRow
    <3>2. QED
      BY <1>2, <3>1
  <2>4. CASE MarkVerdict /\ g = cur
    <3>1. row'[g].endpoint = rec.endpoint
      BY <1>1, <2>4 DEF MarkVerdict, Write, TuningRow
    <3>2. QED
      BY <2>4, <3>1 DEF MarkVerdict, At, RecOK, Measuring
  <2>5. QED
    BY <1>1, <2>1, <2>2, <2>3, <2>4 DEF FieldsMove
<1>5. row'[g].tornDown => endpoint[g] # <<>>
  <2>1. CASE row'[g].tornDown = row[g].tornDown
    BY <1>3, <2>1
  <2>2. CASE SweepMark /\ g = cur /\ row'[g].tornDown # row[g].tornDown
    <3>1. row[g].endpoint # 0
      BY <2>2 DEF SweepMark
    <3>2. Len(endpoint[g]) > 0
      BY <1>1, <1>2, <1>3, <3>1 DEF TuningRow
    <3>3. QED
      BY <1>1, <3>2
  <2>3. CASE MarkTornDown /\ g = cur
    <3>1. Len(endpoint[g]) > 0
      BY <2>3 DEF MarkTornDown, At, EndpointsOK
    <3>2. QED
      BY <1>1, <3>1
  <2>4. CASE MarkVerdict /\ g = cur
    <3>1. row'[g].tornDown = rec.tornDown
      BY <1>1, <2>4 DEF MarkVerdict, Write, TuningRow
    <3>2. QED
      BY <2>4, <3>1 DEF MarkVerdict, At, RecOK, Measuring
  <2>5. QED
    BY <1>1, <2>1, <2>2, <2>3, <2>4 DEF FieldsMove
<1>6. endpoint[g] # <<>> => endpoint'[g] # <<>>
  <2>1. endpoint[g] # <<>> => Len(endpoint[g]) > 0
    BY <1>1
  <2>2. QED
    BY <1>1, <1>2, <2>1
<1>7. row'[g].endpoint \in Nat
  BY <1>1 DEF TuningRow
<1>8. QED
  BY <1>2, <1>4, <1>5, <1>6, <1>7

(* The one endpoint of a group that is not gone can be swept: its row says  *)
(* there was an attempt, and not that it is torn down.                      *)
LEMMA StepSweepable ==
    ASSUME BridgeTypeOK, JobOK, PlaceOK, RecOK, EndpointsOK, MinutesOK, BridgeNext, NEW g \in Group,
           Len(endpoint'[g]) = 1, endpoint'[g][1].at # "gone"
    PROVE  Sweepable(row'[g])
<1>1. /\ cur \in Group /\ FieldsMove /\ endpoint[g] \in Seq(Endpoint)
      /\ row \in [Group -> TuningRow] /\ row[g] \in TuningRow /\ row'[g] \in TuningRow /\ rec \in TuningRow
  BY WriteEffects, StepTypes DEF BridgeTypeOK
<1>2. CASE Len(endpoint'[g]) # Len(endpoint[g])
  <2>1. Deploy /\ g = cur /\ endpoint'[g] = Append(endpoint[g], [at |-> "asked", billed |-> 0])
    BY <1>2, EndpointEffects
  <2>2. [at |-> "asked", billed |-> 0] \in Endpoint
    BY DEF Endpoint
  <2>3. endpoint[g] = <<>>
    BY <1>1, <2>1, <2>2
  <2>4. row'[g] = row[g] /\ pc = "ask"
    BY <2>1 DEF Deploy, store, At
  <2>5. row[g].deployed /\ ~row[g].tornDown
    BY <2>1, <2>3, <2>4 DEF EndpointsOK
  <2>6. QED
    BY <2>4, <2>5 DEF Sweepable
<1>3. CASE Len(endpoint'[g]) = Len(endpoint[g])
  <2>1. Len(endpoint[g]) = 1 /\ 1 \in DOMAIN endpoint[g]
    BY <1>1, <1>3
  <2>2. endpoint[g][1].at # "gone"
    BY <2>1, EndpointEffects
  <2>3. Sweepable(row[g])
    BY <2>1, <2>2 DEF EndpointsOK
  <2>4. CASE row'[g] = row[g]
    BY <2>3, <2>4
  <2>5. CASE MarkVerdict /\ g = cur
    <3>1. Sweepable(rec)
      BY <2>1, <2>2, <2>5 DEF MarkVerdict, At, EndpointsOK
    <3>2. /\ row'[g].tornDown = rec.tornDown /\ row'[g].endpoint = rec.endpoint
          /\ row'[g].deployed = rec.deployed
      BY <1>1, <2>5 DEF MarkVerdict, Write, TuningRow
    <3>3. QED
      BY <3>1, <3>2 DEF Sweepable
  <2>6. CASE g = cur /\ ~MarkVerdict /\ row'[g] # row[g]
    <3>1. row'[g].tornDown = row[g].tornDown
      <4>1. CASE SweepMark /\ row[g].endpoint # 0
        <5>1. endpoint[g][row[g].endpoint].at = "gone"
          BY <2>6, <4>1 DEF SweepMark, At, EndpointsOK
        <5>2. row[g].endpoint = 1
          <6>1. row[g].endpoint <= Len(endpoint[g])
            BY DEF EndpointsOK
          <6>2. row[g].endpoint \in Nat
            BY <1>1 DEF TuningRow
          <6>3. QED
            BY <2>1, <4>1, <6>1, <6>2
        <5>3. QED
          BY <2>2, <5>1, <5>2
      <4>2. CASE SweepMark /\ row[g].endpoint = 0
        BY <2>6, <4>2 DEF SweepMark
      <4>3. CASE MarkTornDown
        BY <2>1, <2>2, <2>6, <4>3 DEF MarkTornDown, At, EndpointsOK
      <4>4. QED
        BY <1>1, <2>6, <4>1, <4>2, <4>3 DEF FieldsMove
    <3>2. row'[g].endpoint # 0 \/ row'[g].endpoint = row[g].endpoint
      <4>1. CASE SweepList
        <5>1. PICK i \in Exists(cur) : row' = [row EXCEPT ![cur] = [row[cur] EXCEPT !.endpoint = i]]
          BY <2>6, <4>1 DEF SweepList, Write
        <5>2. i \in DOMAIN endpoint[g] /\ row'[g].endpoint = i
          BY <1>1, <2>6, <5>1 DEF Exists, TuningRow
        <5>3. QED
          BY <1>1, <5>2
      <4>2. CASE RecordEndpoint
        BY <1>1, <2>1, <2>6, <4>2 DEF RecordEndpoint, Write, TuningRow
      <4>3. QED
        BY <1>1, <2>6, <4>1, <4>2 DEF FieldsMove
    <3>3. row'[g].deployed \/ row'[g].deployed = row[g].deployed
      <4>1. CASE DeployAhead
        BY <1>1, <2>6, <4>1 DEF DeployAhead, Write, TuningRow
      <4>2. QED
        BY <1>1, <2>6, <4>1 DEF FieldsMove
    <3>4. QED
      BY <2>3, <3>1, <3>2, <3>3 DEF Sweepable
  <2>7. QED
    BY <1>1, <2>4, <2>5, <2>6 DEF FieldsMove
<1>4. QED
  BY <1>2, <1>3

(* Every step leaves the endpoints where the rows and Run look for them.    *)
LEMMA StepEndpoints ==
    ASSUME BridgeTypeOK, JobOK, PlaceOK, RecOK, EndpointsOK, MinutesOK, BridgeNext
    PROVE  EndpointsOK'
<1>1. /\ cur \in Group /\ FieldsMove /\ mine \in Nat /\ endpoint \in [Group -> Seq(Endpoint)]
      /\ endpoint' \in [Group -> Seq(Endpoint)] /\ row \in [Group -> TuningRow]
      /\ [at |-> "asked", billed |-> 0] \in Endpoint
  BY WriteEffects, StepTypes DEF BridgeTypeOK, Endpoint
<1>2. ASSUME NEW g \in Group
      PROVE  /\ row'[g].endpoint <= Len(endpoint'[g])
             /\ row'[g].tornDown => endpoint'[g] # <<>>
             /\ Len(endpoint'[g]) = 1 /\ endpoint'[g][1].at # "gone" => Sweepable(row'[g])
  BY StepRecorded, StepSweepable
<1>3. pc' # "deploying" => \A g \in Group : Len(endpoint'[g]) = Len(endpoint[g])
  BY EndpointEffects DEF Deploy
<1>4. ASSUME pc' \in {"sweepSettle", "sweepMark"}, row'[cur'].endpoint # 0
      PROVE  endpoint'[cur'][row'[cur'].endpoint].at = "gone"
  <2>1. CASE SweepTeardown
    <3>1. row[cur].endpoint \in DOMAIN endpoint[cur]
      <4>1. row[cur].endpoint \in Nat /\ row[cur].endpoint # 0
        BY <1>1, <2>1 DEF SweepTeardown, TuningRow
      <4>2. row[cur].endpoint <= Len(endpoint[cur]) /\ endpoint[cur] \in Seq(Endpoint)
        BY <1>1 DEF EndpointsOK
      <4>3. QED
        BY <4>1, <4>2
    <3>2. row' = row /\ cur' = cur
      BY <2>1 DEF SweepTeardown, store
    <3>3. endpoint' = [endpoint EXCEPT ![cur][row[cur].endpoint].at = "gone"]
      BY <2>1 DEF SweepTeardown, Removed
    <3>4. endpoint[cur][row[cur].endpoint] \in Endpoint
      BY <1>1, <3>1, EndpointAt
    <3>5. QED
      BY <1>1, <3>1, <3>2, <3>3, <3>4 DEF Endpoint
  <2>2. CASE SweepList
    BY <1>4, <2>2 DEF SweepList, At
  <2>3. CASE Rests \/ settleSweptMinutes
    <3>1. cur' = cur /\ pc \in {"sweepSettle", "sweepMark"}
      BY <1>4, <2>3 DEF Rests, settleSweptMinutes, At
    <3>2. row'[cur].endpoint = row[cur].endpoint
      BY <1>1, <3>1 DEF FieldsMove, SweepList, RecordEndpoint, MarkVerdict, At
    <3>3. row[cur].endpoint \in Nat /\ row[cur].endpoint # 0 /\ row[cur].endpoint <= Len(endpoint[cur])
      BY <1>1, <1>4, <3>1, <3>2 DEF EndpointsOK, TuningRow
    <3>4. endpoint[cur][row[cur].endpoint].at = "gone"
      BY <3>1, <3>3 DEF EndpointsOK
    <3>5. row[cur].endpoint \in DOMAIN endpoint[cur]
      <4>1. endpoint[cur] \in Seq(Endpoint)
        BY <1>1
      <4>2. QED
        BY <3>3, <4>1
    <3>6. QED
      BY <1>1, <3>1, <3>2, <3>4, <3>5, EndpointEffects
  <2>4. QED
    BY <1>4, <2>1, <2>2, <2>3, Arrivals
<1>5. pc' = "ask" => row'[cur'].deployed
  <2>1. CASE DeployAhead
    BY <1>1, <2>1 DEF DeployAhead, Write, TuningRow
  <2>2. CASE Rests /\ pc' = "ask"
    BY <1>1, <2>2 DEF Rests, FieldsMove, DeployAhead, MarkVerdict, At, EndpointsOK
  <2>3. QED
    BY <2>1, <2>2, Arrivals
<1>6. ASSUME pc' \in {"deploying", "announce"}
      PROVE  endpoint'[cur'] # <<>>
  <2>1. CASE Deploy
    BY <1>1, <2>1 DEF Deploy
  <2>2. CASE ~Deploy
    <3>1. cur' = cur /\ endpoint[cur] # <<>>
      BY <1>6, <2>2, Arrivals DEF Rests, RecordEndpoint, At, EndpointsOK
    <3>2. Len(endpoint'[cur]) = Len(endpoint[cur])
      BY <1>1, <2>2, EndpointEffects
    <3>3. endpoint[cur] \in Seq(Endpoint) /\ endpoint'[cur] \in Seq(Endpoint)
      BY <1>1
    <3>4. QED
      BY <3>1, <3>2, <3>3
  <2>3. QED
    BY <2>1, <2>2
<1>7. ASSUME pc' \in Serving
      PROVE  mine' = Len(endpoint'[cur']) /\ mine' > 0
  <2>1. Len(endpoint'[cur]) = Len(endpoint[cur]) /\ cur' = cur
    BY <1>1, <1>3, <1>7, MineKept DEF Serving
  <2>2. CASE mine' = mine /\ pc \in Serving
    BY <2>1, <2>2 DEF EndpointsOK, Serving
  <2>3. CASE Serve
    <3>1. endpoint[cur] # <<>> /\ endpoint[cur] \in Seq(Endpoint) /\ mine' = Len(endpoint[cur])
      BY <1>1, <2>3 DEF Serve, At, EndpointsOK
    <3>2. QED
      BY <2>1, <3>1
  <2>4. QED
    BY <1>7, <2>2, <2>3, MineKept
<1>8. ASSUME pc' = "markTornDown"
      PROVE  endpoint'[cur'][mine'].at = "gone"
  <2>1. /\ cur' = cur /\ mine' = mine /\ pc \in Serving
    BY <1>8, MineKept DEF Serving, Serve
  <2>2. mine \in DOMAIN endpoint[cur]
    <3>1. mine = Len(endpoint[cur]) /\ mine > 0 /\ endpoint[cur] \in Seq(Endpoint)
      BY <1>1, <2>1 DEF EndpointsOK, Serving
    <3>2. QED
      BY <1>1, <3>1
  <2>3. CASE Rests
    BY <1>1, <1>8, <2>1, <2>2, <2>3, EndpointEffects DEF Rests, EndpointsOK
  <2>4. CASE Teardown
    <3>1. endpoint' = [endpoint EXCEPT ![cur][mine].at = "gone"]
      BY <1>8, <2>4 DEF Teardown, Removed, Gone
    <3>2. endpoint[cur][mine] \in Endpoint
      BY <1>1, <2>2, EndpointAt
    <3>3. QED
      BY <1>1, <2>1, <2>2, <3>1, <3>2 DEF Endpoint
  <2>5. QED
    BY <1>8, <2>3, <2>4, Arrivals
<1>9. ASSUME pc' \in {"verdict", "mark"}, Len(endpoint'[cur']) = 1, endpoint'[cur'][1].at # "gone"
      PROVE  Sweepable(rec')
  <2>1. cur' = cur /\ Len(endpoint[cur]) = 1
    BY <1>1, <1>3, <1>9, StaysWithGroup
  <2>2. 1 \in DOMAIN endpoint[cur]
    <3>1. endpoint[cur] \in Seq(Endpoint)
      BY <1>1
    <3>2. QED
      BY <2>1, <3>1
  <2>3. endpoint[cur][1].at # "gone"
    BY <1>1, <1>9, <2>1, <2>2, EndpointEffects
  <2>4. CASE measureGroup /\ rec' = row[cur]
    BY <1>1, <2>1, <2>3, <2>4 DEF EndpointsOK
  <2>5. CASE rec' = rec
    <3>1. pc \in {"verdict", "mark", "markTornDown"} \/ measureGroup
      BY <1>9, Arrivals DEF Rests, emitVerdict, MarkTornDown, At
    <3>2. CASE pc \in {"verdict", "mark"}
      BY <2>1, <2>3, <2>5, <3>2 DEF EndpointsOK
    <3>3. CASE pc = "markTornDown"
      <4>1. mine = 1 /\ endpoint[cur][mine].at = "gone"
        BY <2>1, <3>3 DEF EndpointsOK
      <4>2. QED
        BY <2>3, <4>1
    <3>4. CASE measureGroup
      BY <1>9, <2>4, <3>4 DEF measureGroup, NextGroup
    <3>5. QED
      BY <3>1, <3>2, <3>3, <3>4
  <2>6. pc' \in Measuring
    BY <1>9 DEF Measuring
  <2>7. QED
    BY <2>4, <2>5, <2>6, RecKept
<1>10. QED
  BY <1>2, <1>4, <1>5, <1>6, <1>7, <1>8, <1>9 DEF EndpointsOK, Sweepable, Serving

-----------------------------------------------------------------------------
(* Minutes. *)

(* The ticker runs while the group is measured, and is stopped before the   *)
(* teardown.                                                                *)
LEMMA TickerKept ==
    ASSUME MinutesOK, BridgeNext, ticker'
    PROVE  pc' \in {"measuring", "record", "stopTick"}
<1>1. ticker => pc \in {"measuring", "record", "stopTick"}
  BY DEF MinutesOK
<1> USE DEF BridgeNext, Provider, Process, Sweep, Start, SweepSkip, SweepList, SweepTeardown,
       settleSweptMinutes, SweepOrphan, SweepMark, WriteAhead, adoptOrAbandon, AlreadySubmitted, Submit,
       RecordSubmitted, RecordOvershoot, RecordTerminal, measureGroup, DeployAhead, Deploy,
       RecordEndpoint, Serve, MeasureReturns, recordScores, Tick, TickerEnds, stopTick, Teardown,
       MarkTornDown, emitVerdict, MarkVerdict, Fails, Cancel, Crash, Land, JobEnds, EndpointMoves,
       Minute
<1> QED
  BY <1>1 DEF Gone, tick, At

(* What an endpoint has billed is part of what its group has.               *)
LEMMA BilledAtLeast ==
    ASSUME BridgeTypeOK, NEW g \in Group
    PROVE  Billed(g) \in Nat /\ \A i \in DOMAIN endpoint[g] : endpoint[g][i].billed <= Billed(g)
<1> DEFINE D == DOMAIN endpoint[g]
           f == [i \in D |-> endpoint[g][i].billed]
<1>1. f \in [D -> Nat] /\ IsFiniteSet(D)
  <2>1. endpoint[g] \in Seq(Endpoint)
    BY DEF BridgeTypeOK
  <2>2. D = 1..Len(endpoint[g]) /\ Len(endpoint[g]) \in Nat
    BY <2>1
  <2>3. IsFiniteSet(D)
    BY <2>2, FS_Interval
  <2>4. QED
    BY <2>3, EndpointAt
<1>2. Billed(g) = SumOver(f, D)
  BY DEF Billed
<1>3. \A i \in D : f[i] = endpoint[g][i].billed
  OBVIOUS
<1> HIDE DEF f, D
<1>4. SumOver(f, D) \in Nat
  BY <1>1, SumOverNat
<1>5. ASSUME NEW i \in D  PROVE f[i] <= SumOver(f, D)
  <2>1. SumOver(f, D) = f[i] + SumOver(f, D \ {i})
    BY <1>1, SumOverSplit
  <2> DEFINE h == [x \in D \ {i} |-> f[x]]
  <2>2. h \in [D \ {i} -> Nat] /\ IsFiniteSet(D \ {i})
    BY <1>1, FS_Subset
  <2>3. Units(h, D \ {i}) = Units(f, D \ {i})
    BY DEF Units
  <2> HIDE DEF h
  <2>4. SumOver(f, D \ {i}) \in Nat
    BY <2>2, <2>3, SumOverNat DEF SumOver
  <2>5. f[i] \in Nat
    BY <1>1
  <2>6. QED
    BY <2>1, <2>4, <2>5
<1>6. QED
  BY <1>2, <1>3, <1>4, <1>5 DEF D

(* What a group has billed only grows.                                      *)
LEMMA BilledGrows ==
    ASSUME BridgeTypeOK, JobOK, PlaceOK, RecOK, EndpointsOK, MinutesOK, BridgeNext, NEW g \in Group
    PROVE  Billed(g) <= Billed(g)' /\ Billed(g)' \in Nat
<1> DEFINE D == DOMAIN endpoint[g]
           E == DOMAIN endpoint'[g]
           f == [i \in D |-> endpoint[g][i].billed]
           h == [i \in E |-> endpoint'[g][i].billed]
<1>1. endpoint[g] \in Seq(Endpoint) /\ endpoint'[g] \in Seq(Endpoint)
  BY StepTypes DEF BridgeTypeOK
<1>2. f \in [D -> Nat] /\ h \in [E -> Nat]
  <2>1. \A s \in Seq(Endpoint) : \A i \in DOMAIN s : s[i] \in Endpoint
    OBVIOUS
  <2>2. \A e \in Endpoint : e.billed \in Nat
    BY DEF Endpoint
  <2>3. QED
    BY <1>1, <2>1, <2>2
<1>3. IsFiniteSet(E)
  <2>1. E = 1..Len(endpoint'[g]) /\ Len(endpoint'[g]) \in Nat
    BY <1>1
  <2>2. QED
    BY <2>1, FS_Interval
<1>4. D \in SUBSET E
  BY EndpointEffects
<1>5. \A i \in D : f[i] <= h[i]
  <2> SUFFICES ASSUME NEW i \in D  PROVE f[i] <= h[i]
    OBVIOUS
  <2>1. i \in E
    BY <1>4
  <2>2. f[i] = endpoint[g][i].billed /\ h[i] = endpoint'[g][i].billed
    BY <2>1
  <2>3. h[i] = f[i] \/ h[i] = f[i] + 1
    BY <2>2, EndpointEffects
  <2>4. f[i] \in Nat
    BY <1>2
  <2>5. QED
    BY <2>3, <2>4
<1>6. Billed(g) = SumOver(f, D) /\ Billed(g)' = SumOver(h, E)
  BY DEF Billed
<1> HIDE DEF f, h, D, E
<1>7. SumOver(f, D) <= SumOver(h, E) /\ SumOver(h, E) \in Nat
  BY <1>2, <1>3, <1>4, <1>5, SumOverMonotone, SumOverNat
<1>8. QED
  BY <1>6, <1>7

(* The row as measureGroup was given it was charged for billed minutes.     *)
LEMMA StepRecCost ==
    ASSUME BridgeTypeOK, JobOK, PlaceOK, RecOK, EndpointsOK, MinutesOK, BridgeNext,
           pc' \in Measuring, NEW g \in Group, g = cur'
    PROVE  rec'.cost <= Billed(g)'
<1>1. g = cur /\ pc \notin {"down", "sweep", "sweepSettle", "sweepMark"}
  BY StaysWithGroup DEF Measuring
<1>2. Billed(g) \in Nat /\ Billed(g)' \in Nat /\ Billed(g) <= Billed(g)'
  BY BilledAtLeast, BilledGrows
<1>3. rec.cost \in Nat /\ row[g].cost \in Nat
  BY DEF BridgeTypeOK, TuningRow
<1>4. CASE rec' = row[g]
  <2>1. row[g].cost <= Billed(g)
    BY DEF MinutesOK
  <2>2. QED
    BY <1>2, <1>3, <1>4, <2>1
<1>5. CASE rec' = NoRow
  <2>1. rec'.cost = 0
    BY <1>5 DEF NoRow
  <2>2. QED
    BY <1>2, <2>1
<1>6. CASE rec' = rec /\ ~measureGroup
  <2>1. pc \in Measuring
    BY <1>1, <1>6, Arrivals DEF Measuring, Rests, DeployAhead, Deploy, RecordEndpoint, Serve,
       MeasureReturns, recordScores, stopTick, Teardown, MarkTornDown, emitVerdict, At
  <2>2. rec.cost <= Billed(g)
    BY <1>1, <2>1 DEF MinutesOK
  <2>3. QED
    BY <1>2, <1>3, <1>6, <2>2
<1>7. measureGroup => rec' = row[g] \/ rec' = NoRow
  BY <1>1 DEF measureGroup, NextGroup
<1>8. QED
  BY <1>4, <1>5, <1>6, <1>7, Changes

(* Minutes are settled up to what the endpoint in hand has billed, and only *)
(* past what the row has been charged.                                      *)
LEMMA StepMinutes ==
    ASSUME BridgeTypeOK, JobOK, PlaceOK, RecOK, EndpointsOK, MinutesOK, BridgeNext
    PROVE  MinutesOK'
<1>1. /\ cur \in Group /\ FieldsMove /\ row \in [Group -> TuningRow] /\ charged \in [Group -> Nat]
      /\ unwritten \in [Group -> Nat] /\ MaxServe \in Nat /\ rec \in TuningRow
  BY WriteEffects, Numbers DEF BridgeTypeOK
<1>2. ticker' => pc' \in {"measuring", "record", "stopTick"}
  BY TickerKept
<1>3. ASSUME NEW g \in Group
      PROVE  /\ row'[g].cost <= Billed(g)' /\ charged'[g] <= Billed(g)' + unwritten'[g]
             /\ ~row'[g].verdict => /\ charged'[g] = row'[g].cost + unwritten'[g]
                                    /\ row'[g].cost <= row'[g].minutes
  <2>1. /\ row[g] \in TuningRow /\ row[g].minutes \in Nat /\ row[g].cost \in Nat /\ charged[g] \in Nat
        /\ unwritten[g] \in Nat
        /\ Billed(g) \in Nat /\ Billed(g)' \in Nat /\ Billed(g) <= Billed(g)'
    BY <1>1, BilledAtLeast, BilledGrows DEF TuningRow
  <2>2. /\ row[g].cost <= Billed(g) /\ charged[g] <= Billed(g) + unwritten[g]
        /\ ~row[g].verdict => /\ charged[g] = row[g].cost + unwritten[g]
                              /\ row[g].cost <= row[g].minutes
    BY DEF MinutesOK
  <2> DEFINE Settles == g = cur /\ ticker /\ SettleServeTick
             Moves == row'[g] # row[g] \/ charged'[g] # charged[g] \/ unwritten'[g] # unwritten[g]
  <2>3. CASE Settles /\ Moves
    <3> DEFINE elapsed == IF clock THEN endpoint[cur][mine].billed ELSE 0
               due == SettledBy(elapsed)
    <3>1. ~row[g].verdict
      BY <2>3 DEF MinutesOK, RecOK, Measuring
    <3>2. mine \in DOMAIN endpoint[cur]
      <4>1. endpoint[cur] \in Seq(Endpoint) /\ mine = Len(endpoint[cur]) /\ mine > 0
        BY <1>1, <2>3 DEF MinutesOK, EndpointsOK, BridgeTypeOK
      <4>2. QED
        BY <4>1
    <3>3. elapsed \in Nat /\ elapsed <= Billed(g)
      <4>1. endpoint[cur][mine].billed \in Nat /\ endpoint[cur][mine].billed <= Billed(g)
        BY <1>1, <2>3, <3>2, EndpointAt, BilledAtLeast
      <4>2. QED
        BY <2>1, <4>1
    <3>4. /\ elapsed > row[cur].minutes /\ charged' = [charged EXCEPT ![cur] = @ + due]
          /\ \/ /\ row' = [row EXCEPT ![cur] = [row[cur] EXCEPT !.minutes = elapsed, !.cost = @ + due]]
                /\ unwritten' = unwritten
             \/ row' = row /\ unwritten' = [unwritten EXCEPT ![cur] = @ + due]
      BY <2>3 DEF SettleServeTick, Write
    <3>5. due = elapsed - row[cur].minutes
      BY DEF SettledBy
    <3> HIDE DEF elapsed, due
    <3>6. due \in Nat /\ row[g].cost + due <= elapsed
      BY <2>1, <2>2, <2>3, <3>1, <3>3, <3>4, <3>5
    <3>7. CASE unwritten' = unwritten
      <4>1. row' = [row EXCEPT ![cur] = [row[cur] EXCEPT !.minutes = elapsed, !.cost = @ + due]]
        BY <1>1, <2>1, <2>3, <3>4, <3>5, <3>6, <3>7
      <4>2. /\ row'[g].minutes = elapsed /\ row'[g].cost = row[g].cost + due
            /\ charged'[g] = charged[g] + due
        BY <1>1, <2>3, <3>4, <4>1 DEF TuningRow
      <4>3. QED
        BY <2>1, <2>2, <3>1, <3>3, <3>6, <3>7, <4>2
    <3>8. CASE row' = row /\ unwritten' = [unwritten EXCEPT ![cur] = @ + due]
      <4>1. charged'[g] = charged[g] + due /\ unwritten'[g] = unwritten[g] + due
        BY <1>1, <2>3, <3>4, <3>8
      <4>2. QED
        BY <2>1, <2>2, <3>1, <3>6, <3>8, <4>1
    <3>9. QED
      BY <3>4, <3>7, <3>8
  <2>4. CASE charged'[g] = charged[g] /\ unwritten'[g] = unwritten[g] /\ ~(Settles /\ row'[g] # row[g])
    <3>1. CASE MarkVerdict /\ g = cur
      <4>1. row'[g] = [rec EXCEPT !.verdict = TRUE] /\ pc \in Measuring
        BY <1>1, <3>1 DEF MarkVerdict, Write, At, Measuring, BridgeTypeOK
      <4>2. rec.cost <= Billed(g) /\ row'[g].cost = rec.cost /\ row'[g].verdict /\ rec.cost \in Nat
        BY <1>1, <3>1, <4>1 DEF MinutesOK, TuningRow
      <4>3. QED
        BY <2>1, <2>2, <2>4, <4>2
    <3>2. CASE ~(MarkVerdict /\ g = cur)
      <4>1. (Tick \/ TickerEnds) /\ g = cur => row'[g] = row[g]
        BY <2>4 DEF Tick, TickerEnds
      <4>2. row'[g].cost = row[g].cost /\ row'[g].verdict = row[g].verdict
        BY <1>1, <3>2, <4>1 DEF FieldsMove
      <4>3. row'[g].minutes = row[g].minutes \/ (settleSweptMinutes /\ g = cur)
        BY <1>1, <3>2, <4>1 DEF FieldsMove
      <4>4. settleSweptMinutes /\ g = cur =>
               row'[g].minutes = row[g].minutes \/ (row'[g].minutes = MaxServe /\ MaxServe > row[g].minutes)
        BY <1>1, <2>1 DEF settleSweptMinutes, Write, TuningRow
      <4>5. QED
        BY <1>1, <2>1, <2>2, <2>4, <4>2, <4>3, <4>4
    <3>3. QED
      BY <3>1, <3>2
  <2>5. (charged'[g] = charged[g] /\ unwritten'[g] = unwritten[g]) \/ Settles
    <3>1. (Tick \/ TickerEnds) /\ (charged' # charged \/ unwritten' # unwritten) =>
             ticker /\ SettleServeTick
      BY DEF Tick, TickerEnds
    <3>2. SettleServeTick => (charged'[g] = charged[g] /\ unwritten'[g] = unwritten[g]) \/ g = cur
      BY <1>1 DEF SettleServeTick
    <3>3. QED
      BY <3>1, <3>2, Changes
  <2>6. QED
    BY <2>3, <2>4, <2>5
<1>4. (pc \in Measuring => rec.cost <= Billed(cur))'
  <2>1. cur' \in Group
    BY StepTypes DEF BridgeTypeOK
  <2>2. QED
    BY <2>1, StepRecCost DEF Billed
<1>5. QED
  BY <1>2, <1>3, <1>4 DEF MinutesOK

-----------------------------------------------------------------------------
(* The invariant, and what it says. *)

(* Before the first run there is nothing anywhere.                          *)
LEMMA InitBridgeInv ==
    ASSUME BridgeInit
    PROVE  BridgeInv
<1>1. AllIn \in Group /\ MaxProcesses \in Nat /\ Cases \in Nat /\ Cases > 0 /\ 1 \in Group
  BY Numbers DEF AllIn
<1>2. NoRow \in TuningRow
  BY DEF NoRow, TuningRow
<1>3. \A g \in Group : row[g] = NoRow /\ endpoint[g] = <<>> /\ charged[g] = 0 /\ unwritten[g] = 0
  BY DEF BridgeInit
<1>4. BridgeTypeOK
  <2>1. /\ row \in [Group -> TuningRow] /\ scored \in [Group -> 0..Cases] /\ orphan \in Nat
        /\ verdicts \in [Group -> Nat]
    BY <1>1, <1>2 DEF BridgeInit
  <2>2. /\ job \in [Group -> {"none", "sent", "running", "succeeded", "failed"}]
        /\ over \in [Group -> BOOLEAN] /\ endpoint \in [Group -> Seq(Endpoint)]
    <3>1. <<>> \in Seq(Endpoint)
      OBVIOUS
    <3>2. QED
      BY <3>1 DEF BridgeInit
  <2>3. /\ pc \in Place \cup {"down"} /\ cur \in Group /\ rec \in TuningRow /\ owed \in Nat
        /\ mine \in Nat /\ got \in 0..Cases
    BY <1>1, <1>2 DEF BridgeInit
  <2>4. /\ processes \in 0..MaxProcesses /\ submits \in [Group -> Nat]
        /\ charged \in [Group -> Nat] /\ unwritten \in [Group -> Nat]
    BY <1>1 DEF BridgeInit
  <2>5. /\ clock \in BOOLEAN /\ failed \in BOOLEAN /\ ticker \in BOOLEAN /\ tickErr \in BOOLEAN
        /\ ctxDone \in BOOLEAN /\ untried \in BOOLEAN
    BY DEF BridgeInit
  <2>6. QED
    BY <2>1, <2>2, <2>3, <2>4, <2>5 DEF BridgeTypeOK
<1>5. JobOK
  BY DEF BridgeInit, JobOK, NoRow
<1>6. PlaceOK /\ RecOK
  BY <1>1 DEF BridgeInit, PlaceOK, RecOK, Measuring, NoRow
<1>7. OvershootOK
  <2>1. Overshot = {}
    BY DEF BridgeInit, Overshot
  <2>2. QED
    BY <2>1, FS_EmptySet DEF OvershootOK, BridgeInit
<1>8. EndpointsOK
  BY <1>3 DEF BridgeInit, EndpointsOK, NoRow
<1>9. MinutesOK
  <2>1. \A g \in Group : Billed(g) \in Nat
    BY <1>4, BilledAtLeast
  <2>2. QED
    BY <1>3, <2>1 DEF MinutesOK, BridgeInit, NoRow, Measuring
<1>10. QED
  BY <1>4, <1>5, <1>6, <1>7, <1>8, <1>9 DEF BridgeInv

(* Every step keeps it.                                                     *)
LEMMA NextBridgeInv ==
    ASSUME BridgeInv, [BridgeNext]_bridgeVars
    PROVE  BridgeInv'
<1>1. CASE BridgeNext
  <2>1. /\ BridgeTypeOK /\ JobOK /\ PlaceOK /\ RecOK /\ OvershootOK /\ EndpointsOK /\ MinutesOK
    BY DEF BridgeInv
  <2>2. /\ BridgeTypeOK' /\ JobOK' /\ PlaceOK' /\ RecOK' /\ OvershootOK' /\ EndpointsOK'
        /\ MinutesOK'
    BY <1>1, <2>1, StepTypes, StepJobs, StepPlaceOK, StepRec, StepOvershoot, StepEndpoints, StepMinutes
  <2>3. QED
    BY <2>2 DEF BridgeInv
<1>2. CASE UNCHANGED bridgeVars
  <2> USE <1>2 DEF bridgeVars, store, provider, hosting, tick, history
  <2>1. BridgeTypeOK'
    BY DEF BridgeInv, BridgeTypeOK
  <2>2. JobOK'
    BY DEF BridgeInv, JobOK, Ended
  <2>3. PlaceOK'
    BY DEF BridgeInv, PlaceOK, Ended, Missing
  <2>4. RecOK'
    BY DEF BridgeInv, RecOK
  <2>5. OvershootOK'
    BY DEF BridgeInv, OvershootOK, Overshot
  <2>6. EndpointsOK'
    BY DEF BridgeInv, EndpointsOK
  <2>7. MinutesOK'
    BY DEF BridgeInv, MinutesOK, Billed
  <2>8. QED
    BY <2>1, <2>2, <2>3, <2>4, <2>5, <2>6, <2>7 DEF BridgeInv
<1>3. QED
  BY <1>1, <1>2

(* Whatever the provider, the store, a cancellation and a kill do, and      *)
(* whenever: what the rows, Run's place and the provider hold agrees as     *)
(* BridgeInv says (submit.go, reconcile.go, hosting.go).                    *)
THEOREM BridgeInvariant == BridgeSpec => []BridgeInv
<1>1. BridgeInit => BridgeInv
  BY InitBridgeInv
<1>2. BridgeInv /\ [BridgeNext]_bridgeVars => BridgeInv'
  BY NextBridgeInv
<1>3. QED
  BY <1>1, <1>2, PTL DEF BridgeSpec

(* Every variable of a bridge run keeps its type.                           *)
THEOREM BridgeTypeCorrect == BridgeSpec => []BridgeTypeOK
<1>1. BridgeInv => BridgeTypeOK
  BY DEF BridgeInv
<1>2. QED
  BY <1>1, BridgeInvariant, PTL

(* A group's fine-tuning job is requested at most once, over lost answers,  *)
(* failed writes, kills and resumes: a row is written before the request,   *)
(* and no process sends one from a row it did not write (submit.go:96-127). *)
THEOREM JobsAreSubmittedOnce == BridgeSpec => []SubmittedOnce
<1>1. BridgeInv => SubmittedOnce
  BY DEF BridgeInv, JobOK, SubmittedOnce
<1>2. QED
  BY <1>1, BridgeInvariant, PTL

(* Wherever a process is about to spend, every job the provider may have    *)
(* of the groups before it is in SettledSpend (submit.go:150-177).          *)
THEOREM NoJobIsUncounted == BridgeSpec => []JobsAreCounted
<1>1. ASSUME BridgeInv  PROVE JobsAreCounted
  <2>1. SUFFICES ASSUME NEW g \in Group, job[g] # "none",
                        pc \notin {"down", "sweep", "sweepSettle", "sweepMark"},
                        g < cur \/ (g = cur /\ pc \notin {"submit", "await"})
                 PROVE  row[g].state \in {"submitted", "abandoned"}
    BY DEF JobsAreCounted
  <2>2. PlaceOK /\ pc \in Place \cup {"down"} /\ cur \in 1..Groups /\ g \in 1..Groups /\ Groups \in Nat
    BY <1>1, Numbers DEF BridgeInv, BridgeTypeOK
  <2>3. CASE g < cur
    <3>1. g \in 1..(cur - 1)
      BY <2>2, <2>3
    <3>2. QED
      BY <2>1, <2>2, <3>1 DEF PlaceOK
  <2>4. CASE g = cur /\ pc \notin {"submit", "await"}
    <3>1. pc \in {"send", "poll", "reconcile", "measure"} \cup Measuring
      BY <2>1, <2>2, <2>4 DEF Place, Measuring
    <3>2. QED
      BY <2>1, <2>2, <2>4, <3>1 DEF PlaceOK
  <2>5. QED
    BY <2>1, <2>3, <2>4
<1>2. QED
  BY <1>1, BridgeInvariant, PTL

(* The orphan spend holds the overshoot of every job whose row says it has  *)
(* ended, however often a kill falls between the two writes                 *)
(* (reconcile.go:60-77).                                                    *)
THEOREM OvershootsAreRecorded == BridgeSpec => []OvershootIsRecorded
<1>1. ASSUME BridgeInv  PROVE OvershootIsRecorded
  <2> DEFINE A == {g \in Group : over[g] /\ row[g].status # "none"}
  <2>1. A \subseteq Overshot /\ Overshot \subseteq Group
    BY DEF Overshot
  <2>2. orphan >= Cardinality(Overshot) /\ orphan \in Nat
    BY <1>1 DEF BridgeInv, OvershootOK, BridgeTypeOK
  <2> HIDE DEF A
  <2>3. IsFiniteSet(Overshot) /\ IsFiniteSet(A)
    BY <2>1, Numbers, FS_Subset
  <2>4. Cardinality(A) <= Cardinality(Overshot)
    BY <2>1, <2>3, FS_Subset
  <2>5. Cardinality(A) \in Nat /\ Cardinality(Overshot) \in Nat
    BY <2>3, FS_CardinalityType
  <2>6. orphan >= Cardinality(A)
    BY <2>2, <2>4, <2>5
  <2>7. QED
    BY <2>6 DEF OvershootIsRecorded, A
<1>2. QED
  BY <1>1, BridgeInvariant, PTL

(* Only a second deployment of a group can hide an endpoint that still      *)
(* exists from the sweep (hosting.go:41-46, 310-345).                       *)
THEOREM EndpointsAreFound == BridgeSpec => []OnlyARedeployHides
<1>1. ASSUME BridgeInv  PROVE OnlyARedeployHides
  <2>1. SUFFICES ASSUME NEW g \in Group, Exists(g) # {}, Len(endpoint[g]) = 1
                 PROVE  Sweepable(row[g]) /\ row[g].endpoint \in {0, 1}
    BY DEF OnlyARedeployHides
  <2>2. endpoint[g] \in Seq(Endpoint) /\ row[g].endpoint \in Nat
    BY <1>1 DEF BridgeInv, BridgeTypeOK, TuningRow
  <2>3. PICK i \in DOMAIN endpoint[g] : endpoint[g][i].at \in {"starting", "ready"}
    BY <2>1 DEF Exists
  <2>4. i = 1
    BY <2>1, <2>2
  <2>5. row[g].endpoint <= Len(endpoint[g]) /\ Sweepable(row[g])
    BY <1>1, <2>1, <2>3, <2>4 DEF BridgeInv, EndpointsOK
  <2>6. QED
    BY <2>1, <2>2, <2>5
<1>2. QED
  BY <1>1, BridgeInvariant, PTL

(* Over failed ticks, a cancellation and a second deployment the rows hold  *)
(* each billed minute at most once; the guards have settled as many minutes *)
(* and those of a settlement whose row write failed, which alone are        *)
(* settled again (hosting.go:149-185).                                      *)
THEOREM MinutesAreRecordedOnce == BridgeSpec => []HostingIsAccounted
<1>1. BridgeInv => HostingIsAccounted
  BY DEF BridgeInv, MinutesOK, HostingIsAccounted
<1>2. QED
  BY <1>1, BridgeInvariant, PTL

(* Once a group's verdict is marked no step deploys it, measures it or      *)
(* reports it again (run.go:286-292).                                       *)
THEOREM VerdictsAreFinal == BridgeSpec => VerdictIsFinal
<1>1. ASSUME BridgeInv, BridgeNext, NEW g \in Group, row[g].verdict
      PROVE  /\ Len(endpoint'[g]) = Len(endpoint[g])
             /\ scored'[g] = scored[g] /\ verdicts'[g] = verdicts[g]
  <2>1. /\ BridgeTypeOK /\ JobOK /\ PlaceOK /\ RecOK /\ EndpointsOK /\ MinutesOK /\ cur \in Group
        /\ scored \in [Group -> 0..Cases] /\ verdicts \in [Group -> Nat]
    BY <1>1 DEF BridgeInv, BridgeTypeOK
  <2>2. pc \in Measuring => g # cur
    BY <1>1, <2>1 DEF RecOK
  <2>3. Deploy \/ emitVerdict \/ recordScores => pc \in Measuring
    BY DEF Deploy, emitVerdict, recordScores, At, Measuring
  <2>4. Len(endpoint'[g]) = Len(endpoint[g])
    BY <1>1, <2>1, <2>2, <2>3, EndpointEffects
  <2>5. scored'[g] = scored[g]
    BY <1>1, <2>1, <2>2, <2>3, Changes DEF recordScores
  <2>6. verdicts'[g] = verdicts[g]
    BY <1>1, <2>1, <2>2, <2>3, Changes DEF emitVerdict
  <2>7. QED
    BY <2>4, <2>5, <2>6
<1>2. ASSUME BridgeInv, [BridgeNext]_bridgeVars
      PROVE  [\A g \in Group : row[g].verdict =>
                 /\ Len(endpoint'[g]) = Len(endpoint[g])
                 /\ scored'[g] = scored[g] /\ verdicts'[g] = verdicts[g]]_bridgeVars
  BY <1>1, <1>2
<1>3. QED
  BY <1>2, BridgeInvariant, PTL DEF BridgeSpec, VerdictIsFinal

=============================================================================
