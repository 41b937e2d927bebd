---------------------------- MODULE GuardProofs -----------------------------
(***************************************************************************)
(* What the budget guard keeps for every set of callers, every pair of     *)
(* caps, every threshold and every estimate and report.                    *)
(***************************************************************************)
EXTENDS Guard, SumsProofs

USE GuardAssumption DEF Dim

(* The saturating sum stays in range, never falls and never exceeds the    *)
(* exact one.                                                              *)
LEMMA AddSpendBounds ==
    ASSUME NEW t \in Nat, t <= MaxInt, NEW f \in Int
    PROVE  /\ addSpend(t, f) \in Nat
           /\ addSpend(t, f) <= MaxInt
           /\ t <= addSpend(t, f)
           /\ addSpend(t, f) <= t + Larger(0, f)
BY DEF addSpend, Smaller, Larger

(* AddAll applies it to both dimensions. *)
LEMMA AddAllBounds ==
    ASSUME NEW t \in NatPair, \A d \in Dim : t[d] <= MaxInt, NEW f \in [Dim -> Int]
    PROVE  /\ AddAll(t, f) \in NatPair
           /\ \A d \in Dim : /\ AddAll(t, f)[d] <= MaxInt
                             /\ t[d] <= AddAll(t, f)[d]
                             /\ AddAll(t, f)[d] <= t[d] + Larger(0, f[d])
<1>1. \A d \in Dim : t[d] \in Nat /\ f[d] \in Int
  BY DEF NatPair
<1>2. \A d \in Dim : /\ addSpend(t[d], f[d]) \in Nat
                     /\ addSpend(t[d], f[d]) <= MaxInt
                     /\ t[d] <= addSpend(t[d], f[d])
                     /\ addSpend(t[d], f[d]) <= t[d] + Larger(0, f[d])
  BY <1>1, AddSpendBounds
<1>3. QED
  BY <1>2 DEF AddAll, NatPair

(* The zero pair is a pair of naturals. *)
LEMMA ZeroType == Zero \in NatPair /\ Zero \in [Dim -> Int] /\ \A d \in Dim : Zero[d] = 0
BY DEF Zero, NatPair

(* A valid estimate is a pair of naturals, and is not None. *)
LEMMA EstimatesType ==
    \A e \in Estimates : e \in [Dim -> Nat] /\ e \in [Dim -> Int] /\ e # None
<1>1. SUFFICES ASSUME NEW e \in Estimates
               PROVE  e \in [Dim -> Nat] /\ e \in [Dim -> Int] /\ e # None
  OBVIOUS
<1>2. e \in [Dim -> Int] /\ \A d \in Dim : e[d] >= 0
  BY DEF Estimates, validate
<1>3. e \in [Dim -> Nat]
  BY <1>2
<1>4. QED
  BY <1>2, <1>3

-----------------------------------------------------------------------------

(* The initial state is well typed. *)
LEMMA InitType == Init => TypeOK
<1> SUFFICES ASSUME Init PROVE TypeOK
  OBVIOUS
<1> USE ZeroType DEF Init
<1>1. spent \in NatPair /\ \A d \in Dim : spent[d] <= MaxInt
  OBVIOUS
<1>2. reserved \in [Dim -> Int] /\ slack \in NatPair
  OBVIOUS
<1>3. reported \in Int /\ inherited \in Int
  OBVIOUS
<1>4. FlagsOK
  BY DEF FlagsOK
<1>5. CallersOK
  BY DEF CallersOK
<1>6. QED
  BY <1>1, <1>2, <1>3, <1>4, <1>5 DEF TypeOK, MoneyOK

(* A reservation of a valid estimate keeps the types. *)
LEMMA ReserveType ==
    ASSUME TypeOK, NEW c \in Caller, NEW e \in Estimates, Reserve(c, e),
           want' \in [Caller -> Estimates \cup {None}]
    PROVE  TypeOK'
<1> USE DEF Reserve, TypeOK
<1>1. reserved' \in [Dim -> Int]
  BY EstimatesType DEF MoneyOK
<1>2. MoneyOK'
  BY <1>1, ZeroType DEF MoneyOK
<1>3. FlagsOK'
  BY DEF FlagsOK
<1>4. CallersOK'
  BY DEF CallersOK
<1>5. QED
  BY <1>2, <1>3, <1>4

(* Returning a reservation's headroom keeps the types. *)
LEMMA ReleaseLockedType ==
    ASSUME TypeOK, NEW c \in Caller, releaseLocked(c)
    PROVE  reserved' \in [Dim -> Int] /\ open' \in [Caller -> Estimates \cup {None}]
<1>1. CASE open[c] = None
  BY <1>1 DEF releaseLocked, TypeOK, MoneyOK, CallersOK
<1>2. CASE open[c] # None
  <2>1. open[c] \in [Dim -> Int]
    BY <1>2, EstimatesType DEF TypeOK, CallersOK
  <2>2. reserved' = [d \in Dim |-> reserved[d] - open[c][d]]
    BY <1>2 DEF releaseLocked
  <2>3. reserved' \in [Dim -> Int]
    BY <2>1, <2>2 DEF TypeOK, MoneyOK
  <2>4. QED
    BY <2>3 DEF releaseLocked, TypeOK, CallersOK
<1>3. QED
  BY <1>1, <1>2

(* A settlement keeps the types. *)
LEMMA SettleType ==
    ASSUME TypeOK, NEW c \in Caller, NEW a \in Actual, open[c] # None, Settle(c, a)
    PROVE  TypeOK'
<1>1. a \in [Dim -> Int] /\ open[c] \in [Dim -> Int]
  BY EstimatesType DEF TypeOK, CallersOK
<1>2. reserved' \in [Dim -> Int] /\ open' \in [Caller -> Estimates \cup {None}]
  BY ReleaseLockedType DEF Settle
<1>3. spent' \in NatPair /\ \A d \in Dim : spent'[d] <= MaxInt
  BY <1>1, AddAllBounds DEF Settle, TypeOK, MoneyOK
<1>4. slack' \in NatPair
  <2>1. \A d \in Dim : slack[d] + Larger(0, a[d] - open[c][d]) \in Nat
    BY <1>1 DEF Larger, TypeOK, MoneyOK, NatPair
  <2>2. QED
    BY <2>1 DEF Settle, NatPair
<1>5. reported' \in Int
  <2>1. spent["cost"] \in Int /\ spent'["cost"] \in Int
    BY <1>3 DEF TypeOK, MoneyOK, NatPair
  <2>2. overshootOf(spent') \in Int /\ overshootOf(spent) \in Int
    BY <2>1 DEF overshootOf, Larger
  <2>3. reported' = reported + overshootOf(spent') - overshootOf(spent)
    BY DEF Settle
  <2>4. reported \in Int
    BY DEF TypeOK, MoneyOK
  <2>5. QED
    BY <2>2, <2>3, <2>4
<1>6. MoneyOK'
  BY <1>2, <1>3, <1>4, <1>5 DEF Settle, TypeOK, MoneyOK
<1>7. FlagsOK'
  BY DEF Settle, TypeOK, FlagsOK
<1>8. CallersOK'
  BY <1>2 DEF Settle, TypeOK, CallersOK
<1>9. QED
  BY <1>6, <1>7, <1>8 DEF TypeOK

(* Every step keeps the types. *)
LEMMA StepType ==
    ASSUME TypeOK, HoldersAreOpen, WantKnown, [Next]_vars
    PROVE  TypeOK'
<1>1. ASSUME NEW s \in Actual, Restore(s)
      PROVE  TypeOK'
  <2>1. spent' \in NatPair /\ \A d \in Dim : spent'[d] <= MaxInt
    BY <1>1, AddAllBounds DEF Restore, TypeOK, MoneyOK
  <2>2. slack' \in NatPair /\ inherited' \in Int
    <3>1. \A d \in Dim : spent'[d] \in Nat /\ Limit[d] \in Nat
      BY <2>1 DEF NatPair, Limit
    <3>2. \A d \in Dim : Larger(0, spent'[d] - Limit[d]) \in Nat
      BY <3>1 DEF Larger
    <3>3. overshootOf(spent') \in Int
      BY <3>1 DEF overshootOf, Larger
    <3>4. QED
      BY <1>1, <3>2, <3>3 DEF Restore, NatPair
  <2>3. MoneyOK'
    BY <1>1, <2>1, <2>2 DEF Restore, TypeOK, MoneyOK
  <2>4. FlagsOK'
    BY <1>1 DEF Restore, TypeOK, FlagsOK
  <2>5. CallersOK'
    BY <1>1 DEF Restore, TypeOK, CallersOK
  <2>6. QED
    BY <2>3, <2>4, <2>5 DEF TypeOK
<1>2. ASSUME NEW c \in Caller, NEW e \in Estimate, Authorize(c, e)
      PROVE  TypeOK'
  <2>1. e \in Estimates
    BY <1>2 DEF Authorize, Estimates
  <2>2. CASE grants(e) /\ Reserve(c, e) /\ UNCHANGED want
    BY <2>1, <2>2, ReserveType DEF TypeOK, CallersOK
  <2>3. CASE mustAsk(e) /\ UNCHANGED <<gvars, once, history>>
             /\ want' = [want EXCEPT ![c] = e] /\ pc' = [pc EXCEPT ![c] = "asking"]
    <3>1. MoneyOK'
      BY <2>3 DEF TypeOK, MoneyOK, gvars, history
    <3>2. FlagsOK'
      BY <2>3 DEF TypeOK, FlagsOK, gvars, history
    <3>3. CallersOK'
      BY <2>1, <2>3 DEF TypeOK, CallersOK, gvars
    <3>4. QED
      BY <3>1, <3>2, <3>3 DEF TypeOK
  <2>4. QED
    BY <1>2, <2>2, <2>3 DEF Authorize
<1>3. ASSUME NEW c \in Caller, AskLock(c)
      PROVE  TypeOK'
  <2>1. MoneyOK'
    BY <1>3 DEF AskLock, TypeOK, MoneyOK
  <2>2. FlagsOK'
    BY <1>3 DEF AskLock, TypeOK, FlagsOK
  <2>3. CallersOK'
    BY <1>3 DEF AskLock, TypeOK, CallersOK
  <2>4. QED
    BY <2>1, <2>2, <2>3 DEF TypeOK
<1>4. ASSUME NEW c \in Caller, AnswerYes(c) \/ AnswerNo(c) \/ QuoteYes(c) \/ QuoteNo(c)
      PROVE  TypeOK'
  <2> USE DEF AnswerYes, AnswerNo, QuoteYes, QuoteNo, TypeOK, history
  <2>1. MoneyOK'
    BY <1>4 DEF MoneyOK
  <2>2. FlagsOK'
    BY <1>4 DEF FlagsOK
  <2>3. CallersOK'
    BY <1>4 DEF CallersOK
  <2>4. QED
    BY <2>1, <2>2, <2>3
<1>5. ASSUME NEW c \in Caller, Retry(c)
      PROVE  TypeOK'
  <2>1. want' \in [Caller -> Estimates \cup {None}]
    BY <1>5 DEF Retry, TypeOK, CallersOK
  <2>2. CASE Reserve(c, want[c])
    <3>1. want[c] \in Estimates
      BY <1>5 DEF Retry, WantKnown, TypeOK, CallersOK
    <3>2. QED
      BY <2>1, <2>2, <3>1, ReserveType
  <2>3. CASE pc' = [pc EXCEPT ![c] = "idle"] /\ UNCHANGED <<gvars, once, history>>
    <3>1. MoneyOK'
      BY <2>3 DEF TypeOK, MoneyOK, gvars, history
    <3>2. FlagsOK'
      BY <2>3 DEF TypeOK, FlagsOK, gvars, history
    <3>3. CallersOK'
      BY <2>1, <2>3 DEF TypeOK, CallersOK, gvars
    <3>4. QED
      BY <3>1, <3>2, <3>3 DEF TypeOK
  <2>4. QED
    BY <1>5, <2>2, <2>3 DEF Retry
<1>6. ASSUME NEW c \in Caller, NEW a \in Actual, Settle(c, a)
      PROVE  TypeOK'
  <2>1. open[c] # None
    BY <1>6 DEF Settle, HoldersAreOpen
  <2>2. QED
    BY <1>6, <2>1, SettleType
<1>7. ASSUME NEW c \in Caller, Release(c)
      PROVE  TypeOK'
  <2>1. reserved' \in [Dim -> Int] /\ open' \in [Caller -> Estimates \cup {None}]
    <3>1. CASE once[c]
      BY <1>7, <3>1 DEF Release, TypeOK, MoneyOK, CallersOK
    <3>2. CASE ~once[c]
      BY <1>7, <3>2, ReleaseLockedType DEF Release
    <3>3. QED
      BY <3>1, <3>2
  <2>2. MoneyOK'
    BY <1>7, <2>1 DEF Release, TypeOK, MoneyOK, history
  <2>3. FlagsOK'
    BY <1>7 DEF Release, TypeOK, FlagsOK, history
  <2>4. CallersOK'
    BY <1>7, <2>1 DEF Release, TypeOK, CallersOK
  <2>5. QED
    BY <2>2, <2>3, <2>4 DEF TypeOK
<1>8. ASSUME NEW c \in Caller, NEW t \in Total, PreConfirm(c, t)
      PROVE  TypeOK'
  <2>1. MoneyOK'
    BY <1>8 DEF PreConfirm, TypeOK, MoneyOK, history
  <2>2. FlagsOK'
    BY <1>8 DEF PreConfirm, TypeOK, FlagsOK, history
  <2>3. CallersOK'
    BY <1>8 DEF PreConfirm, TypeOK, CallersOK
  <2>4. QED
    BY <2>1, <2>2, <2>3 DEF TypeOK
<1>9. CASE UNCHANGED vars
  BY <1>9 DEF TypeOK, MoneyOK, FlagsOK, CallersOK, vars, gvars, history
<1>10. QED
  BY <1>1, <1>2, <1>3, <1>4, <1>5, <1>6, <1>7, <1>8, <1>9 DEF Next

-----------------------------------------------------------------------------

(* Everything but the money: which caller is where, who holds the lock. *)
ControlInv ==
    HoldersAreOpen /\ WantKnown /\ AskersHoldTheLock /\ RefusalIsRecorded

(* Initially nobody holds, wants, asks or refuses anything. *)
LEMMA InitControl == Init => ControlInv
BY DEF Init, ControlInv, HoldersAreOpen, WantKnown, AskersHoldTheLock, RefusalIsRecorded

(* A reservation keeps the control invariant. *)
LEMMA ReserveControl ==
    ASSUME TypeOK, ControlInv, NEW c \in Caller, NEW e \in Estimates, Reserve(c, e),
           pc[c] \notin {"prompting", "quoting"},
           want' = want \/ want' = [want EXCEPT ![c] = None]
    PROVE  ControlInv'
<1> USE DEF Reserve, ControlInv, TypeOK, FlagsOK, CallersOK
<1>1. HoldersAreOpen'
  BY EstimatesType DEF HoldersAreOpen
<1>2. WantKnown'
  BY DEF WantKnown
<1>3. AskersHoldTheLock'
  BY DEF AskersHoldTheLock
<1>4. RefusalIsRecorded'
  BY DEF RefusalIsRecorded
<1>5. QED
  BY <1>1, <1>2, <1>3, <1>4

(* Every step keeps the control invariant. *)
LEMMA StepControl ==
    ASSUME TypeOK, ControlInv, [Next]_vars
    PROVE  ControlInv'
<1> USE DEF ControlInv, HoldersAreOpen, WantKnown, AskersHoldTheLock, RefusalIsRecorded
<1>1. ASSUME NEW s \in Actual, Restore(s)
      PROVE  ControlInv'
  BY <1>1 DEF Restore
<1>2. ASSUME NEW c \in Caller, NEW e \in Estimate, Authorize(c, e)
      PROVE  ControlInv'
  <2>1. e \in Estimates
    BY <1>2 DEF Authorize, Estimates
  <2>2. CASE Reserve(c, e) /\ UNCHANGED want
    <3>1. pc[c] \notin {"prompting", "quoting"}
      BY <1>2 DEF Authorize
    <3>2. QED
      BY <2>1, <2>2, <3>1, ReserveControl
  <2>3. CASE UNCHANGED <<gvars, once, history>>
             /\ want' = [want EXCEPT ![c] = e] /\ pc' = [pc EXCEPT ![c] = "asking"]
    BY <1>2, <2>1, <2>3, EstimatesType
       DEF Authorize, TypeOK, CallersOK, gvars, history
  <2>4. QED
    BY <1>2, <2>2, <2>3 DEF Authorize
<1>3. ASSUME NEW c \in Caller, AskLock(c)
      PROVE  ControlInv'
  BY <1>3 DEF AskLock, TypeOK, CallersOK
<1>4. ASSUME NEW c \in Caller, AnswerYes(c)
      PROVE  ControlInv'
  BY <1>4 DEF AnswerYes, TypeOK, CallersOK, history
<1>5. ASSUME NEW c \in Caller, AnswerNo(c)
      PROVE  ControlInv'
  BY <1>5 DEF AnswerNo, TypeOK, CallersOK, history
<1>6. ASSUME NEW c \in Caller, Retry(c)
      PROVE  ControlInv'
  <2>1. CASE Reserve(c, want[c])
    <3>1. want[c] \in Estimates /\ pc[c] \notin {"prompting", "quoting"}
      BY <1>6 DEF Retry, TypeOK, CallersOK
    <3>2. want' = [want EXCEPT ![c] = None]
      BY <1>6 DEF Retry
    <3>3. QED
      BY <2>1, <3>1, <3>2, ReserveControl
  <2>2. CASE pc' = [pc EXCEPT ![c] = "idle"] /\ UNCHANGED <<gvars, once, history>>
    BY <1>6, <2>2 DEF Retry, TypeOK, CallersOK, gvars, history
  <2>3. QED
    BY <1>6, <2>1, <2>2 DEF Retry
<1>7. ASSUME NEW c \in Caller, NEW a \in Actual, Settle(c, a)
      PROVE  ControlInv'
  BY <1>7 DEF Settle, releaseLocked, TypeOK, CallersOK, FlagsOK
<1>8. ASSUME NEW c \in Caller, Release(c)
      PROVE  ControlInv'
  BY <1>8 DEF Release, releaseLocked, TypeOK, CallersOK, FlagsOK, history
<1>9. ASSUME NEW c \in Caller, NEW t \in Total, PreConfirm(c, t)
      PROVE  ControlInv'
  BY <1>9 DEF PreConfirm, TypeOK, CallersOK, history
<1>10. ASSUME NEW c \in Caller, QuoteYes(c)
      PROVE  ControlInv'
  BY <1>10 DEF QuoteYes, TypeOK, CallersOK, history
<1>11. ASSUME NEW c \in Caller, QuoteNo(c)
      PROVE  ControlInv'
  BY <1>11 DEF QuoteNo, TypeOK, CallersOK
<1>12. CASE UNCHANGED vars
  BY <1>12 DEF vars, gvars, history
<1>13. QED
  BY <1>1, <1>2, <1>3, <1>4, <1>5, <1>6, <1>7, <1>8, <1>9, <1>10, <1>11, <1>12 DEF Next

-----------------------------------------------------------------------------

(* What caller x has on hold. *)
Holding(h, d) == [x \in Caller |-> Amount(h[x], d)]

(* What the callers hold in one dimension is a natural for each of them. *)
LEMMA HoldingType ==
    ASSUME NEW h \in [Caller -> Estimates \cup {None}], NEW d \in Dim
    PROVE  Holding(h, d) \in [Caller -> Nat]
<1>1. \A x \in Caller : Amount(h[x], d) \in Nat
  BY EstimatesType DEF Amount
<1>2. QED
  BY <1>1 DEF Holding

(* What is on hold changes by one caller's change. *)
LEMMA HeldUpdate ==
    ASSUME TypeOK, TypeOK', NEW c \in Caller, NEW d \in Dim,
           \A x \in Caller \ {c} : open'[x] = open[x]
    PROVE  /\ HeldOf(d) \in Nat
           /\ HeldOf(d)' = HeldOf(d) - Amount(open[c], d) + Amount(open'[c], d)
           /\ Amount(open[c], d) \in Nat /\ Amount(open'[c], d) \in Nat
<1>1. open \in [Caller -> Estimates \cup {None}] /\ open' \in [Caller -> Estimates \cup {None}]
  BY DEF TypeOK, CallersOK
<1> DEFINE f == Holding(open, d)
           g == Holding(open', d)
<1>2. f \in [Caller -> Nat] /\ g \in [Caller -> Nat]
  BY <1>1, HoldingType
<1>3. \A x \in Caller \ {c} : g[x] = f[x]
  BY DEF Holding
<1>4. HeldOf(d) = SumOver(f, Caller) /\ HeldOf(d)' = SumOver(g, Caller)
  BY DEF HeldOf, Holding
<1>5. f[c] = Amount(open[c], d) /\ g[c] = Amount(open'[c], d)
  BY DEF Holding
<1> HIDE DEF f, g
<1>6. SumOver(g, Caller) = SumOver(f, Caller) - f[c] + g[c]
  BY <1>2, <1>3, SumOverUpdate
<1>7. SumOver(f, Caller) \in Nat
  BY <1>2, SumOverNat
<1>8. f[c] \in Nat /\ g[c] \in Nat
  BY <1>2
<1>9. QED
  BY <1>4, <1>5, <1>6, <1>7, <1>8

MoneyInv == NothingBeforeTheFirst /\ ReservedIsOpenSum /\ CapHolds /\ OvershootReported

(* Initially nothing is spent, reserved or reported. *)
LEMMA InitMoney == Init => MoneyInv
<1> SUFFICES ASSUME Init PROVE MoneyInv
  OBVIOUS
<1>1. NothingBeforeTheFirst
  BY ZeroType DEF Init, NothingBeforeTheFirst
<1>2. ReservedIsOpenSum
  <2>1. \A d \in Dim : SumOver([x \in Caller |-> Amount(open[x], d)], Caller) = 0
    BY SumOverZero DEF Init, Amount
  <2>2. QED
    BY <2>1, ZeroType DEF Init, ReservedIsOpenSum, HeldOf
<1>3. CapHolds
  <2>1. \A d \in Capped : d \in Dim /\ Limit[d] \in Nat
    BY DEF Capped, Limit
  <2>2. QED
    BY <2>1, ZeroType DEF Init, CapHolds
<1>4. OvershootReported
  <2>1. spent["cost"] = 0
    BY ZeroType DEF Init
  <2>2. QED
    BY <2>1 DEF Init, OvershootReported, overshootOf, Larger
<1>5. QED
  BY <1>1, <1>2, <1>3, <1>4 DEF MoneyInv

(* A granted reservation keeps the books: the caps had room for it. *)
LEMMA ReserveMoney ==
    ASSUME TypeOK, TypeOK', MoneyInv, NEW c \in Caller, NEW e \in Estimates,
           open[c] = None, grants(e), Reserve(c, e)
    PROVE  MoneyInv'
<1>1. e \in [Dim -> Nat]
  BY EstimatesType
<1>2. NothingBeforeTheFirst'
  BY DEF Reserve, NothingBeforeTheFirst
<1>3. ASSUME NEW d \in Dim
      PROVE  reserved'[d] = HeldOf(d)'
  <2>1. \A x \in Caller \ {c} : open'[x] = open[x]
    BY DEF Reserve, TypeOK, CallersOK
  <2>2. open'[c] = e
    BY DEF Reserve, TypeOK, CallersOK
  <2>3. HeldOf(d)' = HeldOf(d) - Amount(open[c], d) + Amount(open'[c], d) /\ HeldOf(d) \in Nat
    BY <2>1, HeldUpdate
  <2>4. Amount(open[c], d) = 0 /\ Amount(open'[c], d) = e[d]
    BY <2>2, EstimatesType DEF Amount
  <2>5. reserved'[d] = reserved[d] + e[d]
    BY DEF Reserve
  <2>6. reserved[d] = HeldOf(d)
    BY DEF MoneyInv, ReservedIsOpenSum
  <2>7. QED
    BY <1>1, <2>3, <2>4, <2>5, <2>6
<1>4. ASSUME NEW d \in Capped
      PROVE  spent'[d] + reserved'[d] <= Limit[d] + slack'[d]
  <2>1. d \in Dim /\ Limit[d] \in Nat /\ Limit[d] < MaxInt
    BY DEF Capped, Limit
  <2>2. spent[d] \in Nat /\ reserved[d] \in Int /\ e[d] \in Nat
    BY <1>1, <2>1 DEF TypeOK, MoneyOK, NatPair
  <2>3. reserved[d] \in Nat
    <3>1. \A x \in Caller \ {c} : open'[x] = open[x]
      BY DEF Reserve, TypeOK, CallersOK
    <3>2. HeldOf(d) \in Nat
      BY <2>1, <3>1, HeldUpdate
    <3>3. QED
      BY <2>1, <3>2 DEF MoneyInv, ReservedIsOpenSum
  <2>4. addSpend(addSpend(spent[d], reserved[d]), e[d]) <= Limit[d]
    BY DEF grants, fitsLocked
  <2>5. spent[d] + reserved[d] + e[d] <= Limit[d]
    BY <2>1, <2>2, <2>3, <2>4 DEF addSpend, Smaller
  <2>6. spent'[d] = spent[d] /\ reserved'[d] = reserved[d] + e[d] /\ slack'[d] = 0
    BY <2>1, ZeroType DEF Reserve
  <2>7. QED
    BY <2>1, <2>2, <2>5, <2>6
<1>5. OvershootReported'
  BY DEF Reserve, MoneyInv, OvershootReported, overshootOf
<1>6. QED
  BY <1>2, <1>3, <1>4, <1>5 DEF MoneyInv, ReservedIsOpenSum, CapHolds

(* Closing a reservation takes exactly its estimate out of the total. *)
LEMMA CloseMoney ==
    ASSUME TypeOK, TypeOK', ReservedIsOpenSum, NEW c \in Caller, releaseLocked(c)
    PROVE  \A d \in Dim :
              /\ reserved'[d] = HeldOf(d)'
              /\ reserved'[d] = reserved[d] - Amount(open[c], d)
              /\ Amount(open[c], d) \in Nat
              /\ reserved[d] \in Nat
<1>1. SUFFICES ASSUME NEW d \in Dim
               PROVE  /\ reserved'[d] = HeldOf(d)'
                      /\ reserved'[d] = reserved[d] - Amount(open[c], d)
                      /\ Amount(open[c], d) \in Nat
                      /\ reserved[d] \in Nat
  OBVIOUS
<1>2. \A x \in Caller \ {c} : open'[x] = open[x]
  BY DEF releaseLocked, TypeOK, CallersOK
<1>3. open'[c] = None
  BY DEF releaseLocked, TypeOK, CallersOK
<1>4. /\ HeldOf(d) \in Nat
      /\ HeldOf(d)' = HeldOf(d) - Amount(open[c], d) + Amount(open'[c], d)
      /\ Amount(open[c], d) \in Nat
  BY <1>2, HeldUpdate
<1>5. Amount(open'[c], d) = 0
  BY <1>3 DEF Amount
<1>6. reserved[d] = HeldOf(d)
  BY DEF ReservedIsOpenSum
<1>7. reserved'[d] = reserved[d] - Amount(open[c], d)
  <2>1. CASE open[c] = None
    <3>1. reserved' = reserved /\ Amount(open[c], d) = 0
      BY <2>1 DEF releaseLocked, Amount
    <3>2. QED
      BY <1>4, <1>6, <3>1
  <2>2. CASE open[c] # None
    BY <2>2 DEF releaseLocked, Amount
  <2>3. QED
    BY <2>1, <2>2
<1>8. QED
  BY <1>4, <1>5, <1>6, <1>7

(* A settlement moves the reservation into spend; what it passes its       *)
(* estimate by goes into slack and into the reported delta.                *)
LEMMA SettleMoney ==
    ASSUME TypeOK, TypeOK', HoldersAreOpen, MoneyInv,
           NEW c \in Caller, NEW a \in Actual, Settle(c, a)
    PROVE  MoneyInv'
<1>1. open[c] # None /\ issued
  BY DEF Settle, HoldersAreOpen, MoneyInv, NothingBeforeTheFirst
<1>2. open[c] \in [Dim -> Nat] /\ a \in [Dim -> Int]
  BY <1>1, EstimatesType DEF TypeOK, CallersOK
<1>3. \A d \in Dim : /\ reserved'[d] = HeldOf(d)'
                     /\ reserved'[d] = reserved[d] - open[c][d]
                     /\ reserved[d] \in Nat
  <2>1. \A d \in Dim : Amount(open[c], d) = open[c][d]
    BY <1>1 DEF Amount
  <2>2. QED
    BY <2>1, CloseMoney DEF Settle, MoneyInv
<1>4. NothingBeforeTheFirst'
  BY <1>1 DEF Settle, NothingBeforeTheFirst
<1>5. ASSUME NEW d \in Capped
      PROVE  spent'[d] + reserved'[d] <= Limit[d] + slack'[d]
  <2>1. d \in Dim /\ Limit[d] \in Nat
    BY DEF Capped, Limit
  <2>2. spent[d] \in Nat /\ slack[d] \in Nat
    BY <2>1 DEF TypeOK, MoneyOK, NatPair
  <2>3. spent'[d] \in Nat /\ spent'[d] <= spent[d] + Larger(0, a[d])
    BY <1>2, <2>1, AddAllBounds DEF Settle, TypeOK, MoneyOK, NatPair
  <2>4. slack'[d] = slack[d] + Larger(0, a[d] - open[c][d])
    BY <2>1 DEF Settle
  <2>5. spent[d] + reserved[d] <= Limit[d] + slack[d]
    BY DEF MoneyInv, CapHolds
  <2>6. open[c][d] \in Nat /\ a[d] \in Int
    BY <1>2, <2>1
  <2>7. Larger(0, a[d]) - open[c][d] <= Larger(0, a[d] - open[c][d])
    BY <2>6 DEF Larger
  <2>8. Larger(0, a[d]) \in Nat /\ Larger(0, a[d] - open[c][d]) \in Nat
    BY <2>6 DEF Larger
  <2>9. reserved'[d] = reserved[d] - open[c][d] /\ reserved[d] \in Nat
    BY <1>3, <2>1
  <2>10. QED
    BY <2>1, <2>2, <2>3, <2>4, <2>5, <2>6, <2>7, <2>8, <2>9
<1>6. OvershootReported'
  <2>1. spent["cost"] \in Int /\ spent'["cost"] \in Int
    BY DEF TypeOK, MoneyOK, NatPair
  <2>2. overshootOf(spent') \in Int /\ overshootOf(spent) \in Int
    BY <2>1 DEF overshootOf, Larger
  <2>3. reported' = reported + overshootOf(spent') - overshootOf(spent)
    BY DEF Settle
  <2>4. overshootOf(spent) = inherited + reported /\ inherited' = inherited
    BY DEF MoneyInv, OvershootReported, Settle
  <2>5. reported \in Int /\ inherited \in Int
    BY DEF TypeOK, MoneyOK
  <2>6. overshootOf(spent)' = overshootOf(spent')
    BY DEF overshootOf
  <2>7. QED
    BY <2>2, <2>3, <2>4, <2>5, <2>6 DEF OvershootReported
<1>7. QED
  BY <1>3, <1>4, <1>5, <1>6 DEF MoneyInv, ReservedIsOpenSum, CapHolds

(* A release returns the headroom and nothing else. *)
LEMMA ReleaseMoney ==
    ASSUME TypeOK, TypeOK', HoldersAreOpen, MoneyInv, NEW c \in Caller, Release(c)
    PROVE  MoneyInv'
<1>1. CASE once[c]
  BY <1>1 DEF Release, MoneyInv, NothingBeforeTheFirst, ReservedIsOpenSum, HeldOf,
              CapHolds, OvershootReported, overshootOf, history
<1>2. CASE ~once[c]
  <2>1. issued /\ releaseLocked(c)
    BY <1>2 DEF Release, HoldersAreOpen, MoneyInv, NothingBeforeTheFirst
  <2>2. \A d \in Dim : /\ reserved'[d] = HeldOf(d)'
                       /\ reserved'[d] = reserved[d] - Amount(open[c], d)
                       /\ Amount(open[c], d) \in Nat
                       /\ reserved[d] \in Nat
    BY <2>1, CloseMoney DEF MoneyInv
  <2>3. NothingBeforeTheFirst'
    BY <2>1 DEF Release, NothingBeforeTheFirst
  <2>4. ASSUME NEW d \in Capped
        PROVE  spent'[d] + reserved'[d] <= Limit[d] + slack'[d]
    <3>1. d \in Dim /\ Limit[d] \in Nat
      BY DEF Capped, Limit
    <3>2. spent'[d] = spent[d] /\ slack'[d] = slack[d] /\ spent[d] \in Nat /\ slack[d] \in Nat
      BY <3>1 DEF Release, history, TypeOK, MoneyOK, NatPair
    <3>3. spent[d] + reserved[d] <= Limit[d] + slack[d]
      BY DEF MoneyInv, CapHolds
    <3>4. QED
      BY <2>2, <3>1, <3>2, <3>3
  <2>5. OvershootReported'
    BY DEF Release, MoneyInv, OvershootReported, overshootOf, history
  <2>6. QED
    BY <2>2, <2>3, <2>4, <2>5 DEF MoneyInv, ReservedIsOpenSum, CapHolds
<1>3. QED
  BY <1>1, <1>2

(* Restored spend may pass a cap that was lowered; slack says by how much. *)
LEMMA RestoreMoney ==
    ASSUME TypeOK, TypeOK', MoneyInv, NEW s \in Actual, Restore(s)
    PROVE  MoneyInv'
<1>1. ~issued /\ reported = 0 /\ \A d \in Dim : reserved[d] = 0
  BY DEF Restore, MoneyInv, NothingBeforeTheFirst
<1>2. NothingBeforeTheFirst'
  BY DEF Restore, MoneyInv, NothingBeforeTheFirst
<1>3. ReservedIsOpenSum'
  BY DEF Restore, MoneyInv, ReservedIsOpenSum, HeldOf
<1>4. ASSUME NEW d \in Capped
      PROVE  spent'[d] + reserved'[d] <= Limit[d] + slack'[d]
  <2>1. d \in Dim /\ Limit[d] \in Nat
    BY DEF Capped, Limit
  <2>2. spent'[d] \in Nat /\ reserved'[d] = 0
    BY <1>1, <2>1 DEF Restore, TypeOK, MoneyOK, NatPair
  <2>3. slack'[d] = Larger(0, spent'[d] - Limit[d])
    BY <2>1 DEF Restore
  <2>4. QED
    BY <2>1, <2>2, <2>3 DEF Larger
<1>5. OvershootReported'
  <2>1. overshootOf(spent)' = inherited' /\ reported' = 0
    BY <1>1 DEF Restore, overshootOf
  <2>2. inherited' \in Int
    BY DEF TypeOK, MoneyOK
  <2>3. QED
    BY <2>1, <2>2 DEF OvershootReported, overshootOf
<1>6. QED
  BY <1>2, <1>3, <1>4, <1>5 DEF MoneyInv, CapHolds

(* Steps that touch none of the money keep the books. *)
LEMMA OtherMoney ==
    ASSUME MoneyInv, UNCHANGED <<spent, reserved, open, issued, slack, reported, inherited>>
    PROVE  MoneyInv'
BY DEF MoneyInv, NothingBeforeTheFirst, ReservedIsOpenSum, HeldOf, CapHolds,
       OvershootReported, overshootOf

(* Every step of the guard keeps the money invariant. *)
LEMMA StepMoney ==
    ASSUME TypeOK, TypeOK', ControlInv, MoneyInv, [Next]_vars
    PROVE  MoneyInv'
<1> USE DEF ControlInv
<1>1. ASSUME NEW s \in Actual, Restore(s)
      PROVE  MoneyInv'
  BY <1>1, RestoreMoney
<1>2. ASSUME NEW c \in Caller, NEW e \in Estimate, Authorize(c, e)
      PROVE  MoneyInv'
  <2>1. e \in Estimates /\ open[c] = None
    BY <1>2 DEF Authorize, Estimates, HoldersAreOpen
  <2>2. CASE grants(e) /\ Reserve(c, e)
    BY <2>1, <2>2, ReserveMoney
  <2>3. CASE UNCHANGED <<gvars, once, history>>
    BY <2>3, OtherMoney DEF gvars, history
  <2>4. QED
    BY <1>2, <2>2, <2>3 DEF Authorize
<1>3. ASSUME NEW c \in Caller,
             AskLock(c) \/ AnswerYes(c) \/ AnswerNo(c) \/ QuoteYes(c) \/ QuoteNo(c)
      PROVE  MoneyInv'
  BY <1>3, OtherMoney DEF AskLock, AnswerYes, AnswerNo, QuoteYes, QuoteNo, history
<1>4. ASSUME NEW c \in Caller, Retry(c)
      PROVE  MoneyInv'
  <2>1. want[c] \in Estimates /\ open[c] = None
    BY <1>4 DEF Retry, WantKnown, HoldersAreOpen, TypeOK, CallersOK
  <2>2. CASE grants(want[c]) /\ Reserve(c, want[c])
    BY <2>1, <2>2, ReserveMoney
  <2>3. CASE UNCHANGED <<gvars, once, history>>
    BY <2>3, OtherMoney DEF gvars, history
  <2>4. QED
    BY <1>4, <2>2, <2>3 DEF Retry
<1>5. ASSUME NEW c \in Caller, NEW a \in Actual, Settle(c, a)
      PROVE  MoneyInv'
  BY <1>5, SettleMoney
<1>6. ASSUME NEW c \in Caller, Release(c)
      PROVE  MoneyInv'
  BY <1>6, ReleaseMoney
<1>7. ASSUME NEW c \in Caller, NEW t \in Total, PreConfirm(c, t)
      PROVE  MoneyInv'
  BY <1>7, OtherMoney DEF PreConfirm, history
<1>8. CASE UNCHANGED vars
  BY <1>8, OtherMoney DEF vars, gvars, history
<1>9. QED
  BY <1>1, <1>2, <1>3, <1>4, <1>5, <1>6, <1>7, <1>8 DEF Next

-----------------------------------------------------------------------------

(* The inductive invariant: the properties and who is where. *)
THEOREM GuardInvariant == Spec => []IInv
<1>1. Init => IInv
  BY InitType, InitControl, InitMoney DEF IInv, ControlInv, MoneyInv
<1>2. IInv /\ [Next]_vars => IInv'
  <2> SUFFICES ASSUME IInv, [Next]_vars PROVE IInv'
    OBVIOUS
  <2>1. TypeOK /\ ControlInv /\ MoneyInv
    BY DEF IInv, ControlInv, MoneyInv
  <2>2. TypeOK'
    BY <2>1, StepType DEF ControlInv
  <2>3. ControlInv'
    BY <2>1, StepControl
  <2>4. MoneyInv'
    BY <2>1, <2>2, StepMoney
  <2>5. QED
    BY <2>2, <2>3, <2>4 DEF IInv, ControlInv, MoneyInv
<1>3. QED
  BY <1>1, <1>2, PTL DEF Spec

(* Type correctness. *)
THEOREM GuardTypeCorrect == Spec => []TypeOK
<1>1. IInv => TypeOK
  BY DEF IInv
<1>2. QED
  BY <1>1, GuardInvariant, PTL

(* No headroom leaks: the total is the sum of the open reservations. *)
THEOREM GuardReservedIsOpenSum == Spec => []ReservedIsOpenSum
<1>1. IInv => ReservedIsOpenSum
  BY DEF IInv
<1>2. QED
  BY <1>1, GuardInvariant, PTL

(* The caps hold up to what settlements passed their estimates by. *)
THEOREM GuardCapHolds == Spec => []CapHolds
<1>1. IInv => CapHolds
  BY DEF IInv
<1>2. QED
  BY <1>1, GuardInvariant, PTL

(* Every overshoot is reported by exactly one settlement. *)
THEOREM GuardOvershootReported == Spec => []OvershootReported
<1>1. IInv => OvershootReported
  BY DEF IInv
<1>2. QED
  BY <1>1, GuardInvariant, PTL

(* One prompt at a time, and only while consent is still open. *)
THEOREM GuardPromptsAreNeeded == Spec => []PromptsAreNeeded
<1>1. IInv => PromptsAreNeeded
  <2> SUFFICES ASSUME IInv PROVE PromptsAreNeeded
    OBVIOUS
  <2> DEFINE facing == {c \in Caller : pc[c] \in {"prompting", "quoting"}}
  <2>1. \A c \in facing : confirmMu = c /\ ~confirmed
    BY DEF IInv, AskersHoldTheLock
  <2>2. CASE facing = {}
    <3>1. Cardinality(facing) = 0
      BY <2>2, FS_EmptySet
    <3>2. QED
      BY <2>2, <3>1 DEF PromptsAreNeeded
  <2>3. CASE facing # {}
    <3>1. facing = {confirmMu}
      BY <2>1, <2>3
    <3>2. Cardinality(facing) = 1
      BY <3>1, FS_Singleton
    <3>3. ~confirmed
      BY <2>1, <2>3
    <3>4. QED
      BY <3>2, <3>3 DEF PromptsAreNeeded
  <2>4. QED
    BY <2>2, <2>3
<1>2. QED
  BY <1>1, GuardInvariant, PTL

(* After a refusal of the run nothing more is authorized. *)
THEOREM GuardNothingAfterRefusal == Spec => NothingAfterRefusal
<1> DEFINE Kept == refused => \A c \in Caller : open'[c] # None => open'[c] = open[c]
<1>1. IInv /\ [Next]_vars => [Kept]_vars
  <2> SUFFICES ASSUME IInv, Next, refused
               PROVE  \A c \in Caller : open'[c] # None => open'[c] = open[c]
    OBVIOUS
  <2>1. declined
    BY DEF IInv, RefusalIsRecorded
  <2>2. \A e : ~grants(e)
    BY <2>1 DEF grants
  <2>3. open \in [Caller -> Estimates \cup {None}]
    BY DEF IInv, TypeOK, CallersOK
  <2>4. ASSUME NEW c \in Caller,
               (\E a \in Actual : Settle(c, a)) \/ Release(c)
        PROVE  \A x \in Caller : open'[x] # None => open'[x] = open[x]
    BY <2>3, <2>4 DEF Settle, Release, releaseLocked
  <2>5. ASSUME NEW c \in Caller, (\E e \in Estimate : Authorize(c, e)) \/ Retry(c)
        PROVE  open' = open
    BY <2>2, <2>5 DEF Authorize, Retry, gvars
  <2>6. ASSUME NEW c \in Caller,
               AskLock(c) \/ AnswerYes(c) \/ AnswerNo(c) \/ QuoteYes(c) \/ QuoteNo(c)
                 \/ \E t \in Total : PreConfirm(c, t)
        PROVE  open' = open
    BY <2>6 DEF AskLock, AnswerYes, AnswerNo, QuoteYes, QuoteNo, PreConfirm
  <2>7. ASSUME NEW s \in Actual, Restore(s)
        PROVE  open' = open
    BY <2>7 DEF Restore
  <2>8. QED
    BY <2>4, <2>5, <2>6, <2>7 DEF Next
<1>2. QED
  BY <1>1, GuardInvariant, PTL DEF Spec, NothingAfterRefusal

-----------------------------------------------------------------------------

(* A grant leaves the ledger room: the counters say what the holds say. *)
LEMMA TakeStep ==
    ASSUME IInv, NEW c \in Caller, NEW e \in Estimates, open[c] = None,
           grants(e), Reserve(c, e)
    PROVE  L!Take(c, e)
<1>1. ASSUME NEW d \in Capped
      PROVE  spent[d] + L!Held(d) + e[d] <= Limit[d]
  <2>1. d \in Dim /\ Limit[d] \in Nat /\ Limit[d] < MaxInt
    BY DEF Capped, Limit
  <2>2. L!Held(d) = HeldOf(d) /\ reserved[d] = HeldOf(d)
    <3>1. L!Held(d) = HeldOf(d)
      <4>1. \A x \in Caller : L!Amount(open[x], d) = Amount(open[x], d)
        BY DEF L!Amount, Amount
      <4> DEFINE f == [x \in Caller |-> Amount(open[x], d)]
                 g == [x \in Caller |-> L!Amount(open[x], d)]
      <4>2. g = f
        BY <4>1
      <4>3. L!Held(d) = L!SumOver(g, Caller) /\ HeldOf(d) = SumOver(f, Caller)
        BY DEF L!Held, HeldOf
      <4> HIDE DEF f, g
      <4>4. L!Units(f, Caller) = Units(f, Caller)
        BY DEF L!Units, Units
      <4>5. L!SumOver(f, Caller) = SumOver(f, Caller)
        BY <4>4 DEF L!SumOver, SumOver, L!Cardinality, Cardinality
      <4>6. QED
        BY <4>2, <4>3, <4>5
    <3>2. reserved[d] = HeldOf(d)
      BY <2>1 DEF IInv, ReservedIsOpenSum
    <3>3. QED
      BY <3>1, <3>2
  <2>3. HeldOf(d) \in Nat
    <3>1. Holding(open, d) \in [Caller -> Nat]
      BY <2>1, HoldingType DEF IInv, TypeOK, CallersOK
    <3>2. QED
      BY <3>1, SumOverNat DEF HeldOf, Holding
  <2>4. spent[d] \in Nat /\ e[d] \in Nat
    BY <2>1, EstimatesType DEF IInv, TypeOK, MoneyOK, NatPair
  <2>5. addSpend(addSpend(spent[d], reserved[d]), e[d]) <= Limit[d]
    BY DEF grants, fitsLocked
  <2>6. QED
    BY <2>1, <2>2, <2>3, <2>4, <2>5 DEF addSpend, Smaller
<1>2. QED
  BY <1>1 DEF Reserve, L!Take

(* Every step of the guard is a step of the ledger, or none. *)
LEMMA LedgerStep == IInv /\ IInv' /\ [Next]_vars => [L!Next]_<<spent, open>>
<1> SUFFICES ASSUME IInv, IInv', [Next]_vars PROVE [L!Next]_<<spent, open>>
  OBVIOUS
<1>1. ASSUME NEW c \in Caller, NEW e \in Estimate, Authorize(c, e)
      PROVE  L!Next \/ UNCHANGED <<spent, open>>
  <2>1. e \in Estimates /\ open[c] = None
    BY <1>1 DEF Authorize, Estimates, IInv, HoldersAreOpen
  <2>2. CASE grants(e) /\ Reserve(c, e)
    BY <2>1, <2>2, TakeStep DEF L!Next
  <2>3. CASE UNCHANGED gvars
    BY <2>3 DEF gvars
  <2>4. QED
    BY <1>1, <2>2, <2>3 DEF Authorize
<1>2. ASSUME NEW c \in Caller, Retry(c)
      PROVE  L!Next \/ UNCHANGED <<spent, open>>
  <2>1. want[c] \in Estimates /\ open[c] = None
    BY <1>2 DEF Retry, IInv, WantKnown, HoldersAreOpen, TypeOK, CallersOK
  <2>2. CASE grants(want[c]) /\ Reserve(c, want[c])
    BY <2>1, <2>2, TakeStep DEF L!Next
  <2>3. CASE UNCHANGED gvars
    BY <2>3 DEF gvars
  <2>4. QED
    BY <1>2, <2>2, <2>3 DEF Retry
<1>3. ASSUME NEW c \in Caller, NEW a \in Actual, Settle(c, a)
      PROVE  L!Next
  <2>1. open[c] # None
    BY <1>3 DEF Settle, IInv, HoldersAreOpen
  <2>2. \A d \in Dim : spent[d] <= spent'[d]
    BY <1>3, AddAllBounds DEF Settle, IInv, TypeOK, MoneyOK
  <2>3. spent' \in [{"cost", "calls"} -> Nat] /\ spent \in [{"cost", "calls"} -> Nat]
    BY DEF IInv, TypeOK, MoneyOK, NatPair
  <2>4. L!Spend(c)
    BY <1>3, <2>1, <2>2, <2>3 DEF L!Spend, Settle, releaseLocked
  <2>5. QED
    BY <2>4 DEF L!Next
<1>4. ASSUME NEW c \in Caller, Release(c)
      PROVE  L!Next \/ UNCHANGED <<spent, open>>
  <2>1. CASE once[c]
    BY <1>4, <2>1 DEF Release
  <2>2. CASE ~once[c]
    <3>1. open[c] # None
      BY <1>4, <2>2 DEF Release, IInv, HoldersAreOpen
    <3>2. L!GiveBack(c)
      BY <1>4, <2>2, <3>1 DEF Release, releaseLocked, L!GiveBack
    <3>3. QED
      BY <3>2 DEF L!Next
  <2>3. QED
    BY <2>1, <2>2
<1>5. ASSUME NEW s \in Actual, Restore(s)
      PROVE  L!Next
  <2>1. \A c \in Caller : open[c] = None
    BY <1>5 DEF Restore, IInv, NothingBeforeTheFirst
  <2>2. \A d \in Dim : spent[d] <= spent'[d]
    BY <1>5, AddAllBounds DEF Restore, IInv, TypeOK, MoneyOK
  <2>3. spent' \in [{"cost", "calls"} -> Nat] /\ spent \in [{"cost", "calls"} -> Nat]
    BY DEF IInv, TypeOK, MoneyOK, NatPair
  <2>4. L!CarryOver
    BY <1>5, <2>1, <2>2, <2>3 DEF Restore, L!CarryOver
  <2>5. QED
    BY <2>4 DEF L!Next
<1>6. ASSUME NEW c \in Caller,
             AskLock(c) \/ AnswerYes(c) \/ AnswerNo(c) \/ QuoteYes(c) \/ QuoteNo(c)
               \/ \E t \in Total : PreConfirm(c, t)
      PROVE  UNCHANGED <<spent, open>>
  BY <1>6 DEF AskLock, AnswerYes, AnswerNo, QuoteYes, QuoteNo, PreConfirm
<1>7. CASE UNCHANGED vars
  BY <1>7 DEF vars, gvars
<1>8. QED
  BY <1>1, <1>2, <1>3, <1>4, <1>5, <1>6, <1>7 DEF Next

(* The guard's running totals implement the ledger of explicit holds. *)
THEOREM GuardImplementsLedger == Spec => ImplementsLedger
<1>1. Init => L!Init
  BY ZeroType DEF Init, L!Init, NatPair
<1>2. IInv /\ IInv' /\ [Next]_vars => [L!Next]_<<spent, open>>
  BY LedgerStep
<1>3. L!Spec <=> L!Init /\ [][L!Next]_<<spent, open>>
  BY DEF L!Spec, L!ledgerVars
<1>4. QED
  BY <1>1, <1>2, <1>3, GuardInvariant, PTL DEF Spec, ImplementsLedger

=============================================================================
