---------------------------- MODULE LlmGatewayProofs ----------------------------
(***************************************************************************)
(* What TLAPS proves of LlmGateway, for any processes, calls and limits:    *)
(* types, the bound on what one process spends, Redis up or down, the       *)
(* bound on what all of them spend, and that personal calls stay off the    *)
(* free tier.                                                               *)
(***************************************************************************)
EXTENDS LlmGateway, FiniteSetTheorems, WellFoundedInduction, TLAPS

\* Calls of a process that passed its own ledger and are not booked in it yet.
Unbooked(p) == {c \in CallsOf(p) : at[c] \in {"check", "call", "reply"}}

\* What they may still add is reserved: the ledger and they together stay within
\* a limit and the cost of all calls that can overlap.
WithinReserve(booked, limit, p) ==
    booked + MaxCost * Cardinality(Unbooked(p)) < limit + MaxCost * Cardinality(CallsOf(p))

\* The inductive invariant.
IInv ==
    /\ TypeOK
    /\ \A p \in Processes :
         /\ WithinReserve(localDay[p], DailyLimit, p)
         /\ WithinReserve(localTotal[p], EnvironmentLimit, p)

-----------------------------------------------------------------------------

\* Fewer calls cost no more.
LEMMA FewerCostLess ==
  ASSUME NEW T, IsFiniteSet(T), NEW S \in SUBSET T
  PROVE  /\ IsFiniteSet(S)
         /\ MaxCost * Cardinality(S) \in Nat
         /\ MaxCost * Cardinality(T) \in Nat
         /\ MaxCost * Cardinality(S) <= MaxCost * Cardinality(T)
  <1>1. IsFiniteSet(S) /\ Cardinality(S) <= Cardinality(T)
    BY FS_Subset
  <1>2. Cardinality(S) \in Nat /\ Cardinality(T) \in Nat
    BY <1>1, FS_CardinalityType
  <1>3. ASSUME NEW m \in Nat, NEW a \in Nat, NEW b \in Nat, a <= b
        PROVE  m * a \in Nat /\ m * b \in Nat /\ m * a <= m * b
    <2>1. b - a \in Nat /\ m * (b - a) \in Nat /\ m * b = m * a + m * (b - a)
      BY <1>3, SMT
    <2> QED BY <2>1, SMT
  <1> QED BY <1>1, <1>2, <1>3, GatewayConstants

\* One call less costs one call less.
LEMMA OneLess ==
  ASSUME NEW T, IsFiniteSet(T), NEW x \in T
  PROVE  MaxCost * Cardinality(T \ {x}) = MaxCost * Cardinality(T) - MaxCost
  <1>1. Cardinality(T \ {x}) = Cardinality(T) - 1
    BY FS_RemoveElement
  <1>2. Cardinality(T) \in Nat
    BY FS_CardinalityType
  <1>3. ASSUME NEW m \in Nat, NEW n \in Nat PROVE m * (n - 1) = m * n - m
    BY SMT
  <1> QED BY <1>1, <1>2, <1>3, GatewayConstants

\* The calls of a process are finitely many, booked or not.
LEMMA CallsAreFinite ==
  ASSUME NEW p
  PROVE  IsFiniteSet(CallsOf(p)) /\ Unbooked(p) \in SUBSET CallsOf(p)
  BY FS_Subset, GatewayConstants DEF CallsOf, Unbooked

\* The initial states satisfy the invariant.
LEMMA InitEstablishes == Init => IInv
  <1> SUFFICES ASSUME Init PROVE IInv
    OBVIOUS
  <1>1. TypeOK
    BY GatewayConstants DEF Init, TypeOK
  <1>2. ASSUME NEW p \in Processes
        PROVE  /\ WithinReserve(localDay[p], DailyLimit, p)
               /\ WithinReserve(localTotal[p], EnvironmentLimit, p)
    BY CallsAreFinite, FewerCostLess, GatewayConstants DEF Init, WithinReserve
  <1> QED BY <1>1, <1>2 DEF IInv

-----------------------------------------------------------------------------

\* The part of the types that concerns calls.
CallTypes ==
    /\ at \in [Calls -> {"idle", "check", "call", "reply", "book_day", "book_total"}]
    /\ personal \in [Calls -> BOOLEAN]
    /\ cost \in [Calls -> 0 .. MaxCost]
    /\ bookedOn \in [Calls -> Nat]

\* A call that is over forgets what it held.
LEMMA ReturnKeepsTypes == ASSUME TypeOK, NEW c \in Calls, Return(c) PROVE CallTypes'
  BY GatewayConstants DEF TypeOK, CallTypes, Return

\* Steps of complete keep the types.
LEMMA CompleteKeepsTypes == ASSUME TypeOK, NEW c \in Calls, CompleteStep(c) PROVE TypeOK'
  <1> USE GatewayConstants DEF TypeOK, local, shared, request, charge
  <1>1. ASSUME NEW logical, NEW isPersonal \in BOOLEAN, Begin(c, logical, isPersonal)
        PROVE  TypeOK'
    BY <1>1 DEF Begin
  <1>2. CASE CheckShared(c)
    <2>1. CASE Return(c)
      BY <1>2, <2>1, ReturnKeepsTypes DEF CheckShared, Miss, CallTypes
    <2>2. CASE at' = [at EXCEPT ![c] = "call"] /\ UNCHANGED <<request, charge>>
      BY <1>2, <2>2 DEF CheckShared, Miss
    <2> QED BY <1>2, <2>1, <2>2 DEF CheckShared
  <1>3. CASE ModelFails(c)
    <2>1. CASE Return(c)
      BY <1>3, <2>1, ReturnKeepsTypes DEF ModelFails, CallTypes
    <2>2. CASE UNCHANGED <<at, personal, charge>>
      BY <1>3, <2>2 DEF ModelFails
    <2> QED BY <1>3, <2>1, <2>2 DEF ModelFails
  <1>4. ASSUME NEW amount \in 0 .. MaxCost, ModelCharges(c, amount) PROVE TypeOK'
    BY <1>4 DEF ModelCharges
  <1>5. CASE BookLocally(c)
    BY <1>5 DEF BookLocally
  <1>6. CASE BookDay(c)
    <2>1. sharedDay' \in Nat
      BY <1>6 DEF BookDay, AddToday
    <2>2. CASE Return(c)
      BY <1>6, <2>1, <2>2, ReturnKeepsTypes DEF BookDay, Miss, CallTypes
    <2>3. CASE at' = [at EXCEPT ![c] = "book_total"] /\ UNCHANGED <<request, charge>>
      BY <1>6, <2>1, <2>3 DEF BookDay, Miss
    <2> QED BY <1>6, <2>2, <2>3 DEF BookDay
  <1>7. CASE BookTotal(c)
    <2>1. sharedTotal' \in Nat
      BY <1>7 DEF BookTotal
    <2> QED BY <1>7, <2>1, ReturnKeepsTypes DEF BookTotal, Miss, CallTypes
  <1> QED BY <1>1, <1>2, <1>3, <1>4, <1>5, <1>6, <1>7 DEF CompleteStep

\* Midnights and restarts keep the types.
LEMMA EnvironmentKeepsTypes ==
  ASSUME TypeOK, NewDay \/ (\E p \in Processes : Restart(p)) \/ UNCHANGED vars
  PROVE  TypeOK'
  <1> USE GatewayConstants DEF TypeOK, local, shared, request, charge
  <1>1. CASE NewDay
    BY <1>1 DEF NewDay
  <1>2. ASSUME NEW p \in Processes, Restart(p) PROVE TypeOK'
    <2>1. missed' \in Nat
      <3> DEFINE lost == {c \in {d \in Calls : Host[d] = p} : at[c] \in Charged}
      <3>1. IsFiniteSet(lost)
        BY FS_Subset
      <3>2. Cardinality(lost) \in Nat
        BY <3>1, FS_CardinalityType
      <3> QED BY <1>2, <3>2 DEF Restart
    <2> QED BY <1>2, <2>1 DEF Restart
  <1>3. CASE UNCHANGED vars
    BY <1>3 DEF vars
  <1> QED BY <1>1, <1>2, <1>3

-----------------------------------------------------------------------------

\* A step that books no more and owes for no other calls stays within the reserve.
LEMMA StaysWithinReserve ==
  ASSUME IInv, TypeOK', NEW p \in Processes,
         localDay'[p] <= localDay[p], localTotal'[p] <= localTotal[p],
         Unbooked(p)' \subseteq Unbooked(p)
  PROVE  /\ WithinReserve(localDay[p], DailyLimit, p)'
         /\ WithinReserve(localTotal[p], EnvironmentLimit, p)'
  <1>1. IsFiniteSet(Unbooked(p))
    BY CallsAreFinite, FS_Subset
  <1>2. CallsOf(p)' = CallsOf(p)
    BY DEF CallsOf
  <1>3. /\ MaxCost * Cardinality(Unbooked(p)') <= MaxCost * Cardinality(Unbooked(p))
        /\ MaxCost * Cardinality(Unbooked(p)') \in Nat
        /\ MaxCost * Cardinality(Unbooked(p)) \in Nat
        /\ MaxCost * Cardinality(CallsOf(p)) \in Nat
    BY <1>1, FewerCostLess, CallsAreFinite
  <1> QED BY <1>2, <1>3, GatewayConstants DEF IInv, TypeOK, WithinReserve

\* A ledger below its limits may owe for every call that can overlap.
LEMMA ReserveCoversAll ==
  ASSUME TypeOK, NEW p \in Processes, BudgetAllows(localDay[p], localTotal[p]),
         UNCHANGED local
  PROVE  /\ WithinReserve(localDay[p], DailyLimit, p)'
         /\ WithinReserve(localTotal[p], EnvironmentLimit, p)'
  <1>1. CallsOf(p)' = CallsOf(p) /\ Unbooked(p)' \subseteq CallsOf(p)
    BY DEF CallsOf, Unbooked
  <1>2. /\ MaxCost * Cardinality(Unbooked(p)') <= MaxCost * Cardinality(CallsOf(p))
        /\ MaxCost * Cardinality(Unbooked(p)') \in Nat
        /\ MaxCost * Cardinality(CallsOf(p)) \in Nat
    BY <1>1, FewerCostLess, CallsAreFinite
  <1> QED BY <1>1, <1>2, GatewayConstants DEF TypeOK, WithinReserve, BudgetAllows, local

\* Booking a call moves its cost from the reserve to the ledger.
LEMMA BookingKeepsReserve ==
  ASSUME IInv, NEW c \in Calls, BookLocally(c), NEW p \in Processes, Host[c] = p
  PROVE  /\ WithinReserve(localDay[p], DailyLimit, p)'
         /\ WithinReserve(localTotal[p], EnvironmentLimit, p)'
  <1>1. CallsOf(p)' = CallsOf(p) /\ IsFiniteSet(Unbooked(p)) /\ c \in Unbooked(p)
    BY CallsAreFinite, FS_Subset DEF CallsOf, Unbooked, BookLocally
  <1>2. Unbooked(p)' = Unbooked(p) \ {c}
    BY DEF Unbooked, CallsOf, BookLocally, IInv, TypeOK
  <1>3. MaxCost * Cardinality(Unbooked(p)') = MaxCost * Cardinality(Unbooked(p)) - MaxCost
    BY <1>1, <1>2, OneLess
  <1>4. /\ MaxCost * Cardinality(Unbooked(p)) \in Nat
        /\ MaxCost * Cardinality(CallsOf(p)) \in Nat
    BY <1>1, FewerCostLess, CallsAreFinite
  <1>5. /\ localDay'[p] = localDay[p] + cost[c]
        /\ localTotal'[p] = localTotal[p] + cost[c]
        /\ cost[c] \in 0 .. MaxCost
    BY DEF BookLocally, IInv, TypeOK
  <1> QED BY <1>1, <1>3, <1>4, <1>5, GatewayConstants DEF IInv, TypeOK, WithinReserve

\* Every step preserves the invariant.
LEMMA NextPreserves == IInv /\ [Next]_vars => IInv'
  <1> SUFFICES ASSUME IInv, [Next]_vars PROVE IInv'
    OBVIOUS
  <1>1. TypeOK'
    BY CompleteKeepsTypes, EnvironmentKeepsTypes DEF IInv, Next
  <1>2. ASSUME NEW p \in Processes
        PROVE  /\ WithinReserve(localDay[p], DailyLimit, p)'
               /\ WithinReserve(localTotal[p], EnvironmentLimit, p)'
    <2> USE DEF IInv, TypeOK
    <2>1. ASSUME NEW c \in Calls, NEW logical, NEW isPersonal, Begin(c, logical, isPersonal)
          PROVE  /\ WithinReserve(localDay[p], DailyLimit, p)'
                 /\ WithinReserve(localTotal[p], EnvironmentLimit, p)'
      <3>1. CASE Host[c] = p
        BY <2>1, <3>1, ReserveCoversAll DEF Begin
      <3>2. CASE Host[c] # p
        <4>1. Unbooked(p)' \subseteq Unbooked(p)
          BY <2>1, <3>2 DEF Begin, Unbooked, CallsOf
        <4> QED BY <1>1, <2>1, <4>1, StaysWithinReserve DEF Begin, local
      <3> QED BY <3>1, <3>2
    <2>2. ASSUME NEW c \in Calls, BookLocally(c)
          PROVE  /\ WithinReserve(localDay[p], DailyLimit, p)'
                 /\ WithinReserve(localTotal[p], EnvironmentLimit, p)'
      <3>1. CASE Host[c] = p
        BY <2>2, <3>1, BookingKeepsReserve
      <3>2. CASE Host[c] # p
        <4>1. Unbooked(p)' \subseteq Unbooked(p)
          BY <2>2, <3>2 DEF BookLocally, Unbooked, CallsOf
        <4>2. localDay'[p] = localDay[p] /\ localTotal'[p] = localTotal[p]
          BY <2>2, <3>2, GatewayConstants DEF BookLocally
        <4> QED BY <1>1, <4>1, <4>2, StaysWithinReserve
      <3> QED BY <3>1, <3>2
    <2>3. ASSUME NEW c \in Calls,
                 \/ CheckShared(c) \/ ModelFails(c) \/ BookDay(c) \/ BookTotal(c)
                 \/ \E amount \in 0 .. MaxCost : ModelCharges(c, amount)
          PROVE  /\ WithinReserve(localDay[p], DailyLimit, p)'
                 /\ WithinReserve(localTotal[p], EnvironmentLimit, p)'
      <3>1. Unbooked(p)' \subseteq Unbooked(p)
        BY <2>3 DEF CheckShared, ModelFails, BookDay, BookTotal, ModelCharges, Return,
                    Unbooked, CallsOf
      <3>2. UNCHANGED local
        BY <2>3 DEF CheckShared, ModelFails, BookDay, BookTotal, ModelCharges
      <3> QED BY <1>1, <3>1, <3>2, StaysWithinReserve DEF local
    <2>4. CASE NewDay
      BY <1>1, <2>4, StaysWithinReserve DEF NewDay, Unbooked, CallsOf
    <2>5. ASSUME NEW q \in Processes, Restart(q)
          PROVE  /\ WithinReserve(localDay[p], DailyLimit, p)'
                 /\ WithinReserve(localTotal[p], EnvironmentLimit, p)'
      <3>1. Unbooked(p)' \subseteq Unbooked(p)
        BY <2>5 DEF Restart, Unbooked, CallsOf
      <3>2. localDay'[p] <= localDay[p] /\ localTotal'[p] <= localTotal[p]
        BY <2>5 DEF Restart
      <3> QED BY <1>1, <3>1, <3>2, StaysWithinReserve
    <2>6. CASE UNCHANGED vars
      BY <1>1, <2>6, StaysWithinReserve DEF vars, Unbooked, CallsOf
    <2> QED BY <2>1, <2>2, <2>3, <2>4, <2>5, <2>6 DEF Next, CompleteStep
  <1> QED BY <1>1, <1>2 DEF IInv

\* The invariant holds throughout.
THEOREM Invariance == Spec => []IInv
  <1> QED
    BY InitEstablishes, NextPreserves, PTL DEF Spec

-----------------------------------------------------------------------------

\* Ledgers and calls of the gateway keep their types (BudgetTracker, complete).
THEOREM TypeCorrectness == Spec => []TypeOK
  <1>1. IInv => TypeOK
    BY DEF IInv
  <1> QED
    BY <1>1, Invariance, PTL

\* Whether Redis is up or down, a process books no more since its start than its
\* limits and the cost of the calls that overlap in it (BudgetTracker.check before
\* the call, record after it).
THEOREM InstanceBudget == Spec => []InstanceBudgetHolds
  <1>1. IInv => InstanceBudgetHolds
    <2> SUFFICES ASSUME IInv, NEW p \in Processes
                 PROVE  /\ localDay[p] < DailyLimit + MaxCost * Cardinality(CallsOf(p))
                        /\ localTotal[p] < EnvironmentLimit + MaxCost * Cardinality(CallsOf(p))
      BY DEF InstanceBudgetHolds
    <2>1. /\ MaxCost * Cardinality(Unbooked(p)) \in Nat
          /\ MaxCost * Cardinality(CallsOf(p)) \in Nat
      BY CallsAreFinite, FewerCostLess
    <2> QED BY <2>1, GatewayConstants DEF IInv, TypeOK, WithinReserve
  <1> QED
    BY <1>1, Invariance, PTL

-----------------------------------------------------------------------------
(* The money all processes spend together.  The sum of the charges not yet in *)
(* the shared ledger is counted as the size of a set, one element per unit of *)
(* cost, so that no recursive sum is needed.                                  *)

\* Calls that were charged and are not booked yet.
ChargedCalls == {c \in Calls : at[c] \in Charged}

\* Calls that passed the check and have not been charged yet.
Allowed == {c \in Calls : at[c] = "call"}

\* The units of cost that are charged and not yet in the shared total.
Units == Calls \X (1 .. MaxCost)
Owed == {u \in Units : at[u[1]] \in Charged /\ u[2] <= cost[u[1]]}

\* All that was spent is in the shared total, still owed, or was missed.
SpentIsAccounted == spent <= sharedTotal + Cardinality(Owed) + MaxCost * missed

\* What may still be charged without another check is reserved.
SpendWithinReserve ==
    spent + MaxCost * Cardinality(Allowed)
        < EnvironmentLimit + MaxCost * Cardinality(Calls) + MaxCost * missed

SpendInv == TypeOK /\ SpentIsAccounted /\ SpendWithinReserve

-----------------------------------------------------------------------------

\* The sets that are counted are finite, and owed units are at most MaxCost a call.
LEMMA OwedIsFinite ==
  ASSUME TypeOK
  PROVE  /\ IsFiniteSet(Units) /\ IsFiniteSet(Owed) /\ Cardinality(Owed) \in Nat
         /\ Owed \subseteq ChargedCalls \X (1 .. MaxCost)
  <1>1. IsFiniteSet(1 .. MaxCost)
    BY FS_Interval, GatewayConstants
  <1>2. IsFiniteSet(Units)
    BY <1>1, FS_Product, GatewayConstants DEF Units
  <1>3. IsFiniteSet(Owed)
    BY <1>2, FS_Subset DEF Owed
  <1>4. Owed \subseteq ChargedCalls \X (1 .. MaxCost)
    BY DEF Owed, Units, ChargedCalls
  <1> QED
    BY <1>2, <1>3, <1>4, FS_CardinalityType

\* Units of the calls of a set are MaxCost for each.
LEMMA UnitsOfCalls ==
  ASSUME NEW S \in SUBSET Calls
  PROVE  /\ IsFiniteSet(S \X (1 .. MaxCost))
         /\ Cardinality(S \X (1 .. MaxCost)) = MaxCost * Cardinality(S)
         /\ Cardinality(S) \in Nat
  <1>1. IsFiniteSet(S) /\ Cardinality(S) \in Nat
    BY FS_Subset, FS_CardinalityType, GatewayConstants
  <1>2. IsFiniteSet(1 .. MaxCost) /\ Cardinality(1 .. MaxCost) = MaxCost
    BY FS_Interval, GatewayConstants
  <1>3. /\ IsFiniteSet(S \X (1 .. MaxCost))
        /\ Cardinality(S \X (1 .. MaxCost)) = Cardinality(S) * Cardinality(1 .. MaxCost)
    BY <1>1, <1>2, FS_Product
  <1>4. ASSUME NEW m \in Nat, NEW n \in Nat PROVE m * n = n * m
    OBVIOUS
  <1> QED
    BY <1>1, <1>2, <1>3, <1>4, GatewayConstants

\* The first n units of a call are n.
LEMMA UnitsOfCall ==
  ASSUME NEW c, NEW n \in Nat
  PROVE  IsFiniteSet({c} \X (1 .. n)) /\ Cardinality({c} \X (1 .. n)) = n
  <1>1. IsFiniteSet(1 .. n) /\ Cardinality(1 .. n) = n
    BY FS_Interval
  <1>2. IsFiniteSet({c}) /\ Cardinality({c}) = 1
    BY FS_Singleton
  <1>3. /\ IsFiniteSet({c} \X (1 .. n))
        /\ Cardinality({c} \X (1 .. n)) = Cardinality({c}) * Cardinality(1 .. n)
    BY <1>1, <1>2, FS_Product
  <1> QED
    BY <1>1, <1>2, <1>3

\* A charge adds its units to what is owed.
LEMMA OwedGrows ==
  ASSUME TypeOK, NEW c \in Calls, NEW amount \in 0 .. MaxCost, ModelCharges(c, amount)
  PROVE  Cardinality(Owed') = Cardinality(Owed) + amount
  <1> DEFINE new == {c} \X (1 .. amount)
  <1>0. amount \in Nat
    BY GatewayConstants
  <1>1. IsFiniteSet(new) /\ Cardinality(new) = amount
    BY <1>0, UnitsOfCall
  <1>2. Owed' = Owed \cup new
    <2>1. \A d \in Calls : /\ at'[d] = IF d = c THEN "reply" ELSE at[d]
                           /\ cost'[d] = IF d = c THEN amount ELSE cost[d]
      BY DEF ModelCharges, TypeOK
    <2>2. at[c] \notin Charged
      BY DEF ModelCharges, Charged
    <2>3. new = {u \in Units : u[1] = c /\ u[2] <= amount}
      BY GatewayConstants DEF Units
    <2> QED
      BY <2>1, <2>2, <2>3 DEF Owed, Units, Charged
  <1>3. Owed \cap new = {}
    BY DEF Owed, ModelCharges, Charged
  <1>4. IsFiniteSet(Owed) /\ Cardinality(Owed) \in Nat
    BY OwedIsFinite
  <1>5. Cardinality(Owed \cup new) = Cardinality(Owed) + Cardinality(new) - Cardinality({})
    BY <1>1, <1>3, <1>4, FS_Union
  <1> QED
    BY <1>0, <1>1, <1>2, <1>4, <1>5, FS_EmptySet

\* A charged call that is over takes its units with it.
LEMMA OwedShrinks ==
  ASSUME TypeOK, NEW c \in Calls, at[c] \in Charged, Return(c)
  PROVE  Cardinality(Owed') = Cardinality(Owed) - cost[c]
  <1> DEFINE old == {c} \X (1 .. cost[c])
  <1>0. cost[c] \in Nat
    BY GatewayConstants DEF TypeOK
  <1>1. IsFiniteSet(old) /\ Cardinality(old) = cost[c]
    BY <1>0, UnitsOfCall
  <1>2. old \subseteq Owed
    BY GatewayConstants DEF Owed, Units, TypeOK
  <1>3. Owed' = Owed \ old
    <2>1. \A d \in Calls : /\ at'[d] = IF d = c THEN "idle" ELSE at[d]
                           /\ cost'[d] = IF d = c THEN 0 ELSE cost[d]
      BY DEF Return, TypeOK
    <2>2. \A u \in Owed : u \in old <=> u[1] = c
      BY GatewayConstants DEF Owed, Units, TypeOK
    <2> QED
      BY <2>1, <2>2 DEF Owed, Units, Charged
  <1>4. IsFiniteSet(Owed) /\ Cardinality(Owed) \in Nat
    BY OwedIsFinite
  <1>5. Owed \cap old = old
    BY <1>2
  <1>6. Cardinality(Owed \ old) = Cardinality(Owed) - Cardinality(Owed \cap old)
    BY <1>4, FS_Difference
  <1> QED
    BY <1>1, <1>3, <1>5, <1>6

\* Nothing else a call does changes what is owed.
LEMMA OwedStays ==
  ASSUME TypeOK,
         \A d \in Calls : (at'[d] \in Charged) = (at[d] \in Charged),
         \A d \in Calls : at[d] \in Charged => cost'[d] = cost[d]
  PROVE  Owed' = Owed
  BY DEF Owed, Units

\* A restart forgets at most MaxCost for every charged call it loses.
LEMMA OwedAfterRestart ==
  ASSUME TypeOK, NEW p \in Processes, Restart(p)
  PROVE  /\ Cardinality(Owed) + MaxCost * missed <= Cardinality(Owed') + MaxCost * missed'
         /\ Cardinality(Owed') \in Nat
  <1> DEFINE lost == {c \in {d \in Calls : Host[d] = p} : at[c] \in Charged}
             gone == lost \X (1 .. MaxCost)
  <1>1. IsFiniteSet(gone) /\ Cardinality(gone) = MaxCost * Cardinality(lost) /\ Cardinality(lost) \in Nat
    BY UnitsOfCalls
  <1>2. Owed' \subseteq Owed /\ Owed \subseteq Owed' \cup gone
    <2>1. \A d \in Calls : /\ at'[d] = IF Host[d] = p THEN "idle" ELSE at[d]
                           /\ cost'[d] = IF Host[d] = p THEN 0 ELSE cost[d]
      BY DEF Restart
    <2> QED
      BY <2>1 DEF Owed, Units, Charged
  <1>3. IsFiniteSet(Owed) /\ IsFiniteSet(Owed')
    BY <1>2, OwedIsFinite, FS_Subset
  <1>4. /\ Cardinality(Owed' \cup gone) = Cardinality(Owed') + Cardinality(gone) - Cardinality(Owed' \cap gone)
        /\ IsFiniteSet(Owed' \cup gone)
    BY <1>1, <1>3, FS_Union
  <1>5. Cardinality(Owed) <= Cardinality(Owed' \cup gone)
    BY <1>2, <1>4, FS_Subset
  <1>6. IsFiniteSet(Owed' \cap gone)
    BY <1>1, FS_Subset
  <1>7. Cardinality(Owed) <= Cardinality(Owed') + MaxCost * Cardinality(lost)
    BY <1>1, <1>3, <1>4, <1>5, <1>6, FS_CardinalityType, GatewayConstants
  <1>8. missed' = missed + Cardinality(lost) /\ missed \in Nat
    BY DEF Restart, TypeOK
  <1>9. MaxCost * (missed + Cardinality(lost)) = MaxCost * missed + MaxCost * Cardinality(lost)
    <2>1. \A m, n, k \in Nat : m * (n + k) = m * n + m * k
      OBVIOUS
    <2> QED BY <1>1, <1>8, <2>1, GatewayConstants
  <1>10. MaxCost * missed \in Nat /\ MaxCost * Cardinality(lost) \in Nat
    <2>1. \A m, n \in Nat : m * n \in Nat
      OBVIOUS
    <2> QED BY <1>1, <1>8, <2>1, GatewayConstants
  <1> QED
    BY <1>3, <1>7, <1>8, <1>9, <1>10, FS_CardinalityType

-----------------------------------------------------------------------------

\* The counts of the invariant are natural numbers.
LEMMA CountsAreNaturals ==
  ASSUME TypeOK
  PROVE  /\ MaxCost * missed \in Nat
         /\ MaxCost * (missed + 1) = MaxCost * missed + MaxCost
         /\ MaxCost * Cardinality(Allowed) \in Nat
         /\ MaxCost * Cardinality(ChargedCalls) \in Nat
         /\ MaxCost * Cardinality(Calls) \in Nat
         /\ Cardinality(Owed) \in Nat
         /\ spent \in Nat /\ sharedTotal \in Nat
  <1>1. \A m, n \in Nat : m * n \in Nat /\ m * (n + 1) = m * n + m
    OBVIOUS
  <1>2. Cardinality(Allowed) \in Nat /\ Cardinality(ChargedCalls) \in Nat /\ Cardinality(Calls) \in Nat
    BY UnitsOfCalls DEF Allowed, ChargedCalls
  <1>3. missed \in Nat /\ spent \in Nat /\ sharedTotal \in Nat
    BY DEF TypeOK
  <1> QED
    BY <1>1, <1>2, <1>3, OwedIsFinite, GatewayConstants

\* Every step of a call keeps the account.
LEMMA CallsKeepAccount ==
  ASSUME SpendInv, NEW c \in Calls, CompleteStep(c)
  PROVE  SpentIsAccounted'
  <1> USE DEF SpendInv
  <1>0. /\ spent \in Nat /\ sharedTotal \in Nat /\ Cardinality(Owed) \in Nat
        /\ MaxCost * missed \in Nat /\ MaxCost * (missed + 1) = MaxCost * missed + MaxCost
        /\ cost[c] \in 0 .. MaxCost
    BY CountsAreNaturals DEF TypeOK
  <1>1. ASSUME NEW logical, NEW isPersonal \in BOOLEAN, Begin(c, logical, isPersonal)
        PROVE  SpentIsAccounted'
    <2>1. Owed' = Owed
      BY <1>1, OwedStays DEF Begin, charge, Charged, TypeOK
    <2> QED
      BY <1>1, <2>1 DEF Begin, shared, SpentIsAccounted
  <1>2. CASE CheckShared(c)
    <2>1. Owed' = Owed
      BY <1>2, OwedStays DEF CheckShared, Return, charge, Charged, TypeOK
    <2>2. missed' = missed \/ missed' = missed + 1
      BY <1>2 DEF CheckShared, Miss
    <2> QED
      BY <1>0, <1>2, <2>1, <2>2, GatewayConstants DEF CheckShared, shared, SpentIsAccounted
  <1>3. CASE ModelFails(c)
    <2>1. Owed' = Owed
      BY <1>3, OwedStays DEF ModelFails, Return, charge, Charged, TypeOK
    <2> QED
      BY <1>3, <2>1 DEF ModelFails, shared, SpentIsAccounted
  <1>4. ASSUME NEW amount \in 0 .. MaxCost, ModelCharges(c, amount) PROVE SpentIsAccounted'
    <2>1. Cardinality(Owed') = Cardinality(Owed) + amount
      BY <1>4, OwedGrows
    <2> QED
      BY <1>0, <1>4, <2>1, GatewayConstants DEF ModelCharges, shared, SpentIsAccounted
  <1>5. CASE BookLocally(c)
    <2>1. Owed' = Owed
      BY <1>5, OwedStays DEF BookLocally, Charged, TypeOK
    <2> QED
      BY <1>5, <2>1 DEF BookLocally, shared, SpentIsAccounted
  <1>6. CASE BookDay(c)
    <2>1. CASE Return(c) /\ Miss
      <3>1. Cardinality(Owed') = Cardinality(Owed) - cost[c]
        BY <1>6, <2>1, OwedShrinks DEF BookDay, Charged
      <3> QED
        BY <1>0, <1>6, <2>1, <3>1, GatewayConstants DEF BookDay, Miss, SpentIsAccounted
    <2>2. CASE at' = [at EXCEPT ![c] = "book_total"] /\ UNCHANGED <<request, charge, missed>>
      <3>1. Owed' = Owed
        BY <1>6, <2>2, OwedStays DEF BookDay, charge, Charged, TypeOK
      <3> QED
        BY <1>6, <2>2, <3>1 DEF BookDay, SpentIsAccounted
    <2> QED
      BY <1>6, <2>1, <2>2 DEF BookDay
  <1>7. CASE BookTotal(c)
    <2>1. Cardinality(Owed') = Cardinality(Owed) - cost[c]
      BY <1>7, OwedShrinks DEF BookTotal, Charged
    <2>2. \/ sharedTotal' = sharedTotal + cost[c] /\ missed' = missed
          \/ sharedTotal' \in {sharedTotal, sharedTotal + cost[c]} /\ missed' = missed + 1
      BY <1>7 DEF BookTotal, Miss
    <2> QED
      BY <1>0, <1>7, <2>1, <2>2, GatewayConstants DEF BookTotal, SpentIsAccounted
  <1> QED
    BY <1>1, <1>2, <1>3, <1>4, <1>5, <1>6, <1>7 DEF CompleteStep

\* A step that allows no further call and spends nothing stays within the reserve.
LEMMA FewerAllowedStay ==
  ASSUME SpendInv, TypeOK', Allowed' \subseteq Allowed, spent' = spent, missed' >= missed
  PROVE  SpendWithinReserve'
  <1>1. IsFiniteSet(Allowed)
    BY FS_Subset, GatewayConstants DEF Allowed
  <1>2. /\ MaxCost * Cardinality(Allowed') <= MaxCost * Cardinality(Allowed)
        /\ MaxCost * Cardinality(Allowed') \in Nat
        /\ MaxCost * Cardinality(Allowed) \in Nat
    BY <1>1, FewerCostLess
  <1>3. MaxCost * missed <= MaxCost * missed' /\ MaxCost * missed \in Nat /\ MaxCost * missed' \in Nat
    <2>1. \A m, n, k \in Nat : n <= k => m * n <= m * k /\ m * n \in Nat /\ m * k \in Nat
      <3> SUFFICES ASSUME NEW m \in Nat, NEW n \in Nat, NEW k \in Nat, n <= k
                   PROVE  m * n <= m * k /\ m * n \in Nat /\ m * k \in Nat
        OBVIOUS
      <3>1. k - n \in Nat /\ m * (k - n) \in Nat /\ m * k = m * n + m * (k - n)
        BY SMT
      <3> QED BY <3>1, SMT
    <2> QED BY <2>1, GatewayConstants DEF SpendInv, TypeOK
  <1>4. MaxCost * Cardinality(Calls) \in Nat
    BY CountsAreNaturals DEF SpendInv
  <1> QED
    BY <1>2, <1>3, <1>4, GatewayConstants DEF SpendInv, SpendWithinReserve, TypeOK

\* A call the shared ledger lets through fits the reserve: the calls already
\* charged and the calls allowed are different calls.
LEMMA AllowedWithinReserve ==
  ASSUME SpendInv, NEW c \in Calls, at[c] = "check", sharedTotal < EnvironmentLimit,
         Allowed' = Allowed \cup {c}, spent' = spent, missed' = missed
  PROVE  SpendWithinReserve'
  <1>1. /\ IsFiniteSet(ChargedCalls) /\ IsFiniteSet(Allowed') /\ IsFiniteSet(Allowed)
        /\ ChargedCalls \in SUBSET Calls /\ Allowed' \in SUBSET Calls
    BY FS_Subset, GatewayConstants DEF ChargedCalls, Allowed
  <1>2. ChargedCalls \cap Allowed' = {}
    BY DEF ChargedCalls, Allowed, Charged
  <1>3. /\ IsFiniteSet(ChargedCalls \cup Allowed')
        /\ Cardinality(ChargedCalls \cup Allowed') = Cardinality(ChargedCalls) + Cardinality(Allowed')
    <2>1. Cardinality(ChargedCalls \cup Allowed')
            = Cardinality(ChargedCalls) + Cardinality(Allowed') - Cardinality({})
      BY <1>1, <1>2, FS_Union
    <2>2. Cardinality({}) = 0
      BY FS_EmptySet
    <2>3. Cardinality(ChargedCalls) \in Nat /\ Cardinality(Allowed') \in Nat
      BY <1>1, FS_CardinalityType
    <2>4. IsFiniteSet(ChargedCalls \cup Allowed')
      BY <1>1, FS_Union
    <2> QED
      BY <2>1, <2>2, <2>3, <2>4
  <1>4. Cardinality(ChargedCalls) + Cardinality(Allowed') <= Cardinality(Calls)
    <2>1. ChargedCalls \cup Allowed' \subseteq Calls
      BY <1>1
    <2>2. Cardinality(ChargedCalls \cup Allowed') <= Cardinality(Calls)
      BY <2>1, FS_Subset, GatewayConstants
    <2> QED
      BY <1>3, <2>2
  <1>5. Cardinality(Owed) <= MaxCost * Cardinality(ChargedCalls)
    <2>1. Owed \subseteq ChargedCalls \X (1 .. MaxCost)
      BY OwedIsFinite DEF SpendInv
    <2>2. /\ IsFiniteSet(ChargedCalls \X (1 .. MaxCost))
          /\ Cardinality(ChargedCalls \X (1 .. MaxCost)) = MaxCost * Cardinality(ChargedCalls)
      BY <1>1, UnitsOfCalls
    <2>3. Cardinality(Owed) <= Cardinality(ChargedCalls \X (1 .. MaxCost))
      BY <2>1, <2>2, FS_Subset
    <2> QED BY <2>2, <2>3
  <1>6. /\ Cardinality(ChargedCalls) \in Nat /\ Cardinality(Allowed') \in Nat
        /\ Cardinality(Calls) \in Nat
    BY <1>1, FS_CardinalityType, GatewayConstants
  <1>7. MaxCost * Cardinality(ChargedCalls) + MaxCost * Cardinality(Allowed')
          <= MaxCost * Cardinality(Calls)
    <2>1. ASSUME NEW m \in Nat, NEW i \in Nat, NEW j \in Nat, NEW n \in Nat, i + j <= n
          PROVE  m * i + m * j <= m * n
      <3>1. n - (i + j) \in Nat /\ m * (n - (i + j)) \in Nat
        BY <2>1, SMT
      <3>2. m * n = m * i + m * j + m * (n - (i + j))
        BY SMT
      <3> QED BY <3>1, <3>2, SMT
    <2> QED BY <1>4, <1>6, <2>1, GatewayConstants
  <1>8. MaxCost * Cardinality(ChargedCalls) \in Nat /\ MaxCost * Cardinality(Allowed') \in Nat
    <2>1. \A m, n \in Nat : m * n \in Nat
      OBVIOUS
    <2> QED BY <1>6, <2>1, GatewayConstants
  <1>9. /\ Cardinality(Owed) \in Nat /\ MaxCost * missed \in Nat
        /\ MaxCost * Cardinality(Calls) \in Nat /\ spent \in Nat /\ sharedTotal \in Nat
    BY CountsAreNaturals DEF SpendInv
  <1> QED
    BY <1>5, <1>7, <1>8, <1>9, GatewayConstants
    DEF SpendInv, SpentIsAccounted, SpendWithinReserve

\* A call allowed without the shared ledger is paid for by the miss it counts.
LEMMA MissWithinReserve ==
  ASSUME SpendInv, NEW c \in Calls, c \notin Allowed,
         Allowed' = Allowed \cup {c}, spent' = spent, missed' = missed + 1
  PROVE  SpendWithinReserve'
  <1>1. IsFiniteSet(Allowed)
    BY FS_Subset, GatewayConstants DEF Allowed
  <1>2. Cardinality(Allowed') = Cardinality(Allowed) + 1 /\ Cardinality(Allowed) \in Nat
    BY <1>1, FS_AddElement, FS_CardinalityType
  <1>3. MaxCost * Cardinality(Allowed') = MaxCost * Cardinality(Allowed) + MaxCost
    <2>1. \A m, n \in Nat : m * (n + 1) = m * n + m
      OBVIOUS
    <2> QED BY <1>2, <2>1, GatewayConstants
  <1>4. /\ MaxCost * missed' = MaxCost * missed + MaxCost /\ MaxCost * missed \in Nat
        /\ MaxCost * Cardinality(Allowed) \in Nat /\ MaxCost * Cardinality(Calls) \in Nat
        /\ spent \in Nat
    BY CountsAreNaturals DEF SpendInv
  <1> QED
    BY <1>3, <1>4, GatewayConstants DEF SpendInv, SpendWithinReserve

\* A charge moves from the reserve to what is spent.
LEMMA ChargeWithinReserve ==
  ASSUME SpendInv, NEW c \in Calls, NEW amount \in 0 .. MaxCost, ModelCharges(c, amount)
  PROVE  SpendWithinReserve'
  <1>1. IsFiniteSet(Allowed) /\ c \in Allowed
    BY FS_Subset, GatewayConstants DEF Allowed, ModelCharges
  <1>2. Allowed' = Allowed \ {c}
    BY DEF Allowed, ModelCharges, SpendInv, TypeOK
  <1>3. MaxCost * Cardinality(Allowed') = MaxCost * Cardinality(Allowed) - MaxCost
    BY <1>1, <1>2, OneLess
  <1>4. /\ MaxCost * missed \in Nat /\ MaxCost * Cardinality(Allowed) \in Nat
        /\ MaxCost * Cardinality(Calls) \in Nat /\ spent \in Nat
    BY CountsAreNaturals DEF SpendInv
  <1>5. spent' = spent + amount /\ missed' = missed
    BY DEF ModelCharges
  <1> QED
    BY <1>3, <1>4, <1>5, GatewayConstants DEF SpendInv, SpendWithinReserve

-----------------------------------------------------------------------------

\* Every step of a call stays within the reserve.
LEMMA CallsKeepReserve ==
  ASSUME SpendInv, TypeOK', NEW c \in Calls, CompleteStep(c)
  PROVE  SpendWithinReserve'
  <1> USE DEF SpendInv
  <1>0. missed \in Nat /\ at \in [Calls -> {"idle", "check", "call", "reply", "book_day", "book_total"}]
    BY DEF TypeOK
  <1>1. ASSUME NEW logical, NEW isPersonal \in BOOLEAN, Begin(c, logical, isPersonal)
        PROVE  SpendWithinReserve'
    <2>1. Allowed' \subseteq Allowed
      BY <1>0, <1>1 DEF Begin, Allowed
    <2> QED BY <1>0, <1>1, <2>1, FewerAllowedStay DEF Begin
  <1>2. CASE CheckShared(c)
    <2>1. c \notin Allowed /\ at[c] = "check" /\ spent' = spent
      BY <1>2 DEF CheckShared, Allowed
    <2>2. CASE Return(c) /\ UNCHANGED missed
      <3>1. Allowed' \subseteq Allowed
        BY <1>0, <2>2 DEF Return, Allowed
      <3> QED BY <1>0, <2>1, <2>2, <3>1, FewerAllowedStay
    <2>3. CASE at' = [at EXCEPT ![c] = "call"]
      <3>1. Allowed' = Allowed \cup {c}
        BY <1>0, <2>3 DEF Allowed
      <3>2. CASE BudgetAllows(sharedDay, sharedTotal) /\ UNCHANGED missed
        BY <2>1, <3>1, <3>2, AllowedWithinReserve DEF BudgetAllows
      <3>3. CASE Miss
        BY <2>1, <3>1, <3>3, MissWithinReserve DEF Miss
      <3>4. CASE Return(c)
        BY <1>0, <2>3, <3>4 DEF Return
      <3> QED BY <1>2, <3>2, <3>3, <3>4 DEF CheckShared
    <2> QED BY <1>2, <2>2, <2>3 DEF CheckShared
  <1>3. ASSUME ModelFails(c) \/ BookLocally(c) \/ BookDay(c) \/ BookTotal(c)
        PROVE  SpendWithinReserve'
    <2>1. Allowed' \subseteq Allowed
      BY <1>0, <1>3 DEF ModelFails, BookLocally, BookDay, BookTotal, Return, Allowed
    <2>2. spent' = spent /\ missed' >= missed
      BY <1>0, <1>3 DEF ModelFails, BookLocally, BookDay, BookTotal, Miss
    <2> QED BY <2>1, <2>2, FewerAllowedStay
  <1>4. ASSUME NEW amount \in 0 .. MaxCost, ModelCharges(c, amount) PROVE SpendWithinReserve'
    BY <1>4, ChargeWithinReserve
  <1> QED
    BY <1>1, <1>2, <1>3, <1>4 DEF CompleteStep

\* The initial states satisfy the invariant.
LEMMA SpendInit == Init => SpendInv
  <1> SUFFICES ASSUME Init PROVE SpendInv
    OBVIOUS
  <1>1. TypeOK
    BY InitEstablishes DEF IInv
  <1>2. Allowed = {}
    BY DEF Init, Allowed
  <1>3. MaxCost * Cardinality(Allowed) = 0
    BY <1>2, FS_EmptySet, GatewayConstants
  <1>4. /\ Cardinality(Owed) \in Nat /\ MaxCost * missed \in Nat
        /\ MaxCost * Cardinality(Calls) \in Nat
    BY <1>1, CountsAreNaturals
  <1>5. spent = 0 /\ sharedTotal = 0
    BY DEF Init
  <1> QED
    BY <1>1, <1>3, <1>4, <1>5, GatewayConstants DEF SpendInv, SpentIsAccounted, SpendWithinReserve

\* Every step preserves the invariant.
LEMMA SpendNext == SpendInv /\ [Next]_vars => SpendInv'
  <1> SUFFICES ASSUME SpendInv, [Next]_vars PROVE SpendInv'
    OBVIOUS
  <1>1. TypeOK'
    BY CompleteKeepsTypes, EnvironmentKeepsTypes DEF SpendInv, Next
  <1>2. ASSUME NEW c \in Calls, CompleteStep(c) PROVE SpendInv'
    BY <1>1, <1>2, CallsKeepAccount, CallsKeepReserve DEF SpendInv
  <1>3. CASE NewDay \/ UNCHANGED vars
    <2>1. UNCHANGED <<at, cost, spent, sharedTotal, missed>>
      BY <1>3 DEF NewDay, charge, vars
    <2>2. Owed' = Owed /\ Allowed' = Allowed
      BY <2>1 DEF Owed, Allowed
    <2> QED
      BY <1>1, <2>1, <2>2 DEF SpendInv, SpentIsAccounted, SpendWithinReserve
  <1>4. ASSUME NEW p \in Processes, Restart(p) PROVE SpendInv'
    <2>1. Allowed' \subseteq Allowed
      BY <1>4 DEF Restart, Allowed
    <2>2. missed' >= missed
      <3> DEFINE lost == {c \in {d \in Calls : Host[d] = p} : at[c] \in Charged}
      <3>1. Cardinality(lost) \in Nat
        BY UnitsOfCalls
      <3> QED BY <1>4, <3>1 DEF Restart, SpendInv, TypeOK
    <2>3. spent' = spent /\ sharedTotal' = sharedTotal
      BY <1>4 DEF Restart, shared
    <2>4. SpendWithinReserve'
      BY <1>1, <2>1, <2>2, <2>3, FewerAllowedStay
    <2>5. SpentIsAccounted'
      <3>1. /\ Cardinality(Owed) + MaxCost * missed <= Cardinality(Owed') + MaxCost * missed'
            /\ Cardinality(Owed') \in Nat
        BY <1>4, OwedAfterRestart DEF SpendInv
      <3>2. /\ Cardinality(Owed) \in Nat /\ MaxCost * missed \in Nat
            /\ spent \in Nat /\ sharedTotal \in Nat
        BY CountsAreNaturals DEF SpendInv
      <3>3. MaxCost * missed' \in Nat
        <4>1. \A m, n \in Nat : m * n \in Nat
          OBVIOUS
        <4> QED BY <1>1, <4>1, GatewayConstants DEF TypeOK
      <3> QED
        BY <2>3, <3>1, <3>2, <3>3 DEF SpendInv, SpentIsAccounted
    <2> QED BY <1>1, <2>4, <2>5 DEF SpendInv
  <1> QED
    BY <1>2, <1>3, <1>4 DEF Next

\* The accounts of the spending hold throughout.
THEOREM SpendInvariance == Spec => []SpendInv
  <1> QED
    BY SpendInit, SpendNext, PTL DEF Spec

\* Whatever processes, calls, restarts, midnights and Redis outages there are, the
\* money spent passes the environment's limit by no more than the overlapping calls
\* and the calls that missed Redis can cost (BudgetTracker.check and record).
THEOREM SpendBound == Spec => []SpendIsBounded
  <1>1. SpendInv => SpendIsBounded
    <2> SUFFICES ASSUME SpendInv PROVE SpendIsBounded
      OBVIOUS
    <2>1. /\ MaxCost * Cardinality(Allowed) \in Nat
          /\ spent \in Nat
      BY CountsAreNaturals DEF SpendInv
    <2>2. MaxCost * (Cardinality(Calls) + missed) = MaxCost * Cardinality(Calls) + MaxCost * missed
      <3>1. \A m, n, k \in Nat : m * (n + k) = m * n + m * k
        OBVIOUS
      <3>2. Cardinality(Calls) \in Nat /\ missed \in Nat
        BY FS_CardinalityType, GatewayConstants DEF SpendInv, TypeOK
      <3> QED BY <3>1, <3>2, GatewayConstants
    <2>3. MaxCost * Cardinality(Calls) \in Nat /\ MaxCost * missed \in Nat
      BY CountsAreNaturals DEF SpendInv
    <2> QED
      BY <2>1, <2>2, <2>3, GatewayConstants DEF SpendInv, SpendWithinReserve, SpendIsBounded
  <1> QED
    BY <1>1, SpendInvariance, PTL

-----------------------------------------------------------------------------
(* Personal calls.                                                          *)

\* What a call has left to try, by place; and nothing of it is on the free tier.
Offered(models) ==
    /\ DOMAIN models \in SUBSET Nat
    /\ models = [i \in DOMAIN models |-> models[i]]
OnlyPaid(models) == \A i \in DOMAIN models : models[i] \notin FreeTier

\* The inductive invariant of the chains: a call that is under way has a model left,
\* and all that a personal one has left are paid.
ChainInv ==
    /\ TypeOK
    /\ left = [c \in Calls |-> left[c]]
    /\ \A c \in Calls :
         /\ Offered(left[c])
         /\ at[c] \in {"check", "call"} => DOMAIN left[c] # {}
         /\ personal[c] => OnlyPaid(left[c])

\* The places left have a first one.
LEMMA FirstPlace ==
  ASSUME NEW models, Offered(models), DOMAIN models # {}
  PROVE  NextPlace(models) \in DOMAIN models
  <1>1. PICK m \in DOMAIN models : \A n \in DOMAIN models : <<n, m>> \notin OpToRel(<, Nat)
    BY WFMin, NatLessThanWellFounded, Zenon DEF Offered
  <1>2. \A n \in DOMAIN models : m <= n
    <2>1. \A n \in DOMAIN models : ~(n < m)
      BY <1>1, Zenon DEF OpToRel, Offered
    <2> QED BY <2>1 DEF Offered
  <1> QED BY <1>2 DEF NextPlace, Min

\* A chain holds models of the settings by their place, and of a personal call only
\* paid ones, whatever max_attempts cuts off.
LEMMA ChainIsOffered ==
  ASSUME NEW logical, NEW isPersonal \in BOOLEAN
  PROVE  /\ Offered(Chain(logical, isPersonal))
         /\ isPersonal => OnlyPaid(Chain(logical, isPersonal))
  <1> DEFINE models == Configured(logical, isPersonal)
             chain == Chain(logical, isPersonal)
  <1>1. models \in Seq(Models)
    BY ChainConstants DEF Configured
  <1>2. DOMAIN models \in SUBSET Nat
    BY <1>1
  <1>3. ASSUME NEW places \in SUBSET DOMAIN models
        PROVE  /\ Offered(FirstOf(models, places))
               /\ DOMAIN FirstOf(models, places) \subseteq places
               /\ \A i \in DOMAIN FirstOf(models, places) : FirstOf(models, places)[i] = models[i]
    BY <1>2 DEF FirstOf, Offered
  <1>4. Paid(models) \in SUBSET DOMAIN models
    BY DEF Paid
  <1>5. CASE isPersonal
    <2>1. chain = FirstOf(models, Paid(models))
      BY <1>5 DEF Chain
    <2> QED BY <1>3, <1>4, <2>1 DEF OnlyPaid, Paid
  <1>6. CASE ~isPersonal
    <2>1. chain = FirstOf(models, DOMAIN models)
      BY <1>6 DEF Chain
    <2> QED BY <1>3, <1>6, <2>1
  <1> QED BY <1>5, <1>6

\* The models after the next one are among those that were left.
LEMMA AfterNextIsOffered ==
  ASSUME NEW models, Offered(models)
  PROVE  Offered(AfterNext(models)) /\ (OnlyPaid(models) => OnlyPaid(AfterNext(models)))
  BY DEF Offered, OnlyPaid, AfterNext

\* A call that is over, or not begun, has nothing left.
LEMMA NothingIsOffered == Offered(<<>>) /\ OnlyPaid(<<>>)
  BY DEF Offered, OnlyPaid

\* Every step keeps the chains.
LEMMA NextKeepsChains == ChainInv /\ [Next]_vars => ChainInv'
  <1> SUFFICES ASSUME ChainInv, [Next]_vars PROVE ChainInv'
    OBVIOUS
  <1>1. TypeOK'
    BY CompleteKeepsTypes, EnvironmentKeepsTypes DEF ChainInv, Next
  <1> DEFINE Fine(c) ==
               /\ Offered(left[c])
               /\ at[c] \in {"check", "call"} => DOMAIN left[c] # {}
               /\ personal[c] => OnlyPaid(left[c])
             Kept == left' = [d \in Calls |-> left'[d]] /\ \A d \in Calls : Fine(d)'
  <1>2. ASSUME NEW c \in Calls,
               at' = [at EXCEPT ![c] = at'[c]],
               personal' = [personal EXCEPT ![c] = personal'[c]],
               left' = [left EXCEPT ![c] = left'[c]],
               Fine(c)'
        PROVE  Kept
    <2>1. left' = [d \in Calls |-> left'[d]]
      BY <1>2 DEF ChainInv
    <2>2. ASSUME NEW d \in Calls, d # c PROVE Fine(d)'
      <3>1. at'[d] = at[d] /\ personal'[d] = personal[d] /\ left'[d] = left[d]
        BY <1>2, <2>2 DEF ChainInv, TypeOK
      <3> QED BY <3>1 DEF ChainInv
    <2> QED BY <1>2, <2>1, <2>2
  <1>3. ASSUME NEW c \in Calls, Return(c) PROVE Kept
    BY <1>2, <1>3, NothingIsOffered DEF Return, ChainInv, TypeOK
  <1>4. ASSUME NEW c \in Calls, NEW logical, NEW isPersonal \in BOOLEAN,
               Begin(c, logical, isPersonal)
        PROVE  Kept
    <2>1. /\ at'[c] = "check" /\ personal'[c] = isPersonal
          /\ left'[c] = Chain(logical, isPersonal)
      BY <1>4 DEF Begin, ChainInv, TypeOK
    <2>2. Fine(c)'
      BY <1>4, <2>1, ChainIsOffered DEF Begin
    <2> QED BY <1>2, <1>4, <2>1, <2>2 DEF Begin
  <1>5. ASSUME NEW c \in Calls, CheckShared(c) PROVE Kept
    <2>1. CASE Return(c)
      BY <1>3, <2>1
    <2>2. CASE at' = [at EXCEPT ![c] = "call"] /\ UNCHANGED request
      <3>1. at[c] = "check" /\ at'[c] = "call" /\ personal' = personal /\ left' = left
        BY <1>5, <2>2 DEF CheckShared, request, ChainInv, TypeOK
      <3>2. Fine(c)'
        BY <3>1 DEF ChainInv
      <3> QED BY <1>2, <2>2, <3>1, <3>2 DEF ChainInv, TypeOK
    <2> QED BY <1>5, <2>1, <2>2 DEF CheckShared
  <1>6. ASSUME NEW c \in Calls, ModelFails(c) PROVE Kept
    <2>1. CASE Return(c)
      BY <1>3, <2>1
    <2>2. CASE /\ DOMAIN AfterNext(left[c]) # {}
               /\ left' = [left EXCEPT ![c] = AfterNext(@)] /\ UNCHANGED <<at, personal>>
      <3>1. left'[c] = AfterNext(left[c])
        BY <2>2 DEF ChainInv
      <3>2. Fine(c)'
        BY <2>2, <3>1, AfterNextIsOffered DEF ChainInv
      <3> QED BY <1>2, <2>2, <3>1, <3>2 DEF ChainInv, TypeOK
    <2> QED BY <1>6, <2>1, <2>2 DEF ModelFails
  <1>7. ASSUME NEW c \in Calls, NEW amount, ModelCharges(c, amount) PROVE Kept
    BY <1>2, <1>7, NothingIsOffered DEF ModelCharges, ChainInv, TypeOK
  <1>8. ASSUME NEW c \in Calls, BookLocally(c) PROVE Kept
    <2>1. at'[c] = "book_day" /\ personal' = personal /\ left' = left
      BY <1>8 DEF BookLocally, request, ChainInv, TypeOK
    <2>2. Fine(c)'
      BY <2>1 DEF ChainInv
    <2> QED BY <1>2, <1>8, <2>1, <2>2 DEF BookLocally, ChainInv, TypeOK
  <1>9. ASSUME NEW c \in Calls, BookDay(c) PROVE Kept
    <2>1. CASE Return(c)
      BY <1>3, <2>1
    <2>2. CASE at' = [at EXCEPT ![c] = "book_total"] /\ UNCHANGED request
      <3>1. at'[c] = "book_total" /\ personal' = personal /\ left' = left
        BY <2>2 DEF request, ChainInv, TypeOK
      <3>2. Fine(c)'
        BY <3>1 DEF ChainInv
      <3> QED BY <1>2, <2>2, <3>1, <3>2 DEF ChainInv, TypeOK
    <2> QED BY <1>9, <2>1, <2>2 DEF BookDay
  <1>10. ASSUME NEW c \in Calls, BookTotal(c) PROVE Kept
    BY <1>3, <1>10 DEF BookTotal
  <1>11. ASSUME UNCHANGED <<at, personal, left>> PROVE Kept
    <2>1. ASSUME NEW d \in Calls PROVE Fine(d)'
      BY <1>11 DEF ChainInv
    <2>2. left' = [d \in Calls |-> left'[d]]
      BY <1>11 DEF ChainInv
    <2> QED BY <2>1, <2>2
  <1>12. ASSUME NewDay PROVE Kept
    BY <1>11, <1>12 DEF NewDay, request
  <1>13. ASSUME NEW p \in Processes, Restart(p) PROVE Kept
    <2>1. ASSUME NEW d \in Calls PROVE Fine(d)'
      <3>1. CASE Host[d] = p
        <4>1. left'[d] = <<>> /\ at'[d] = "idle"
          BY <1>13, <3>1 DEF Restart
        <4> QED BY <4>1, NothingIsOffered
      <3>2. CASE Host[d] # p
        <4>1. left'[d] = left[d] /\ at'[d] = at[d] /\ personal'[d] = personal[d]
          BY <1>13, <3>2 DEF Restart, ChainInv, TypeOK
        <4> QED BY <4>1 DEF ChainInv
      <3> QED BY <3>1, <3>2
    <2>2. left' = [d \in Calls |-> left'[d]]
      BY <1>13 DEF Restart
    <2> QED BY <2>1, <2>2
  <1>14. ASSUME UNCHANGED vars PROVE Kept
    BY <1>11, <1>14 DEF vars
  <1> HIDE DEF Kept
  <1>15. Kept
    BY <1>4, <1>5, <1>6, <1>7, <1>8, <1>9, <1>10, <1>12, <1>13, <1>14 DEF Next, CompleteStep
  <1> QED BY <1>1, <1>15 DEF ChainInv, Kept

\* The invariant of the chains holds throughout.
THEOREM ChainInvariance == Spec => []ChainInv
  <1>1. Init => ChainInv
    BY InitEstablishes, NothingIsOffered DEF Init, IInv, ChainInv
  <1> QED BY <1>1, NextKeepsChains, PTL DEF Spec

\* A personal call reaches no free-tier model, whatever the settings name, however
\* its fallback goes on and whatever midnights and restarts come between (header of
\* gateway.py: "a call flagged personal=True is never routed to a free-tier (may-train)
\* provider").
THEOREM PersonalStaysOffFreeTier == Spec => []PersonalIsNeverFree
  <1>1. ChainInv => PersonalIsNeverFree
    BY FirstPlace DEF ChainInv, OnlyPaid, PersonalIsNeverFree
  <1> QED BY <1>1, ChainInvariance, PTL
=============================================================================
