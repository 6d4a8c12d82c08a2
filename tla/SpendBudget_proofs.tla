-------------------------- MODULE SpendBudget_proofs --------------------------
(***************************************************************************)
(* Proofs about SpendBudget: type correctness, the bound on how far a hard *)
(* limit is overrun, that no alert is missed, and that the counters and    *)
(* the history account for the same money.  Budgets may share counters,    *)
(* and any call to Valkey or Postgres may fail.                            *)
(***************************************************************************)
EXTENDS SpendBudget, FiniteSetTheorems, TLAPS

\* Every instant that is modelled belongs to a period that is modelled.
LEMMA PeriodType == ASSUME NEW i \in 1..Instants PROVE PeriodOf(i) \in 1..Periods
BY BudgetsAssumption DEF PeriodOf, Periods

\* The initial state is well typed.
LEMMA InitType == Init => TypeOK
<1> SUFFICES ASSUME Init PROVE TypeOK
  OBVIOUS
<1> USE BudgetsAssumption DEF Init
<1>1. 1 \in 1..Instants /\ 1 \in Budgets
  BY DEF Budgets
<1>2. counter \in [1..Periods -> [Keys -> Nat]] /\ forgotten \in [Keys -> Nat]
  OBVIOUS
<1>3. row \in Rows /\ loaded \in [Requests -> Rows]
  BY DEF Rows
<1>4. clock \in 1..Instants /\ now \in [Requests -> 1..Instants]
  BY <1>1
<1>5. at \in [Requests -> Budgets]
  BY <1>1
<1>6. pc \in [Requests -> Places]
  BY DEF Places
<1>7. cost \in [Requests -> 0..MaxCost] /\ recorded \in [Budgets -> Nat]
  OBVIOUS
<1>8. prev \in [Requests -> Nat] /\ new \in [Requests -> Nat]
  OBVIOUS
<1>9. /\ alerts \subseteq Budgets \X (1..Periods) \X (0..100)
      /\ revoked \in BOOLEAN
  OBVIOUS
<1>10. /\ blind \in [Requests -> SUBSET Budgets]
       /\ charged \in [1..Periods -> [Budgets -> Nat]]
       /\ missed \subseteq Budgets \X (1..Periods) \X (0..100)
       /\ unrecorded \in [Keys -> Nat]
  OBVIOUS
<1> QED
  BY <1>2, <1>3, <1>4, <1>5, <1>6, <1>7, <1>8, <1>9, <1>10 DEF TypeOK

\* What the action of a request reads has the type it should.
LEMMA ReadType ==
    ASSUME TypeOK, NEW r \in Requests
    PROVE  /\ at[r] \in Budgets
           /\ Key(r) \in Keys
           /\ Period(r) \in 1..Periods
           /\ Current(r) \in Nat
           /\ cost[r] \in Nat
<1>1. at[r] \in Budgets
  BY DEF TypeOK
<1>2. Key(r) \in Keys
  BY <1>1, BudgetsAssumption DEF Key, Keys
<1>3. Period(r) \in 1..Periods
  <2>1. now[r] \in 1..Instants
    BY DEF TypeOK
  <2> QED BY <2>1, PeriodType DEF Period
<1>4. Current(r) \in Nat
  <2>1. counter \in [1..Periods -> [Keys -> Nat]]
    BY DEF TypeOK
  <2> QED BY <1>2, <1>3, <2>1 DEF Current
<1>5. cost[r] \in Nat
  BY BudgetsAssumption DEF TypeOK
<1> QED BY <1>1, <1>2, <1>3, <1>4, <1>5

\* Setting one counter keeps the table of counters typed.
LEMMA CounterStaysTyped ==
    ASSUME NEW P, NEW K, NEW f \in [P -> [K -> Nat]],
           NEW p \in P, NEW k \in K, NEW v \in Nat
    PROVE  [f EXCEPT ![p][k] = v] \in [P -> [K -> Nat]]
OBVIOUS

\* The loops over the budgets stay within them.
LEMMA NextBudgetType ==
    ASSUME TypeOK, NEW r \in Requests, NextBudget(r)
    PROVE  pc' \in [Requests -> Places] /\ at' \in [Requests -> Budgets]
<1>1. at \in [Requests -> 1..NumBudgets] /\ pc \in [Requests -> Places]
  BY DEF TypeOK, Budgets
<1>2. NumBudgets \in Nat
  BY BudgetsAssumption
<1>3. at' \in [Requests -> 1..NumBudgets]
  BY <1>1, <1>2 DEF NextBudget
<1>4. pc' \in [Requests -> Places]
  BY <1>1, <1>2 DEF NextBudget, Places
<1> QED BY <1>3, <1>4 DEF Budgets

\* What a charge adds to the accounts is well typed.
LEMMA ChargeType ==
    ASSUME TypeOK, NEW r \in Requests, NEW reported, Charge(r, reported)
    PROVE  /\ charged' \in [1..Periods -> [Budgets -> Nat]]
           /\ missed' \subseteq Budgets \X (1..Periods) \X (0..100)
<1>1. charged' \in [1..Periods -> [Budgets -> Nat]]
  <2>1. charged \in [1..Periods -> [Budgets -> Nat]]
    BY DEF TypeOK
  <2>2. PICK account : /\ charged' = [charged EXCEPT ![Period(r)] = account]
                       /\ account = [b \in Budgets |->
                            IF /\ CounterKey[b] = Key(r)
                               /\ ~LastSecond(now[r])
                               /\ b \notin blind[r]
                            THEN charged[Period(r)][b] + cost[r]
                            ELSE charged[Period(r)][b]]
    BY <2>1, ReadType DEF Charge
  <2>3. \A b \in Budgets : /\ charged[Period(r)][b] \in Nat
                           /\ charged[Period(r)][b] + cost[r] \in Nat
    BY <2>1, ReadType
  <2>4. account \in [Budgets -> Nat]
    BY <2>2, <2>3
  <2> QED BY <2>1, <2>2, <2>4, ReadType
<1>2. missed' \subseteq Budgets \X (1..Periods) \X (0..100)
  <2>1. missed \subseteq Budgets \X (1..Periods) \X (0..100)
    BY DEF TypeOK
  <2>2. \A x, y : \A b \in Budgets :
          \A pct \in CrossedThresholds(b, x, y) : pct \in 0..100
    BY DEF CrossedThresholds
  <2>3. \A b \in SharedBy(Key(r)) : b \in Budgets
    BY DEF SharedBy
  <2> QED BY <2>1, <2>2, <2>3, ReadType DEF Charge
<1> QED BY <1>1, <1>2

\* What is added to the money that the history does not show is well typed.
LEMMA UnrecordedType ==
    ASSUME TypeOK, NEW r \in Requests,
           unrecorded' = [unrecorded EXCEPT ![Key(r)] = @ + cost[r]]
    PROVE  unrecorded' \in [Keys -> Nat]
<1>1. unrecorded \in [Keys -> Nat]
  BY DEF TypeOK
<1> QED BY <1>1, ReadType

\* A request's step keeps the state well typed.
LEMMA StepType == ASSUME TypeOK, NEW r \in Requests, Step(r) PROVE TypeOK'
<1> USE BudgetsAssumption
<1>1. CASE Arrive(r)
  <2>1. at' \in [Requests -> Budgets]
    BY <1>1 DEF Arrive, TypeOK, Budgets
  <2>2. now' \in [Requests -> 1..Instants]
    BY <1>1 DEF Arrive, TypeOK
  <2>3. pc' \in [Requests -> Places]
    BY <1>1 DEF Arrive, TypeOK, Places
  <2>4. blind' \in [Requests -> SUBSET Budgets]
    BY <1>1 DEF Arrive, TypeOK
  <2> QED BY <1>1, <2>1, <2>2, <2>3, <2>4 DEF Arrive, moneyVars, bookVars, rowVars, TypeOK
<1>2. CASE Check(r)
  <2>1. pc' \in [Requests -> Places]
    <3>1. \/ pc' = [pc EXCEPT ![r] = "idle"]
          \/ pc' = [pc EXCEPT ![r] = "serving"]
          \/ pc' = pc
      BY <1>2, Zenon DEF Check
    <3> QED BY <3>1 DEF TypeOK, Places
  <2>2. at \in [Requests -> 1..NumBudgets]
    BY DEF TypeOK, Budgets
  <2>3. \/ at' = at
        \/ at[r] < NumBudgets /\ at' = [at EXCEPT ![r] = @ + 1]
    BY <1>2, Zenon DEF Check
  <2>4. at' \in [Requests -> Budgets]
    BY <2>2, <2>3 DEF Budgets
  <2>5. blind' \in [Requests -> SUBSET Budgets]
    <3>1. \/ blind' = blind
          \/ blind' = [blind EXCEPT ![r] = @ \union {at[r]}]
      BY <1>2, Zenon DEF Check
    <3>2. at[r] \in Budgets /\ blind \in [Requests -> SUBSET Budgets]
      BY DEF TypeOK
    <3> QED BY <3>1, <3>2
  <2> QED BY <1>2, <2>1, <2>4, <2>5 DEF Check, moneyVars, bookVars, rowVars, TypeOK
<1>3. CASE ServeFree(r)
  <2>1. pc' \in [Requests -> Places]
    BY <1>3 DEF ServeFree, TypeOK, Places
  <2> QED BY <1>3, <2>1 DEF ServeFree, moneyVars, bookVars, rowVars, TypeOK
<1>4. CASE Serve(r)
  <2>1. at' \in [Requests -> Budgets]
    BY <1>4 DEF Serve, TypeOK, Budgets
  <2>2. cost' \in [Requests -> 0..MaxCost]
    BY <1>4 DEF Serve, TypeOK
  <2>3. pc' \in [Requests -> Places]
    BY <1>4 DEF Serve, TypeOK, Places
  <2> QED BY <1>4, <2>1, <2>2, <2>3 DEF Serve, moneyVars, bookVars, rowVars, TypeOK
<1>5. CASE ReadPrev(r)
  <2>1. prev' \in [Requests -> Nat]
    <3>1. PICK v \in {0, Current(r)} : prev' = [prev EXCEPT ![r] = v]
      BY <1>5 DEF ReadPrev
    <3>2. v \in Nat
      BY ReadType
    <3>3. prev \in [Requests -> Nat]
      BY DEF TypeOK
    <3> QED BY <3>1, <3>2, <3>3
  <2>2. pc' \in [Requests -> Places]
    BY <1>5 DEF ReadPrev, TypeOK, Places
  <2> QED BY <1>5, <2>1, <2>2 DEF ReadPrev, moneyVars, bookVars, rowVars, TypeOK
<1>6. CASE Increment(r)
  <2> DEFINE total == Current(r) + cost[r]
  <2>1. total \in Nat
    BY ReadType
  <2>2. PICK v \in {0, total} :
            counter' = [counter EXCEPT ![Period(r)][Key(r)] = v]
    BY <1>6 DEF Increment
  <2>3. counter' \in [1..Periods -> [Keys -> Nat]]
    <3>1. counter \in [1..Periods -> [Keys -> Nat]] /\ v \in Nat
      BY <2>1 DEF TypeOK
    <3> QED BY <2>2, <3>1, ReadType, CounterStaysTyped
  <2>4. forgotten' \in [Keys -> Nat]
    <3>1. PICK v2 \in {forgotten[Key(r)], forgotten[Key(r)] + total} :
              forgotten' = [forgotten EXCEPT ![Key(r)] = v2]
      BY <1>6 DEF Increment
    <3>2. forgotten \in [Keys -> Nat]
      BY DEF TypeOK
    <3>3. v2 \in Nat
      BY <2>1, <3>2, ReadType
    <3> QED BY <3>1, <3>2, <3>3
  <2>5. new' \in [Requests -> Nat]
    <3>1. new \in [Requests -> Nat]
      BY DEF TypeOK
    <3> QED BY <1>6, <2>1, <3>1 DEF Increment
  <2>6. pc' \in [Requests -> Places]
    BY <1>6 DEF Increment, TypeOK, Places
  <2>7. /\ charged' \in [1..Periods -> [Budgets -> Nat]]
        /\ missed' \subseteq Budgets \X (1..Periods) \X (0..100)
    BY <1>6, ChargeType DEF Increment
  <2> QED BY <1>6, <2>3, <2>4, <2>5, <2>6, <2>7
          DEF Increment, bookVars, rowVars, TypeOK
<1>7. CASE IncrementFails(r)
  <2>1. pc' \in [Requests -> Places] /\ at' \in [Requests -> Budgets]
    BY <1>7, NextBudgetType DEF IncrementFails
  <2>2. CASE UNCHANGED <<moneyVars, unrecorded>>
    BY <1>7, <2>1, <2>2 DEF IncrementFails, moneyVars, rowVars, TypeOK
  <2>3. CASE ~UNCHANGED <<moneyVars, unrecorded>>
    <3>1. /\ counter' = [counter EXCEPT ![Period(r)][Key(r)] = @ + cost[r]]
          /\ Charge(r, {})
          /\ unrecorded' = [unrecorded EXCEPT ![Key(r)] = @ + cost[r]]
          /\ forgotten' = forgotten
      BY <1>7, <2>3, Zenon DEF IncrementFails
    <3>2. counter' \in [1..Periods -> [Keys -> Nat]]
      <4>1. counter \in [1..Periods -> [Keys -> Nat]]
        BY DEF TypeOK
      <4> QED BY <3>1, <4>1, ReadType
    <3>3. /\ charged' \in [1..Periods -> [Budgets -> Nat]]
          /\ missed' \subseteq Budgets \X (1..Periods) \X (0..100)
      BY <3>1, ChargeType
    <3>4. unrecorded' \in [Keys -> Nat]
      BY <3>1, UnrecordedType
    <3> QED BY <1>7, <2>1, <3>1, <3>2, <3>3, <3>4
            DEF IncrementFails, rowVars, TypeOK
  <2> QED BY <2>2, <2>3
<1>8. CASE RecordSpend(r)
  <2>1. recorded' \in [Budgets -> Nat]
    <3>1. \/ recorded' = recorded
          \/ recorded' = [recorded EXCEPT ![at[r]] = @ + cost[r]]
      BY <1>8, Zenon DEF RecordSpend
    <3> QED BY <3>1, ReadType DEF TypeOK
  <2>2. unrecorded' \in [Keys -> Nat]
    <3>1. \/ unrecorded' = unrecorded
          \/ unrecorded' = [unrecorded EXCEPT ![Key(r)] = @ + cost[r]]
      BY <1>8, Zenon DEF RecordSpend
    <3> QED BY <3>1, UnrecordedType DEF TypeOK
  <2>3. pc' \in [Requests -> Places]
    BY <1>8 DEF RecordSpend, TypeOK, Places
  <2> QED BY <1>8, <2>1, <2>2, <2>3 DEF RecordSpend, moneyVars, rowVars, TypeOK
<1>9. CASE Notify(r)
  <2>1. alerts' \subseteq Budgets \X (1..Periods) \X (0..100)
    <3>1. alerts \subseteq Budgets \X (1..Periods) \X (0..100)
      BY DEF TypeOK
    <3>2. \A pct \in CrossedThresholds(at[r], prev[r], new[r]) : pct \in 0..100
      BY DEF CrossedThresholds
    <3> QED BY <1>9, <3>1, <3>2, ReadType DEF Notify
  <2>2. pc' \in [Requests -> Places] /\ at' \in [Requests -> Budgets]
    BY <1>9, NextBudgetType DEF Notify, TypeOK, Places
  <2> QED BY <1>9, <2>1, <2>2 DEF Notify, moneyVars, bookVars, rowVars, TypeOK
<1>10. CASE LoadKey(r)
  BY <1>10, ReadType DEF LoadKey, moneyVars, bookVars, TypeOK, Places
<1>11. CASE LoadKeyFails(r)
  BY <1>11, NextBudgetType DEF LoadKeyFails, moneyVars, bookVars, rowVars, TypeOK
<1>12. CASE StoreKey(r)
  <2>1. row' \in Rows
    <3>1. row' = row \/ row' = [loaded[r] EXCEPT !.spent = @ + cost[r]]
      BY <1>12, Zenon DEF StoreKey
    <3>2. row \in Rows /\ loaded[r] \in Rows /\ cost[r] \in Nat
      BY ReadType DEF TypeOK
    <3> QED BY <3>1, <3>2 DEF Rows
  <2> QED BY <1>12, <2>1, NextBudgetType DEF StoreKey, moneyVars, bookVars, TypeOK
<1> QED
  BY <1>1, <1>2, <1>3, <1>4, <1>5, <1>6, <1>7, <1>8, <1>9, <1>10, <1>11, <1>12
     DEF Step

LEMMA NextType == TypeOK /\ [Next]_vars => TypeOK'
<1> SUFFICES ASSUME TypeOK, [Next]_vars PROVE TypeOK'
  OBVIOUS
<1> USE BudgetsAssumption
<1>1. ASSUME NEW r \in Requests, Step(r) PROVE TypeOK'
  BY <1>1, StepType
<1>2. CASE Revoke
  BY <1>2 DEF Revoke, moneyVars, bookVars, TypeOK, Rows
<1>3. CASE Tick
  <2>1. clock' \in 1..Instants
    BY <1>3 DEF Tick, TypeOK
  <2> QED BY <1>3, <2>1 DEF Tick, moneyVars, bookVars, rowVars, TypeOK
<1>4. ASSUME NEW q \in 1..Periods, NEW k \in Keys, Expire(q, k) PROVE TypeOK'
  <2>1. counter' \in [1..Periods -> [Keys -> Nat]]
    BY <1>4 DEF Expire, TypeOK
  <2>2. forgotten \in [Keys -> Nat] /\ counter[q][k] \in Nat
    BY DEF TypeOK
  <2>3. forgotten' \in [Keys -> Nat]
    BY <1>4, <2>2 DEF Expire
  <2> QED BY <1>4, <2>1, <2>3 DEF Expire, bookVars, rowVars, TypeOK
<1>5. CASE UNCHANGED vars
  BY <1>5 DEF vars, TypeOK
<1> QED
  BY <1>1, <1>2, <1>3, <1>4, <1>5 DEF Next

\* The state is always well typed.
THEOREM SpendTypeCorrect == Spec => []TypeOK
<1> QED BY InitType, NextType, PTL DEF Spec
-------------------------------------------------------------------------------
(***************************************************************************)
(* How far a hard limit is overrun.  OverrunBounded is not inductive: a    *)
(* request past its check may still charge, whatever others charged since. *)
(* Room sets that aside.  Until the last second of a period its counter    *)
(* has not expired and holds all that was charged; once it has reached the *)
(* limit, those who have passed their check of it have room to charge, and *)
(* no request joins them.  From then on, when the counter may be gone, all *)
(* requests that began before have room once more.                         *)
(***************************************************************************)
Early(r, q) == Period(r) = q /\ ~LastSecond(now[r])

\* The request will still charge budget c, unless something stops it.
Owes(r, c, q) ==
    /\ Early(r, q)
    /\ \/ pc[r] \in {"check", "serving"}
       \/ pc[r] \in {"prev", "increment"} /\ at[r] <= c
       \/ pc[r] \in {"record", "notify", "load", "store"} /\ at[r] < c

\* It has read the counter of budget b and found it below the limit.
Passed(r, b) == b \notin blind[r] /\ ~(pc[r] = "check" /\ at[r] <= b)

\* The charges to b's counter that are still to come.
Pairs(b) == Requests \X SharedBy(CounterKey[b])
Due(b, q) == {t \in Pairs(b) : Owes(t[1], t[2], q)}
DuePassed(b, q) == {t \in Due(b, q) : Passed(t[1], b)}

Limit(b) == HardLimit[b] - 1

RoomBefore(b, q) ==
    /\ charged[q][b] <= counter[q][CounterKey[b]]
    /\ charged[q][b] + MaxCost * Cardinality(DuePassed(b, q))
          <= Limit(b) + OneRound(b)

RoomAfter(b, q) ==
    charged[q][b] + MaxCost * Cardinality(Due(b, q)) <= Limit(b) + 2 * OneRound(b)

Room ==
    /\ \A r \in Requests : now[r] <= clock
    /\ \A q \in 1..Periods, b \in Budgets :
          /\ clock < 2 * q => RoomBefore(b, q)
          /\ clock >= 2 * q => RoomAfter(b, q)

\* Multiplication is monotone, and distributes over one less.
LEMMA Times == ASSUME NEW m \in Nat, NEW i \in Nat, NEW j \in Nat, i <= j
               PROVE  m * i \in Nat /\ m * i <= m * j
OBVIOUS

LEMMA TimesLess == ASSUME NEW m \in Nat, NEW i \in Nat \ {0}
                   PROVE  m * (i - 1) = m * i - m
OBVIOUS

\* Where an instant lies in its period.
LEMMA InstantOf ==
    ASSUME NEW i \in 1..Instants, NEW q \in 1..Periods, PeriodOf(i) = q
    PROVE  IF LastSecond(i) THEN i = 2 * q ELSE i = 2 * q - 1
BY BudgetsAssumption DEF PeriodOf, LastSecond, Periods

\* All that could be charged in one go is a finite matter.
LEMMA PairsFinite ==
    ASSUME NEW b \in Budgets
    PROVE  /\ IsFiniteSet(Pairs(b))
           /\ Cardinality(Pairs(b)) \in Nat
           /\ OneRound(b) = MaxCost * Cardinality(Pairs(b))
           /\ OneRound(b) \in Nat
           /\ Limit(b) \in Nat
<1>1. IsFiniteSet(Requests) /\ IsFiniteSet(SharedBy(CounterKey[b]))
  <2>1. IsFiniteSet(Budgets)
    BY BudgetsAssumption, FS_Interval DEF Budgets
  <2>2. SharedBy(CounterKey[b]) \subseteq Budgets
    BY DEF SharedBy
  <2> QED BY <2>1, <2>2, FS_Subset, BudgetsAssumption
<1>2. /\ IsFiniteSet(Pairs(b))
      /\ Cardinality(Pairs(b))
            = Cardinality(Requests) * Cardinality(SharedBy(CounterKey[b]))
  BY <1>1, FS_Product, Zenon DEF Pairs
<1>3. Cardinality(Pairs(b)) \in Nat
  BY <1>2, FS_CardinalityType
<1>4. OneRound(b) = MaxCost * Cardinality(Pairs(b))
  BY <1>2 DEF OneRound
<1>5. Limit(b) \in Nat /\ MaxCost \in Nat
  BY BudgetsAssumption DEF Limit
<1> QED BY <1>2, <1>3, <1>4, <1>5, Times

\* Room for a set of charges is room for less.
LEMMA RoomForLess ==
    ASSUME NEW T, IsFiniteSet(T), NEW U, U \subseteq T, NEW C \in Nat,
           NEW a \in Nat, NEW most \in Int, a + C * Cardinality(T) <= most
    PROVE  a + C * Cardinality(U) <= most
<1>1. /\ Cardinality(U) \in Nat /\ Cardinality(T) \in Nat
      /\ Cardinality(U) <= Cardinality(T)
  BY FS_Subset, FS_CardinalityType
<1>2. /\ C * Cardinality(U) <= C * Cardinality(T)
      /\ C * Cardinality(U) \in Nat /\ C * Cardinality(T) \in Nat
  BY <1>1, Times
<1> QED BY <1>2

\* A charge takes no more than the room that was kept for it.
LEMMA RoomForCharge ==
    ASSUME NEW T, IsFiniteSet(T), NEW x \in T, NEW U, U \subseteq T \ {x},
           NEW C \in Nat, NEW a \in Nat, NEW c \in 0..C, NEW most \in Int,
           a + C * Cardinality(T) <= most
    PROVE  (a + c) + C * Cardinality(U) <= most
<1> DEFINE n == Cardinality(T)
           m == Cardinality(U)
<1>1. n \in Nat \ {0} /\ m \in Nat /\ m <= n - 1
  <2>1. IsFiniteSet(T \ {x}) /\ Cardinality(T \ {x}) = n - 1
    BY FS_RemoveElement
  <2>2. m <= Cardinality(T \ {x}) /\ m \in Nat /\ n \in Nat
    BY <2>1, FS_Subset, FS_CardinalityType
  <2> HIDE DEF n, m
  <2> QED BY <2>1, <2>2
<1>2. a + C * n <= most
  OBVIOUS
<1> HIDE DEF n, m
<1>3. C * m <= C * n - C /\ C * m \in Nat /\ C * n \in Nat
  <2>1. n - 1 \in Nat
    BY <1>1
  <2>2. C * m <= C * (n - 1) /\ C * m \in Nat
    BY <1>1, <2>1, Times
  <2>3. C * n \in Nat
    BY <1>1, Times
  <2> QED BY <1>1, <2>2, <2>3, TimesLess
<1>4. (a + c) + C * m <= most
  <2> DEFINE M == C * m
             N == C * n
  <2>1. M <= N - C /\ M \in Nat /\ N \in Nat /\ a + N <= most
    BY <1>2, <1>3
  <2> HIDE DEF M, N
  <2>2. (a + c) + M <= most
    BY <2>1
  <2> QED BY <2>2 DEF M
<1> QED BY <1>4 DEF m

\* The charges to come are finitely many, and no more than one round.
LEMMA DueFinite ==
    ASSUME NEW b \in Budgets, NEW q
    PROVE  /\ IsFiniteSet(Due(b, q)) /\ IsFiniteSet(DuePassed(b, q))
           /\ MaxCost * Cardinality(Due(b, q)) \in Nat
           /\ MaxCost * Cardinality(DuePassed(b, q)) \in Nat
           /\ MaxCost * Cardinality(Due(b, q)) <= OneRound(b)
           /\ MaxCost * Cardinality(DuePassed(b, q)) <= OneRound(b)
<1>1. Due(b, q) \subseteq Pairs(b) /\ DuePassed(b, q) \subseteq Pairs(b)
  BY DEF Due, DuePassed
<1>2. IsFiniteSet(Pairs(b)) /\ MaxCost \in Nat
  BY PairsFinite, BudgetsAssumption
<1>3. /\ IsFiniteSet(Due(b, q)) /\ IsFiniteSet(DuePassed(b, q))
      /\ Cardinality(Due(b, q)) <= Cardinality(Pairs(b))
      /\ Cardinality(DuePassed(b, q)) <= Cardinality(Pairs(b))
  BY <1>1, <1>2, FS_Subset
<1>4. /\ Cardinality(Due(b, q)) \in Nat /\ Cardinality(DuePassed(b, q)) \in Nat
      /\ Cardinality(Pairs(b)) \in Nat
  BY <1>2, <1>3, FS_CardinalityType
<1> QED BY <1>2, <1>3, <1>4, Times, PairsFinite

\* The accounts and counters hold natural numbers.
LEMMA AccountType ==
    ASSUME TypeOK, NEW q \in 1..Periods, NEW b \in Budgets
    PROVE  /\ CounterKey[b] \in Keys
           /\ counter[q][CounterKey[b]] \in Nat
           /\ charged[q][b] \in Nat
<1>1. CounterKey[b] \in Keys
  BY DEF Keys
<1>2. counter \in [1..Periods -> [Keys -> Nat]]
  BY DEF TypeOK
<1>3. charged \in [1..Periods -> [Budgets -> Nat]]
  BY DEF TypeOK
<1> QED BY <1>1, <1>2, <1>3

\* Room implies the bound.
LEMMA RoomBounds == TypeOK /\ Room => OverrunBounded
<1> SUFFICES ASSUME TypeOK, Room, NEW q \in 1..Periods, NEW b \in Budgets
             PROVE  charged[q][b] <= HardLimit[b] - 1 + 2 * OneRound(b)
  BY DEF OverrunBounded
<1>1. charged[q][b] \in Nat /\ OneRound(b) \in Nat /\ Limit(b) \in Nat
  BY AccountType, PairsFinite
<1>2. /\ MaxCost * Cardinality(Due(b, q)) \in Nat
      /\ MaxCost * Cardinality(DuePassed(b, q)) \in Nat
  BY DueFinite
<1>3. clock \in Nat /\ 2 * q \in Nat
  BY DEF TypeOK
<1>4. CASE clock < 2 * q
  <2>1. RoomBefore(b, q)
    BY <1>4 DEF Room
  <2> QED BY <1>1, <1>2, <2>1 DEF RoomBefore, Limit
<1>5. CASE clock >= 2 * q
  <2>1. RoomAfter(b, q)
    BY <1>5 DEF Room
  <2> QED BY <1>1, <1>2, <2>1 DEF RoomAfter, Limit
<1> QED BY <1>3, <1>4, <1>5

\* A request's step moves no other request.
LEMMA OthersStay ==
    ASSUME TypeOK, NEW r \in Requests, Step(r), NEW o \in Requests, o # r
    PROVE  /\ pc'[o] = pc[o] /\ now'[o] = now[o] /\ at'[o] = at[o]
           /\ cost'[o] = cost[o] /\ prev'[o] = prev[o] /\ new'[o] = new[o]
           /\ blind'[o] = blind[o]
<1> USE DEF TypeOK
<1>1. CASE Arrive(r)
  BY <1>1 DEF Arrive
<1>2. CASE Check(r)
  <2>1. /\ pc' = pc \/ \E s : pc' = [pc EXCEPT ![r] = s]
        /\ at' = at \/ \E s : at' = [at EXCEPT ![r] = s]
        /\ blind' = blind \/ \E s : blind' = [blind EXCEPT ![r] = s]
    BY <1>2, Zenon DEF Check
  <2> QED BY <1>2, <2>1 DEF Check
<1>3. CASE ServeFree(r)
  BY <1>3 DEF ServeFree
<1>4. CASE Serve(r)
  BY <1>4 DEF Serve
<1>5. CASE ReadPrev(r)
  BY <1>5 DEF ReadPrev
<1>6. CASE Increment(r)
  BY <1>6 DEF Increment
<1>7. CASE IncrementFails(r)
  <2>1. /\ UNCHANGED <<now, cost, prev, new, blind>>
        /\ NextBudget(r)
    BY <1>7 DEF IncrementFails
  <2> QED BY <2>1 DEF NextBudget
<1>8. CASE RecordSpend(r)
  <2>1. /\ UNCHANGED <<now, at, cost, prev, new, blind>>
        /\ pc' = [pc EXCEPT ![r] = "notify"]
    BY <1>8 DEF RecordSpend
  <2> QED BY <2>1
<1>9. CASE Notify(r)
  BY <1>9 DEF Notify, NextBudget
<1>10. CASE LoadKey(r)
  BY <1>10 DEF LoadKey
<1>11. CASE LoadKeyFails(r)
  BY <1>11 DEF LoadKeyFails, NextBudget
<1>12. CASE StoreKey(r)
  BY <1>12 DEF StoreKey, NextBudget
<1> QED
  BY <1>1, <1>2, <1>3, <1>4, <1>5, <1>6, <1>7, <1>8, <1>9, <1>10, <1>11, <1>12
     DEF Step

\* What Check does to its own request, by how its read of the counter ended.
LEMMA CheckStep ==
    ASSUME TypeOK, NEW r \in Requests, Check(r)
    PROVE  /\ pc[r] = "check" /\ now' = now /\ blind[r] \subseteq blind'[r]
           /\ at[r] \in blind'[r] \/ pc'[r] = "idle" \/ Current(r) < HardLimit[at[r]]
           /\ \/ pc'[r] = "idle"
              \/ at[r] < NumBudgets /\ at'[r] = at[r] + 1 /\ pc'[r] = "check"
              \/ ~(at[r] < NumBudgets) /\ at'[r] = at[r] /\ pc'[r] = "serving"
<1>1. pc \in [Requests -> Places]
  BY DEF TypeOK
<1>2. at \in [Requests -> Budgets]
  BY DEF TypeOK
<1>3. blind \in [Requests -> SUBSET Budgets]
  BY DEF TypeOK
<1>4. Current(r) \in Nat /\ HardLimit[at[r]] \in Nat
  BY ReadType, BudgetsAssumption
<1>5. PICK unread \in {FALSE, Faults} :
        /\ blind' = IF unread
                    THEN [blind EXCEPT ![r] = @ \union {at[r]}] ELSE blind
        /\ IF ~unread /\ HardExceeded(at[r], Current(r))
           THEN pc' = [pc EXCEPT ![r] = "idle"] /\ UNCHANGED at
           ELSE IF at[r] < NumBudgets
           THEN at' = [at EXCEPT ![r] = @ + 1] /\ UNCHANGED pc
           ELSE pc' = [pc EXCEPT ![r] = "serving"] /\ UNCHANGED at
  BY Zenon DEF Check
<1>6. pc[r] = "check" /\ now' = now
  BY DEF Check
<1>7. \/ pc' = [pc EXCEPT ![r] = "idle"]
      \/ at[r] < NumBudgets /\ at' = [at EXCEPT ![r] = @ + 1] /\ pc' = pc
      \/ ~(at[r] < NumBudgets) /\ at' = at /\ pc' = [pc EXCEPT ![r] = "serving"]
  BY <1>5, Zenon
<1>8. \/ pc'[r] = "idle"
      \/ at[r] < NumBudgets /\ at'[r] = at[r] + 1 /\ pc'[r] = "check"
      \/ ~(at[r] < NumBudgets) /\ at'[r] = at[r] /\ pc'[r] = "serving"
  BY <1>1, <1>2, <1>6, <1>7
<1>9. \/ blind' = [blind EXCEPT ![r] = @ \union {at[r]}]
      \/ blind' = blind /\ ~HardExceeded(at[r], Current(r))
      \/ blind' = blind /\ pc' = [pc EXCEPT ![r] = "idle"]
  BY <1>5, Zenon
<1>10. at[r] \in blind'[r] \/ pc'[r] = "idle" \/ Current(r) < HardLimit[at[r]]
  BY <1>1, <1>3, <1>4, <1>9 DEF HardExceeded
<1>11. blind[r] \subseteq blind'[r]
  BY <1>3, <1>9
<1> QED BY <1>6, <1>8, <1>10, <1>11

\* Where a request is after a step that is no check.
LEMMA PlaceStep ==
    ASSUME TypeOK, NEW r \in Requests, Step(r), ~Check(r), ~Arrive(r)
    PROVE  /\ now' = now /\ blind' = blind /\ pc[r] # "check"
           /\ \/ pc'[r] = "idle"
              \/ pc[r] = "serving" /\ pc'[r] = "prev" /\ at'[r] = 1
              \/ pc[r] = "prev" /\ pc'[r] = "increment" /\ at'[r] = at[r]
              \/ /\ pc[r] \in {"increment", "record", "notify", "load", "store"}
                 /\ \/ pc'[r] = "prev" /\ at'[r] = at[r] + 1
                    \/ /\ pc'[r] \in {"record", "notify", "load", "store"}
                       /\ at'[r] = at[r]
<1>1. pc \in [Requests -> Places]
  BY DEF TypeOK
<1>2. at \in [Requests -> Budgets]
  BY DEF TypeOK
<1>3. ASSUME NextBudget(r)
      PROVE  \/ pc'[r] = "idle"
             \/ pc'[r] = "prev" /\ at'[r] = at[r] + 1
  <2>1. \/ pc' = [pc EXCEPT ![r] = "idle"]
        \/ /\ pc' = [pc EXCEPT ![r] = "prev"]
           /\ at' = [at EXCEPT ![r] = @ + 1]
    BY <1>3, Zenon DEF NextBudget
  <2>2. ASSUME at' = [at EXCEPT ![r] = @ + 1] PROVE at'[r] = at[r] + 1
    BY <1>2, <2>2
  <2>3. ASSUME pc' = [pc EXCEPT ![r] = "idle"] PROVE pc'[r] = "idle"
    BY <1>1, <2>3
  <2>4. ASSUME pc' = [pc EXCEPT ![r] = "prev"] PROVE pc'[r] = "prev"
    BY <1>1, <2>4
  <2> QED BY <2>1, <2>2, <2>3, <2>4, Zenon
<1>4. CASE ServeFree(r)
  BY <1>1, <1>4 DEF ServeFree
<1>5. CASE Serve(r)
  BY <1>1, <1>2, <1>5 DEF Serve
<1>6. CASE ReadPrev(r)
  <2>1. /\ pc[r] = "prev" /\ pc' = [pc EXCEPT ![r] = "increment"]
        /\ now' = now /\ blind' = blind /\ at' = at
    BY <1>6 DEF ReadPrev
  <2> QED BY <1>1, <2>1
<1>7. CASE Increment(r)
  <2>1. /\ pc[r] = "increment" /\ pc' = [pc EXCEPT ![r] = "record"]
        /\ now' = now /\ blind' = blind /\ at' = at
    BY <1>7 DEF Increment
  <2> QED BY <1>1, <2>1
<1>8. CASE IncrementFails(r)
  <2>1. /\ pc[r] = "increment" /\ NextBudget(r)
        /\ now' = now /\ blind' = blind
    BY <1>8 DEF IncrementFails
  <2> QED BY <1>3, <2>1
<1>9. CASE RecordSpend(r)
  <2>1. /\ pc[r] = "record" /\ pc' = [pc EXCEPT ![r] = "notify"]
        /\ now' = now /\ blind' = blind /\ at' = at
    BY <1>9 DEF RecordSpend
  <2> QED BY <1>1, <2>1
<1>10. CASE Notify(r)
  <2>1. /\ pc[r] = "notify" /\ now' = now /\ blind' = blind
        /\ \/ pc' = [pc EXCEPT ![r] = "load"] /\ at' = at
           \/ NextBudget(r)
    BY <1>10, Zenon DEF Notify
  <2> QED BY <1>1, <1>3, <2>1
<1>11. CASE LoadKey(r)
  BY <1>1, <1>11 DEF LoadKey
<1>12. CASE LoadKeyFails(r)
  BY <1>3, <1>12 DEF LoadKeyFails
<1>13. CASE StoreKey(r)
  <2>1. pc[r] = "store" /\ NextBudget(r) /\ now' = now /\ blind' = blind
    BY <1>13 DEF StoreKey
  <2> QED BY <1>3, <2>1
<1> QED
  BY <1>4, <1>5, <1>6, <1>7, <1>8, <1>9, <1>10, <1>11, <1>12, <1>13 DEF Step

\* Where Arrive puts a request.
LEMMA ArriveStep ==
    ASSUME TypeOK, NEW r \in Requests, Arrive(r)
    PROVE  /\ pc'[r] \in {"check", "free"} /\ at'[r] = 1
           /\ now' = [now EXCEPT ![r] = clock]
<1>1. pc' = [pc EXCEPT ![r] = "check"] \/ pc' = [pc EXCEPT ![r] = "free"]
  BY Zenon DEF Arrive
<1>2. pc \in [Requests -> Places] /\ at \in [Requests -> Budgets]
  BY DEF TypeOK
<1> QED BY <1>1, <1>2 DEF Arrive

\* No step gives a request more to charge, but for its arrival before the last
\* second.
LEMMA OwesLess ==
    ASSUME TypeOK, NEW r \in Requests, Step(r), NEW q \in 1..Periods,
           Arrive(r) => clock >= 2 * q,
           NEW o \in Requests, NEW c \in Budgets, Owes(o, c, q)'
    PROVE  Owes(o, c, q)
<1>1. CASE o # r
  BY <1>1, OthersStay DEF Owes, Early, Period
<1>2. CASE o = r /\ Arrive(r)
  <2>1. Period(r)' = q /\ ~LastSecond(now'[r])
    BY <1>2 DEF Owes, Early
  <2>2. now'[r] = clock /\ clock \in 1..Instants
    BY <1>2, ArriveStep DEF TypeOK
  <2>3. clock = 2 * q - 1
    BY <2>1, <2>2, InstantOf DEF Period
  <2>4. q \in Int
    OBVIOUS
  <2> QED BY <1>2, <2>3, <2>4
<1>3. CASE o = r /\ ~Arrive(r)
  <2>1. at[r] \in 1..NumBudgets /\ c \in 1..NumBudgets /\ NumBudgets \in Nat
    BY BudgetsAssumption DEF TypeOK, Budgets
  <2>2. CASE Check(r)
    BY <1>3, <2>2, CheckStep DEF Owes, Early, Period
  <2>3. CASE ~Check(r)
    BY <1>3, <2>1, <2>3, PlaceStep DEF Owes, Early, Period
  <2> QED BY <2>2, <2>3
<1> QED BY <1>1, <1>2, <1>3

\* Nor does one pass the check of budget b but by reading its counter.
LEMMA PassesByReading ==
    ASSUME TypeOK, NEW r \in Requests, Step(r), NEW q \in 1..Periods,
           NEW b \in Budgets, NEW o \in Requests, NEW c \in Budgets,
           Owes(o, c, q)', Passed(o, b)'
    PROVE  \/ Owes(o, c, q) /\ Passed(o, b)
           \/ Check(r) /\ counter[q][CounterKey[b]] < HardLimit[b]
<1>1. CASE o # r
  BY <1>1, OthersStay DEF Owes, Early, Period, Passed
<1>2. at[r] \in 1..NumBudgets /\ b \in 1..NumBudgets /\ NumBudgets \in Nat
  BY BudgetsAssumption DEF TypeOK, Budgets
<1>3. CASE o = r /\ Arrive(r)
  BY <1>2, <1>3, ArriveStep DEF Owes, Passed
<1>4. CASE o = r /\ ~Arrive(r)
  <2>1. Owes(o, c, q)
    BY <1>4, OwesLess
  <2>2. CASE Check(r)
    <3>1. pc'[r] # "idle"
      BY <1>4 DEF Owes
    <3>2. b \notin blind[r] /\ b \notin blind'[r]
      BY <1>4, <2>2, CheckStep DEF Passed
    <3>3. CASE at[r] = b
      <4>1. Current(r) < HardLimit[b]
        BY <2>2, <3>1, <3>2, <3>3, CheckStep
      <4>2. Period(r) = q
        BY <1>4, <2>1 DEF Owes, Early
      <4> QED BY <2>2, <3>3, <4>1, <4>2 DEF Current, Key
    <3>4. CASE at[r] # b
      BY <1>2, <1>4, <2>1, <2>2, <3>1, <3>2, <3>4, CheckStep DEF Passed
    <3> QED BY <3>3, <3>4
  <2>3. CASE ~Check(r)
    BY <1>4, <2>1, <2>3, PlaceStep DEF Passed
  <2> QED BY <2>2, <2>3
<1> QED BY <1>1, <1>3, <1>4

\* What an increment does to the counters and the account of the charges.
LEMMA IncrementStep ==
    ASSUME TypeOK, NEW r \in Requests, Increment(r)
    PROVE  /\ Charge(r, {at[r]})
           /\ \E v : /\ counter' = [counter EXCEPT ![Period(r)][Key(r)] = v]
                     /\ \/ v = Current(r) + cost[r]
                        \/ v = 0 /\ LastSecond(now[r])
BY DEF Increment

LEMMA IncrementFailsStep ==
    ASSUME TypeOK, NEW r \in Requests, IncrementFails(r)
    PROVE  /\ Faults
           /\ \/ UNCHANGED <<moneyVars, unrecorded>>
              \/ /\ counter' = [counter EXCEPT ![Period(r)][Key(r)] =
                                    Current(r) + cost[r]]
                 /\ Charge(r, {})
                 /\ unrecorded' = [unrecorded EXCEPT ![Key(r)] = @ + cost[r]]
                 /\ UNCHANGED forgotten
<1>1. \/ UNCHANGED <<moneyVars, unrecorded>>
      \/ /\ counter' = [counter EXCEPT ![Period(r)][Key(r)] = @ + cost[r]]
         /\ Charge(r, {})
         /\ unrecorded' = [unrecorded EXCEPT ![Key(r)] = @ + cost[r]]
         /\ UNCHANGED forgotten
  BY Zenon DEF IncrementFails
<1>2. counter \in [1..Periods -> [Keys -> Nat]]
  BY DEF TypeOK
<1>3. [counter EXCEPT ![Period(r)][Key(r)] = @ + cost[r]]
        = [counter EXCEPT ![Period(r)][Key(r)] = Current(r) + cost[r]]
  BY <1>2, ReadType DEF Current
<1>4. Faults
  BY DEF IncrementFails
<1> QED BY <1>1, <1>3, <1>4

\* No other step of a request counts anything.
LEMMA ElseUncounted ==
    ASSUME NEW r \in Requests, Step(r), ~Increment(r), ~IncrementFails(r)
    PROVE  UNCHANGED moneyVars
BY DEF Step, Arrive, Check, ServeFree, Serve, ReadPrev, RecordSpend, Notify,
       LoadKey, LoadKeyFails, StoreKey

\* What a step of r does to the counter of budget b in period q, and what it
\* charges to b there.
Uncharged(r, b, q) ==
    /\ charged'[q][b] = charged[q][b]
    /\ \/ counter'[q][CounterKey[b]] = counter[q][CounterKey[b]]
       \/ counter'[q][CounterKey[b]] = counter[q][CounterKey[b]] + cost[r]
       \/ Period(r) = q /\ LastSecond(now[r])

Charges(r, b, q) ==
    /\ pc[r] = "increment" /\ Early(r, q)
    /\ CounterKey[b] = Key(r) /\ b \notin blind[r]
    /\ charged'[q][b] = charged[q][b] + cost[r]
    /\ counter'[q][CounterKey[b]] = counter[q][CounterKey[b]] + cost[r]

LEMMA MoneyStep ==
    ASSUME TypeOK, NEW r \in Requests, Step(r),
           NEW q \in 1..Periods, NEW b \in Budgets
    PROVE  Uncharged(r, b, q) \/ Charges(r, b, q)
<1>1. ASSUME NEW reported, Charge(r, reported), pc[r] = "increment",
             NEW v, counter' = [counter EXCEPT ![Period(r)][Key(r)] = v],
             v = Current(r) + cost[r] \/ (v = 0 /\ LastSecond(now[r]))
      PROVE  Uncharged(r, b, q) \/ Charges(r, b, q)
  <2>1. /\ Period(r) \in 1..Periods /\ Key(r) \in Keys /\ CounterKey[b] \in Keys
        /\ counter \in [1..Periods -> [Keys -> Nat]]
    BY ReadType DEF TypeOK, Keys
  <2>2. CASE q = Period(r) /\ CounterKey[b] = Key(r)
    <3>1. /\ counter'[q][CounterKey[b]] = v
          /\ Current(r) = counter[q][CounterKey[b]]
      <4>1. counter'[q][CounterKey[b]] = v
        BY <1>1, <2>1, <2>2
      <4>2. Current(r) = counter[q][CounterKey[b]]
        BY <2>2 DEF Current
      <4> QED BY <4>1, <4>2
    <3>2. charged'[q][b] = IF ~LastSecond(now[r]) /\ b \notin blind[r]
                           THEN charged[q][b] + cost[r] ELSE charged[q][b]
      <4>1. charged \in [1..Periods -> [Budgets -> Nat]]
        BY DEF TypeOK
      <4> QED BY <1>1, <2>1, <2>2, <4>1 DEF Charge
    <3>3. CASE ~LastSecond(now[r]) /\ b \notin blind[r]
      BY <1>1, <2>2, <3>1, <3>2, <3>3 DEF Charges, Early
    <3>4. CASE LastSecond(now[r])
      BY <2>2, <3>2, <3>4 DEF Uncharged
    <3>5. CASE ~LastSecond(now[r]) /\ b \in blind[r]
      BY <1>1, <3>1, <3>2, <3>5 DEF Uncharged
    <3> QED BY <3>3, <3>4, <3>5
  <2>3. CASE ~(q = Period(r) /\ CounterKey[b] = Key(r))
    <3>1. counter'[q][CounterKey[b]] = counter[q][CounterKey[b]]
      BY <1>1, <2>1, <2>3
    <3>2. charged'[q][b] = charged[q][b]
      <4>1. charged \in [1..Periods -> [Budgets -> Nat]]
        BY DEF TypeOK
      <4> QED BY <1>1, <2>1, <2>3, <4>1 DEF Charge
    <3> QED BY <3>1, <3>2 DEF Uncharged
  <2> QED BY <2>2, <2>3
<1>2. CASE Increment(r)
  <2>1. pc[r] = "increment"
    BY <1>2 DEF Increment
  <2>2. PICK v : /\ counter' = [counter EXCEPT ![Period(r)][Key(r)] = v]
                 /\ \/ v = Current(r) + cost[r]
                    \/ v = 0 /\ LastSecond(now[r])
    BY <1>2, IncrementStep
  <2>3. PICK reported : Charge(r, reported)
    BY <1>2, IncrementStep
  <2> QED BY <1>1, <2>1, <2>2, <2>3, Zenon
<1>3. CASE IncrementFails(r)
  <2>1. pc[r] = "increment"
    BY <1>3 DEF IncrementFails
  <2>2. CASE UNCHANGED <<moneyVars, unrecorded>>
    BY <2>2 DEF Uncharged, moneyVars
  <2>3. CASE /\ counter' = [counter EXCEPT ![Period(r)][Key(r)] =
                                Current(r) + cost[r]]
             /\ Charge(r, {})
    <3>1. PICK v : v = Current(r) + cost[r]
      OBVIOUS
    <3>2. counter' = [counter EXCEPT ![Period(r)][Key(r)] = v]
      BY <2>3, <3>1
    <3>3. Charge(r, {})
      BY <2>3
    <3> QED BY <1>1, <2>1, <3>1, <3>2, <3>3, Zenon
  <2> QED BY <1>3, <2>2, <2>3, IncrementFailsStep
<1>4. CASE ~Increment(r) /\ ~IncrementFails(r)
  BY <1>4, ElseUncounted DEF Uncharged, moneyVars
<1> QED BY <1>2, <1>3, <1>4

\* The charge that a request makes was one of those to come, and no longer is.
LEMMA ChargeWasDue ==
    ASSUME TypeOK, NEW r \in Requests, Step(r),
           NEW q \in 1..Periods, NEW b \in Budgets, Charges(r, b, q)
    PROVE  /\ <<r, at[r]>> \in DuePassed(b, q)
           /\ <<r, at[r]>> \notin Due(b, q)'
<1>1. at[r] \in Budgets /\ at[r] \in 1..NumBudgets /\ NumBudgets \in Nat
  BY BudgetsAssumption DEF TypeOK, Budgets
<1>2. <<r, at[r]>> \in Pairs(b)
  BY <1>1 DEF Pairs, SharedBy, Charges, Key
<1>3. Owes(r, at[r], q) /\ Passed(r, b)
  BY <1>1 DEF Owes, Passed, Charges
<1>4. ASSUME NEW c \in Budgets, c = at[r] PROVE ~Owes(r, c, q)'
  <2>1. pc[r] = "increment" /\ ~Check(r) /\ ~Arrive(r)
    BY DEF Charges, Check, Arrive
  <2>2. \/ pc'[r] = "idle"
        \/ pc'[r] = "prev" /\ at'[r] = c + 1
        \/ pc'[r] \in {"record", "notify", "load", "store"} /\ at'[r] = c
    BY <1>4, <2>1, PlaceStep
  <2>3. ~(c + 1 <= c) /\ ~(c < c)
    BY <1>1, <1>4
  <2>4. ~(pc'[r] = "prev" /\ at'[r] <= c)
    BY <2>2, <2>3
  <2>5. ~(pc'[r] \in {"record", "notify", "load", "store"} /\ at'[r] < c)
    BY <2>2, <2>3
  <2>6. pc'[r] \notin {"check", "serving", "increment"}
    BY <2>2
  <2>7. ~(pc'[r] \in {"prev", "increment"} /\ at'[r] <= c)
    BY <2>4, <2>6
  <2> QED BY <2>5, <2>6, <2>7 DEF Owes
<1>5. PICK c \in Budgets : c = at[r]
  BY <1>1
<1>6. <<r, c>> \in Pairs(b) /\ Owes(r, c, q) /\ Passed(r, b) /\ ~Owes(r, c, q)'
  BY <1>2, <1>3, <1>4, <1>5
<1>7. <<r, c>> \in DuePassed(b, q)
  BY <1>6 DEF Due, DuePassed
<1>8. <<r, c>> \notin Due(b, q)'
  BY <1>6 DEF Due
<1> QED BY <1>5, <1>7, <1>8

\* A step that is no arrival in time leaves no more charges to come.
LEMMA DueShrinks ==
    ASSUME TypeOK, NEW r \in Requests, Step(r), NEW q \in 1..Periods,
           NEW b \in Budgets, Arrive(r) => clock >= 2 * q
    PROVE  Due(b, q)' \subseteq Due(b, q)
<1> SUFFICES ASSUME NEW o \in Requests, NEW c \in SharedBy(CounterKey[b]),
                    Owes(o, c, q)'
             PROVE  Owes(o, c, q)
  BY DEF Due, Pairs
<1>1. c \in Budgets
  BY DEF SharedBy
<1> QED BY <1>1, OwesLess

\* Nor does any step leave more of those that passed their check, unless it
\* is a check that has read the counter below the limit.
LEMMA DuePassedShrinks ==
    ASSUME TypeOK, NEW r \in Requests, Step(r), NEW q \in 1..Periods,
           NEW b \in Budgets
    PROVE  \/ DuePassed(b, q)' \subseteq DuePassed(b, q)
           \/ Check(r) /\ counter[q][CounterKey[b]] < HardLimit[b]
<1> SUFFICES ASSUME ~(Check(r) /\ counter[q][CounterKey[b]] < HardLimit[b]),
                    NEW o \in Requests, NEW c \in SharedBy(CounterKey[b]),
                    Owes(o, c, q)', Passed(o, b)'
             PROVE  Owes(o, c, q) /\ Passed(o, b)
  BY DEF DuePassed, Due, Pairs
<1>1. c \in Budgets
  BY DEF SharedBy
<1> QED BY <1>1, PassesByReading

\* Before the last second of a period a charge is counted and stays counted.
LEMMA CountedInTime ==
    ASSUME TypeOK, TypeOK', NEW r \in Requests, Step(r), NEW q \in 1..Periods,
           NEW b \in Budgets, now[r] <= clock, clock < 2 * q,
           charged[q][b] <= counter[q][CounterKey[b]]
    PROVE  charged'[q][b] <= counter'[q][CounterKey[b]]
<1>1. /\ counter[q][CounterKey[b]] \in Nat /\ charged[q][b] \in Nat
      /\ cost[r] \in Nat
  BY AccountType, ReadType
<1>2. ~(Period(r) = q /\ LastSecond(now[r]))
  <2>1. ASSUME Period(r) = q, LastSecond(now[r]) PROVE now[r] = 2 * q
    <3>1. now[r] \in 1..Instants
      BY DEF TypeOK
    <3> QED BY <2>1, <3>1, InstantOf DEF Period
  <2>2. now[r] \in Int /\ clock \in Int
    BY DEF TypeOK
  <2> QED BY <2>1, <2>2
<1>3. CASE Uncharged(r, b, q)
  <2>1. \/ counter'[q][CounterKey[b]] = counter[q][CounterKey[b]]
        \/ counter'[q][CounterKey[b]] = counter[q][CounterKey[b]] + cost[r]
    BY <1>2, <1>3 DEF Uncharged
  <2> QED BY <1>1, <1>3, <2>1 DEF Uncharged
<1>4. CASE Charges(r, b, q)
  BY <1>1, <1>4 DEF Charges
<1> QED BY <1>3, <1>4, MoneyStep

\* A step of a request takes no more than the room that is kept for the charges
\* T to come, if it leaves no more than U of them and drops the one it makes.
LEMMA RoomStep ==
    ASSUME TypeOK, NEW r \in Requests, Step(r), NEW q \in 1..Periods,
           NEW b \in Budgets, NEW T, NEW U, U \subseteq T, IsFiniteSet(T),
           \A x : x = <<r, at[r]>> /\ Charges(r, b, q) => x \in T /\ x \notin U,
           NEW most \in Int, charged[q][b] + MaxCost * Cardinality(T) <= most
    PROVE  charged'[q][b] + MaxCost * Cardinality(U) <= most
<1>1. charged[q][b] \in Nat /\ cost[r] \in 0..MaxCost /\ MaxCost \in Nat
  <2>1. cost[r] \in 0..MaxCost
    BY DEF TypeOK
  <2> QED BY <2>1, AccountType, BudgetsAssumption
<1>2. PICK a \in Nat : a = charged[q][b]
  BY <1>1
<1>3. PICK c \in 0..MaxCost : c = cost[r]
  BY <1>1
<1>4. CASE Uncharged(r, b, q)
  <2>1. a + MaxCost * Cardinality(U) <= most
    BY <1>1, <1>2, RoomForLess
  <2> QED BY <1>2, <1>4, <2>1 DEF Uncharged
<1>5. CASE Charges(r, b, q)
  <2>1. PICK x : x = <<r, at[r]>>
    OBVIOUS
  <2>2. x \in T /\ U \subseteq T \ {x}
    BY <1>5, <2>1
  <2>3. (a + c) + MaxCost * Cardinality(U) <= most
    BY <1>1, <1>2, <2>2, RoomForCharge
  <2> QED BY <1>2, <1>3, <1>5, <2>3 DEF Charges
<1> QED BY <1>4, <1>5, MoneyStep

\* Room is kept before the last second of a period.
LEMMA RoomBeforeStep ==
    ASSUME TypeOK, TypeOK', NEW r \in Requests, Step(r), NEW q \in 1..Periods,
           NEW b \in Budgets, now[r] <= clock, clock < 2 * q, RoomBefore(b, q)
    PROVE  RoomBefore(b, q)'
<1>1. charged'[q][b] <= counter'[q][CounterKey[b]]
  BY CountedInTime DEF RoomBefore
<1>2. PICK T : T = DuePassed(b, q)
  OBVIOUS
<1>3. PICK U : U = DuePassed(b, q)'
  OBVIOUS
<1>4. PICK most : most = Limit(b) + OneRound(b)
  OBVIOUS
<1>5. most \in Int /\ IsFiniteSet(T) /\ charged[q][b] + MaxCost * Cardinality(T) <= most
  <2>1. Limit(b) + OneRound(b) \in Int
    BY PairsFinite
  <2>2. IsFiniteSet(DuePassed(b, q))
    BY DueFinite
  <2> QED BY <1>2, <1>4, <2>1, <2>2 DEF RoomBefore
<1>6. charged'[q][b] + MaxCost * Cardinality(U) <= most
  <2>1. CASE U \subseteq T
    <3>1. \A x : x = <<r, at[r]>> /\ Charges(r, b, q) => x \in T /\ x \notin U
      BY <1>2, <1>3, ChargeWasDue DEF DuePassed
    <3> QED BY <1>5, <2>1, <3>1, RoomStep
  <2>2. CASE ~(U \subseteq T)
    <3>1. Check(r) /\ counter[q][CounterKey[b]] < HardLimit[b]
      BY <1>2, <1>3, <2>2, DuePassedShrinks
    <3>2. charged'[q][b] = charged[q][b]
      BY <3>1, MoneyStep DEF Uncharged, Charges, Check
    <3>3. MaxCost * Cardinality(U) \in Nat /\ MaxCost * Cardinality(U) <= OneRound(b)
      <4>1. U \subseteq Pairs(b)
        BY <1>3 DEF DuePassed, Due, Pairs
      <4>2. /\ Cardinality(U) \in Nat /\ Cardinality(Pairs(b)) \in Nat
            /\ Cardinality(U) <= Cardinality(Pairs(b))
        BY <4>1, PairsFinite, FS_Subset, FS_CardinalityType
      <4> QED BY <4>2, Times, PairsFinite, BudgetsAssumption
    <3>4. charged[q][b] <= HardLimit[b] - 1
      <4>1. /\ charged[q][b] \in Nat /\ counter[q][CounterKey[b]] \in Nat
            /\ HardLimit[b] \in Nat
        BY AccountType, BudgetsAssumption
      <4> QED BY <3>1, <4>1 DEF RoomBefore
    <3>5. charged[q][b] \in Nat /\ OneRound(b) \in Nat /\ HardLimit[b] \in Nat
      BY AccountType, PairsFinite, BudgetsAssumption
    <3>6. most = HardLimit[b] - 1 + OneRound(b)
      BY <1>4 DEF Limit
    <3> QED BY <3>2, <3>3, <3>4, <3>5, <3>6
  <2> QED BY <2>1, <2>2
<1>7. (Limit(b) + OneRound(b))' = Limit(b) + OneRound(b)
  BY DEF Limit, OneRound
<1> QED BY <1>1, <1>3, <1>4, <1>6, <1>7 DEF RoomBefore

\* And from then on.
LEMMA RoomAfterStep ==
    ASSUME TypeOK, NEW r \in Requests, Step(r), NEW q \in 1..Periods,
           NEW b \in Budgets, clock >= 2 * q, RoomAfter(b, q)
    PROVE  RoomAfter(b, q)'
<1>1. PICK T : T = Due(b, q)
  OBVIOUS
<1>2. PICK U : U = Due(b, q)'
  OBVIOUS
<1>3. PICK most : most = Limit(b) + 2 * OneRound(b)
  OBVIOUS
<1>4. most \in Int /\ IsFiniteSet(T) /\ charged[q][b] + MaxCost * Cardinality(T) <= most
  <2>1. Limit(b) + 2 * OneRound(b) \in Int
    BY PairsFinite
  <2>2. IsFiniteSet(Due(b, q))
    BY DueFinite
  <2> QED BY <1>1, <1>3, <2>1, <2>2 DEF RoomAfter
<1>5. U \subseteq T
  BY <1>1, <1>2, DueShrinks
<1>6. \A x : x = <<r, at[r]>> /\ Charges(r, b, q) => x \in T /\ x \notin U
  BY <1>1, <1>2, ChargeWasDue DEF DuePassed
<1>7. charged'[q][b] + MaxCost * Cardinality(U) <= most
  BY <1>4, <1>5, <1>6, RoomStep
<1>8. (Limit(b) + 2 * OneRound(b))' = Limit(b) + 2 * OneRound(b)
  BY DEF Limit, OneRound
<1> QED BY <1>2, <1>3, <1>7, <1>8 DEF RoomAfter

\* When the last second begins, there is room once more for all to come.
LEMMA RoomRenewed ==
    ASSUME TypeOK, NEW q \in 1..Periods, NEW b \in Budgets, RoomBefore(b, q)
    PROVE  RoomAfter(b, q)
<1>1. /\ charged[q][b] \in Nat /\ OneRound(b) \in Nat /\ Limit(b) \in Nat
  BY AccountType, PairsFinite
<1>2. /\ MaxCost * Cardinality(Due(b, q)) \in Nat
      /\ MaxCost * Cardinality(DuePassed(b, q)) \in Nat
      /\ MaxCost * Cardinality(Due(b, q)) <= OneRound(b)
  BY DueFinite
<1> QED BY <1>1, <1>2 DEF RoomBefore, RoomAfter

LEMMA RoomInit == Init => Room
<1> SUFFICES ASSUME Init PROVE Room
  OBVIOUS
<1>1. TypeOK
  BY InitType
<1>2. \A r \in Requests : now[r] <= clock
  BY DEF Init
<1>3. ASSUME NEW q \in 1..Periods, NEW b \in Budgets
      PROVE  RoomBefore(b, q) /\ ~(clock >= 2 * q)
  <2>1. charged[q][b] = 0 /\ counter[q][CounterKey[b]] = 0
    BY DEF Init, Keys
  <2>2. /\ MaxCost * Cardinality(DuePassed(b, q)) \in Nat
        /\ MaxCost * Cardinality(DuePassed(b, q)) <= OneRound(b)
        /\ Limit(b) \in Nat /\ OneRound(b) \in Nat
    BY DueFinite, PairsFinite
  <2>3. clock = 1 /\ q \in Nat /\ q >= 1
    BY DEF Init
  <2> QED BY <2>1, <2>2, <2>3 DEF RoomBefore
<1> QED BY <1>2, <1>3 DEF Room

LEMMA RoomNext == TypeOK /\ Room /\ [Next]_vars => Room'
<1> SUFFICES ASSUME TypeOK, Room, [Next]_vars PROVE Room'
  OBVIOUS
<1>1. TypeOK'
  BY NextType
<1>2. clock \in 1..Instants /\ now \in [Requests -> 1..Instants]
  BY DEF TypeOK
<1>3. \A r \in Requests : now[r] <= clock
  BY DEF Room
<1>4. \A q \in 1..Periods, b \in Budgets :
          /\ clock < 2 * q => RoomBefore(b, q)
          /\ clock >= 2 * q => RoomAfter(b, q)
  BY DEF Room
<1>5. ASSUME NEW r \in Requests, Step(r) PROVE Room'
  <2>1. clock' = clock
    BY <1>5 DEF Step, Arrive, Check, ServeFree, Serve, ReadPrev, Increment,
                IncrementFails, RecordSpend, Notify, LoadKey, LoadKeyFails,
                StoreKey
  <2>2. \A o \in Requests : now'[o] <= clock
    <3>1. CASE Arrive(r)
      BY <1>2, <1>3, <3>1, ArriveStep
    <3>2. CASE ~Arrive(r)
      <4>1. now' = now
        BY <1>5, <3>2, CheckStep, PlaceStep
      <4> QED BY <1>3, <4>1
    <3> QED BY <3>1, <3>2
  <2>3. ASSUME NEW q \in 1..Periods, NEW b \in Budgets
        PROVE  /\ clock < 2 * q => RoomBefore(b, q)'
               /\ clock >= 2 * q => RoomAfter(b, q)'
    BY <1>1, <1>3, <1>4, <1>5, RoomBeforeStep, RoomAfterStep
  <2> QED BY <2>1, <2>2, <2>3 DEF Room
<1>6. ASSUME UNCHANGED <<pc, now, at, blind, charged>>,
             NEW q \in 1..Periods, NEW b \in Budgets
      PROVE  /\ RoomAfter(b, q)' <=> RoomAfter(b, q)
             /\ counter'[q][CounterKey[b]] = counter[q][CounterKey[b]] =>
                    (RoomBefore(b, q)' <=> RoomBefore(b, q))
  <2>1. Due(b, q)' = Due(b, q) /\ DuePassed(b, q)' = DuePassed(b, q)
    BY <1>6 DEF Due, DuePassed, Owes, Early, Period, Passed
  <2>2. OneRound(b)' = OneRound(b) /\ Limit(b)' = Limit(b)
    BY DEF OneRound, Limit
  <2> QED BY <1>6, <2>1, <2>2 DEF RoomAfter, RoomBefore
<1>7. CASE Revoke \/ UNCHANGED vars
  <2>1. UNCHANGED <<clock, pc, now, at, blind, charged, counter>>
    BY <1>7 DEF Revoke, moneyVars, vars
  <2> QED BY <1>3, <1>4, <1>6, <2>1 DEF Room
<1>8. CASE Tick
  <2>1. UNCHANGED <<pc, now, at, blind, charged, counter>> /\ clock' = clock + 1
    BY <1>8 DEF Tick, moneyVars
  <2>2. \A r \in Requests : now'[r] <= clock'
    BY <1>2, <1>3, <2>1
  <2>3. ASSUME NEW q \in 1..Periods, NEW b \in Budgets
        PROVE  /\ clock' < 2 * q => RoomBefore(b, q)'
               /\ clock' >= 2 * q => RoomAfter(b, q)'
    <3>1. clock' < 2 * q => clock < 2 * q
      BY <1>2, <2>1
    <3>2. clock < 2 * q \/ clock >= 2 * q
      BY <1>2
    <3>3. RoomBefore(b, q) => RoomAfter(b, q)
      BY RoomRenewed
    <3> QED BY <1>4, <1>6, <2>1, <3>1, <3>2, <3>3
  <2> QED BY <2>2, <2>3 DEF Room
<1>9. ASSUME NEW p \in 1..Periods, NEW k \in Keys, Expire(p, k) PROVE Room'
  <2>1. UNCHANGED <<clock, pc, now, at, blind, charged>> /\ 2 * p <= clock
    BY <1>9 DEF Expire
  <2>2. ASSUME NEW q \in 1..Periods, NEW b \in Budgets, clock < 2 * q
        PROVE  counter'[q][CounterKey[b]] = counter[q][CounterKey[b]]
    <3>1. counter \in [1..Periods -> [Keys -> Nat]] /\ CounterKey[b] \in Keys
      BY DEF TypeOK, Keys
    <3>2. q # p
      BY <1>2, <2>1, <2>2
    <3> QED BY <1>9, <3>1, <3>2 DEF Expire
  <2> QED BY <1>3, <1>4, <1>6, <2>1, <2>2 DEF Room
<1> QED BY <1>5, <1>7, <1>8, <1>9 DEF Next

\* What the requests cost a budget in a period that began before its last
\* second and could check it is bounded: one round of charges beyond the limit,
\* and one more when the counter has gone, whatever fails and whichever budgets
\* share the counter.
THEOREM HardLimitHolds == Spec => []OverrunBounded
<1>1. Init => TypeOK /\ Room
  BY InitType, RoomInit
<1>2. TypeOK /\ Room /\ [Next]_vars => (TypeOK /\ Room)'
  BY NextType, RoomNext
<1>3. TypeOK /\ Room => OverrunBounded
  BY RoomBounds
<1> QED BY <1>1, <1>2, <1>3, PTL DEF Spec
-------------------------------------------------------------------------------
(***************************************************************************)
(* No threshold is crossed in silence.  NoAlertMissed is not inductive: an *)
(* increment alerts for what lies between the value read before it and its *)
(* total, and that value may be older than the counter.  What the counter  *)
(* was when it was read is then accounted for as well: PrevAccountedFor.   *)
(***************************************************************************)
Accounted(b, q, pct) ==
    \/ <<b, q, pct>> \in alerts \union missed
    \/ \E r \in Requests : AboutToAlert(r, b, q, pct)

HasRead(r, b, q) ==
    /\ pc[r] \in {"increment", "record", "notify"}
    /\ at[r] = b
    /\ Period(r) = q

PrevAccountedFor(r, b, q, pct) ==
    HasRead(r, b, q) /\ Reached(b, pct, prev[r]) => Accounted(b, q, pct)

CounterAccountedFor(b, q, pct) ==
    Reached(b, pct, counter[q][CounterKey[b]]) => Accounted(b, q, pct)

AllAccounted ==
    \A q \in 1..Periods, b \in Budgets : \A pct \in NotifyAt[b] \cap (1..100) :
        /\ CounterAccountedFor(b, q, pct)
        /\ \A r \in Requests : PrevAccountedFor(r, b, q, pct)

\* Nothing is reached before anything is spent.
LEMMA NothingReached ==
    ASSUME NEW b \in Budgets, NEW pct \in 1..100 PROVE ~Reached(b, pct, 0)
<1>1. HardLimit[b] \in Nat \ {0} /\ pct \in Nat \ {0}
  BY BudgetsAssumption
<1>2. \A x \in Nat \ {0}, y \in Nat \ {0} : x * y > 0
  OBVIOUS
<1> QED BY <1>1, <1>2 DEF Reached

\* What another request than r is about to report, or what is reported, stays.
LEMMA AccountedByOthers ==
    ASSUME NEW r \in Requests, NEW b, NEW q, NEW pct,
           Accounted(b, q, pct), ~AboutToAlert(r, b, q, pct),
           alerts \subseteq alerts', missed \subseteq missed',
           \A o \in Requests \ {r} :
               /\ pc'[o] = pc[o] /\ now'[o] = now[o] /\ at'[o] = at[o]
               /\ prev'[o] = prev[o] /\ new'[o] = new[o]
    PROVE  Accounted(b, q, pct)'
<1>1. CASE <<b, q, pct>> \in alerts \union missed
  BY <1>1 DEF Accounted
<1>2. CASE \E o \in Requests : AboutToAlert(o, b, q, pct)
  <2>1. PICK o \in Requests : AboutToAlert(o, b, q, pct)
    BY <1>2
  <2>2. o # r
    BY <2>1
  <2>3. AboutToAlert(o, b, q, pct)'
    BY <2>1, <2>2 DEF AboutToAlert, Period, CrossedThresholds, Reached
  <2> QED BY <2>3 DEF Accounted
<1> QED BY <1>1, <1>2 DEF Accounted

\* What is accounted for stays so in every step of a request: an alert that is
\* due is sent before the request goes on.
LEMMA AccountedStays ==
    ASSUME TypeOK, NEW r \in Requests, Step(r),
           NEW b \in Budgets, NEW q \in 1..Periods, NEW pct,
           Accounted(b, q, pct)
    PROVE  Accounted(b, q, pct)'
<1>1. /\ pc \in [Requests -> Places] /\ at \in [Requests -> Budgets]
      /\ now \in [Requests -> 1..Instants]
  BY DEF TypeOK
<1>2. \A o \in Requests \ {r} :
               /\ pc'[o] = pc[o] /\ now'[o] = now[o] /\ at'[o] = at[o]
               /\ prev'[o] = prev[o] /\ new'[o] = new[o]
  BY OthersStay
<1>3. alerts \subseteq alerts' /\ missed \subseteq missed'
  <2>1. alerts \subseteq alerts'
    BY DEF Step, Arrive, Check, ServeFree, Serve, ReadPrev, Increment,
           IncrementFails, RecordSpend, Notify, LoadKey, LoadKeyFails, StoreKey
  <2>2. CASE UNCHANGED moneyVars
    BY <2>1, <2>2 DEF moneyVars
  <2>3. ASSUME NEW reported, Charge(r, reported) PROVE missed \subseteq missed'
    BY <2>3 DEF Charge
  <2>4. \/ UNCHANGED moneyVars
        \/ \E reported : Charge(r, reported)
    <3>1. CASE Increment(r)
      BY <3>1, IncrementStep, Zenon
    <3>2. CASE IncrementFails(r)
      BY <3>2, IncrementFailsStep, Zenon DEF moneyVars
    <3>3. CASE ~Increment(r) /\ ~IncrementFails(r)
      BY <3>3, ElseUncounted
    <3> QED BY <3>1, <3>2, <3>3
  <2> QED BY <2>1, <2>2, <2>3, <2>4
<1>4. CASE ~AboutToAlert(r, b, q, pct)
  BY <1>2, <1>3, <1>4, AccountedByOthers
<1>5. CASE AboutToAlert(r, b, q, pct)
  <2>1. pc[r] \in {"record", "notify"}
    BY <1>5 DEF AboutToAlert
  <2>2. RecordSpend(r) \/ Notify(r)
    BY <2>1 DEF Step, Arrive, Check, ServeFree, Serve, ReadPrev, Increment,
                IncrementFails, LoadKey, LoadKeyFails, StoreKey
  <2>3. CASE RecordSpend(r)
    <3>1. AboutToAlert(r, b, q, pct)'
      <4>1. pc'[r] = "notify"
        BY <1>1, <2>3 DEF RecordSpend
      <4> QED BY <1>5, <2>3, <4>1
              DEF RecordSpend, AboutToAlert, Period, CrossedThresholds, Reached
    <3> QED BY <3>1 DEF Accounted
  <2>4. CASE Notify(r)
    <3>1. <<b, q, pct>> \in alerts'
      BY <1>5, <2>4 DEF Notify, AboutToAlert
    <3> QED BY <3>1 DEF Accounted
  <2> QED BY <2>2, <2>3, <2>4
<1> QED BY <1>4, <1>5

\* An increment accounts for every threshold its total has reached.
LEMMA IncrementAccounts ==
    ASSUME TypeOK, AllAccounted, NEW r \in Requests, Increment(r),
           NEW b \in Budgets, NEW q \in 1..Periods, at[r] = b, Period(r) = q,
           NEW pct \in NotifyAt[b] \cap (1..100),
           Reached(b, pct, Current(r) + cost[r])
    PROVE  Accounted(b, q, pct)'
<1>1. CASE Reached(b, pct, prev[r])
  <2>1. PrevAccountedFor(r, b, q, pct)
    BY DEF AllAccounted
  <2>2. Accounted(b, q, pct)
    BY <1>1, <2>1 DEF PrevAccountedFor, HasRead, Increment
  <2>3. Step(r)
    BY DEF Step
  <2> QED BY <2>2, <2>3, AccountedStays
<1>2. CASE ~Reached(b, pct, prev[r])
  <2>1. pc \in [Requests -> Places] /\ new \in [Requests -> Nat]
    BY DEF TypeOK
  <2>2. /\ pc'[r] = "record" /\ at'[r] = b /\ now'[r] = now[r]
        /\ prev'[r] = prev[r] /\ new'[r] = Current(r) + cost[r]
    BY <2>1 DEF Increment
  <2>3. AboutToAlert(r, b, q, pct)'
    BY <1>2, <2>2 DEF AboutToAlert, Period, CrossedThresholds, Reached
  <2> QED BY <2>3 DEF Accounted
<1> QED BY <1>1, <1>2

\* A charge that reports nothing for a budget has missed what it crossed there.
LEMMA ChargeAccounts ==
    ASSUME TypeOK, AllAccounted, NEW r \in Requests, Step(r),
           NEW reported, Charge(r, reported),
           NEW b \in Budgets, CounterKey[b] = Key(r), b \notin reported,
           NEW q \in 1..Periods, Period(r) = q,
           NEW pct \in NotifyAt[b] \cap (1..100),
           Reached(b, pct, Current(r) + cost[r])
    PROVE  Accounted(b, q, pct)'
<1>1. CASE Reached(b, pct, Current(r))
  <2>1. CounterAccountedFor(b, q, pct)
    BY DEF AllAccounted
  <2>2. Accounted(b, q, pct)
    BY <1>1, <2>1 DEF CounterAccountedFor, Current
  <2> QED BY <2>2, AccountedStays
<1>2. CASE ~Reached(b, pct, Current(r))
  <2>1. pct \in CrossedThresholds(b, Current(r), Current(r) + cost[r])
    BY <1>2 DEF CrossedThresholds
  <2>2. b \in SharedBy(Key(r)) \ reported
    BY DEF SharedBy
  <2>3. missed' = missed \union
           UNION {{<<c, Period(r), p>> :
                      p \in CrossedThresholds(c, Current(r), Current(r) + cost[r])} :
                  c \in SharedBy(Key(r)) \ reported}
    BY DEF Charge
  <2>4. <<b, q, pct>> \in missed'
    BY <2>1, <2>2, <2>3
  <2> QED BY <2>4 DEF Accounted
<1> QED BY <1>1, <1>2

\* The counter: what it is now is accounted for after every step of a request.
LEMMA CounterStep ==
    ASSUME TypeOK, AllAccounted, NEW r \in Requests, Step(r),
           NEW b \in Budgets, NEW q \in 1..Periods,
           NEW pct \in NotifyAt[b] \cap (1..100)
    PROVE  CounterAccountedFor(b, q, pct)'
<1>1. CASE counter'[q][CounterKey[b]] = 0
  BY <1>1, NothingReached DEF CounterAccountedFor, Reached
<1>2. CASE counter'[q][CounterKey[b]] = counter[q][CounterKey[b]]
  <2>1. CounterAccountedFor(b, q, pct)
    BY DEF AllAccounted
  <2> QED BY <1>2, <2>1, AccountedStays DEF CounterAccountedFor, Reached
<1>3. ASSUME NEW reported, Charge(r, reported),
             b \in reported => Increment(r) /\ at[r] = b,
             NEW v, counter' = [counter EXCEPT ![Period(r)][Key(r)] = v],
             v = Current(r) + cost[r] \/ v = 0
      PROVE  CounterAccountedFor(b, q, pct)'
  <2>1. /\ counter \in [1..Periods -> [Keys -> Nat]] /\ CounterKey[b] \in Keys
        /\ Period(r) \in 1..Periods /\ Key(r) \in Keys
    BY ReadType DEF TypeOK, Keys
  <2>2. CASE q = Period(r) /\ CounterKey[b] = Key(r)
    <3>1. counter'[q][CounterKey[b]] = v
      BY <1>3, <2>1, <2>2
    <3>2. CASE v = 0
      BY <1>1, <3>1, <3>2
    <3>3. CASE v = Current(r) + cost[r] /\ b \in reported
      BY <1>3, <2>2, <3>1, <3>3, IncrementAccounts
         DEF CounterAccountedFor, Reached
    <3>4. CASE v = Current(r) + cost[r] /\ b \notin reported
      BY <1>3, <2>2, <3>1, <3>4, ChargeAccounts
         DEF CounterAccountedFor, Reached
    <3> QED BY <1>3, <3>2, <3>3, <3>4
  <2>3. CASE ~(q = Period(r) /\ CounterKey[b] = Key(r))
    <3>1. counter'[q][CounterKey[b]] = counter[q][CounterKey[b]]
      BY <1>3, <2>1, <2>3
    <3> QED BY <1>2, <3>1
  <2> QED BY <2>2, <2>3
<1>4. CASE Increment(r)
  <2>1. PICK v : /\ counter' = [counter EXCEPT ![Period(r)][Key(r)] = v]
                 /\ v = Current(r) + cost[r] \/ v = 0
    BY <1>4, IncrementStep
  <2>2. Charge(r, {at[r]})
    BY <1>4, IncrementStep
  <2>3. b \in {at[r]} => Increment(r) /\ at[r] = b
    BY <1>4
  <2> QED BY <1>3, <2>1, <2>2, <2>3
<1>5. CASE IncrementFails(r)
  <2>1. CASE UNCHANGED <<moneyVars, unrecorded>>
    BY <1>2, <2>1 DEF moneyVars
  <2>2. CASE /\ counter' = [counter EXCEPT ![Period(r)][Key(r)] =
                                Current(r) + cost[r]]
             /\ Charge(r, {})
    <3>1. PICK v : v = Current(r) + cost[r]
      OBVIOUS
    <3>2. counter' = [counter EXCEPT ![Period(r)][Key(r)] = v]
      BY <2>2, <3>1
    <3> QED BY <1>3, <2>2, <3>1, <3>2
  <2> QED BY <1>5, <2>1, <2>2, IncrementFailsStep
<1>6. CASE ~Increment(r) /\ ~IncrementFails(r)
  BY <1>2, <1>6, ElseUncounted DEF moneyVars
<1> QED BY <1>4, <1>5, <1>6

\* What a request read from the counter is accounted for after every step.
LEMMA PrevStep ==
    ASSUME TypeOK, AllAccounted, NEW r \in Requests, Step(r),
           NEW b \in Budgets, NEW q \in 1..Periods,
           NEW pct \in NotifyAt[b] \cap (1..100), NEW o \in Requests,
           HasRead(o, b, q)', Reached(b, pct, prev'[o])
    PROVE  Accounted(b, q, pct)'
<1>1. /\ pc \in [Requests -> Places] /\ at \in [Requests -> Budgets]
      /\ now \in [Requests -> 1..Instants] /\ prev \in [Requests -> Nat]
  BY DEF TypeOK
<1>2. CASE HasRead(o, b, q) /\ prev'[o] = prev[o]
  <2>1. PrevAccountedFor(o, b, q, pct)
    BY DEF AllAccounted
  <2> QED BY <1>2, <2>1, AccountedStays DEF PrevAccountedFor, Reached
<1>3. CASE o # r
  <2>1. HasRead(o, b, q) /\ prev'[o] = prev[o]
    BY <1>3, OthersStay DEF HasRead, Period
  <2> QED BY <1>2, <2>1
<1>4. CASE o = r /\ ReadPrev(r)
  <2>1. at[r] = b /\ Period(r) = q
    BY <1>4 DEF ReadPrev, HasRead, Period
  <2>2. prev'[r] = 0 \/ prev'[r] = Current(r)
    <3>1. \/ prev' = [prev EXCEPT ![r] = 0]
          \/ prev' = [prev EXCEPT ![r] = Current(r)]
      BY <1>4, Zenon DEF ReadPrev
    <3> QED BY <1>1, <3>1
  <2>3. prev'[r] = Current(r)
    BY <1>4, <2>2, NothingReached
  <2>4. CounterAccountedFor(b, q, pct)
    BY DEF AllAccounted
  <2>5. Accounted(b, q, pct)
    BY <1>4, <2>1, <2>3, <2>4 DEF CounterAccountedFor, Current, Key
  <2> QED BY <2>5, AccountedStays
<1>5. CASE o = r /\ ~ReadPrev(r)
  <2>1. pc'[r] \in {"increment", "record", "notify"}
    BY <1>5 DEF HasRead
  <2>2. Increment(r) \/ RecordSpend(r)
    <3>1. ~Arrive(r) /\ ~ServeFree(r) /\ ~Serve(r) /\ ~LoadKey(r)
      BY <1>1, <2>1 DEF Arrive, ServeFree, Serve, LoadKey
    <3>2. ~NextBudget(r)
      BY <1>1, <2>1 DEF NextBudget
    <3>3. ~IncrementFails(r) /\ ~LoadKeyFails(r) /\ ~StoreKey(r)
      BY <3>2 DEF IncrementFails, LoadKeyFails, StoreKey
    <3>4. ~Notify(r)
      BY <1>1, <2>1, <3>2 DEF Notify
    <3>5. ~Check(r)
      BY <2>1, CheckStep
    <3> QED BY <1>5, <3>1, <3>3, <3>4, <3>5 DEF Step
  <2>3. HasRead(r, b, q) /\ prev' = prev
    BY <1>5, <2>2 DEF Increment, RecordSpend, HasRead, Period
  <2> QED BY <1>2, <1>5, <2>3
<1> QED BY <1>3, <1>4, <1>5

\* A step that moves no request and only lets a counter expire, if any.
LEMMA AccountedElse ==
    ASSUME AllAccounted, UNCHANGED <<pc, now, at, prev, new, alerts, missed>>,
           \A q \in 1..Periods, b \in Budgets :
               \/ counter'[q][CounterKey[b]] = counter[q][CounterKey[b]]
               \/ counter'[q][CounterKey[b]] = 0
    PROVE  AllAccounted'
<1> SUFFICES ASSUME NEW q \in 1..Periods, NEW b \in Budgets,
                    NEW pct \in NotifyAt[b] \cap (1..100)
             PROVE  /\ CounterAccountedFor(b, q, pct)'
                    /\ \A r \in Requests : PrevAccountedFor(r, b, q, pct)'
  BY DEF AllAccounted
<1>1. Accounted(b, q, pct)' <=> Accounted(b, q, pct)
  BY DEF Accounted, AboutToAlert, Period, CrossedThresholds, Reached
<1>2. CounterAccountedFor(b, q, pct)
  BY DEF AllAccounted
<1>3. CounterAccountedFor(b, q, pct)'
  BY <1>1, <1>2, NothingReached DEF CounterAccountedFor, Reached
<1>4. ASSUME NEW r \in Requests PROVE PrevAccountedFor(r, b, q, pct)'
  <2>1. PrevAccountedFor(r, b, q, pct)
    BY DEF AllAccounted
  <2>2. HasRead(r, b, q)' <=> HasRead(r, b, q)
    BY DEF HasRead, Period
  <2> QED BY <1>1, <2>1, <2>2 DEF PrevAccountedFor, Reached
<1> QED BY <1>3, <1>4

LEMMA AccountedInit == Init => AllAccounted
<1> SUFFICES ASSUME Init, NEW q \in 1..Periods, NEW b \in Budgets,
                    NEW pct \in NotifyAt[b] \cap (1..100)
             PROVE  /\ CounterAccountedFor(b, q, pct)
                    /\ \A r \in Requests : PrevAccountedFor(r, b, q, pct)
  BY DEF AllAccounted
<1>1. counter[q][CounterKey[b]] = 0
  BY DEF Init, Keys
<1>2. CounterAccountedFor(b, q, pct)
  BY <1>1, NothingReached DEF CounterAccountedFor
<1>3. ASSUME NEW r \in Requests PROVE PrevAccountedFor(r, b, q, pct)
  BY DEF PrevAccountedFor, HasRead, Init
<1> QED BY <1>2, <1>3

LEMMA AccountedNext ==
    ASSUME TypeOK, AllAccounted, [Next]_vars
    PROVE  AllAccounted'
<1>1. ASSUME NEW r \in Requests, Step(r) PROVE AllAccounted'
  <2>1. ASSUME NEW q \in 1..Periods, NEW b \in Budgets,
               NEW pct \in NotifyAt[b] \cap (1..100), NEW o \in Requests
        PROVE  PrevAccountedFor(o, b, q, pct)'
    BY <1>1, <2>1, PrevStep DEF PrevAccountedFor, Reached
  <2> QED BY <1>1, <2>1, CounterStep DEF AllAccounted
<1>2. CASE Revoke
  BY <1>2, AccountedElse DEF Revoke, moneyVars
<1>3. CASE Tick
  BY <1>3, AccountedElse DEF Tick, moneyVars
<1>4. ASSUME NEW p \in 1..Periods, NEW k \in Keys, Expire(p, k)
      PROVE  AllAccounted'
  <2>1. ASSUME NEW q \in 1..Periods, NEW b \in Budgets
        PROVE  \/ counter'[q][CounterKey[b]] = counter[q][CounterKey[b]]
               \/ counter'[q][CounterKey[b]] = 0
    <3>1. counter \in [1..Periods -> [Keys -> Nat]] /\ CounterKey[b] \in Keys
      BY DEF TypeOK, Keys
    <3> QED BY <1>4, <3>1 DEF Expire
  <2> QED BY <1>4, <2>1, AccountedElse DEF Expire
<1>5. CASE UNCHANGED vars
  BY <1>5, AccountedElse DEF vars
<1> QED
  BY <1>1, <1>2, <1>3, <1>4, <1>5 DEF Next

\* However the reads and increments of concurrent requests interleave, share
\* their counters and fail, every threshold a counter has reached had its alert,
\* is about to have it, or was crossed by a charge that reports nothing there.
THEOREM ThresholdsAlert == Spec => []NoAlertMissed
<1>1. Init => TypeOK /\ AllAccounted
  BY InitType, AccountedInit
<1>2. TypeOK /\ AllAccounted /\ [Next]_vars => (TypeOK /\ AllAccounted)'
  BY NextType, AccountedNext
<1>3. AllAccounted => NoAlertMissed
  BY DEF AllAccounted, CounterAccountedFor, Accounted, NoAlertMissed
<1> QED BY <1>1, <1>2, <1>3, PTL DEF Spec
-------------------------------------------------------------------------------
(***************************************************************************)
(* The counters and the history account for the same money.  What is       *)
(* between the two is what requests have counted and not yet recorded, and *)
(* what was counted in silence; a sum is the number of its units, so that  *)
(* one amount that changes changes it by as much.                          *)
(***************************************************************************)
Owing(k) ==
    [r \in Requests |-> IF pc[r] = "record" /\ Key(r) = k THEN cost[r] ELSE 0]
PerPeriod(k) == [q \in 1..Periods |-> counter[q][k]]
PerBudget(k) == [b \in SharedBy(k) |-> recorded[b]]

\* All that was counted is recorded, about to be, or was counted in silence.
AllRecorded ==
    \A k \in Keys : Shown(k) + Sum(Owing(k)) + unrecorded[k] = Counted(k)

\* The units of one amount are as many as it says, and there are finitely many.
LEMMA UnitsOfOne ==
    ASSUME NEW x, NEW n \in Nat
    PROVE  IsFiniteSet({x} \X (1..n)) /\ Cardinality({x} \X (1..n)) = n
<1>1. IsFiniteSet(1..n) /\ Cardinality(1..n) = n
  BY FS_Interval
<1>2. IsFiniteSet({x}) /\ Cardinality({x}) = 1
  BY FS_Singleton
<1>3. /\ IsFiniteSet({x} \X (1..n))
      /\ Cardinality({x} \X (1..n)) = Cardinality({x}) * Cardinality(1..n)
  BY <1>1, <1>2, FS_Product, SMTT(30)
<1> QED BY <1>1, <1>2, <1>3

LEMMA UnitsFinite ==
    ASSUME NEW D, IsFiniteSet(D), NEW f \in [D -> Nat]
    PROVE  IsFiniteSet(Units(f)) /\ Sum(f) \in Nat
<1> DEFINE g == [x \in D |-> {x} \X (1..f[x])]
           S == {{x} \X (1..f[x]) : x \in D}
<1>1. g \in Surjection(D, S)
  BY DEF Surjection
<1>2. IsFiniteSet(S)
  BY <1>1, FS_Surjection
<1>3. ASSUME NEW T \in S PROVE IsFiniteSet(T)
  <2>1. PICK x \in D : T = {x} \X (1..f[x])
    OBVIOUS
  <2>2. f[x] \in Nat
    OBVIOUS
  <2> QED BY <2>1, <2>2, UnitsOfOne
<1>4. Units(f) = UNION S
  BY DEF Units
<1> HIDE DEF S
<1>5. IsFiniteSet(Units(f))
  BY <1>2, <1>3, <1>4, FS_UNION
<1> QED BY <1>5, FS_CardinalityType DEF Sum

LEMMA OthersUnits ==
    ASSUME NEW D, IsFiniteSet(D), NEW f \in [D -> Nat], NEW x \in D
    PROVE  Cardinality(Units(f) \ ({x} \X (1..f[x]))) = Sum(f) - f[x]
<1>1. PICK own : own = {x} \X (1..f[x])
  OBVIOUS
<1>2. own \subseteq Units(f)
  BY <1>1 DEF Units
<1>3. Units(f) \cap own = own
  BY <1>2
<1>4. Cardinality(own) = f[x]
  BY <1>1, UnitsOfOne
<1>5. IsFiniteSet(Units(f))
  BY UnitsFinite
<1>6. Cardinality(Units(f) \ own) = Cardinality(Units(f)) - Cardinality(own)
  BY <1>3, <1>5, FS_Difference, ZenonT(30)
<1> QED BY <1>1, <1>4, <1>6 DEF Sum

LEMMA OneAmountChanges ==
    ASSUME NEW D, IsFiniteSet(D), NEW f \in [D -> Nat], NEW g \in [D -> Nat], NEW x \in D,
           \A y \in D : y # x => g[y] = f[y]
    PROVE  Sum(g) + f[x] = Sum(f) + g[x]
<1>1. \A u : u \in Units(f) \ ({x} \X (1..f[x])) <=> \E y \in D : y # x /\ u \in {y} \X (1..f[y])
  BY DEF Units
<1>2. \A u : u \in Units(g) \ ({x} \X (1..g[x])) <=> \E y \in D : y # x /\ u \in {y} \X (1..g[y])
  BY DEF Units
<1>3. Units(f) \ ({x} \X (1..f[x])) = Units(g) \ ({x} \X (1..g[x]))
  BY <1>1, <1>2
<1>4. Sum(f) - f[x] = Sum(g) - g[x]
  <2>1. Cardinality(Units(f) \ ({x} \X (1..f[x]))) = Sum(f) - f[x]
    BY OthersUnits
  <2>2. Cardinality(Units(g) \ ({x} \X (1..g[x]))) = Sum(g) - g[x]
    BY OthersUnits
  <2> QED BY <1>3, <2>1, <2>2
<1>5. Sum(f) \in Nat /\ Sum(g) \in Nat /\ f[x] \in Nat /\ g[x] \in Nat
  BY UnitsFinite
<1> QED BY <1>4, <1>5

LEMMA SumOfNothing ==
    ASSUME NEW D, NEW f \in [D -> Nat], \A x \in D : f[x] = 0
    PROVE  Sum(f) = 0
<1>1. Units(f) = {}
  BY DEF Units
<1> QED BY <1>1, FS_EmptySet DEF Sum

LEMMA OwingType ==
    ASSUME TypeOK, NEW k \in Keys
    PROVE  Owing(k) \in [Requests -> Nat] /\ Sum(Owing(k)) \in Nat
<1>1. Owing(k) \in [Requests -> Nat]
  BY ReadType DEF Owing
<1> QED BY <1>1, UnitsFinite, BudgetsAssumption

LEMMA CountedType ==
    ASSUME TypeOK, NEW k \in Keys
    PROVE  /\ PerPeriod(k) \in [1..Periods -> Nat] /\ IsFiniteSet(1..Periods)
           /\ Counted(k) = Sum(PerPeriod(k)) + forgotten[k]
           /\ forgotten[k] \in Nat /\ Sum(PerPeriod(k)) \in Nat
           /\ unrecorded[k] \in Nat
<1>1. PerPeriod(k) \in [1..Periods -> Nat]
  BY DEF TypeOK, PerPeriod
<1>2. Periods \in Int
  BY BudgetsAssumption DEF Periods, PeriodOf
<1>3. IsFiniteSet(1..Periods)
  BY <1>2, FS_Interval
<1>4. Sum(PerPeriod(k)) \in Nat
  BY <1>1, <1>3, UnitsFinite
<1>5. Counted(k) = Sum(PerPeriod(k)) + forgotten[k]
  BY DEF Counted, PerPeriod
<1> QED BY <1>1, <1>3, <1>4, <1>5 DEF TypeOK

LEMMA ShownType ==
    ASSUME TypeOK, NEW k \in Keys
    PROVE  /\ PerBudget(k) \in [SharedBy(k) -> Nat] /\ IsFiniteSet(SharedBy(k))
           /\ Shown(k) = Sum(PerBudget(k)) /\ Shown(k) \in Nat
<1>1. PerBudget(k) \in [SharedBy(k) -> Nat]
  BY DEF TypeOK, PerBudget, SharedBy
<1>2. IsFiniteSet(SharedBy(k))
  <2>1. IsFiniteSet(Budgets)
    BY FS_Interval, BudgetsAssumption DEF Budgets
  <2>2. SharedBy(k) \subseteq Budgets
    BY DEF SharedBy
  <2> QED BY <2>1, <2>2, FS_Subset
<1>3. Shown(k) = Sum(PerBudget(k))
  BY DEF Shown, PerBudget
<1>4. Sum(PerBudget(k)) \in Nat
  BY <1>1, <1>2, UnitsFinite
<1> QED BY <1>1, <1>2, <1>3, <1>4

\* What a request owes the history is all that a step of it changes there.
LEMMA OwingStep ==
    ASSUME TypeOK, TypeOK', NEW r \in Requests, Step(r), NEW k \in Keys
    PROVE  Sum(Owing(k)') + Owing(k)[r] = Sum(Owing(k)) + Owing(k)'[r]
<1>1. Owing(k) \in [Requests -> Nat] /\ Owing(k)' \in [Requests -> Nat]
  <2>1. \A o \in Requests : cost'[o] \in Nat
    BY BudgetsAssumption DEF TypeOK
  <2> QED BY <2>1, OwingType DEF Owing
<1>2. ASSUME NEW o \in Requests, o # r PROVE Owing(k)'[o] = Owing(k)[o]
  BY <1>2, OthersStay DEF Owing, Key
<1>3. PICK f \in [Requests -> Nat] : f = Owing(k)
  BY <1>1
<1>4. PICK g \in [Requests -> Nat] : g = Owing(k)'
  BY <1>1
<1>5. Sum(g) + f[r] = Sum(f) + g[r]
  BY <1>2, <1>3, <1>4, OneAmountChanges, BudgetsAssumption
<1>6. Sum(g) = Sum(Owing(k)')
  BY <1>4
<1> QED BY <1>3, <1>4, <1>5, <1>6

\* What the history shows grows by what one budget records.
LEMMA ShownStep ==
    ASSUME TypeOK, TypeOK', NEW r \in Requests, NEW k \in Keys,
           recorded' = [recorded EXCEPT ![at[r]] = @ + cost[r]]
    PROVE  /\ Key(r) = k => Shown(k)' = Shown(k) + cost[r]
           /\ Key(r) # k => Shown(k)' = Shown(k)
<1>1. /\ recorded \in [Budgets -> Nat] /\ recorded' \in [Budgets -> Nat]
      /\ at[r] \in Budgets /\ cost[r] \in Nat
  BY ReadType DEF TypeOK
<1>2. PICK f \in [SharedBy(k) -> Nat] : f = PerBudget(k)
  BY ShownType
<1>3. PICK g \in [SharedBy(k) -> Nat] : g = PerBudget(k)'
  BY <1>1 DEF PerBudget, SharedBy
<1>4. Shown(k) = Sum(f) /\ Shown(k)' = Sum(g)
  BY <1>2, <1>3, ShownType DEF Shown, PerBudget
<1>5. CASE Key(r) = k
  <2>1. PICK b \in SharedBy(k) : b = at[r]
    BY <1>1, <1>5 DEF Key, SharedBy
  <2>2. \A c \in SharedBy(k) : c # b => g[c] = f[c]
    BY <1>1, <1>2, <1>3, <2>1 DEF PerBudget, SharedBy
  <2>3. g[b] = f[b] + cost[r]
    BY <1>1, <1>2, <1>3, <2>1 DEF PerBudget, SharedBy
  <2>4. IsFiniteSet(SharedBy(k))
    BY ShownType
  <2>5. Sum(g) + f[b] = Sum(f) + g[b]
    BY <2>2, <2>4, OneAmountChanges
  <2>6. Sum(g) \in Nat /\ Sum(f) \in Nat /\ f[b] \in Nat
    BY <2>4, UnitsFinite
  <2>7. \A x, y, z, m \in Nat : x + z = y + (z + m) => x = y + m
    OBVIOUS
  <2>8. Sum(g) = Sum(f) + cost[r]
    BY <1>1, <2>3, <2>5, <2>6, <2>7
  <2> QED BY <1>4, <1>5, <2>8
<1>6. CASE Key(r) # k
  <2>1. \A c \in SharedBy(k) : g[c] = f[c]
    BY <1>1, <1>2, <1>3, <1>6 DEF PerBudget, SharedBy, Key
  <2>2. g = f
    BY <2>1
  <2> QED BY <1>4, <1>6, <2>2
<1> QED BY <1>5, <1>6

\* The same with an amount beside the sum, o before and w after.
Balanced(f, o, g, w, x) == Sum(g) + w + f[x] + o = Sum(f) + o + g[x] + w

LEMMA TotalChanges ==
    ASSUME NEW D, IsFiniteSet(D), NEW f \in [D -> Nat], NEW g \in [D -> Nat], NEW x \in D,
           \A y \in D : y # x => g[y] = f[y],
           NEW o \in Nat, NEW w \in Nat
    PROVE  Balanced(f, o, g, w, x)
<1>1. Sum(f) \in Nat /\ Sum(g) \in Nat /\ f[x] \in Nat /\ g[x] \in Nat
  BY UnitsFinite
<1>2. Sum(g) + f[x] = Sum(f) + g[x]
  BY OneAmountChanges
<1> QED BY <1>1, <1>2 DEF Balanced

\* What is counted under key j when one counter becomes v and what is
\* forgotten under its key w.
Recounted(j, q, k, v, w) ==
    /\ j = k =>
         Counted(j)' + counter[q][k] + forgotten[k] = Counted(j) + v + w
    /\ j # k => Counted(j)' = Counted(j)
    /\ Counted(j) \in Nat /\ Counted(j)' \in Nat

\* When one counter is set, and with it what is forgotten under its key.
LEMMA CountedStep ==
    ASSUME TypeOK, NEW q \in 1..Periods, NEW k \in Keys, NEW v \in Nat, NEW w \in Nat,
           counter' = [counter EXCEPT ![q][k] = v], forgotten' = [forgotten EXCEPT ![k] = w],
           NEW j \in Keys
    PROVE  Recounted(j, q, k, v, w)
<1>1. /\ counter \in [1..Periods -> [Keys -> Nat]] /\ forgotten \in [Keys -> Nat]
  BY DEF TypeOK
<1>2. \A p \in 1..Periods, i \in Keys :
        counter'[p][i] = IF p = q /\ i = k THEN v ELSE counter[p][i]
  BY <1>1
<1>3. \A i \in Keys : forgotten'[i] = IF i = k THEN w ELSE forgotten[i]
  BY <1>1
<1>4. /\ PerPeriod(j)' \in [1..Periods -> Nat]
      /\ \A p \in 1..Periods :
           PerPeriod(j)'[p] = IF p = q /\ j = k THEN v ELSE PerPeriod(j)[p]
  BY <1>1, <1>2 DEF PerPeriod
<1>5. Counted(j)' = Sum(PerPeriod(j)') + forgotten'[j]
  BY DEF Counted, PerPeriod
<1>6. PICK f \in [1..Periods -> Nat] : f = PerPeriod(j)
  BY CountedType
<1>7. PICK g \in [1..Periods -> Nat] : g = PerPeriod(j)'
  BY <1>4
<1>8. Sum(g) + f[q] = Sum(f) + g[q] /\ Sum(g) \in Nat /\ Sum(f) \in Nat
  <2>1. IsFiniteSet(1..Periods)
    BY CountedType
  <2>2. \A p \in 1..Periods : p # q => g[p] = f[p]
    BY <1>4, <1>6, <1>7
  <2>3. Sum(f) \in Nat /\ Sum(g) \in Nat
    BY <2>1, UnitsFinite
  <2>4. Balanced(f, 0, g, 0, q)
    BY <2>1, <2>2, TotalChanges
  <2>5. f[q] \in Nat /\ g[q] \in Nat
    OBVIOUS
  <2> QED BY <2>3, <2>4, <2>5 DEF Balanced
<1>9. f[q] = counter[q][j] /\ f[q] \in Nat
  BY <1>6 DEF PerPeriod
<1>10. Counted(j)' = Sum(g) + forgotten'[j] /\ Counted(j) = Sum(f) + forgotten[j]
  BY <1>5, <1>6, <1>7, CountedType
<1>11. CASE j = k
  <2>1. g[q] = v /\ forgotten'[j] = w
    BY <1>1, <1>3, <1>4, <1>7, <1>11
  <2>2. counter[q][k] \in Nat /\ forgotten[k] \in Nat
    BY <1>1
  <2>3. /\ Counted(j)' = Sum(g) + w /\ Counted(j) = Sum(f) + forgotten[k]
        /\ Sum(g) + counter[q][k] = Sum(f) + v
    BY <1>8, <1>9, <1>10, <1>11, <2>1
  <2>5. Sum(g) + w + counter[q][k] + forgotten[k] = Sum(f) + forgotten[k] + v + w
    <3>1. IsFiniteSet(1..Periods)
      BY CountedType
    <3>2. \A p \in 1..Periods : p # q => g[p] = f[p]
      BY <1>4, <1>6, <1>7
    <3>3. Balanced(f, forgotten[k], g, w, q)
      BY <2>2, <3>1, <3>2, TotalChanges
    <3>4. Sum(g) + w + f[q] + forgotten[k] = Sum(f) + forgotten[k] + g[q] + w
      BY <3>3 DEF Balanced
    <3> QED BY <1>9, <1>11, <2>1, <3>4
  <2>6. Counted(j)' = Sum(g) + w /\ Counted(j) = Sum(f) + forgotten[k]
    BY <2>3
  <2>7. Counted(j)' + counter[q][k] + forgotten[k] = Counted(j) + v + w
    BY <2>5, <2>6
  <2>8. Counted(j) \in Nat /\ Counted(j)' \in Nat
    BY <1>8, <2>2, <2>6
  <2> QED BY <1>11, <2>7, <2>8 DEF Recounted
<1>12. CASE j # k
  <2>1. g[q] = f[q] /\ forgotten'[j] = forgotten[j]
    BY <1>1, <1>3, <1>4, <1>6, <1>7, <1>12
  <2> QED BY <1>1, <1>8, <1>9, <1>10, <1>12, <2>1 DEF Recounted
<1> QED BY <1>11, <1>12

\* An increment counts what the response cost, whether the counter lives on
\* or expires with it.
LEMMA IncrementCounts ==
    ASSUME TypeOK, NEW r \in Requests, Increment(r), NEW k \in Keys
    PROVE  /\ Key(r) = k => Counted(k)' = Counted(k) + cost[r]
           /\ Key(r) # k => Counted(k)' = Counted(k)
<1>1. Period(r) \in 1..Periods /\ Key(r) \in Keys /\ cost[r] \in Nat /\ Current(r) \in Nat
  BY ReadType
<1>2. Current(r) = counter[Period(r)][Key(r)] /\ forgotten[Key(r)] \in Nat
  BY <1>1 DEF Current, TypeOK
<1>3. PICK expired \in {LastSecond(now[r]), LastSecond(now[r]) /\ ~Faults} :
        /\ counter' = [counter EXCEPT ![Period(r)][Key(r)] =
                           IF expired THEN 0 ELSE Current(r) + cost[r]]
        /\ forgotten' = [forgotten EXCEPT ![Key(r)] =
                             IF expired THEN @ + (Current(r) + cost[r]) ELSE @]
  BY DEF Increment
<1>4. PICK v \in Nat, w \in Nat :
        /\ counter' = [counter EXCEPT ![Period(r)][Key(r)] = v]
        /\ forgotten' = [forgotten EXCEPT ![Key(r)] = w]
        /\ v + w = Current(r) + cost[r] + forgotten[Key(r)]
  <2>1. CASE expired
    <3>1. /\ counter' = [counter EXCEPT ![Period(r)][Key(r)] = 0]
          /\ forgotten' = [forgotten EXCEPT
                              ![Key(r)] = forgotten[Key(r)] + (Current(r) + cost[r])]
      BY <1>3, <2>1
    <3>2. /\ forgotten[Key(r)] + (Current(r) + cost[r]) \in Nat
          /\ 0 + (forgotten[Key(r)] + (Current(r) + cost[r]))
                = Current(r) + cost[r] + forgotten[Key(r)]
      BY <1>1, <1>2
    <3> QED BY <3>1, <3>2
  <2>2. CASE ~expired
    <3>1. /\ counter' = [counter EXCEPT ![Period(r)][Key(r)] = Current(r) + cost[r]]
          /\ forgotten' = [forgotten EXCEPT ![Key(r)] = forgotten[Key(r)]]
      BY <1>3, <2>2
    <3>2. Current(r) + cost[r] \in Nat
      BY <1>1
    <3> QED BY <1>2, <3>1, <3>2
  <2> QED BY <2>1, <2>2
<1>5. Recounted(k, Period(r), Key(r), v, w)
  BY <1>1, <1>4, CountedStep
<1>6. v + w = Current(r) + cost[r] + forgotten[Key(r)]
  BY <1>4
<1>7. /\ Counted(k) \in Nat /\ Counted(k)' \in Nat
      /\ Key(r) # k => Counted(k)' = Counted(k)
      /\ Key(r) = k =>
           Counted(k)' + Current(r) + forgotten[Key(r)] = Counted(k) + (v + w)
  BY <1>2, <1>4, <1>5 DEF Recounted
<1>8. \A x, m, o, c, d \in Nat : c + x + o = d + (x + m + o) => c = d + m
  OBVIOUS
<1> QED BY <1>1, <1>2, <1>6, <1>7, <1>8

\* An increment that fails counts the cost, in silence, or nothing.
LEMMA FailedIncrementCounts ==
    ASSUME TypeOK, NEW r \in Requests, IncrementFails(r), NEW k \in Keys
    PROVE  Counted(k)' + unrecorded[k] = Counted(k) + unrecorded'[k]
<1>1. Period(r) \in 1..Periods /\ Key(r) \in Keys /\ cost[r] \in Nat /\ Current(r) \in Nat
  BY ReadType
<1>2. Current(r) = counter[Period(r)][Key(r)] /\ forgotten[Key(r)] \in Nat
  BY <1>1 DEF Current, TypeOK
<1>3. Counted(k) \in Nat /\ unrecorded[k] \in Nat /\ unrecorded \in [Keys -> Nat]
  <2>1. unrecorded \in [Keys -> Nat]
    BY DEF TypeOK
  <2> QED BY <2>1, CountedType
<1>4. CASE UNCHANGED <<moneyVars, unrecorded>>
  <2>1. Counted(k)' = Counted(k) /\ unrecorded' = unrecorded
    BY <1>4 DEF Counted, moneyVars
  <2> QED BY <1>3, <2>1
<1>5. CASE /\ counter' = [counter EXCEPT ![Period(r)][Key(r)] =
                              Current(r) + cost[r]]
           /\ unrecorded' = [unrecorded EXCEPT ![Key(r)] = @ + cost[r]]
           /\ UNCHANGED forgotten
  <2>1. PICK v \in Nat : /\ counter' = [counter EXCEPT ![Period(r)][Key(r)] = v]
                         /\ v = Current(r) + cost[r]
    <3>1. Current(r) + cost[r] \in Nat
      BY <1>1
    <3> QED BY <1>5, <3>1
  <2>2. PICK w \in Nat : /\ forgotten' = [forgotten EXCEPT ![Key(r)] = w]
                         /\ w = forgotten[Key(r)]
    <3>1. forgotten' = [forgotten EXCEPT ![Key(r)] = forgotten[Key(r)]]
      BY <1>1, <1>5 DEF TypeOK
    <3> QED BY <1>2, <3>1
  <2>3. Recounted(k, Period(r), Key(r), v, w)
    BY <1>1, <2>1, <2>2, CountedStep
  <2>4. CASE Key(r) = k
    <3>1. unrecorded'[k] = unrecorded[k] + cost[r]
      BY <1>3, <1>5, <2>4
    <3>2. /\ Counted(k)' \in Nat
          /\ Counted(k)' + Current(r) + w = Counted(k) + (Current(r) + cost[r]) + w
      BY <1>2, <2>1, <2>2, <2>3, <2>4 DEF Recounted
    <3>3. \A x, m, o, c, d \in Nat : c + x + o = d + (x + m) + o => c = d + m
      OBVIOUS
    <3>4. Counted(k)' = Counted(k) + cost[r]
      BY <1>1, <1>3, <3>2, <3>3
    <3> QED BY <1>1, <1>3, <3>1, <3>4
  <2>5. CASE Key(r) # k
    <3>1. unrecorded'[k] = unrecorded[k]
      BY <1>3, <1>5, <2>5
    <3>2. Counted(k)' = Counted(k)
      BY <2>3, <2>5 DEF Recounted
    <3> QED BY <3>1, <3>2
  <2> QED BY <2>4, <2>5
<1> QED BY <1>4, <1>5, IncrementFailsStep

\* No other step of a request counts anything.
LEMMA CountedElse ==
    ASSUME UNCHANGED moneyVars, NEW k \in Keys
    PROVE  Counted(k)' = Counted(k)
BY DEF Counted, moneyVars

LEMMA ShownElse ==
    ASSUME recorded' = recorded, NEW k \in Keys
    PROVE  Shown(k)' = Shown(k)
BY DEF Shown

\* What a step adds to what is counted under a key is what it adds to what the
\* history shows, is owed, and will never see.
Settled(k) ==
    Shown(k)' + Sum(Owing(k)') + unrecorded'[k] + Counted(k)
        = Shown(k) + Sum(Owing(k)) + unrecorded[k] + Counted(k)'

HistoryTyped ==
    \A k \in Keys :
        /\ Counted(k) \in Nat /\ Shown(k) \in Nat
        /\ unrecorded[k] \in Nat /\ Sum(Owing(k)) \in Nat

LEMMA HistoryType == TypeOK => HistoryTyped
BY CountedType, OwingType, ShownType DEF HistoryTyped

LEMMA SettledStep ==
    ASSUME TypeOK, TypeOK', NEW r \in Requests, Step(r), NEW k \in Keys
    PROVE  Settled(k)
<1>1. /\ Counted(k) \in Nat /\ Counted(k)' \in Nat
      /\ Shown(k) \in Nat /\ Shown(k)' \in Nat
      /\ unrecorded[k] \in Nat /\ unrecorded'[k] \in Nat
      /\ Sum(Owing(k)) \in Nat /\ Sum(Owing(k)') \in Nat
  <2>1. HistoryTyped
    BY HistoryType
  <2>2. HistoryTyped'
    BY HistoryType, PTL
  <2> QED BY <2>1, <2>2 DEF HistoryTyped
<1>2. Sum(Owing(k)') + Owing(k)[r] = Sum(Owing(k)) + Owing(k)'[r]
  BY OwingStep
<1>3. /\ pc[r] = "record" /\ Key(r) = k => Owing(k)[r] = cost[r]
      /\ pc[r] # "record" \/ Key(r) # k => Owing(k)[r] = 0
  BY DEF Owing
<1>4. /\ pc'[r] = "record" /\ CounterKey[at'[r]] = k => Owing(k)'[r] = cost'[r]
      /\ pc'[r] # "record" \/ CounterKey[at'[r]] # k => Owing(k)'[r] = 0
  BY DEF Owing, Key
<1>5. cost[r] \in Nat /\ at[r] \in Budgets /\ pc \in [Requests -> Places]
  BY ReadType DEF TypeOK
<1>6. CASE Increment(r)
  <2>1. /\ pc[r] # "record" /\ pc'[r] = "record" /\ at'[r] = at[r]
        /\ cost'[r] = cost[r] /\ recorded' = recorded /\ unrecorded' = unrecorded
    BY <1>5, <1>6 DEF Increment, bookVars
  <2>2. Owing(k)[r] = 0 /\ Shown(k)' = Shown(k)
    BY <1>3, <2>1, ShownElse
  <2>3. CASE Key(r) = k
    <3>1. Counted(k)' = Counted(k) + cost[r]
      BY <1>6, <2>3, IncrementCounts
    <3>2. Owing(k)'[r] = cost[r]
      BY <1>4, <2>1, <2>3 DEF Key
    <3>3. Sum(Owing(k)') = Sum(Owing(k)) + cost[r]
      BY <1>1, <1>2, <1>5, <2>2, <3>2
    <3> QED BY <1>1, <1>5, <2>1, <2>2, <3>1, <3>3 DEF Settled
  <2>4. CASE Key(r) # k
    <3>1. Counted(k)' = Counted(k)
      BY <1>6, <2>4, IncrementCounts
    <3>2. Owing(k)'[r] = 0
      BY <1>4, <2>1, <2>4 DEF Key
    <3>3. Sum(Owing(k)') = Sum(Owing(k))
      BY <1>1, <1>2, <2>2, <3>2
    <3> QED BY <1>1, <2>1, <2>2, <3>1, <3>3 DEF Settled
  <2> QED BY <2>3, <2>4
<1>7. CASE IncrementFails(r)
  <2>1. pc[r] = "increment" /\ recorded' = recorded
    BY <1>7 DEF IncrementFails
  <2>2. pc'[r] # "record"
    <3>1. NextBudget(r)
      BY <1>7 DEF IncrementFails
    <3> QED BY <1>5, <3>1 DEF NextBudget
  <2>3. Sum(Owing(k)') = Sum(Owing(k)) /\ Shown(k)' = Shown(k)
    BY <1>1, <1>2, <1>3, <1>4, <2>1, <2>2, ShownElse
  <2>4. Counted(k)' + unrecorded[k] = Counted(k) + unrecorded'[k]
    BY <1>7, FailedIncrementCounts
  <2> QED BY <1>1, <2>3, <2>4 DEF Settled
<1>8. CASE RecordSpend(r)
  <2>1. UNCHANGED moneyVars /\ pc[r] = "record" /\ pc' = [pc EXCEPT ![r] = "notify"]
    BY <1>8 DEF RecordSpend
  <2>2. Counted(k)' = Counted(k) /\ pc'[r] # "record"
    BY <1>5, <2>1, CountedElse
  <2>3. Sum(Owing(k)') + Owing(k)[r] = Sum(Owing(k))
    BY <1>1, <1>2, <1>4, <2>2
  <2>4. \/ /\ recorded' = [recorded EXCEPT ![at[r]] = @ + cost[r]]
           /\ unrecorded' = unrecorded
        \/ /\ unrecorded' = [unrecorded EXCEPT ![Key(r)] = @ + cost[r]]
           /\ recorded' = recorded
    BY <1>8, Zenon DEF RecordSpend
  <2>5. CASE /\ recorded' = [recorded EXCEPT ![at[r]] = @ + cost[r]]
             /\ unrecorded' = unrecorded
    <3>1. CASE Key(r) = k
      <4>1. Shown(k)' = Shown(k) + cost[r] /\ Owing(k)[r] = cost[r]
        BY <1>3, <2>1, <2>5, <3>1, ShownStep
      <4> QED BY <1>1, <1>5, <2>2, <2>3, <2>5, <4>1 DEF Settled
    <3>2. CASE Key(r) # k
      <4>1. Shown(k)' = Shown(k) /\ Owing(k)[r] = 0
        BY <1>3, <2>5, <3>2, ShownStep
      <4> QED BY <1>1, <2>2, <2>3, <2>5, <4>1 DEF Settled
    <3> QED BY <3>1, <3>2
  <2>6. CASE /\ unrecorded' = [unrecorded EXCEPT ![Key(r)] = @ + cost[r]]
             /\ recorded' = recorded
    <3>1. Shown(k)' = Shown(k) /\ unrecorded \in [Keys -> Nat]
      BY <2>6, ShownElse DEF TypeOK
    <3>2. CASE Key(r) = k
      <4>1. unrecorded'[k] = unrecorded[k] + cost[r] /\ Owing(k)[r] = cost[r]
        BY <1>3, <2>1, <2>6, <3>1, <3>2
      <4> QED BY <1>1, <1>5, <2>2, <2>3, <3>1, <4>1 DEF Settled
    <3>3. CASE Key(r) # k
      <4>1. unrecorded'[k] = unrecorded[k] /\ Owing(k)[r] = 0
        BY <1>3, <2>6, <3>1, <3>3
      <4> QED BY <1>1, <2>2, <2>3, <3>1, <4>1 DEF Settled
    <3> QED BY <3>2, <3>3
  <2> QED BY <2>4, <2>5, <2>6
<1>9. CASE \/ Arrive(r) \/ Check(r) \/ ServeFree(r) \/ Serve(r) \/ ReadPrev(r)
           \/ Notify(r) \/ LoadKey(r) \/ LoadKeyFails(r) \/ StoreKey(r)
  <2>1. UNCHANGED moneyVars /\ recorded' = recorded /\ unrecorded' = unrecorded
    BY <1>9 DEF Arrive, Check, ServeFree, Serve, ReadPrev, Notify, LoadKey,
                LoadKeyFails, StoreKey, bookVars
  <2>2. pc[r] # "record"
    BY <1>9 DEF Arrive, Check, ServeFree, Serve, ReadPrev, Notify, LoadKey,
                LoadKeyFails, StoreKey
  <2>3. pc'[r] # "record"
    <3>1. CASE Arrive(r)
      BY <3>1, ArriveStep
    <3>2. CASE Check(r)
      BY <3>2, CheckStep
    <3>3. CASE ServeFree(r) \/ Serve(r) \/ ReadPrev(r) \/ LoadKey(r)
      BY <1>5, <3>3 DEF ServeFree, Serve, ReadPrev, LoadKey
    <3>4. CASE Notify(r) \/ LoadKeyFails(r) \/ StoreKey(r)
      BY <1>5, <3>4 DEF Notify, LoadKeyFails, StoreKey, NextBudget
    <3> QED BY <1>9, <3>1, <3>2, <3>3, <3>4
  <2>4. Sum(Owing(k)') = Sum(Owing(k))
    BY <1>1, <1>2, <1>3, <1>4, <2>2, <2>3
  <2>5. Counted(k)' = Counted(k) /\ Shown(k)' = Shown(k)
    BY <2>1, CountedElse, ShownElse
  <2> QED BY <1>1, <2>1, <2>4, <2>5 DEF Settled
<1> QED BY <1>6, <1>7, <1>8, <1>9 DEF Step

\* What expires is forgotten, and so still counted.
LEMMA ExpireKeeps ==
    ASSUME TypeOK, NEW q \in 1..Periods, NEW k \in Keys, Expire(q, k), NEW j \in Keys
    PROVE  Counted(j)' = Counted(j)
<1>1. counter[q][k] \in Nat /\ forgotten[k] \in Nat
  <2>1. counter \in [1..Periods -> [Keys -> Nat]] /\ forgotten \in [Keys -> Nat]
    BY Zenon DEF TypeOK
  <2> QED BY <2>1
<1>2. PICK w \in Nat : /\ forgotten' = [forgotten EXCEPT ![k] = w]
                       /\ w = forgotten[k] + counter[q][k]
  <2>1. forgotten' = [forgotten EXCEPT ![k] = forgotten[k] + counter[q][k]]
    BY DEF Expire
  <2>2. forgotten[k] + counter[q][k] \in Nat
    BY <1>1
  <2> QED BY <2>1, <2>2
<1>3. counter' = [counter EXCEPT ![q][k] = 0]
  BY DEF Expire
<1>4. Recounted(j, q, k, 0, w)
  BY <1>2, <1>3, CountedStep
<1>5. /\ Counted(j) \in Nat /\ Counted(j)' \in Nat
      /\ j # k => Counted(j)' = Counted(j)
      /\ j = k =>
           Counted(j)' + counter[q][k] + forgotten[k] = Counted(j) + (forgotten[k] + counter[q][k])
  BY <1>1, <1>2, <1>4 DEF Recounted
<1>6. \A x, o, c, d \in Nat : c + x + o = d + (o + x) => c = d
  OBVIOUS
<1> QED BY <1>1, <1>5, <1>6

LEMMA SettledNext ==
    ASSUME TypeOK, TypeOK', [Next]_vars, NEW k \in Keys
    PROVE  Settled(k)
<1>1. /\ Counted(k) \in Nat /\ Shown(k) \in Nat
      /\ unrecorded[k] \in Nat /\ Sum(Owing(k)) \in Nat
  BY HistoryType DEF HistoryTyped
<1>2. ASSUME Counted(k)' = Counted(k), UNCHANGED <<recorded, unrecorded>>,
             UNCHANGED <<pc, at, cost>>
      PROVE  Settled(k)
  <2>1. Owing(k)' = Owing(k)
    BY <1>2 DEF Owing, Key
  <2>2. Sum(Owing(k)') = Sum(Owing(k))
    BY <2>1
  <2> QED BY <1>1, <1>2, <2>2, ShownElse DEF Settled
<1>3. CASE Revoke \/ Tick \/ UNCHANGED vars
  <2>1. UNCHANGED moneyVars /\ UNCHANGED <<recorded, unrecorded, pc, at, cost>>
    BY <1>3 DEF Revoke, Tick, vars, moneyVars, bookVars
  <2> QED BY <1>2, <2>1, CountedElse
<1>4. ASSUME NEW q \in 1..Periods, NEW j \in Keys, Expire(q, j)
      PROVE  Settled(k)
  BY <1>2, <1>4, ExpireKeeps DEF Expire, bookVars
<1> QED BY <1>3, <1>4, SettledStep DEF Next

LEMMA HistoryInit == Init => AllRecorded
<1> SUFFICES ASSUME Init, NEW k \in Keys
             PROVE  Shown(k) + Sum(Owing(k)) + unrecorded[k] = Counted(k)
  BY DEF AllRecorded
<1>1. TypeOK
  BY InitType
<1>2. Sum(Owing(k)) = 0
  <2>1. \A r \in Requests : Owing(k)[r] = 0
    BY DEF Init, Owing
  <2> QED BY <1>1, <2>1, OwingType, SumOfNothing
<1>3. Sum(PerPeriod(k)) = 0
  <2>1. \A q \in 1..Periods : PerPeriod(k)[q] = 0
    BY <1>1, CountedType DEF Init, PerPeriod
  <2> QED BY <1>1, <2>1, CountedType, SumOfNothing
<1>4. Sum(PerBudget(k)) = 0
  <2>1. \A b \in SharedBy(k) : PerBudget(k)[b] = 0
    BY DEF Init, PerBudget, SharedBy
  <2> QED BY <1>1, <2>1, ShownType, SumOfNothing
<1>5. forgotten[k] = 0 /\ unrecorded[k] = 0
  BY DEF Init
<1>6. Shown(k) = 0
  BY <1>1, <1>4, ShownType
<1>7. Counted(k) = 0
  BY <1>1, <1>3, <1>5, CountedType
<1> QED BY <1>2, <1>5, <1>6, <1>7

LEMMA HistoryNext == TypeOK /\ AllRecorded /\ [Next]_vars => AllRecorded'
<1> SUFFICES ASSUME TypeOK, AllRecorded, [Next]_vars, NEW k \in Keys
             PROVE  Shown(k)' + Sum(Owing(k)') + unrecorded'[k] = Counted(k)'
  BY DEF AllRecorded
<1>1. TypeOK'
  BY NextType
<1>2. HistoryTyped /\ HistoryTyped'
  BY <1>1, HistoryType, PTL
<1>3. Settled(k)
  BY <1>1, SettledNext
<1>4. Shown(k) + Sum(Owing(k)) + unrecorded[k] = Counted(k)
  BY DEF AllRecorded
<1>5. /\ Counted(k) \in Nat /\ Shown(k)' \in Nat /\ Sum(Owing(k)') \in Nat
      /\ unrecorded'[k] \in Nat /\ Counted(k)' \in Nat
  BY <1>2 DEF HistoryTyped
<1>6. Shown(k)' + Sum(Owing(k)') + unrecorded'[k] + Counted(k)
        = Counted(k) + Counted(k)'
  BY <1>3, <1>4 DEF Settled
<1>7. \A x, y, z, c, d \in Nat : x + y + z + c = c + d => x + y + z = d
  OBVIOUS
<1> QED BY <1>5, <1>6, <1>7

LEMMA HistoryInvariant == Spec => [](TypeOK /\ AllRecorded)
<1>1. Init => TypeOK /\ AllRecorded
  BY InitType, HistoryInit
<1>2. TypeOK /\ AllRecorded /\ [Next]_vars => (TypeOK /\ AllRecorded)'
  BY NextType, HistoryNext
<1> QED BY <1>1, <1>2, PTL DEF Spec

\* Whatever fails, and whichever failed increments were executed all the same,
\* the spend history never shows more than the counters counted.
THEOREM HistoryStaysBehind == Spec => []HistoryNeverAhead
<1>1. TypeOK /\ AllRecorded => HistoryNeverAhead
  BY HistoryType DEF AllRecorded, HistoryTyped, HistoryNeverAhead
<1> QED BY <1>1, HistoryInvariant, PTL

\* The counters and the history agree, to the unit, whenever no request is
\* between the two, in every period, for money whose counter has expired and
\* for counters that budgets share, but for what was counted in silence.
THEOREM HistoryMatches == Spec => []CounterMatchesHistory
<1>1. TypeOK /\ AllRecorded => CounterMatchesHistory
  <2> SUFFICES ASSUME TypeOK, AllRecorded, \A r \in Requests : pc[r] # "record",
                      NEW k \in Keys
               PROVE  Counted(k) = Shown(k) + unrecorded[k]
    BY DEF CounterMatchesHistory
  <2>1. \A r \in Requests : Owing(k)[r] = 0
    BY DEF Owing
  <2>2. Sum(Owing(k)) = 0
    BY <2>1, OwingType, SumOfNothing
  <2>3. Shown(k) + Sum(Owing(k)) + unrecorded[k] = Counted(k)
    BY DEF AllRecorded
  <2>4. Shown(k) \in Nat /\ unrecorded[k] \in Nat
    BY HistoryType DEF HistoryTyped
  <2> QED BY <2>2, <2>3, <2>4
<1> QED BY <1>1, HistoryInvariant, PTL
===============================================================================
