------------------------- MODULE EgressClient_proofs --------------------------
(***************************************************************************)
(* Theorems about EgressClient, for every number of goroutines, limit,     *)
(* cooldown and retry count.  The inductive invariant is TypeOK, which     *)
(* needs BackoffHasAttemptLeft to bound the attempts, together with        *)
(* DeadlineIffLimitReached.                                                *)
(***************************************************************************)
EXTENDS EgressClient, TLAPS


\* A step of the breaker's methods keeps its two fields typed and in agreement.
LEMMA BreakerMethods ==
    ASSUME Inv,
           Fail \/ Reset
                \/ UNCHANGED breakerVars
    PROVE  /\ failures' \in 0..MaxFailures
           /\ deadline' \in {NoDeadline} \union 0..Cooldown
           /\ deadline' # NoDeadline <=> failures' = MaxFailures
  <1>1. CASE Fail
    BY <1>1, ParametersAssumption
       DEF Inv, TypeOK, DeadlineIffLimitReached, BackoffHasAttemptLeft, Fail
  <1>2. CASE Reset
    BY <1>2, ParametersAssumption DEF Reset
  <1>3. CASE UNCHANGED breakerVars
    BY <1>3 DEF Inv, TypeOK, DeadlineIffLimitReached, BackoffHasAttemptLeft, breakerVars
  <1> QED BY <1>1, <1>2, <1>3

LEMMA InitInv == Init => Inv
  BY ParametersAssumption
     DEF Init, Inv, TypeOK, DeadlineIffLimitReached, BackoffHasAttemptLeft, Places, Kinds, Results

LEMMA NextInv == Inv /\ [Next]_vars => Inv'
  <1> SUFFICES ASSUME Inv, [Next]_vars PROVE Inv'
    OBVIOUS
  <1> USE ParametersAssumption
  <1>1. CASE Tick
    <2>1. deadline \in 1..Cooldown
      BY <1>1 DEF Tick, Allow, Inv, TypeOK
    <2> QED BY <1>1, <2>1 DEF Tick, Inv, TypeOK, DeadlineIffLimitReached, BackoffHasAttemptLeft
  <1>2. ASSUME NEW c \in Calls, Refuse(c) PROVE Inv'
    BY <1>2 DEF Refuse, Inv, TypeOK, DeadlineIffLimitReached, BackoffHasAttemptLeft, Results
  <1>3. ASSUME NEW c \in Calls, Admit(c) PROVE Inv'
    BY <1>3 DEF Admit, breakerVars, Inv, TypeOK, DeadlineIffLimitReached, BackoffHasAttemptLeft,
                Results, Places
  <1>4. ASSUME NEW c \in Calls, ContextDone(c) PROVE Inv'
    BY <1>4 DEF ContextDone, Inv, TypeOK, DeadlineIffLimitReached, BackoffHasAttemptLeft
  <1>5. ASSUME NEW c \in Calls, TransportError(c) PROVE Inv'
    BY <1>5 DEF TransportError, MayRetry, Inv, TypeOK, DeadlineIffLimitReached, BackoffHasAttemptLeft, Places
  <1>6. ASSUME NEW c \in Calls, ServerError(c) PROVE Inv'
    <2>1. pc' \in [Calls -> Places]
      BY <1>6 DEF ServerError, Inv, TypeOK, Places
    <2>2. pc'[c] = "backoff" => attempt[c] < MaxRetries
      BY <1>6 DEF ServerError, MayRetry, Inv, TypeOK
    <2> QED BY <1>6, <2>1, <2>2 DEF ServerError, Inv, TypeOK, DeadlineIffLimitReached, BackoffHasAttemptLeft
  <1>7. ASSUME NEW c \in Calls, Answer(c) PROVE Inv'
    BY <1>7 DEF Answer, Inv, TypeOK, DeadlineIffLimitReached, BackoffHasAttemptLeft, Places
  <1>8. ASSUME NEW c \in Calls, Backoff(c) PROVE Inv'
    BY <1>8 DEF Backoff, Inv, TypeOK, DeadlineIffLimitReached, BackoffHasAttemptLeft, Places
  <1>9. ASSUME NEW c \in Calls, RecordFail(c) PROVE Inv'
    <2>1. Fail \/ UNCHANGED breakerVars
      BY <1>9 DEF RecordFail
    <2> QED BY <1>9, <2>1, BreakerMethods
            DEF RecordFail, Inv, TypeOK, DeadlineIffLimitReached, BackoffHasAttemptLeft, Places, Results
  <1>10. ASSUME NEW c \in Calls, RecordReset(c) PROVE Inv'
    <2>1. Reset \/ UNCHANGED breakerVars
      BY <1>10 DEF RecordReset
    <2> QED BY <1>10, <2>1, BreakerMethods
            DEF RecordReset, Inv, TypeOK, DeadlineIffLimitReached, BackoffHasAttemptLeft, Places
  <1>11. ASSUME NEW c \in Calls, ReadBody(c) PROVE Inv'
    BY <1>11 DEF ReadBody, Inv, TypeOK, DeadlineIffLimitReached, BackoffHasAttemptLeft, Places, Results
  <1>12. CASE UNCHANGED vars
    BY <1>12 DEF vars, Inv, TypeOK, DeadlineIffLimitReached, BackoffHasAttemptLeft
  <1> QED BY <1>1, <1>2, <1>3, <1>4, <1>5, <1>6, <1>7, <1>8, <1>9, <1>10, <1>11,
             <1>12 DEF Next, Work

\* The state stays typed and the breaker's count and deadline agree, under
\* every interleaving of Call, Stream and the clock.
THEOREM BreakerInvariant == Spec => []Inv
  <1> QED BY InitInv, NextInv, PTL DEF Spec

\* The client implements BreakerPromise: while shut nothing joins, a failure on
\* trial shuts at once, and only a verdict or the cooldown moves the breaker.
THEOREM ClientKeepsPromise == Spec => KeepsPromise
  <1> DEFINE underWay == {c \in Calls : Busy(c)}
  <1>1. Init => Promise!PromiseInit
    BY DEF Init, Promise!PromiseInit, Mode, Busy
  <1>2. Inv /\ [Next]_vars => [Promise!PromiseNext]_(Promise!promiseVars)
    <2> SUFFICES ASSUME Inv, [Next]_vars
                 PROVE  Promise!PromiseNext \/ UNCHANGED <<Mode, underWay>>
      BY DEF Promise!promiseVars
    <2> USE ParametersAssumption
    <2>1. CASE Tick
      <3>1. UNCHANGED underWay /\ Mode = "shut" /\ Mode' \in {"shut", "trial"}
        BY <2>1 DEF Tick, Allow, Busy, Mode, Inv, TypeOK
      <3> QED BY <3>1 DEF Promise!PromiseNext, Promise!CoolDown
    <2>2. ASSUME NEW c \in Calls,
                 Refuse(c) \/ ContextDone(c) \/ TransportError(c)
                   \/ ServerError(c) \/ Answer(c) \/ Backoff(c)
          PROVE  UNCHANGED <<Mode, underWay>>
      BY <2>2 DEF Inv, TypeOK, Refuse, ContextDone, TransportError, ServerError,
                  Answer, Backoff, Busy, Mode
    <2>3. ASSUME NEW c \in Calls, Admit(c) PROVE Promise!Join(c)
      BY <2>3 DEF Admit, Allow, breakerVars, Mode, Busy, Promise!Join, Inv, TypeOK
    <2>4. ASSUME NEW c \in Calls, RecordFail(c)
          PROVE  Promise!Fail(c) \/ Promise!Leave(c)
      <3>1. c \in underWay /\ underWay' = underWay \ {c}
        BY <2>4 DEF RecordFail, Busy, Inv, TypeOK
      <3>2. Mode' = Mode \/ Mode' = "shut"
        BY <2>4 DEF RecordFail, Fail, breakerVars, Mode, Inv, TypeOK,
                    DeadlineIffLimitReached
      <3>3. CASE UNCHANGED breakerVars
        BY <3>1, <3>3 DEF Promise!Leave, breakerVars, Mode
      <3>4. CASE Fail
        <4>1. Mode # "closed" => Mode' = "shut"
          BY <3>4 DEF Fail, Mode, Inv, TypeOK, DeadlineIffLimitReached
        <4> QED BY <3>1, <3>2, <4>1 DEF Promise!Fail, Mode
      <3> QED BY <2>4, <3>3, <3>4 DEF RecordFail
    <2>5. ASSUME NEW c \in Calls, RecordReset(c)
          PROVE  Promise!Succeed(c) \/ UNCHANGED <<Mode, underWay>>
      <3>1. c \in underWay /\ UNCHANGED underWay
        BY <2>5 DEF RecordReset, Busy, Inv, TypeOK
      <3> QED BY <2>5, <3>1
              DEF RecordReset, Reset, breakerVars, Mode, Promise!Succeed
    <2>6. ASSUME NEW c \in Calls, ReadBody(c) PROVE Promise!Leave(c)
      BY <2>6 DEF ReadBody, Busy, Mode, Promise!Leave, Inv, TypeOK
    <2>7. CASE UNCHANGED vars
      BY <2>7 DEF vars, Mode, Busy
    <2> QED BY <2>1, <2>2, <2>3, <2>4, <2>5, <2>6, <2>7
            DEF Next, Work, Promise!PromiseNext
  <1> QED BY <1>1, <1>2, InitInv, NextInv, PTL
          DEF Spec, KeepsPromise, Promise!PromiseSpec
===============================================================================
