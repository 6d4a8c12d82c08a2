----------------------------- MODULE EgressClient -----------------------------
(***************************************************************************)
(* The egress client of one provider (adapters/egress): concurrent         *)
(* Client.Call and Client.Stream, the retry loop they share and the        *)
(* circuit breaker in front of them.                                       *)
(*                                                                         *)
(* Two abstractions of data.  The breaker only compares `failures` with    *)
(* MaxFailures, so the count saturates there.  It only compares `deadline` *)
(* with the clock, so the model keeps the time left until the deadline:    *)
(* NoDeadline for 0, otherwise the number of ticks to wait, 0 when the     *)
(* deadline has passed.                                                    *)
(***************************************************************************)
EXTENDS Naturals

CONSTANTS Calls,        \* goroutines that call the client
          MaxFailures,  \* CircuitBreakerConfig.MaxFailures
          Cooldown,     \* CircuitBreakerConfig.Cooldown, in ticks
          MaxRetries,   \* EgressConfig.MaxRetries (a negative one counts as 0)
          Retry5xx,     \* isRetriable for a 5xx: GET, or POST with retry_on_5xx
          NoDeadline

ASSUME ParametersAssumption ==
    /\ MaxFailures \in Nat \ {0}
    /\ Cooldown \in Nat \ {0}
    /\ MaxRetries \in Nat
    /\ Retry5xx \in BOOLEAN
    /\ NoDeadline \notin Nat

VARIABLES failures,  \* CircuitBreaker.failures, saturated
          deadline,  \* CircuitBreaker.deadline, as ticks left
          pc,        \* where each goroutine is
          kind,      \* "call" or "stream"
          attempt,   \* the loop variable of doWithRetry
          ctx,       \* the request's context: "live" or "done"
          result     \* what the last Call or Stream returned

breakerVars == <<failures, deadline>>
vars == <<failures, deadline, pc, kind, attempt, ctx, result>>

Kinds == {"call", "stream"}
Results == {"none", "breakerOpen", "error", "response", "chunks"}
Places == {"idle", "sent", "backoff", "failed", "answered", "reading"}

Init ==
    /\ failures = 0
    /\ deadline = NoDeadline
    /\ pc = [c \in Calls |-> "idle"]
    /\ kind = [c \in Calls |-> "call"]
    /\ attempt = [c \in Calls |-> 0]
    /\ ctx = [c \in Calls |-> "live"]
    /\ result = [c \in Calls |-> "none"]

Busy(c) == pc[c] # "idle"

(***************************************************************************)
(* The breaker: each method runs under its mutex, so each is one step.     *)
(***************************************************************************)
Allow == deadline \in {NoDeadline, 0}

\* Mutant of Fail: the count starts afresh once the cooldown is over.
FailRestartsCount ==
    LET counted == IF deadline = 0 THEN 1 ELSE failures + 1
    IN  /\ failures' = IF counted < MaxFailures THEN counted ELSE MaxFailures
        /\ deadline' = IF counted >= MaxFailures THEN Cooldown ELSE NoDeadline

Fail ==
    LET counted == IF failures < MaxFailures THEN failures + 1 ELSE failures
    IN  /\ failures' = counted
        /\ deadline' = IF counted >= MaxFailures THEN Cooldown ELSE deadline

\* Mutant of Reset: the deadline is forgotten.
ResetCountOnly ==
    /\ failures' = 0
    /\ UNCHANGED deadline

Reset ==
    /\ failures' = 0
    /\ deadline' = NoDeadline

\* Time passes: the deadline comes one tick nearer.
Tick ==
    /\ ~Allow
    /\ deadline' = deadline - 1
    /\ UNCHANGED <<failures, pc, kind, attempt, ctx, result>>

(***************************************************************************)
(* Call and Stream.  Both ask Allow first; only Call reports back.         *)
(***************************************************************************)
\* Mutant of Refuse: a refused call counts as a failure of the provider.
RefuseCounts(c) ==
    /\ pc[c] = "idle"
    /\ ~Allow
    /\ result' = [result EXCEPT ![c] = "breakerOpen"]
    /\ Fail
    /\ UNCHANGED <<pc, kind, attempt, ctx>>

Refuse(c) ==
    /\ pc[c] = "idle"
    /\ ~Allow
    /\ result' = [result EXCEPT ![c] = "breakerOpen"]
    /\ UNCHANGED <<failures, deadline, pc, kind, attempt, ctx>>

Admit(c) ==
    /\ pc[c] = "idle"
    /\ Allow
    /\ pc' = [pc EXCEPT ![c] = "sent"]
    /\ \E k \in Kinds : kind' = [kind EXCEPT ![c] = k]
    /\ attempt' = [attempt EXCEPT ![c] = 0]
    /\ ctx' = [ctx EXCEPT ![c] = "live"]
    /\ result' = [result EXCEPT ![c] = "none"]
    /\ UNCHANGED breakerVars

\* The request's context is done while it is being tried: its client hung up,
\* or the timeout of the provider (withTimeout) has passed.
ContextDone(c) ==
    /\ pc[c] \in {"sent", "backoff"}
    /\ ctx[c] = "live"
    /\ ctx' = [ctx EXCEPT ![c] = "done"]
    /\ UNCHANGED <<failures, deadline, pc, kind, attempt, result>>

MayRetry(c) == attempt[c] < MaxRetries

\* RoundTrip returned an error; one that isRetriable accepts (a net.Error, a
\* refused connection) is retried while attempts are left.
TransportError(c) ==
    /\ pc[c] = "sent"
    /\ \E retriable \in BOOLEAN :
          pc' = [pc EXCEPT ![c] = IF retriable /\ MayRetry(c)
                                  THEN "backoff" ELSE "failed"]
    /\ UNCHANGED <<failures, deadline, kind, attempt, ctx, result>>

\* RoundTrip returned a 5xx.  When 5xx are retriable it is retried, and an
\* error once the attempts are used up; otherwise it is a response like others.
ServerError(c) ==
    /\ pc[c] = "sent"
    /\ pc' = [pc EXCEPT ![c] = IF ~Retry5xx   THEN "answered" ELSE
                               IF MayRetry(c) THEN "backoff"  ELSE "failed"]
    /\ UNCHANGED <<failures, deadline, kind, attempt, ctx, result>>

\* RoundTrip returned any other status.
Answer(c) ==
    /\ pc[c] = "sent"
    /\ pc' = [pc EXCEPT ![c] = "answered"]
    /\ UNCHANGED <<failures, deadline, kind, attempt, ctx, result>>

\* Mutant of Backoff: the loop variable is not advanced.
BackoffForever(c) ==
    /\ pc[c] = "backoff"
    /\ pc' = [pc EXCEPT ![c] = IF ctx[c] = "live" THEN "sent" ELSE "failed"]
    /\ UNCHANGED <<failures, deadline, kind, attempt, ctx, result>>

\* Before a further attempt: give up when the context is done, else wait.
Backoff(c) ==
    /\ pc[c] = "backoff"
    /\ \/ /\ ctx[c] # "live"
          /\ pc' = [pc EXCEPT ![c] = "failed"]
          /\ UNCHANGED attempt
       \/ /\ ctx[c] = "live"
          /\ pc' = [pc EXCEPT ![c] = "sent"]
          /\ attempt' = [attempt EXCEPT ![c] = @ + 1]
    /\ UNCHANGED <<failures, deadline, kind, ctx, result>>

\* The call ends with an error: Call tells the breaker, Stream does not.
RecordFail(c) ==
    /\ pc[c] = "failed"
    /\ IF kind[c] = "call"
       THEN Fail
       ELSE UNCHANGED breakerVars
    /\ pc' = [pc EXCEPT ![c] = "idle"]
    /\ result' = [result EXCEPT ![c] = "error"]
    /\ UNCHANGED <<kind, attempt, ctx>>

\* The call has an answer: Call resets the breaker before it reads the body.
RecordReset(c) ==
    /\ pc[c] = "answered"
    /\ IF kind[c] = "call" THEN Reset ELSE UNCHANGED breakerVars
    /\ pc' = [pc EXCEPT ![c] = "reading"]
    /\ UNCHANGED <<kind, attempt, ctx, result>>

\* The body is read, or the stream handed over; a broken body is an error the
\* breaker does not hear of, and so is a stream answer that is not 200 SSE.
ReadBody(c) ==
    /\ pc[c] = "reading"
    /\ pc' = [pc EXCEPT ![c] = "idle"]
    /\ \E ok \in BOOLEAN :
          result' = [result EXCEPT ![c] = IF ~ok THEN "error" ELSE
                                          IF kind[c] = "call" THEN "response"
                                                              ELSE "chunks"]
    /\ UNCHANGED <<failures, deadline, kind, attempt, ctx>>

Work(c) ==
    \/ TransportError(c) \/ ServerError(c) \/ Answer(c)
    \/ Backoff(c) \/ RecordFail(c) \/ RecordReset(c) \/ ReadBody(c)

Next ==
    \/ Tick
    \/ \E c \in Calls : Refuse(c) \/ Admit(c) \/ ContextDone(c) \/ Work(c)

Spec == Init /\ [][Next]_vars

\* Time passes, and a request that was sent is answered or times out.
Fairness == WF_vars(Tick) /\ \A c \in Calls : WF_vars(Work(c))

FairSpec == Spec /\ Fairness
-------------------------------------------------------------------------------
\* Type correctness of the whole state.
TypeOK ==
    /\ failures \in 0..MaxFailures
    /\ deadline \in {NoDeadline} \union 0..Cooldown
    /\ pc \in [Calls -> Places]
    /\ kind \in [Calls -> Kinds]
    /\ attempt \in [Calls -> 0..MaxRetries]
    /\ ctx \in [Calls -> {"live", "done"}]
    /\ result \in [Calls -> Results]

\* The two fields of the breaker agree: it has a deadline exactly when the
\* failure count has reached the limit.  Fail and Reset of interleaved calls,
\* and a cooldown that runs out without clearing the count, keep it so.
DeadlineIffLimitReached == deadline # NoDeadline <=> failures = MaxFailures

\* A call waits for a further attempt only when one is left, whichever of the
\* two retry conditions sent it there: no request is sent MaxRetries + 2 times.
BackoffHasAttemptLeft ==
    \A c \in Calls : pc[c] = "backoff" => attempt[c] < MaxRetries

\* The breaker and its calls are consistent: what the interleavings of Call,
\* Stream and the clock preserve, and only together.
Inv == TypeOK /\ DeadlineIffLimitReached /\ BackoffHasAttemptLeft

Shut == ~Allow

\* A shut breaker lets calls through again sooner or later: late failures of
\* calls under way push the deadline back, but there are only so many of them.
ReadmitsEventually == Shut ~> Allow

\* Every admitted call returns: the retry loop and the backoff end.
CallsReturn == \A c \in Calls : Busy(c) ~> ~Busy(c)

Mode == IF deadline = NoDeadline THEN "closed" ELSE
        IF deadline = 0          THEN "trial"  ELSE "shut"

Promise == INSTANCE BreakerPromise
    WITH mode <- Mode, underWay <- {c \in Calls : Busy(c)}

\* The client keeps the breaker's promise (BreakerPromise).
KeepsPromise == Promise!PromiseSpec
===============================================================================
