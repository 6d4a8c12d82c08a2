---------------------------- MODULE RateLimitWindow ----------------------------
(***************************************************************************)
(* The rate limiter of one tenant: ValkeyRateLimitRepo.Allow, called by    *)
(* the RateLimit middleware of concurrent requests.  A gateway takes the   *)
(* time stamp of a request before it sends the script to Valkey, so that   *)
(* scripts may run in another order than their stamps were taken in.       *)
(*                                                                         *)
(* The sorted set of the window is a bag of stamps (members are random and *)
(* never collide).  Gateways and Valkey share one clock, which is also the *)
(* unit of Window.  A limit of zero or less means no limiter, and is left  *)
(* out.                                                                    *)
(***************************************************************************)
EXTENDS Integers, FiniteSets

CONSTANTS Requests, \* goroutines of the gateways
          Limit,    \* RatePerWindow of the tenant
          Window,   \* its WindowSec
          MaxTime,  \* the clock stops here
          Faults    \* whether a script may fail, or its reply be lost

ASSUME WindowAssumption ==
    /\ IsFiniteSet(Requests)
    /\ Limit \in Nat \ {0}
    /\ Window \in Nat \ {0}
    /\ MaxTime \in Nat
    /\ Faults \in BOOLEAN

VARIABLES time,     \* the clock
          stamps,   \* Valkey: stamp -> how many members have it as score
          expireAt, \* when the key expires
          pc,       \* where each request is
          stamp,    \* the stamp it took
          admitted  \* history: stamp -> requests the script let through

vars == <<time, stamps, expireAt, pc, stamp, admitted>>

Times == 0..MaxTime
NoStamps == [t \in Times |-> 0]

\* The members of a bag with stamps from first to last, each a copy of its stamp.
Members(bag, first, last) ==
    UNION {{t} \X (1..bag[t]) : t \in {u \in Times : first <= u /\ u <= last}}

CountIn(bag, first, last) == Cardinality(Members(bag, first, last))

Init ==
    /\ time = 0
    /\ stamps = NoStamps
    /\ expireAt = 0
    /\ pc = [r \in Requests |-> "idle"]
    /\ stamp = [r \in Requests |-> 0]
    /\ admitted = NoStamps

TakeStamp(r) ==
    /\ pc[r] # "evaluate"
    /\ pc' = [pc EXCEPT ![r] = "evaluate"]
    /\ stamp' = [stamp EXCEPT ![r] = time]
    /\ UNCHANGED <<time, stamps, expireAt, admitted>>

(***************************************************************************)
(* The script.                                                             *)
(***************************************************************************)
\* Mutant of Kept: the range takes in the oldest stamp of the window.
KeptTooFew(now) ==
    [t \in Times |-> IF t <= now - Window + 1 \/ time >= expireAt
                     THEN 0 ELSE stamps[t]]

\* What is left of the key after ZREMRANGEBYSCORE -inf (now - window).
Kept(now) ==
    [t \in Times |-> IF t <= now - Window \/ time >= expireAt THEN 0 ELSE stamps[t]]

Count(now) == CountIn(Kept(now), 0, MaxTime)

\* Mutant of Store: the window is full one member too late.
StorePast(now) ==
    IF Count(now) > Limit
    THEN stamps' = Kept(now) /\ UNCHANGED expireAt
    ELSE /\ stamps' = [Kept(now) EXCEPT ![now] = @ + 1]
         /\ expireAt' = time + Window

\* ZADD and EXPIRE, when the window is not full.
Store(now) ==
    IF Count(now) >= Limit
    THEN stamps' = Kept(now) /\ UNCHANGED expireAt
    ELSE /\ stamps' = [Kept(now) EXCEPT ![now] = @ + 1]
         /\ expireAt' = time + Window

\* Mutant of Allowed: what the script says is not looked at.
AllowedAtZero(now) == TRUE

\* Allow: `remaining`, which is 0 when the window is full, is positive.
Allowed(now) == Limit - Count(now) - 1 > 0

Evaluate(r) ==
    /\ pc[r] = "evaluate"
    /\ Store(stamp[r])
    /\ IF Allowed(stamp[r])
       THEN /\ pc' = [pc EXCEPT ![r] = "passed"]
            /\ admitted' = [admitted EXCEPT ![stamp[r]] = @ + 1]
       ELSE /\ pc' = [pc EXCEPT ![r] = "refused"]
            /\ UNCHANGED admitted
    /\ UNCHANGED <<time, stamp>>

\* On an error the request passes, whether or not the script was executed.
EvaluateFails(r) ==
    /\ Faults
    /\ pc[r] = "evaluate"
    /\ Store(stamp[r]) \/ UNCHANGED <<stamps, expireAt>>
    /\ pc' = [pc EXCEPT ![r] = "passed"]
    /\ UNCHANGED <<time, stamp, admitted>>

Tick ==
    /\ time < MaxTime
    /\ time' = time + 1
    /\ UNCHANGED <<stamps, expireAt, pc, stamp, admitted>>

Next ==
    \/ \E r \in Requests : TakeStamp(r) \/ Evaluate(r) \/ EvaluateFails(r)
    \/ Tick

Spec == Init /\ [][Next]_vars
-------------------------------------------------------------------------------
\* Type correctness; the sorted set never has more members than the limit.
TypeOK ==
    /\ time \in Times
    /\ stamps \in [Times -> 0..Limit]
    /\ CountIn(stamps, 0, MaxTime) <= Limit
    /\ expireAt \in 0..MaxTime + Window
    /\ pc \in [Requests -> {"idle", "evaluate", "passed", "refused"}]
    /\ stamp \in [Requests -> Times]
    /\ admitted \in [Times -> Nat]

\* No window admits more than the limit, but for one request of each goroutine:
\* one that took its stamp in the window and whose script runs when a later
\* script, or the key's expiry, has removed the window's stamps.
WindowBounded ==
    \A t \in Times :
        CountIn(admitted, t - Window + 1, t) <= Limit - 1 + Cardinality(Requests)

Seen(t) == IF time < expireAt THEN stamps[t] ELSE 0

\* Valkey forgets no stamp that is still in the window: neither the removal by
\* a script whose stamp is newer than others', nor the key's expiry, which is
\* counted in Valkey's time from the last member, comes too early.
NothingForgottenEarly ==
    \A t \in Times : t > time - Window => admitted[t] <= Seen(t)
===============================================================================
