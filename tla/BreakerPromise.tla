---------------------------- MODULE BreakerPromise ----------------------------
(***************************************************************************)
(* What the circuit breaker of one provider promises its callers, without  *)
(* counters or clocks.  The breaker is "closed" (calls pass), "shut" (no   *)
(* call may start) or on "trial" (the cooldown is over and calls pass      *)
(* again, on sufferance: the next recorded failure shuts it at once).      *)
(* Nothing but a verdict of a call already under way, or the end of the    *)
(* cooldown, moves it.                                                     *)
(***************************************************************************)
CONSTANT Calls     \* the goroutines that may be inside Client.Call or Stream

VARIABLES mode,      \* "closed", "shut" or "trial"
          underWay   \* the calls that were let through and have not returned

promiseVars == <<mode, underWay>>

PromiseInit == mode = "closed" /\ underWay = {}

\* A call is let through, unless the breaker is shut.
Join(c) ==
    /\ mode # "shut"
    /\ c \notin underWay
    /\ underWay' = underWay \union {c}
    /\ UNCHANGED mode

\* A call under way has had an answer: whatever the mode, the breaker closes.
Succeed(c) ==
    /\ c \in underWay
    /\ mode' = "closed"
    /\ UNCHANGED underWay

\* A call under way has failed.  On trial a single failure is enough to shut.
Fail(c) ==
    /\ c \in underWay
    /\ mode' \in IF mode = "closed" THEN {"closed", "shut"} ELSE {"shut"}
    /\ underWay' = underWay \ {c}

\* A call returns and the breaker takes no notice.
Leave(c) ==
    /\ c \in underWay
    /\ underWay' = underWay \ {c}
    /\ UNCHANGED mode

CoolDown ==
    /\ mode = "shut"
    /\ mode' = "trial"
    /\ UNCHANGED underWay

PromiseNext ==
    \/ CoolDown
    \/ \E c \in Calls : Join(c) \/ Succeed(c) \/ Fail(c) \/ Leave(c)

PromiseSpec == PromiseInit /\ [][PromiseNext]_promiseVars
===============================================================================
