----------------------------- MODULE LatestAnswer -----------------------------
(***************************************************************************)
(* What a page is promised by the hook that loads its data: there is one   *)
(* question at a time, and once the page is told that the data is there,   *)
(* it is the answer to that question, given no earlier than it was asked.  *)
(***************************************************************************)
EXTENDS Naturals

CONSTANTS
    Wants,      \* what may be asked for
    Undefined   \* no data yet

VARIABLES
    want,       \* what is asked for
    since,      \* the time it was asked at
    phase,      \* "off", "waiting", "answered" or "failed"
    shown,      \* the answer that is shown: to what, and as of which time
    now         \* time, counted in changes of what is asked about

latestVars == <<want, since, phase, shown, now>>

Init ==
    /\ want \in Wants
    /\ phase \in {"off", "waiting"}
    /\ shown = Undefined
    /\ since = 0 /\ now = 0

(* Something is asked, the same as before perhaps, or nothing any more.    *)
AskAnew ==
    /\ want' \in Wants
    /\ phase' = "waiting"
    /\ since' = now
    /\ shown' \in {shown, Undefined}
    /\ UNCHANGED now

StopAsking ==
    /\ want' \in Wants
    /\ phase' = "off"
    /\ shown' \in {shown, Undefined}
    /\ UNCHANGED <<since, now>>

Tell ==
    /\ phase = "waiting"
    /\ phase' = "answered"
    /\ \E t \in since .. now : shown' = [of |-> want, at |-> t]
    /\ UNCHANGED <<want, since, now>>

Fail ==
    /\ phase = "waiting"
    /\ phase' = "failed"
    /\ UNCHANGED <<want, since, shown, now>>

Pass ==
    /\ now' = now + 1
    /\ UNCHANGED <<want, since, phase, shown>>

Next == AskAnew \/ StopAsking \/ Tell \/ Fail \/ Pass

Spec == Init /\ [][Next]_latestVars
=============================================================================
