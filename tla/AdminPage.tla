------------------------------ MODULE AdminPage ------------------------------
(***************************************************************************)
(* What the pages of the admin console share: requests that a handler has  *)
(* sent with apiFetch and awaits.  The server carries them out, and their  *)
(* answers arrive, in any order.  To a handler an answer is "ok" or        *)
(* "failed": apiFetch throws for every status but 2xx, and for a body that *)
(* is no JSON as well, so that a request may have been carried out         *)
(* although its answer is a failure.                                       *)
(*                                                                         *)
(* A request is                                                            *)
(*   no    its number, to tell equal requests apart                        *)
(*   kind  what is asked, one of the page's kinds                          *)
(*   row   what it is about                                                *)
(*   st    "sent", then "ok" or "failed" when it was answered; "absent"    *)
(*         for a 404 where the handler tells it from other failures        *)
(*   rows  the list an answer carries                                      *)
(*   mine  whether the component that sent it is still mounted             *)
(***************************************************************************)
EXTENDS Naturals, FiniteSets

CONSTANTS
    None,       \* no row, nothing selected
    MaxClicks,  \* bound on what the operator does
    MaxFaults   \* bound on requests and answers that get lost

ASSUME PageAssumption == MaxClicks \in Nat /\ MaxFaults \in Nat

VARIABLES
    flight,     \* the requests under way
    clicks,     \* number of clicks so far
    faults,     \* number of requests and answers lost so far
    raced       \* history: a request was sent while another was under way

pageVars == <<flight, clicks, faults, raced>>

Fresh(f) == CHOOSE n \in 1 .. Cardinality(f) + 1 : \A r \in f : r.no # n

Ask(f, kind, row) ==
    [no |-> Fresh(f), kind |-> kind, row |-> row, st |-> "sent", rows |-> {}, mine |-> TRUE]

PageInit(f) ==
    /\ flight = f
    /\ clicks = 0
    /\ faults = 0
    /\ raced = FALSE

Click == clicks < MaxClicks /\ clicks' = clicks + 1

(* Of the requests under way `done` is finished, and one more is sent.     *)
Send(done, kind, row) ==
    LET rest == flight \ done
    IN  /\ flight' = rest \cup {Ask(rest, kind, row)}
        /\ raced' = (raced \/ rest # {})

Finish(r) == flight' = flight \ {r} /\ UNCHANGED raced

(* The server has carried out r, or has refused it.                        *)
Answer(r, st, row, rows) ==
    /\ flight' = (flight \ {r}) \cup {[r EXCEPT !.st = st, !.row = row, !.rows = rows]}
    /\ UNCHANGED <<clicks, faults, raced>>

(* A request is lost on its way, or its answer is: the two differ in what  *)
(* the server has done by then.                                            *)
Lose(r) ==
    /\ faults < MaxFaults
    /\ faults' = faults + 1
    /\ r.st # "failed"
    /\ flight' = (flight \ {r}) \cup {[r EXCEPT !.st = "failed"]}
    /\ UNCHANGED <<clicks, raced>>

(* The component is unmounted: what it asked for goes on without it.  Its  *)
(* loads change nothing, so that they need not be followed any more.       *)
Orphan(loads) ==
    {[r EXCEPT !.mine = FALSE] : r \in {q \in flight : q.kind \notin loads}}

Quiet == flight = {} /\ ~raced /\ faults = 0
=============================================================================
