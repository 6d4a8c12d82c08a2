------------------------------ MODULE AsyncData ------------------------------
(***************************************************************************)
(* The hook with which the pages load what they show                       *)
(* (ui/src/hooks/useAsyncData.ts).  Each run of its effect calls fn and    *)
(* cancels the closure of the run before; the answers of all of them       *)
(* arrive, in any order.  A render and the effect it leads to are one      *)
(* step: React runs the effects of a commit before the next event.         *)
(***************************************************************************)
EXTENDS Naturals, FiniteSets

CONSTANTS
    Deps,       \* the values that deps take: what fn asks for
    Undefined,  \* no data yet
    MaxAsks,    \* bound on the runs of the effect
    MaxWorld    \* bound on the changes of what is asked about

ASSUME HookAssumption ==
    /\ MaxAsks \in Nat /\ MaxWorld \in Nat
    /\ Undefined \notin [of : Deps, at : Nat]

VARIABLES
    deps, enabled,
    data,       \* the answer shown: to what, and as of which state of the world
    loading,
    error,      \* whether error is not null
    live,       \* the run of the effect that is not cancelled; 0 when disabled
    calls,      \* the calls of fn under way
    asks,       \* number of runs of the effect so far
    asked,      \* history: the state of the world when the live run asked
    world       \* number of changes so far of what is asked about

hookVars == <<deps, enabled, data, loading, error, live, calls, asks, asked, world>>

Asking(n, d) == [run |-> n, of |-> d, st |-> "sent", at |-> 0]

HookInit(d, e) ==
    /\ deps = d /\ enabled = e
    /\ data = Undefined
    /\ loading = e /\ error = FALSE
    /\ live = IF e THEN 1 ELSE 0
    /\ asks = live
    /\ calls = IF e THEN {Asking(1, d)} ELSE {}
    /\ asked = 0 /\ world = 0

Effect(d, e) ==
    /\ asks < MaxAsks
    /\ deps' = d /\ enabled' = e
    /\ loading' = e
    /\ IF e
       THEN /\ asks' = asks + 1
            /\ live' = asks + 1
            /\ calls' = calls \cup {Asking(asks + 1, d)}
            /\ asked' = world
       ELSE live' = 0 /\ UNCHANGED <<asks, calls, asked>>
    /\ UNCHANGED world

Rerun(d, e) == Effect(d, e) /\ error' = (error /\ ~e) /\ UNCHANGED data

Render(d, e) == <<d, e>> # <<deps, enabled>> /\ Rerun(d, e)

Refetch == Rerun(deps, enabled)

(* The component is left and mounted again, while old calls go on.         *)
Remount(d, e) == Effect(d, e) /\ error' = FALSE /\ data' = Undefined

(* The server answers, or the call fails, and the promise settles later.   *)
Serve(c) ==
    /\ c.st = "sent"
    /\ \E st \in {"ok", "failed"} :
         calls' = (calls \ {c}) \cup {[c EXCEPT !.st = st, !.at = world]}
    /\ UNCHANGED <<deps, enabled, data, loading, error, live, asks, asked, world>>

(* Mutant of Settle: closures are not cancelled. *)
SettleAny(c) ==
    /\ c.st # "sent"
    /\ calls' = calls \ {c}
    /\ loading' = FALSE
    /\ error' = (error \/ c.st = "failed")
    /\ data' = IF c.st = "ok" THEN [of |-> c.of, at |-> c.at] ELSE data
    /\ UNCHANGED <<deps, enabled, live, asks, asked, world>>

(* Mutant of Settle: the answer is stored without its time. *)
SettleBare(c) ==
    /\ c.st # "sent"
    /\ calls' = calls \ {c}
    /\ IF c.run = live THEN data' = c.of /\ loading' = FALSE ELSE UNCHANGED <<data, loading>>
    /\ UNCHANGED <<deps, enabled, error, live, asks, asked, world>>

(* Mutant of Settle: a failure leaves it loading. *)
SettleFailing(c) ==
    /\ c.st # "sent"
    /\ calls' = calls \ {c}
    /\ IF c.run = live /\ c.st = "ok"
       THEN loading' = FALSE /\ data' = [of |-> c.of, at |-> c.at]
       ELSE UNCHANGED <<loading, data>>
    /\ UNCHANGED <<deps, enabled, error, live, asks, asked, world>>

Settle(c) ==
    /\ c.st # "sent"
    /\ calls' = calls \ {c}
    /\ IF c.run = live
       THEN /\ loading' = FALSE
            /\ error' = (error \/ c.st = "failed")
            /\ data' = IF c.st = "ok" THEN [of |-> c.of, at |-> c.at] ELSE data
       ELSE UNCHANGED <<loading, error, data>>
    /\ UNCHANGED <<deps, enabled, live, asks, asked, world>>

(* Somebody changes what is asked about.                                   *)
ChangeWorld ==
    /\ world < MaxWorld
    /\ world' = world + 1
    /\ UNCHANGED <<deps, enabled, data, loading, error, live, calls, asks, asked>>

HookAnswers == \E c \in calls : Serve(c) \/ Settle(c)

HookNext ==
    \/ \E d \in Deps, e \in BOOLEAN : Render(d, e) \/ Remount(d, e)
    \/ Refetch \/ HookAnswers \/ ChangeWorld

(* Requests are answered, or given up by the browser, and the callbacks of *)
(* settled promises run; nothing makes an operator ask.                    *)
HookProgress == \E c \in calls : c.run = live /\ (Serve(c) \/ Settle(c))

HookSpec ==
    /\ \E d \in Deps, e \in BOOLEAN : HookInit(d, e)
    /\ [][HookNext]_hookVars
    /\ WF_hookVars(HookProgress)
-----------------------------------------------------------------------------
HookTypeOK ==
    /\ deps \in Deps /\ enabled \in BOOLEAN
    /\ data \in [of : Deps, at : Nat] \cup {Undefined}
    /\ loading \in BOOLEAN /\ error \in BOOLEAN
    /\ live \in Nat /\ asks \in Nat /\ asked \in Nat /\ world \in Nat
    /\ calls \subseteq [run : Nat, of : Deps, st : {"sent", "ok", "failed"}, at : Nat]

(* What a page shows when the hook says that nothing is loading and that   *)
(* nothing failed answers what the page asks for now, and was read after   *)
(* it asked: a change made before a refetch is seen, and no answer to an   *)
(* earlier page, filter or refetch ends up on the screen, in whatever      *)
(* order the answers arrive.                                               *)
ShownIsOfCurrent ==
    enabled /\ ~loading /\ ~error => data # Undefined /\ data.of = deps /\ data.at >= asked

(* It says that it is loading exactly while its last call is under way:    *)
(* cancelled calls neither end that nor keep it up.                        *)
LoadingIsTrue == loading <=> \E c \in calls : c.run = live

(* The hook keeps the promise of LatestAnswer.                             *)
Phase == IF ~enabled THEN "off" ELSE IF loading THEN "waiting" ELSE IF error THEN "failed" ELSE "answered"

Latest == INSTANCE LatestAnswer WITH
    Wants <- Deps, want <- deps, since <- asked, phase <- Phase, shown <- data, now <- world

KeepsPromise == Latest!Spec

(* A page that stops asking is told, in the end, that the data is there or *)
(* that it could not be had.                                               *)
StopsLoading == []<>~loading
=============================================================================
