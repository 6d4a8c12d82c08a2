----------------------------- MODULE StatusPage -----------------------------
(***************************************************************************)
(* The status of the gateway in the settings (ui/src/pages/Settings.tsx):  *)
(* loaded when the page is opened and on demand, nothing is cancelled.     *)
(***************************************************************************)
EXTENDS AdminPage

CONSTANT MaxStatus   \* bound on the changes of the status

ASSUME StatusAssumption == MaxStatus \in Nat /\ None \notin Nat

VARIABLES
    stStatus,   \* status: what it was read as; None: null
    stLoading,  \* loading
    stError,    \* error is not ""
    stNow,      \* the status there is: number of its changes
    stAsked     \* history: stNow when it was asked for last

stUI == <<stStatus, stLoading, stError>>
stVars == <<stUI, stNow, stAsked>>

StatusInit ==
    /\ stStatus = None /\ stLoading = TRUE /\ stError = FALSE
    /\ stNow = 0 /\ stAsked = 0
    /\ PageInit({Ask({}, "status", 0)})

(* The button is there once something has come, if only a failure, and     *)
(* stays while a status is on the screen.                                  *)
StatusRefresh ==
    /\ ~stLoading \/ stStatus # None
    /\ Click
    /\ Send({}, "status", 0)
    /\ stLoading' = TRUE
    /\ stAsked' = stNow
    /\ UNCHANGED <<faults, stStatus, stError, stNow>>

ServeStatus ==
    /\ \E r \in flight : r.st = "sent" /\ (Answer(r, "ok", stNow, {}) \/ Lose(r))
    /\ UNCHANGED stVars

StatusArrives ==
    /\ \E r \in flight :
         /\ r.st # "sent"
         /\ stStatus' = IF r.st = "ok" THEN r.row ELSE stStatus
         /\ stError' = (r.st # "ok")
         /\ Finish(r)
    /\ stLoading' = FALSE
    /\ UNCHANGED <<clicks, faults, stNow, stAsked>>

StatusChanges ==
    /\ stNow < MaxStatus
    /\ stNow' = stNow + 1
    /\ UNCHANGED <<pageVars, stUI, stAsked>>

StatusNext == StatusRefresh \/ ServeStatus \/ StatusArrives \/ StatusChanges
-----------------------------------------------------------------------------
(* Once nothing is loading there is a status or an error on the screen,    *)
(* and with no error the status is not older than the last refresh, unless *)
(* that was asked for while another was loading: nothing is cancelled.     *)
StatusIsKnown ==
    flight = {} =>
      /\ ~stLoading
      /\ ~stError => stStatus # None /\ (raced \/ stStatus >= stAsked)
=============================================================================
