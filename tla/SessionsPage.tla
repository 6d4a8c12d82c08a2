----------------------------- MODULE SessionsPage -----------------------------
(***************************************************************************)
(* The page of sessions (ui/src/pages/Sessions.tsx), which loads its list  *)
(* with the hook of AsyncData, again every few seconds and after each      *)
(* thing the operator does.  The handlers of the server that close and     *)
(* extend sessions want the tenant of an API key in the request's context, *)
(* which an administrator's request never has: they refuse with 401.  The  *)
(* page does not look at the status.  So the sessions change by themselves *)
(* only, from one of Snapshots to the next.                                *)
(***************************************************************************)
EXTENDS AsyncData, AdminPage

CONSTANTS
    SessionIds,
    Snapshots   \* the sessions there are in each state of the world

ASSUME SnapshotsAssumption == Snapshots \in [0 .. MaxWorld -> SUBSET SessionIds]

VARIABLES
    ssAuto,      \* whether refreshSec > 0
    ssTo,        \* the range shown ends here; MaxWorld for "all"
    ssSelected,  \* selected
    ssConfirm,   \* confirmTarget: the sessions asked about, {} for selected
    ssClosing,   \* closing
    ssActed,     \* history: when the last request that was answered was refused
    ssMoved      \* history: the rows changed while some were selected

ssUI == <<ssAuto, ssTo, ssSelected, ssConfirm, ssClosing>>
ssVars == <<ssUI, ssActed, ssMoved>>

(* The list is asked for without any parameter.                            *)
SessDeps == [page : {0}, filter : {""}]
Bulk == {}

SessInit ==
    /\ HookInit([page |-> 0, filter |-> ""], TRUE)
    /\ PageInit({})
    /\ ssAuto = TRUE /\ ssTo = 0 /\ ssSelected = {}
    /\ ssConfirm = None /\ ssClosing = FALSE
    /\ ssActed = 0 /\ ssMoved = FALSE

Born(id) == CHOOSE w \in DOMAIN Snapshots :
              id \in Snapshots[w] /\ \A v \in 0 .. w - 1 : id \notin Snapshots[v]

(* The rows: of the sessions in the last answer those created in range.    *)
SessionRows ==
    IF data = Undefined THEN {} ELSE {id \in Snapshots[data.at] : Born(id) <= ssTo}

Uncovered == ssConfirm = None
-----------------------------------------------------------------------------
(* The interval, which the dialog does not stop, and the Refresh button.   *)
RefreshRows ==
    /\ ssAuto \/ Uncovered
    /\ Refetch
    /\ UNCHANGED <<pageVars, ssVars>>

SwitchAuto ==
    /\ Uncovered
    /\ Click
    /\ ssAuto' = ~ssAuto
    /\ UNCHANGED <<flight, faults, raced, hookVars, ssTo, ssSelected, ssConfirm, ssClosing, ssActed, ssMoved>>

(* A preset ends now, and not at whatever is now later on.                 *)
PickRange ==
    /\ Uncovered
    /\ Click
    /\ ssTo' \in {world, MaxWorld} \ {ssTo}
    /\ ssMoved' = (ssMoved \/ ssSelected # {})
    /\ UNCHANGED <<flight, faults, raced, hookVars, ssAuto, ssSelected, ssConfirm, ssClosing, ssActed>>

ToggleSelect ==
    \E id \in SessionRows :
      ssSelected' = IF id \in ssSelected THEN ssSelected \ {id} ELSE ssSelected \cup {id}

(* The box in the header compares numbers, not sets.                       *)
ToggleSelectAll ==
    /\ SessionRows # {}
    /\ ssSelected' = IF Cardinality(ssSelected) = Cardinality(SessionRows) THEN {} ELSE SessionRows

Select ==
    /\ Uncovered
    /\ ToggleSelect \/ ToggleSelectAll
    /\ UNCHANGED <<pageVars, hookVars, ssAuto, ssTo, ssConfirm, ssClosing, ssActed, ssMoved>>

HandleClose ==
    /\ Uncovered
    /\ \/ \E id \in SessionRows : ssConfirm' = {id}
       \/ ssSelected # {} /\ ssConfirm' = Bulk
    /\ UNCHANGED <<pageVars, hookVars, ssAuto, ssTo, ssSelected, ssClosing, ssActed, ssMoved>>

CancelClose ==
    /\ ssConfirm # None
    /\ ssConfirm' = None
    /\ UNCHANGED <<pageVars, hookVars, ssAuto, ssTo, ssSelected, ssClosing, ssActed, ssMoved>>

Post(kind, row) == flight' = flight \cup {Ask(flight, kind, row)}

(* Mutant of ConfirmAction: while another batch is closing. *)
ConfirmActionAgain ==
    /\ ssConfirm # None
    /\ Click
    /\ Post("close", [ids |-> ssConfirm, bulk |-> FALSE, rows |-> {}, at |-> 0])
    /\ ssClosing' = TRUE /\ ssConfirm' = None
    /\ UNCHANGED <<faults, raced, hookVars, ssAuto, ssTo, ssSelected, ssActed, ssMoved>>

(* The dialog goes at once.  The requests of a batch are awaited together. *)
ConfirmAction ==
    /\ ssConfirm # None /\ ~ssClosing
    /\ Click
    /\ Post("close", [ids |-> IF ssConfirm = Bulk THEN ssSelected ELSE ssConfirm,
                      bulk |-> ssConfirm = Bulk, rows |-> SessionRows, at |-> 0])
    /\ ssClosing' = TRUE /\ ssConfirm' = None
    /\ UNCHANGED <<faults, raced, hookVars, ssAuto, ssTo, ssSelected, ssActed, ssMoved>>

HandleExtend ==
    /\ Uncovered
    /\ Click
    /\ \E id \in SessionRows : Post("extend", [ids |-> {id}, bulk |-> FALSE, rows |-> {}, at |-> 0])
    /\ UNCHANGED <<faults, raced, hookVars, ssVars>>
-----------------------------------------------------------------------------
Refuse ==
    /\ \E r \in flight :
         r.st = "sent" /\ (Answer(r, "ok", [r.row EXCEPT !.at = world], {}) \/ Lose(r))
    /\ UNCHANGED <<hookVars, ssVars>>

(* Mutant of Acted: nothing is loaded again. *)
ActedUnloaded ==
    /\ \E r \in flight :
         /\ r.st # "sent"
         /\ ssClosing' = (ssClosing /\ r.kind # "close")
         /\ ssActed' = IF r.st = "ok" THEN r.row.at ELSE ssActed
         /\ Finish(r)
    /\ UNCHANGED <<clicks, faults, hookVars, ssAuto, ssTo, ssSelected, ssConfirm, ssMoved>>

(* Whatever the answers say, the sessions are told to be closed, are no    *)
(* longer selected, and the list is loaded again.  Only if no answer came  *)
(* is a failure told.                                                      *)
Acted ==
    /\ \E r \in flight :
         /\ r.st # "sent"
         /\ ssClosing' = (ssClosing /\ r.kind # "close")
         /\ IF r.st = "ok"
            THEN /\ ssSelected' = IF r.kind = "close" THEN ssSelected \ r.row.ids ELSE ssSelected
                 /\ ssActed' = IF r.row.at > ssActed THEN r.row.at ELSE ssActed
                 /\ Refetch
            ELSE UNCHANGED <<ssSelected, ssActed, hookVars>>
         /\ Finish(r)
    /\ UNCHANGED <<clicks, faults, ssAuto, ssTo, ssConfirm, ssMoved>>

(* The list arrives.                                                       *)
SessionsArrive ==
    /\ UNCHANGED <<pageVars, ssUI, ssActed>>
    /\ HookAnswers
    /\ ssMoved' = (ssMoved \/ (ssSelected # {} /\ SessionRows' # SessionRows))

SessNext ==
    \/ RefreshRows \/ SwitchAuto \/ PickRange \/ Select \/ HandleClose \/ CancelClose
    \/ ConfirmAction \/ HandleExtend \/ Refuse \/ Acted \/ SessionsArrive
    \/ ChangeWorld /\ UNCHANGED <<pageVars, ssVars>>
-----------------------------------------------------------------------------
(* The table, once it says that nothing is loading and nothing failed, was *)
(* read after the last thing the operator did was answered by the server,  *)
(* however its refetch met those of the interval.                          *)
RowsReadAfterActing ==
    enabled /\ ~loading /\ ~error => data.at >= ssActed

(* "Close 3 selected" closes sessions that were on the screen when it was  *)
(* confirmed, unless the rows changed after they were selected, which does *)
(* not change the selection.                                               *)
BulkIsOnScreen ==
    \A r \in flight : r.kind = "close" /\ r.row.bulk => r.row.ids \subseteq r.row.rows \/ ssMoved

(* One batch is closed at a time, and the dialog is busy just as long.     *)
OneBatchAtATime ==
    LET batches == {r \in flight : r.kind = "close"}
    IN  Cardinality(batches) <= 1 /\ (ssClosing <=> batches # {})
=============================================================================
