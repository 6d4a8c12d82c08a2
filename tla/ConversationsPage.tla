-------------------------- MODULE ConversationsPage --------------------------
(***************************************************************************)
(* The page of logged conversations (ui/src/pages/Conversations.tsx): a    *)
(* table by page and filter, loaded with the hook of AsyncData, and under  *)
(* it the conversation whose row was clicked.  The four filters of the     *)
(* page work alike; one of them, the tenant, stands for all.  Of the log   *)
(* it matters which tenants it has conversations of.                       *)
(***************************************************************************)
EXTENDS AsyncData, AdminPage

CONSTANTS
    LogTenants,  \* tenants with conversations in the log
    Expired,     \* those of them whose conversations are purged meanwhile
    Talks,       \* conversations
    LogPages     \* number of pages of the log

ASSUME LogAssumption == LogPages \in Nat \ {0}

VARIABLES
    cvDetail,    \* detail: the conversation under the table
    cvFailed,    \* detailError
    cvWanted,    \* history: the row clicked last, None if it was collapsed
    cvOverlap    \* history: a row was clicked while a conversation was loading

cvVars == <<cvDetail, cvFailed, cvWanted, cvOverlap>>

(* What the list is asked for: a page, and a tenant or "" for all.         *)
ConvDeps == [page : 1 .. LogPages, filter : LogTenants \cup {""}]

ConvInit ==
    /\ HookInit([page |-> 1, filter |-> ""], TRUE)
    /\ PageInit({})
    /\ cvDetail = None /\ cvFailed = FALSE /\ cvWanted = None /\ cvOverlap = FALSE

(* The tenants of the conversations the answer of the hook holds.          *)
InLog(at) == IF at = 0 THEN LogTenants ELSE LogTenants \ Expired
RowTenants ==
    IF data = Undefined THEN {}
    ELSE IF data.of.filter = "" THEN InLog(data.at) ELSE InLog(data.at) \cap {data.of.filter}

(* A select offers the values that occur in the rows, and shows the first  *)
(* of its options, "All", for a value it does not have.                    *)
FilterShown == IF deps.filter \in RowTenants THEN deps.filter ELSE ""
-----------------------------------------------------------------------------
SetFilter ==
    /\ \E f \in RowTenants \cup {""} : Render([page |-> 1, filter |-> f], TRUE)
    /\ UNCHANGED <<pageVars, cvVars>>

TurnPage ==
    /\ RowTenants # {}
    /\ \E p \in {deps.page - 1, deps.page + 1} \cap (1 .. LogPages) :
         Render([deps EXCEPT !.page = p], TRUE)
    /\ UNCHANGED <<pageVars, cvVars>>

OpenDetail ==
    /\ Click
    /\ RowTenants # {}
    /\ \E id \in Talks \ {cvDetail} : cvWanted' = id /\ flight' = flight \cup {Ask(flight, "detail", id)}
    /\ cvFailed' = FALSE
    /\ cvOverlap' = (cvOverlap \/ flight # {})
    /\ UNCHANGED <<faults, raced, hookVars, cvDetail>>

(* A click on the row of the conversation that is shown, or on its button. *)
Collapse ==
    /\ cvDetail # None
    /\ cvDetail' = None /\ cvWanted' = None
    /\ cvOverlap' = (cvOverlap \/ flight # {})
    /\ UNCHANGED <<pageVars, cvFailed, hookVars>>

ServeDetail ==
    /\ \E r \in flight : r.st = "sent" /\ (Answer(r, "ok", r.row, {}) \/ Lose(r))
    /\ UNCHANGED <<cvVars, hookVars>>

DetailArrives ==
    /\ \E r \in flight :
         /\ r.st # "sent"
         /\ IF r.st = "ok"
            THEN cvDetail' = r.row /\ UNCHANGED cvFailed
            ELSE cvDetail' = None /\ cvFailed' = TRUE
         /\ Finish(r)
    /\ UNCHANGED <<clicks, faults, cvWanted, cvOverlap, hookVars>>

ConvNext ==
    \/ SetFilter \/ TurnPage \/ OpenDetail \/ Collapse \/ ServeDetail \/ DetailArrives
    \/ (HookAnswers \/ ChangeWorld) /\ UNCHANGED <<pageVars, cvVars>>
-----------------------------------------------------------------------------
(* What the selects show is what the table below was asked for, once it is *)
(* loaded and has rows: although their options are made of the rows, which *)
(* belong to the last answer and not to the filter, the two fit together.  *)
FiltersShownAreAskedFor ==
    ~loading /\ ~error /\ RowTenants # {} => FilterShown = deps.filter

(* The conversation under the table is the one clicked last and not        *)
(* collapsed since, and an error is told of it alone, unless a row was     *)
(* clicked while another conversation was loading: their answers are not   *)
(* told apart, and a late one opens again what was collapsed.              *)
DetailIsOfRow ==
    \/ cvOverlap
    \/ /\ cvDetail # None /\ flight = {} => cvDetail = cvWanted /\ ~cvFailed
       /\ cvFailed => cvDetail = None /\ flight = {}
=============================================================================
