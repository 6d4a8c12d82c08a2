------------------------------ MODULE RoutingPage ------------------------------
(***************************************************************************)
(* The page of the routing configuration (ui/src/pages/Routing.tsx):       *)
(* providers, rules and cost rates, each row edited in one dialog and      *)
(* deleted in another, with the handlers and the registry behind them      *)
(* (routing_handler.go, routing_registry.go).  A row is its kind, its name *)
(* and what else it holds: the API keys of a provider, the providers of a  *)
(* route, or a version of a rate.  Of an API key it matters whether it is  *)
(* one in use, one the operator has typed, or the masked form of a key,    *)
(* "abc***xyz".                                                            *)
(***************************************************************************)
EXTENDS AdminPage, Sequences

CONSTANTS
    Names,
    MaxKeys     \* bound on the API keys of a provider

VARIABLES
    rtDb,        \* what the server stores
    rtList,      \* providers, rules and rates of the last load
    rtLoading,   \* loading
    rtEditor,    \* what the open CrudModal holds; None when it is closed
    rtDialog,    \* deleting
    rtBusy,      \* busy
    rtEarly,     \* history: an editor was opened while a save was under way
    rtGuess      \* history: masked keys were opened while a request was under
                 \* way, or put under another name

rtUI == <<rtList, rtLoading, rtEditor, rtDialog, rtBusy>>
rtPast == <<rtEarly, rtGuess>>
rtVars == <<rtDb, rtUI, rtPast>>

Secrets == Seq({"used", "typed", "masked"})
RowNamed(names) ==
    [kind : {"provider"}, name : names, val : Secrets] \cup
    [kind : {"route"}, name : names, val : SUBSET Names] \cup
    [kind : {"rate"}, name : names, val : 1 .. 2]
RoutingRow == RowNamed(Names)
Editor == [row : RowNamed(Names \cup {None}), sent : BOOLEAN]

\* A closed editor is told from every open one.
ASSUME EditorAssumption == None \notin Editor

NewProvider == [kind |-> "provider", name |-> None, val |-> <<>>]

HasMask(row) == row.kind = "provider" /\ \E i \in DOMAIN row.val : row.val[i] = "masked"

RoutingLoads == {"list", "relist"}

RoutingMounted ==
    /\ rtList' = {} /\ rtLoading' = TRUE
    /\ rtEditor' = None /\ rtDialog' = None /\ rtBusy' = FALSE

RoutingInit ==
    /\ \E n \in Names :
         rtDb \in {{}, {[kind |-> "rate", name |-> n, val |-> 1]},
                   {[kind |-> "provider", name |-> n, val |-> <<"used", "used">>],
                    [kind |-> "route", name |-> n, val |-> Names]}}
    /\ rtList = {} /\ rtLoading = TRUE
    /\ rtEditor = None /\ rtDialog = None /\ rtBusy = FALSE
    /\ rtEarly = FALSE /\ rtGuess = FALSE
    /\ PageInit({Ask({}, "list", None)})
-----------------------------------------------------------------------------
(* What the server does with the page's requests.                          *)

SameRow(a, b) == a.kind = b.kind /\ a.name = b.name

(* The API keys of a provider are masked in every answer.                  *)
AsShown(row) ==
    IF row.kind = "provider"
    THEN [row EXCEPT !.val = [i \in DOMAIN row.val |-> "masked"]]
    ELSE row

(* The row that one is written over, or itself when it is new.             *)
Previous(row) ==
    IF \E q \in rtDb : SameRow(q, row) THEN CHOOSE q \in rtDb : SameRow(q, row) ELSE row

(* A masked key stands for the one stored at its place, when there is one. *)
Preserved(keys, stored) ==
    [i \in DOMAIN keys |->
        IF keys[i] = "masked" /\ i <= Len(stored) THEN stored[i] ELSE keys[i]]

AsStored(row) ==
    IF row.kind = "provider"
    THEN [row EXCEPT !.val = Preserved(row.val, Previous(row).val)]
    ELSE row

(* A provider that goes is taken out of every route first.  The statement  *)
(* fails as a whole, and the failure is ignored, when that would leave a   *)
(* route with none: jsonb_agg of nothing is NULL, which the column refuses.*)
Stripped(name) ==
    IF \E row \in rtDb : row.kind = "route" /\ row.val = {name}
    THEN rtDb
    ELSE {IF row.kind = "route" THEN [row EXCEPT !.val = @ \ {name}] ELSE row : row \in rtDb}

Without(row) ==
    {q \in (IF row.kind = "provider" THEN Stripped(row.name) ELSE rtDb) : ~SameRow(q, row)}

ServeRouting(r) ==
    /\ r.kind \in RoutingLoads
    /\ Answer(r, "ok", r.row, {AsShown(row) : row \in rtDb})
    /\ UNCHANGED rtDb

(* Mutant of ServeUpsert: the row is stored as it was sent. *)
ServeUpsertAsSent(r) ==
    /\ r.kind = "save"
    /\ rtDb' = {row \in rtDb : ~SameRow(row, r.row)} \cup {r.row}
    /\ Answer(r, "ok", r.row, {})

(* The row of that name is written over, or a new one is made.             *)
ServeUpsert(r) ==
    /\ r.kind = "save"
    /\ rtDb' = {row \in rtDb : ~SameRow(row, r.row)} \cup {AsStored(r.row)}
    /\ Answer(r, "ok", r.row, {})

(* Nothing to delete is a 404, after the routes were stripped all the same. *)
ServeDeleteRow(r) ==
    /\ r.kind = "delete"
    /\ rtDb' = Without(r.row)
    /\ Answer(r, IF \E q \in rtDb : SameRow(q, r.row) THEN "ok" ELSE "failed", r.row, {})

RoutingServer ==
    \E r \in flight :
      /\ r.st = "sent"
      /\ ServeRouting(r) \/ ServeUpsert(r) \/ ServeDeleteRow(r)
      /\ UNCHANGED <<rtUI, rtPast>>
-----------------------------------------------------------------------------
(* What the operator does.                                                 *)

RoutingUncovered == rtEditor = None /\ rtDialog = None

(* Every card and every line of the tables can be edited, and a provider   *)
(* can be added.                                                           *)
OpenEditor ==
    /\ RoutingUncovered
    /\ \E row \in rtList \cup {NewProvider} :
         /\ rtEditor' = [row |-> row, sent |-> FALSE]
         /\ rtGuess' = (rtGuess \/ (HasMask(row) /\ flight # {}))
    /\ rtEarly' = (rtEarly \/ \E r \in flight : r.kind = "save" /\ r.mine)
    /\ UNCHANGED <<flight, raced, rtList, rtLoading, rtDialog, rtBusy>>

(* Every field can be changed, the name too.  Keys are added to those the  *)
(* field shows, or typed in their place; values that cannot be saved are   *)
(* left out.                                                               *)
Retyped(keys) ==
    {<<"typed">>}
      \cup {[keys EXCEPT ![i] = "typed"] : i \in DOMAIN keys}
      \cup (IF Len(keys) < MaxKeys THEN {Append(keys, "typed")} ELSE {})

Values(row) ==
    CASE row.kind = "provider" -> Retyped(row.val)
      [] row.kind = "route" -> SUBSET Names \ {{}}
      [] row.kind = "rate" -> 1 .. 2

FillEditor ==
    /\ rtEditor # None
    /\ \/ \E n \in Names :
            /\ rtEditor' = [rtEditor EXCEPT !.row.name = n]
            /\ rtGuess' = (rtGuess \/ (HasMask(rtEditor.row) /\ n # rtEditor.row.name))
       \/ /\ \E v \in Values(rtEditor.row) : rtEditor' = [rtEditor EXCEPT !.row.val = v]
          /\ UNCHANGED rtGuess
    /\ UNCHANGED <<pageVars, rtDb, rtList, rtLoading, rtDialog, rtBusy, rtEarly>>

(* A provider needs a name and a key that is not masked: one saved with    *)
(* the keys as they are shown is refused; a route needs a provider.  The   *)
(* whole form is sent.                                                     *)
Submittable(row) ==
    /\ row.name # None
    /\ row.kind = "provider" => \E i \in DOMAIN row.val : row.val[i] # "masked"
    /\ row.kind = "route" => row.val # {}

SaveEditor ==
    /\ rtEditor # None
    /\ Submittable(rtEditor.row)
    /\ Send({}, "save", rtEditor.row)
    /\ rtEditor' = [rtEditor EXCEPT !.sent = TRUE]
    /\ UNCHANGED <<rtList, rtLoading, rtDialog, rtBusy, rtPast>>

CloseEditor ==
    /\ rtEditor # None
    /\ rtEditor' = None
    /\ UNCHANGED <<flight, raced, rtList, rtLoading, rtDialog, rtBusy, rtPast>>

AskDeleteRow ==
    /\ RoutingUncovered
    /\ rtDialog' \in rtList
    /\ UNCHANGED <<flight, raced, rtList, rtLoading, rtEditor, rtBusy, rtPast>>

CancelDeleteRow ==
    /\ rtDialog # None
    /\ rtDialog' = None
    /\ UNCHANGED <<flight, raced, rtList, rtLoading, rtEditor, rtBusy, rtPast>>

ConfirmDeleteRow ==
    /\ rtDialog # None /\ ~rtBusy
    /\ rtBusy' = TRUE
    /\ Send({}, "delete", rtDialog)
    /\ UNCHANGED <<rtList, rtLoading, rtEditor, rtDialog, rtPast>>

RevisitRouting ==
    /\ RoutingMounted
    /\ LET left == Orphan(RoutingLoads) IN flight' = left \cup {Ask(left, "list", None)}
    /\ raced' = (raced \/ flight # {})
    /\ UNCHANGED rtPast

RoutingOperator ==
    \/ FillEditor
    \/ /\ Click
       /\ \/ OpenEditor \/ SaveEditor \/ CloseEditor
          \/ AskDeleteRow \/ CancelDeleteRow \/ ConfirmDeleteRow \/ RevisitRouting
       /\ UNCHANGED <<faults, rtDb>>
-----------------------------------------------------------------------------
(* What the handlers do when their answers arrive.                         *)

(* Mutant of RoutingLoaded: an open editor is closed. *)
RoutingLoadedCloses(r) ==
    /\ r.kind \in RoutingLoads
    /\ rtList' = r.rows /\ rtLoading' = FALSE /\ rtBusy' = FALSE /\ rtEditor' = None
    /\ Finish(r)
    /\ UNCHANGED rtDialog

RoutingLoaded(r) ==
    /\ r.kind \in RoutingLoads
    /\ rtList' = IF r.st = "ok" THEN r.rows ELSE rtList
    /\ rtLoading' = FALSE
    /\ rtBusy' = (rtBusy /\ r.kind # "relist")
    /\ Finish(r)
    /\ UNCHANGED <<rtEditor, rtDialog>>

(* A save that went well closes the editor, whichever is open by then.     *)
RowSaved(r) ==
    /\ r.kind = "save"
    /\ IF r.st = "ok"
       THEN rtEditor' = None /\ rtLoading' = TRUE /\ Send({r}, "list", None)
       ELSE Finish(r) /\ UNCHANGED <<rtEditor, rtLoading>>
    /\ UNCHANGED <<rtList, rtDialog, rtBusy>>

RowDeleted(r) ==
    /\ r.kind = "delete"
    /\ IF r.st = "ok"
       THEN /\ rtDialog' = None /\ rtLoading' = TRUE
            /\ Send({r}, "relist", None)
            /\ UNCHANGED rtBusy
       ELSE rtBusy' = FALSE /\ Finish(r) /\ UNCHANGED <<rtDialog, rtLoading>>
    /\ UNCHANGED <<rtList, rtEditor>>

RoutingAnswered ==
    /\ \E r \in flight :
         /\ r.st # "sent"
         /\ IF r.mine
            THEN RoutingLoaded(r) \/ RowSaved(r) \/ RowDeleted(r)
            ELSE Finish(r) /\ UNCHANGED rtUI
    /\ UNCHANGED <<clicks, faults, rtDb, rtPast>>

RoutingNext ==
    \/ RoutingServer \/ RoutingOperator \/ RoutingAnswered
    \/ \E r \in flight : Lose(r) /\ UNCHANGED rtVars

RoutingSpec == RoutingInit /\ [][RoutingNext]_<<pageVars, rtVars>>
-----------------------------------------------------------------------------
RoutingTypeOK ==
    /\ rtDb \subseteq RoutingRow /\ rtList \subseteq RoutingRow
    /\ \A a, b \in rtDb : SameRow(a, b) => a = b
    /\ rtDialog \in RoutingRow \cup {None}
    /\ rtEditor \in Editor \cup {None}
    /\ {rtLoading, rtBusy, rtEarly, rtGuess} \subseteq BOOLEAN

(* Once nothing is under way the page shows the rows the server has, but   *)
(* for the keys, unless requests overlapped or failed on the way; a row    *)
(* renamed in the editor shows under both names, as the server has both.   *)
RoutingListTrue == Quiet => rtList = {AsShown(row) : row \in rtDb}

(* No API key is stored in its masked form, whatever is loaded, edited and *)
(* sent: the registry puts the stored keys back by their places            *)
(* (preserveMaskedSecrets).  It cannot for masked keys that were opened    *)
(* before a change under way was shown, or that were put under another     *)
(* name, nor when requests overlapped or failed on the way.                *)
MasksAreNeverStored ==
    (\E row \in rtDb : HasMask(row)) => rtGuess \/ raced \/ faults # 0

(* An editor with changes that were not sent closes only when the operator *)
(* closes it, unless it was opened while an earlier save was under way:    *)
(* the late success of that save closes whichever editor is open.          *)
EditorStays ==
    [][rtEditor # None /\ rtEditor' = None => clicks' # clicks \/ rtEditor.sent \/ rtEarly]_<<rtEditor, clicks, rtEarly>>
=============================================================================
