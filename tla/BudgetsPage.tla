------------------------------ MODULE BudgetsPage ------------------------------
(***************************************************************************)
(* The page of budgets (ui/src/pages/Budgets.tsx): an operator creates     *)
(* budgets with a form, switches them on and off, deletes them and looks   *)
(* at what was spent on one.  Tenants have one virtual key each, which is  *)
(* named by its tenant.  Of the spend history only its budget matters.     *)
(***************************************************************************)
EXTENDS AdminPage

CONSTANTS BudgetIds, Tenants

VARIABLES
    budDb,       \* budgets, as the server has them
    budList,     \* budgets: the rows of the last load
    budKnown,    \* tenants and keys: those the last load found
    budLoading,  \* loading
    budForm,     \* modalOpen and what the form holds; None when it is closed
    budDialog,   \* deleting
    budBusy,     \* busy
    budTitle,    \* historyOf: the budget whose history is open
    budEntries,  \* history: the budget its entries belong to; None without any
    budCrossed   \* history: one spend history was asked for during another

budUI == <<budList, budKnown, budLoading, budForm, budDialog, budBusy, budTitle, budEntries>>
budVars == <<budDb, budUI, budCrossed>>

BudgetRow == [id : BudgetIds, tenant : Tenants, key : Tenants \cup {None}, enabled : BOOLEAN]
BudgetForm == [tenant : Tenants \cup {None}, scope : {"tenant", "key"}, key : Tenants \cup {None}]
BudgetLoads == {"list", "relist", "history"}

BudgetsMounted ==
    /\ budList' = {} /\ budKnown' = {} /\ budLoading' = TRUE
    /\ budForm' = None /\ budDialog' = None /\ budBusy' = FALSE
    /\ budTitle' = None /\ budEntries' = None

BudgetsInit ==
    /\ \E ids \in SUBSET BudgetIds : \E t \in Tenants :
         budDb = {[id |-> i, tenant |-> t, key |-> None, enabled |-> TRUE] : i \in ids}
    /\ budList = {} /\ budKnown = {} /\ budLoading = TRUE
    /\ budForm = None /\ budDialog = None /\ budBusy = FALSE
    /\ budTitle = None /\ budEntries = None
    /\ budCrossed = FALSE
    /\ PageInit({Ask({}, "list", None)})
-----------------------------------------------------------------------------
(* What the server does with the page's requests.                          *)

ServeBudgets(r) ==
    /\ r.kind \in BudgetLoads
    /\ Answer(r, "ok", r.row, budDb)
    /\ UNCHANGED budDb

ServeCreateBudget(r) ==
    /\ r.kind = "create"
    /\ \E i \in BudgetIds \ {b.id : b \in budDb} :
         budDb' = budDb \cup {[id |-> i, tenant |-> r.row.tenant, key |-> r.row.key, enabled |-> TRUE]}
    /\ Answer(r, "ok", r.row, {})

(* PATCH leaves alone what the request does not name.                      *)
ServeToggleBudget(r) ==
    /\ r.kind = "toggle"
    /\ budDb' = {IF b.id = r.row.id THEN [b EXCEPT !.enabled = ~r.row.enabled] ELSE b : b \in budDb}
    /\ Answer(r, IF \E b \in budDb : b.id = r.row.id THEN "ok" ELSE "failed", r.row, {})

ServeDeleteBudget(r) ==
    /\ r.kind = "delete"
    /\ budDb' = {b \in budDb : b.id # r.row.id}
    /\ Answer(r, IF budDb' = budDb THEN "failed" ELSE "ok", r.row, {})

BudgetsServer ==
    \E r \in flight :
      /\ r.st = "sent"
      /\ ServeBudgets(r) \/ ServeCreateBudget(r) \/ ServeToggleBudget(r) \/ ServeDeleteBudget(r)
      /\ UNCHANGED <<budUI, budCrossed>>
-----------------------------------------------------------------------------
(* What the operator does.                                                 *)

BudgetsUncovered == budForm = None /\ budDialog = None /\ budTitle = None

(* The form starts with the first tenant there is when it is opened.       *)
OpenBudgetForm ==
    /\ BudgetsUncovered
    /\ budForm' = [tenant |-> IF budKnown = {} THEN None ELSE CHOOSE t \in budKnown : TRUE,
                   scope |-> "tenant", key |-> None]
    /\ UNCHANGED <<flight, raced, budList, budKnown, budLoading, budDialog, budBusy, budTitle, budEntries, budCrossed>>

(* Another tenant has other keys: the one that was chosen is forgotten.    *)
PickTenant(form) == {[form EXCEPT !.tenant = t, !.key = None] : t \in budKnown \ {form.tenant}}
PickScope(form) == {[form EXCEPT !.scope = s] : s \in {"tenant", "key"}}
PickKey(form) == {[form EXCEPT !.key = k] : k \in (budKnown \cap {form.tenant}) \cup {None}}

FillBudgetForm ==
    /\ budForm # None
    /\ budForm' \in PickTenant(budForm) \cup PickScope(budForm)
                      \cup (IF budForm.scope = "key" THEN PickKey(budForm) ELSE {})
    /\ UNCHANGED <<pageVars, budDb, budList, budKnown, budLoading, budDialog, budBusy, budTitle, budEntries, budCrossed>>

SubmitBudget ==
    /\ budForm # None
    /\ budForm.tenant # None
    /\ budForm.scope = "key" => budForm.key # None
    /\ Send({}, "create", [tenant |-> budForm.tenant,
                           key |-> IF budForm.scope = "key" THEN budForm.key ELSE None])
    /\ UNCHANGED <<budUI, budCrossed>>

CloseBudgetForm ==
    /\ budForm # None
    /\ budForm' = None
    /\ UNCHANGED <<flight, raced, budList, budKnown, budLoading, budDialog, budBusy, budTitle, budEntries, budCrossed>>

ToggleBudget ==
    /\ BudgetsUncovered
    /\ \E b \in budList : Send({}, "toggle", b)
    /\ UNCHANGED <<budUI, budCrossed>>

AskDeleteBudget ==
    /\ BudgetsUncovered
    /\ budDialog' \in budList
    /\ UNCHANGED <<flight, raced, budList, budKnown, budLoading, budForm, budBusy, budTitle, budEntries, budCrossed>>

CancelDeleteBudget ==
    /\ budDialog # None
    /\ budDialog' = None
    /\ UNCHANGED <<flight, raced, budList, budKnown, budLoading, budForm, budBusy, budTitle, budEntries, budCrossed>>

ConfirmDeleteBudget ==
    /\ budDialog # None /\ ~budBusy
    /\ budBusy' = TRUE
    /\ Send({}, "delete", budDialog)
    /\ UNCHANGED <<budList, budKnown, budLoading, budForm, budDialog, budTitle, budEntries, budCrossed>>

(* Mutant of ShowHistory: the entries before stay. *)
ShowHistoryKeeps ==
    /\ BudgetsUncovered
    /\ \E b \in budList : budTitle' = b.id /\ Send({}, "history", b.id)
    /\ budCrossed' = (budCrossed \/ \E r \in flight : r.kind = "history")
    /\ UNCHANGED <<budList, budKnown, budLoading, budForm, budDialog, budBusy, budEntries>>

ShowHistory ==
    /\ BudgetsUncovered
    /\ \E b \in budList : budTitle' = b.id /\ Send({}, "history", b.id)
    /\ budEntries' = None
    /\ budCrossed' = (budCrossed \/ \E r \in flight : r.kind = "history")
    /\ UNCHANGED <<budList, budKnown, budLoading, budForm, budDialog, budBusy>>

CloseHistory ==
    /\ budTitle # None
    /\ budTitle' = None
    /\ UNCHANGED <<flight, raced, budList, budKnown, budLoading, budForm, budDialog, budBusy, budEntries, budCrossed>>

RevisitBudgets ==
    /\ BudgetsMounted
    /\ LET left == Orphan(BudgetLoads) IN flight' = left \cup {Ask(left, "list", None)}
    /\ raced' = (raced \/ flight # {})
    /\ UNCHANGED budCrossed

BudgetsOperator ==
    \/ FillBudgetForm
    \/ /\ Click
       /\ \/ OpenBudgetForm \/ SubmitBudget \/ CloseBudgetForm \/ ToggleBudget
          \/ AskDeleteBudget \/ CancelDeleteBudget \/ ConfirmDeleteBudget
          \/ ShowHistory \/ CloseHistory \/ RevisitBudgets
       /\ UNCHANGED <<faults, budDb>>
-----------------------------------------------------------------------------
(* What the handlers do when their answers arrive.                         *)

BudgetsLoaded(r) ==
    /\ r.kind \in {"list", "relist"}
    /\ IF r.st = "ok"
       THEN budList' = r.rows /\ budKnown' = Tenants
       ELSE UNCHANGED <<budList, budKnown>>
    /\ budLoading' = FALSE
    /\ budBusy' = (budBusy /\ r.kind # "relist")
    /\ Finish(r)
    /\ UNCHANGED <<budForm, budDialog, budTitle, budEntries>>

BudgetCreated(r) ==
    /\ r.kind = "create"
    /\ IF r.st = "ok"
       THEN budForm' = None /\ budLoading' = TRUE /\ Send({r}, "list", None)
       ELSE Finish(r) /\ UNCHANGED <<budForm, budLoading>>
    /\ UNCHANGED <<budList, budKnown, budDialog, budBusy, budTitle, budEntries>>

BudgetToggled(r) ==
    /\ r.kind = "toggle"
    /\ IF r.st = "ok"
       THEN budLoading' = TRUE /\ Send({r}, "list", None)
       ELSE Finish(r) /\ UNCHANGED budLoading
    /\ UNCHANGED <<budList, budKnown, budForm, budDialog, budBusy, budTitle, budEntries>>

BudgetDeleted(r) ==
    /\ r.kind = "delete"
    /\ IF r.st = "ok"
       THEN /\ budDialog' = None /\ budLoading' = TRUE
            /\ Send({r}, "relist", None)
            /\ UNCHANGED budBusy
       ELSE budBusy' = FALSE /\ Finish(r) /\ UNCHANGED <<budDialog, budLoading>>
    /\ UNCHANGED <<budList, budKnown, budForm, budTitle, budEntries>>

(* Whatever history is open by now is given the entries.                   *)
HistoryArrives(r) ==
    /\ r.kind = "history"
    /\ budEntries' = IF r.st = "ok" THEN r.row ELSE budEntries
    /\ Finish(r)
    /\ UNCHANGED <<budList, budKnown, budLoading, budForm, budDialog, budBusy, budTitle>>

BudgetsAnswered ==
    /\ \E r \in flight :
         /\ r.st # "sent"
         /\ IF r.mine
            THEN \/ BudgetsLoaded(r) \/ BudgetCreated(r) \/ BudgetToggled(r)
                 \/ BudgetDeleted(r) \/ HistoryArrives(r)
            ELSE Finish(r) /\ UNCHANGED budUI
    /\ UNCHANGED <<clicks, faults, budDb, budCrossed>>

BudgetsNext ==
    \/ BudgetsServer \/ BudgetsOperator \/ BudgetsAnswered
    \/ \E r \in flight : Lose(r) /\ UNCHANGED budVars

BudgetsSpec == BudgetsInit /\ [][BudgetsNext]_<<pageVars, budVars>>
-----------------------------------------------------------------------------
BudgetsTypeOK ==
    /\ budDb \subseteq BudgetRow /\ budList \subseteq BudgetRow
    /\ budKnown \subseteq Tenants
    /\ budForm \in BudgetForm \cup {None} /\ budDialog \in BudgetRow \cup {None}
    /\ {budTitle, budEntries} \subseteq BudgetIds \cup {None}
    /\ <<budLoading, budBusy, budCrossed>> \in BOOLEAN \X BOOLEAN \X BOOLEAN

(* Once nothing is under way the page shows the budgets the server has,    *)
(* with tenant, key and switch, unless requests overlapped or failed on    *)
(* the way: every handler that changes one loads the list again.           *)
BudgetsListTrue == Quiet => budList = budDb

(* A budget for a key is one for a key of its own tenant, however the form *)
(* was filled, refilled and sent; the server does not check it.            *)
KeyOfItsTenant == \A b \in budDb : b.key \in {None, b.tenant}

(* The entries under a budget's title are that budget's, unless another    *)
(* history had been asked for and was still under way: the page does not   *)
(* tell their answers apart.                                               *)
HistoryIsOfTitle ==
    budTitle # None /\ budEntries # None => budEntries = budTitle \/ budCrossed
=============================================================================
