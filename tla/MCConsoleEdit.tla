---------------------------- MODULE MCConsoleEdit ----------------------------
(***************************************************************************)
(* The pages that change something, for TLC.  A page has nothing in common *)
(* with another while it is on the screen, but for the requests left under *)
(* way, which none of the others waits for: each behaviour stays with one  *)
(* of them, and the variables of the others stay as they are.              *)
(***************************************************************************)
EXTENDS KeysPage, BudgetsPage, RoutingPage, TenantConsole, TLC

VARIABLE page

allVars == <<page, pageVars, keyVars, budVars, rtVars, tenDb, tpVars, teVars, tcAt>>

KeysOff ==
    /\ keyDb = {} /\ keyList = {} /\ keyTenants = FALSE /\ keyLoading = FALSE /\ keyDrawer = FALSE
    /\ keyReveal = None /\ keyDialog = None /\ keyBusy = FALSE /\ keyTwice = FALSE

BudgetsOff ==
    /\ budDb = {} /\ budList = {} /\ budKnown = {} /\ budLoading = FALSE /\ budForm = None
    /\ budDialog = None /\ budBusy = FALSE /\ budTitle = None /\ budEntries = None /\ budCrossed = FALSE

RoutingOff ==
    /\ rtDb = {} /\ rtList = {} /\ rtLoading = FALSE /\ rtEditor = None
    /\ rtDialog = None /\ rtBusy = FALSE /\ rtEarly = FALSE /\ rtGuess = FALSE

TenantsOff ==
    /\ tenDb = [s \in Slugs |-> None] /\ tcAt = "list"
    /\ tpSlug = None /\ tpTenant = None /\ tpLoading = FALSE /\ tpMissing = FALSE
    /\ tpConfirm = FALSE /\ tpDeleting = FALSE
    /\ tpApplying = None /\ tpPack = None /\ tpReport = None /\ tpHasty = {}
    /\ teSlug = None /\ teForm = Blank
    /\ teLoading = FALSE /\ teSubmitting = FALSE /\ teOpen = FALSE /\ teHasty = FALSE

MCInit ==
    \/ page = "keys" /\ KeysInit /\ BudgetsOff /\ RoutingOff /\ TenantsOff
    \/ page = "budgets" /\ BudgetsInit /\ KeysOff /\ RoutingOff /\ TenantsOff
    \/ page = "routing" /\ RoutingInit /\ KeysOff /\ BudgetsOff /\ TenantsOff
    \/ page = "tenants" /\ ConsoleInit /\ KeysOff /\ BudgetsOff /\ RoutingOff

MCNext ==
    /\ UNCHANGED page
    /\ \/ page = "keys" /\ KeysNext /\ UNCHANGED <<budVars, rtVars, tenDb, tpVars, teVars, tcAt>>
       \/ page = "budgets" /\ BudgetsNext /\ UNCHANGED <<keyVars, rtVars, tenDb, tpVars, teVars, tcAt>>
       \/ page = "routing" /\ RoutingNext /\ UNCHANGED <<keyVars, budVars, tenDb, tpVars, teVars, tcAt>>
       \/ page = "tenants" /\ ConsoleNext /\ UNCHANGED <<keyVars, budVars, rtVars>>

MCSpec == MCInit /\ [][MCNext]_allVars

(* The two pages with most states; the others are small enough without.    *)
Alike == Permutations(BudgetIds) \cup Permutations(Names)
-----------------------------------------------------------------------------
EditTypeOK == KeysTypeOK /\ BudgetsTypeOK /\ RoutingTypeOK /\ TenantTypeOK /\ EditorTypeOK

(* Once nothing is under way every page shows what the server has, unless  *)
(* requests overlapped or failed: whatever the order in which lists are    *)
(* patched (Keys.tsx, toggle) and loaded again (everything else).          *)
ListsMatchServer == KeysListTrue /\ BudgetsListTrue /\ RoutingListTrue /\ ModeShownIsStored

(* A dialog or form is busy exactly while its own request is under way,    *)
(* and has never two, through failures, closed dialogs and URLs that       *)
(* change meanwhile (busy of Keys.tsx, submitting of TenantForm.tsx).      *)
EditFlagsTrue == KeysBusyTrue /\ OneSaveAtATime

(* What is deleted, saved, or given a pack or a budget is what the         *)
(* operator had on the screen, except after the one race that each of the  *)
(* pages leaves open.                                                      *)
ActsOnWhatIsSeen == ActsOnWhatItNames /\ SavesWhatItLoaded /\ KeyOfItsTenant

(* A history or report is of the budget, or pack and tenant, named above   *)
(* it, unless another was asked for before it arrived.                     *)
ShownUnderItsTitle == HistoryIsOfTitle /\ ReportIsOfPack

(* No answer takes from the screen a secret that is shown once or changes  *)
(* that were not sent: only the operator does, or a late answer to what    *)
(* was sent from there before.                                             *)
OnlyTheOperatorCloses == SecretStays /\ EditorStays
=============================================================================
