---------------------------- MODULE TenantConsole ----------------------------
(***************************************************************************)
(* The pages about tenants together, as the routes of ui/src/App.tsx and   *)
(* the links and navigate calls of the pages lead from one to another: the *)
(* list, the page of a tenant, and the form.  A component that is left is  *)
(* unmounted, but what it asked the server for goes on: a save that        *)
(* succeeds leads to its tenant, and the load of a form that fails to the  *)
(* list, wherever the operator has gone since.                             *)
(***************************************************************************)
EXTENDS TenantPage, TenantEditor

VARIABLE tcAt       \* the page on the screen: "list", "tenant" or "form"

tenantVars == <<pageVars, tenDb, tpVars, teVars, tcAt>>

TenantLoads == {"tenant", "refresh", "applied", "report"}

(* What stays under way when the page on the screen is left, but for done. *)
LeftBehind(done) == {r \in Orphan(TenantLoads) : \A d \in done : r.no # d.no}

ConsoleInit ==
    /\ TableInit
    /\ tcAt = "list"
    /\ tpSlug = None      \* no page of a tenant is mounted
    /\ tpTenant = None /\ tpLoading = TRUE /\ tpMissing = FALSE
    /\ tpConfirm = FALSE /\ tpDeleting = FALSE
    /\ tpApplying = None /\ tpPack = None /\ tpReport = None /\ tpHasty = {}
    /\ teSlug = None /\ teForm = Blank
    /\ teLoading = FALSE /\ teSubmitting = FALSE /\ teOpen = FALSE /\ teHasty = FALSE
    /\ PageInit({})

VisitList(done) ==
    /\ tcAt' = "list" /\ teOpen' = FALSE
    /\ flight' = LeftBehind(done)
    /\ UNCHANGED <<raced, tpVars, teSlug, teForm, teLoading, teSubmitting, teHasty>>

VisitTenant(s, done) ==
    /\ tcAt' = "tenant" /\ teOpen' = FALSE
    /\ TenantMounted(s)
    /\ flight' = LeftBehind(done) \cup {Ask(LeftBehind(done), "tenant", [slug |-> s])}
    /\ raced' = (raced \/ LeftBehind(done) # {})
    /\ UNCHANGED <<tpHasty, teSlug, teForm, teLoading, teSubmitting, teHasty>>

VisitForm(s) ==
    /\ tcAt' = "form"
    /\ EditorMounted(s)
    /\ flight' = LeftBehind({}) \cup
                 (IF s = None THEN {} ELSE {Ask(LeftBehind({}), "edit", [slug |-> s])})
    /\ raced' = (raced \/ LeftBehind({}) # {})
    /\ UNCHANGED <<teHasty, tpVars>>
-----------------------------------------------------------------------------
(* Links: the list leads to every tenant and to the form of a new one, the *)
(* page of a tenant to the form of the tenant it shows, and each page, by  *)
(* its own button or by the menu, back to the list.                        *)
FollowLink ==
    /\ Click
    /\ \/ tcAt = "list" /\ ((\E s \in Slugs : VisitTenant(s, {})) \/ VisitForm(None))
       \/ tcAt = "tenant" /\ TenantShown /\ ~tpConfirm /\ VisitForm(tpTenant.slug)
       \/ tcAt # "list" /\ VisitList({})
    /\ UNCHANGED <<faults, tenDb>>

OnTenantPage ==
    /\ tcAt = "tenant"
    /\ TenantOperator \/ TenantAnswered
    /\ UNCHANGED <<teVars, tcAt>>

OnForm ==
    /\ EditorOperator \/ EditorAnswered
    /\ UNCHANGED <<tcAt, tpVars>>

(* A save went well: to the page of its tenant.  If a tenant's page is on  *)
(* the screen it is not mounted anew.                                      *)
SaveLands ==
    /\ \E r \in flight :
         /\ r.kind \in {"put", "post"} /\ r.st = "ok"
         /\ \/ tcAt # "tenant" /\ VisitTenant(r.row.slug, {r})
            \/ /\ tcAt = "tenant"
               /\ IF r.row.slug = tpSlug THEN Finish(r) /\ UNCHANGED tpVars
                  ELSE TurnTo(r.row.slug, {r})
               /\ UNCHANGED <<teVars, tcAt>>
    /\ UNCHANGED <<clicks, faults, tenDb>>

(* The load of a form failed: to the list, from wherever the operator is.  *)
LoadFails ==
    /\ \E r \in flight : r.kind = "edit" /\ r.st \notin {"sent", "ok"} /\ VisitList({r})
    /\ UNCHANGED <<clicks, faults, tenDb>>

(* The other answers that come too late change nothing.                    *)
TooLate ==
    /\ \E r \in flight :
         /\ ~r.mine /\ r.st # "sent"
         /\ r.kind \in {"put", "post"} => r.st # "ok"
         /\ r.kind = "edit" => r.st = "ok"
         /\ Finish(r)
    /\ UNCHANGED <<clicks, faults, tenDb, tpVars, teVars, tcAt>>

ConsoleNext ==
    \/ TableServer /\ UNCHANGED <<tpVars, teVars, tcAt>>
    \/ FollowLink \/ OnTenantPage \/ OnForm \/ SaveLands \/ LoadFails \/ TooLate
    \/ \E r \in flight : Lose(r) /\ UNCHANGED <<tenDb, tpVars, teVars, tcAt>>

ConsoleSpec == ConsoleInit /\ [][ConsoleNext]_tenantVars
-----------------------------------------------------------------------------
(* Once nothing is under way, the page of a tenant shows the retention     *)
(* mode that is stored, after saves and applied packs alike, unless        *)
(* requests overlapped or failed, or the tenant was deleted from here.     *)
ModeShownIsStored ==
    Quiet /\ tcAt = "tenant" /\ tpTenant # None /\ tenDb[tpTenant.slug] # None =>
      tpTenant.keep = tenDb[tpTenant.slug].keep

(* The operator sets a tenant's retention mode to none and saves, and the  *)
(* mode persists: what changes it is a save of that tenant with another    *)
(* mode, and nothing else that is done in the console one after another.   *)
RetentionPersists ==
    [][\A s \in Slugs :
         /\ ~raced
         /\ tenDb[s] # None /\ tenDb[s].keep = "none"
         /\ tenDb'[s] # None /\ tenDb'[s].keep # "none"
         => \E r \in flight : r.kind = "put" /\ r.row.slug = s /\ r.row.data.keep # "none"]_<<tenDb, raced>>
=============================================================================
