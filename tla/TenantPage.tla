------------------------------ MODULE TenantPage ------------------------------
(***************************************************************************)
(* The page of one tenant (ui/src/pages/Tenants/TenantDetail.tsx): what is *)
(* stored of it, its compliance reports, and the buttons that delete it    *)
(* and apply a compliance pack to it.  The page stays mounted when its URL *)
(* changes to another tenant, which the command palette offers at any      *)
(* time, over an open dialog too.  Of a tenant and of a report it matters  *)
(* whose they are; the list of its last requests is loaded along with the  *)
(* tenant, is only shown, and is left out.                                 *)
(***************************************************************************)
EXTENDS TenantTable

CONSTANT Packs

\* While no pack is being applied, none is.
ASSUME PackAssumption == None \notin Packs

VARIABLES
    tpSlug,      \* the tenant of the URL
    tpTenant,    \* tenant: the one on the page, and the retention mode shown
    tpLoading,   \* loading
    tpMissing,   \* notFound
    tpConfirm,   \* showConfirm
    tpDeleting,  \* deleting
    tpApplying,  \* applyingPack
    tpPack,      \* reportPack: the pack whose report is asked for
    tpReport,    \* report: whose it is, and of which pack
    tpHasty      \* history: what was done before something else had settled,
                 \* and whether a deletion was confirmed ("gone")

tpUI == <<tpTenant, tpLoading, tpMissing, tpConfirm, tpDeleting, tpApplying, tpPack, tpReport>>
tpVars == <<tpSlug, tpUI, tpHasty>>

Reports == [slug : Slugs, pack : Packs]
ReportKinds == {"apply", "refresh", "applied", "report"}

TenantMounted(s) ==
    /\ tpSlug' = s
    /\ tpTenant' = None /\ tpLoading' = TRUE /\ tpMissing' = FALSE
    /\ tpConfirm' = FALSE /\ tpDeleting' = FALSE
    /\ tpApplying' = None /\ tpPack' = None /\ tpReport' = None
-----------------------------------------------------------------------------
(* What the operator does.                                                 *)

TenantShown == ~tpLoading /\ ~tpMissing /\ tpTenant # None

(* The URL changes to another tenant: what is on the page stays.           *)
TurnTo(s, done) ==
    /\ tpSlug' = s
    /\ Send(done, "tenant", [slug |-> s])
    /\ tpLoading' = TRUE
    /\ tpHasty' = tpHasty \cup (IF flight \ done # {} THEN {"move", "report"}
                                ELSE IF tpReport # None THEN {"report"} ELSE {})
    /\ UNCHANGED <<tpTenant, tpMissing, tpConfirm, tpDeleting, tpApplying, tpPack, tpReport>>

GoToTenant == \E s \in Slugs \ {tpSlug} : TurnTo(s, {})

AskDeleteTenant ==
    /\ TenantShown /\ ~tpConfirm
    /\ tpConfirm' = TRUE
    /\ UNCHANGED <<flight, raced, tpSlug, tpTenant, tpLoading, tpMissing, tpDeleting, tpApplying, tpPack, tpReport, tpHasty>>

CancelDeleteTenant ==
    /\ TenantShown /\ tpConfirm
    /\ tpConfirm' = FALSE
    /\ UNCHANGED <<flight, raced, tpSlug, tpTenant, tpLoading, tpMissing, tpDeleting, tpApplying, tpPack, tpReport, tpHasty>>

(* The dialog names the tenant on the page; the one of the URL is deleted. *)
ConfirmDeleteTenant ==
    /\ TenantShown /\ tpConfirm /\ ~tpDeleting
    /\ tpDeleting' = TRUE
    /\ Send({}, "remove", [slug |-> tpSlug, named |-> tpTenant.slug])
    /\ tpHasty' = tpHasty \cup {"gone"}
    /\ UNCHANGED <<tpSlug, tpTenant, tpLoading, tpMissing, tpConfirm, tpApplying, tpPack, tpReport>>

Hurried(kinds) == IF \E r \in flight : r.kind \in kinds THEN {"report"} ELSE {}

(* A button applies each pack, the banner the one of the report; only the  *)
(* button of the pack being applied is disabled.                           *)
ApplyPack ==
    /\ TenantShown /\ ~tpConfirm
    /\ \E p \in Packs \ {tpApplying} :
         /\ tpApplying' = p
         /\ Send({}, "apply", [slug |-> tpSlug, pack |-> p, named |-> tpTenant.slug])
    /\ tpHasty' = tpHasty \cup Hurried(ReportKinds)
    /\ UNCHANGED <<tpSlug, tpTenant, tpLoading, tpMissing, tpConfirm, tpDeleting, tpPack, tpReport>>

ShowReport ==
    /\ TenantShown /\ ~tpConfirm
    /\ \E p \in Packs : tpPack' = p /\ Send({}, "report", [slug |-> tpSlug, pack |-> p])
    /\ tpReport' = None
    /\ tpHasty' = tpHasty \cup Hurried(ReportKinds)
    /\ UNCHANGED <<tpSlug, tpTenant, tpLoading, tpMissing, tpConfirm, tpDeleting, tpApplying>>

TenantOperator ==
    /\ Click
    /\ \/ GoToTenant \/ AskDeleteTenant \/ CancelDeleteTenant \/ ConfirmDeleteTenant
       \/ ApplyPack \/ ShowReport
    /\ UNCHANGED <<faults, tenDb>>
-----------------------------------------------------------------------------
(* What the handlers do when their answers arrive, whatever is on the page *)
(* by then.                                                                *)

Shown(r) == [slug |-> r.row.slug, keep |-> (CHOOSE row \in r.rows : TRUE).keep]

TenantLoaded(r) ==
    /\ r.kind = "tenant"
    /\ tpTenant' = IF r.st = "ok" THEN Shown(r) ELSE tpTenant
    /\ tpMissing' = (tpMissing \/ r.st = "absent")
    /\ tpLoading' = FALSE
    /\ Finish(r)
    /\ UNCHANGED <<tpConfirm, tpDeleting, tpApplying, tpPack, tpReport>>

(* No deletion is told to have gone well, see ServeDelete: what is         *)
(* left of handleDelete is its catch clause.                               *)
DeleteAnswered(r) ==
    /\ r.kind = "remove"
    /\ tpDeleting' = FALSE /\ tpConfirm' = FALSE
    /\ Finish(r)
    /\ UNCHANGED <<tpTenant, tpLoading, tpMissing, tpApplying, tpPack, tpReport>>

(* Mutant of PackStep: the tenant is not loaded again. *)
PackStepUnloaded(r) ==
    /\ r.kind \in {"apply", "applied"}
    /\ LET row == [slug |-> r.row.slug, pack |-> r.row.pack]
       IN  \/ r.st # "ok" /\ tpApplying' = None /\ Finish(r) /\ UNCHANGED <<tpPack, tpReport>>
           \/ /\ r.st = "ok" /\ r.kind = "apply"
              /\ tpPack' = row.pack /\ Send({r}, "applied", row) /\ UNCHANGED <<tpApplying, tpReport>>
           \/ /\ r.st = "ok" /\ r.kind = "applied"
              /\ tpReport' = row /\ tpApplying' = None /\ Finish(r) /\ UNCHANGED tpPack
    /\ UNCHANGED <<tpTenant, tpLoading, tpMissing, tpConfirm, tpDeleting>>

(* Apply the pack, load the tenant again, load the report of the pack.     *)
PackStep(r) ==
    /\ r.kind \in {"apply", "refresh", "applied"}
    /\ LET row == [slug |-> r.row.slug, pack |-> r.row.pack]
       IN  IF r.st # "ok"
           THEN tpApplying' = None /\ Finish(r) /\ UNCHANGED <<tpTenant, tpPack, tpReport>>
           ELSE CASE r.kind = "apply" ->
                       tpPack' = row.pack /\ Send({r}, "refresh", row) /\ UNCHANGED <<tpTenant, tpApplying, tpReport>>
                  [] r.kind = "refresh" ->
                       tpTenant' = Shown(r) /\ Send({r}, "applied", row) /\ UNCHANGED <<tpApplying, tpPack, tpReport>>
                  [] r.kind = "applied" ->
                       tpReport' = row /\ tpApplying' = None /\ Finish(r) /\ UNCHANGED <<tpTenant, tpPack>>
    /\ UNCHANGED <<tpLoading, tpMissing, tpConfirm, tpDeleting>>

ReportLoaded(r) ==
    /\ r.kind = "report"
    /\ tpReport' = IF r.st = "ok" THEN r.row ELSE tpReport
    /\ Finish(r)
    /\ UNCHANGED <<tpTenant, tpLoading, tpMissing, tpConfirm, tpDeleting, tpApplying, tpPack>>

TenantAnswered ==
    /\ \E r \in flight :
         /\ r.st # "sent" /\ r.mine
         /\ TenantLoaded(r) \/ DeleteAnswered(r) \/ PackStep(r) \/ ReportLoaded(r)
    /\ UNCHANGED <<clicks, faults, tenDb, tpSlug, tpHasty>>
-----------------------------------------------------------------------------
TenantTypeOK ==
    /\ tenDb \in [Slugs -> TenantRow \cup {None}]
    /\ tpSlug \in Slugs \cup {None}
    /\ tpTenant \in [slug : Slugs, keep : {"full", "none", ""}] \cup {None}
    /\ {tpApplying, tpPack} \subseteq Packs \cup {None}
    /\ tpReport \in Reports \cup {None}
    /\ <<tpLoading, tpMissing, tpConfirm, tpDeleting>> \in BOOLEAN \X BOOLEAN \X BOOLEAN \X BOOLEAN

(* What is deleted, and what a pack is applied to, is the tenant on the    *)
(* page the operator clicked on, although the handlers take the tenant of  *)
(* the URL: the two differ only when the URL changed while an answer was   *)
(* under way, or when the load that follows such a change failed.          *)
ActsOnWhatItNames ==
    \A r \in flight : r.kind \in {"remove", "apply"} =>
      r.row.named = r.row.slug \/ "move" \in tpHasty \/ faults > 0

(* The report on the page, which the banner offers to re-apply, is of the  *)
(* pack that is marked and of this tenant, but while a pack is being       *)
(* applied, after a failure, when a tenant was deleted from here, or when  *)
(* another report, pack or tenant was asked for before the last settled.   *)
ReportIsOfPack ==
    tpReport # None /\ tpApplying = None =>
      \/ tpReport = [slug |-> tpSlug, pack |-> tpPack]
      \/ {"report", "gone"} \cap tpHasty # {} \/ faults > 0
=============================================================================
