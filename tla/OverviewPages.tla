---------------------------- MODULE OverviewPages ----------------------------
(***************************************************************************)
(* The dashboard and the analytics page (ui/src/pages/Dashboard.tsx,       *)
(* Analytics.tsx), and the workspace, a tenant or "" for all, that the     *)
(* header of ui/src/components/Layout.tsx keeps in localStorage and tells  *)
(* them of by an event.  Each section of a page is loaded by itself, and   *)
(* the effects that load do not cancel the loads before them, except that  *)
(* of the pass rate.  The loads change nothing at the server, so that      *)
(* their being carried out is no step of its own.                          *)
(***************************************************************************)
EXTENDS AdminPage

CONSTANTS
    Workspaces,  \* the tenants there are
    Ranges,      \* time ranges; their first is the one of a new page
    DashboardClicks  \* bound on what the operator does before and on the dashboard

VARIABLES
    ovPage,      \* "dashboard" or "analytics"
    ovStored,    \* localStorage: the workspace, and the range of the analytics
    ovWs,        \* workspace, of the page
    ovRange,     \* range
    ovShown,     \* of each section the workspace and range it shows; None: empty
    ovNoData,    \* error: "No data yet" is on the dashboard
    ovLoading,   \* loading, of the analytics
    ovBusy,      \* the tenants with traffic, in every range: none, or one
    ovAlarms,    \* those whose budgets are nearly used up, or "", something else: one at most
    ovLate       \* history: sections asked for anew while they were loading

ovUI == <<ovPage, ovStored, ovWs, ovRange, ovShown, ovNoData, ovLoading>>
ovVars == <<ovUI, ovBusy, ovAlarms, ovLate>>

Scope == [ws : Workspaces \cup {""}, range : Ranges]

ASSUME ScopeAssumption == Workspaces # {} /\ Ranges # {} /\ None \notin Scope

DashboardSections == {"kpis", "attention", "activity", "series", "passRate"}
Sections == DashboardSections \cup {"analytics"}
FirstRange == CHOOSE r \in Ranges : TRUE

(* Mutant of AsksFor: the activity is that of the workspace. *)
AsksForWorkspace(section, scope) ==
    IF section \in {"activity", "attention"} THEN [scope EXCEPT !.range = FirstRange] ELSE scope

(* What a section asks for: each takes the scope it is loaded for, but the *)
(* activity and the pass rate ask for the last requests of all tenants,    *)
(* and what needs attention has no range.                                  *)
AsksFor(section, scope) ==
    CASE section \in {"activity", "passRate"} -> [ws |-> "", range |-> FirstRange]
      [] section = "attention" -> [scope EXCEPT !.range = FirstRange]
      [] OTHER -> scope

LoadsOf(sections, scope, pending) ==
    {Ask({r \in pending : r.kind = s}, s, AsksFor(s, scope)) : s \in sections}

Nothing == [s \in Sections |-> None]

OverviewInit ==
    /\ ovPage \in {"dashboard", "analytics"}
    /\ ovStored \in Scope
    /\ ovPage = "dashboard" => ovStored.range = FirstRange    \* it matters to the other only
    /\ ovWs = ovStored.ws
    /\ ovRange = IF ovPage = "analytics" THEN ovStored.range ELSE FirstRange
    /\ ovShown = Nothing /\ ovNoData = FALSE /\ ovLoading = TRUE
    /\ ovBusy \in {{}, {CHOOSE w \in Workspaces : TRUE}}
    /\ ovAlarms \in {{}} \cup {{a} : a \in ovBusy \cup {""}}
    /\ ovLate = {}
    /\ PageInit(LoadsOf(IF ovPage = "dashboard" THEN DashboardSections ELSE {"analytics"},
                        [ws |-> ovWs, range |-> ovRange], {}))
-----------------------------------------------------------------------------
Within(scope) == IF scope.ws = "" THEN Workspaces ELSE {scope.ws}

(* Whether a section has anything to show for its scope: traffic, and what *)
(* needs attention the budgets of the scope, which traffic uses up, and,   *)
(* whatever the workspace, a provider down or degraded, keys that expire   *)
(* within a week, and requests blocked among the last of all tenants.      *)
NotEmpty(section) ==
    /\ ovShown[section] # None
    /\ IF section = "attention" THEN ovAlarms \cap (Within(ovShown[section]) \cup {""}) # {}
                                ELSE ovBusy \cap Within(ovShown[section]) # {}

(* The dashboard greets a new gateway instead of showing its sections.     *)
FirstRun == ~ovNoData /\ \A s \in {"kpis", "attention", "activity", "series"} : ~NotEmpty(s)

ShowsSections == ovPage = "dashboard" => ~FirstRun

(* The effects that depend on what has changed run: they load sections.    *)
(* That of the pass rate cancels what it asked for before.                 *)
Load(sections, scope) ==
    /\ LET before == {IF r.kind \in sections \cap {"passRate"} THEN [r EXCEPT !.mine = FALSE] ELSE r : r \in flight}
       IN  flight' = before \cup LoadsOf(sections, scope, before)
    /\ ovLate' = ovLate \cup {r.kind : r \in {q \in flight : q.kind \in sections}}
    /\ ovLoading' = (ovLoading \/ "analytics" \in sections)

(* The workspace is stored, and the page on the screen is told.            *)
PickWorkspace ==
    /\ \E w \in (Workspaces \cup {""}) \ {ovWs} :
         /\ ovStored' = [ovStored EXCEPT !.ws = w]
         /\ ovWs' = w
         /\ Load(IF ovPage = "dashboard" THEN DashboardSections ELSE {"analytics"},
                 [ws |-> w, range |-> ovRange])
    /\ UNCHANGED <<ovPage, ovRange>>

(* Mutant of PickPeriod: the series is not loaded again. *)
PickPeriodKeepsSeries ==
    /\ ShowsSections
    /\ \E g \in Ranges \ {ovRange} :
         /\ ovRange' = g
         /\ Load(IF ovPage = "dashboard" THEN {"kpis", "attention", "activity"} ELSE {"analytics"},
                 [ws |-> ovWs, range |-> g])
    /\ UNCHANGED <<ovPage, ovStored, ovWs>>

(* On the dashboard one effect loads three sections whatever changed, and  *)
(* the pass rate has none of the range.  The analytics store their range.  *)
PickPeriod ==
    /\ ShowsSections
    /\ \E g \in Ranges \ {ovRange} :
         /\ ovRange' = g
         /\ ovStored' = IF ovPage = "analytics" THEN [ovStored EXCEPT !.range = g] ELSE ovStored
         /\ Load(IF ovPage = "dashboard" THEN DashboardSections \ {"passRate"} ELSE {"analytics"},
                 [ws |-> ovWs, range |-> g])
    /\ UNCHANGED <<ovPage, ovWs>>

(* Another metric of the trend loads the series again, of the same range.  *)
PickMetric ==
    /\ ovPage = "dashboard" /\ ShowsSections
    /\ Load({"series"}, [ws |-> ovWs, range |-> ovRange])
    /\ UNCHANGED <<ovPage, ovStored, ovWs, ovRange>>

(* The other page: mounted anew, with what is stored.                      *)
VisitPage ==
    /\ ovPage' = IF ovPage = "dashboard" THEN "analytics" ELSE "dashboard"
    /\ ovWs' = ovStored.ws
    /\ ovRange' = IF ovPage' = "analytics" THEN ovStored.range ELSE FirstRange
    /\ ovShown' = Nothing /\ ovNoData' = FALSE /\ ovLoading' = TRUE
    /\ flight' = LoadsOf(IF ovPage' = "dashboard" THEN DashboardSections ELSE {"analytics"},
                         [ws |-> ovWs', range |-> ovRange'], {})
    /\ ovLate' = {}
    /\ UNCHANGED ovStored

OverviewOperator ==
    /\ Click
    /\ ovPage = "dashboard" => clicks < DashboardClicks
    /\ \/ (PickWorkspace \/ PickPeriod \/ PickMetric) /\ UNCHANGED <<ovShown, ovNoData>>
       \/ VisitPage
    /\ UNCHANGED <<faults, raced, ovBusy, ovAlarms>>
-----------------------------------------------------------------------------
(* What a failure leaves: figures as they were and an error, nothing of    *)
(* series, activity and pass rate, the rest of what needs attention.       *)
SectionArrives(r, ok) ==
    /\ ovShown' =
         IF ~r.mine THEN ovShown
         ELSE [ovShown EXCEPT ![r.kind] =
                 IF ok \/ r.kind = "attention" THEN r.row
                 ELSE IF r.kind \in {"kpis", "analytics"} THEN @ ELSE None]
    /\ ovNoData' = IF r.kind = "kpis" THEN ~ok ELSE ovNoData
    /\ ovLoading' = (ovLoading /\ r.kind # "analytics")
    /\ flight' = flight \ {r}
    /\ UNCHANGED <<clicks, raced, ovPage, ovStored, ovWs, ovRange, ovBusy, ovAlarms, ovLate>>

OverviewArrives ==
    \E r \in flight :
      \/ SectionArrives(r, TRUE) /\ UNCHANGED faults
      \/ faults < MaxFaults /\ faults' = faults + 1 /\ SectionArrives(r, FALSE)

OverviewNext == OverviewOperator \/ OverviewArrives
-----------------------------------------------------------------------------
OverviewTypeOK ==
    /\ ovPage \in {"dashboard", "analytics"}
    /\ ovStored \in Scope /\ ovWs \in Workspaces \cup {""} /\ ovRange \in Ranges
    /\ ovShown \in [Sections -> Scope \cup {None}]
    /\ ovBusy \subseteq Workspaces /\ ovAlarms \subseteq ovBusy \cup {""} /\ ovLate \subseteq Sections
    /\ <<ovNoData, ovLoading>> \in BOOLEAN \X BOOLEAN

(* Once nothing is loading, each section of the page shows the workspace   *)
(* and range in its header, and those of the workspace stored, after any   *)
(* changes of them, unless it was asked for anew while it was loading or   *)
(* an answer was lost; the pass rate even then.                            *)
SectionsAgree ==
    flight = {} /\ faults = 0 =>
      /\ ovWs = ovStored.ws
      /\ \A s \in (IF ovPage = "dashboard" THEN DashboardSections ELSE {"analytics"}) \ (ovLate \ {"passRate"}) :
           ovShown[s] = AsksFor(s, [ws |-> ovWs, range |-> ovRange])

(* Once the dashboard has loaded and no answer was lost, it greets the     *)
(* operator exactly when no tenant has had traffic and nothing needs       *)
(* attention, in whatever workspace: not a gateway in use seen from the    *)
(* workspace of a tenant that is not, although the sections that decide on *)
(* it were loaded for different scopes and in any order.  Whether the      *)
(* gateway is new it cannot tell: keys and tenants are not asked for, so   *)
(* that one with keys but no traffic yet is greeted too, where the console *)
(* is specified to greet only one without keys and traffic, and a new one  *)
(* with a provider down is not.                                            *)
GreetsOnlyQuietGateways ==
    ovPage = "dashboard" /\ flight = {} /\ faults = 0 => (FirstRun <=> ovBusy = {} /\ ovAlarms = {})

(* The analytics page says that it is loading exactly while it is, and     *)
(* what it showed last is what it stored, unless loads overlapped: the     *)
(* answer to the first of two loads ends the loading of the second.        *)
AnalyticsSettle ==
    ovPage = "analytics" /\ "analytics" \notin ovLate =>
      /\ ovLoading <=> flight # {}
      /\ ovRange = ovStored.range
=============================================================================
