---------------------------- MODULE MCConsoleRead ----------------------------
(***************************************************************************)
(* The pages that load and show, for TLC: the hook by itself, driven in    *)
(* every way a page may drive it, the two pages that are built on it, the  *)
(* overview pages and the tables of usage, the status, the search, the     *)
(* boundary around a page, and the login.  Each behaviour stays with one   *)
(* of them, and the variables of the others stay as they are.              *)
(***************************************************************************)
EXTENDS ConversationsPage, SessionsPage, OverviewPages, UsageTables, StatusPage,
        CommandPalette, PageBoundary, AdminSession, TLC

VARIABLE page

restVars == <<usVars, pbVars, asVars>>
onPageVars == <<cvVars, ssVars, ovVars, stVars, plVars>>
allVars == <<page, hookVars, pageVars, onPageVars, restVars>>

AllDeps == ConvDeps \cup SessDeps
BareDeps == [page : {1, 2}, filter : {""}]    \* what the hook by itself is asked for

ASSUME DepsAssumption == AllDeps \cup BareDeps \subseteq Deps

(* The first session is over by the time the second is there.              *)
MCSnapshots == [w \in 0 .. MaxWorld |-> IF w = 0 THEN {"a"} ELSE {"b"}]

(* A tenant leaves the list; a query finds one page and everything else,   *)
(* another no page.                                                        *)
MCCensus == << <<"t1", "t2">>, <<"t2">> >>
MCPagesFound == "" :> <<"p1", "p2">> @@ "o" :> <<"p2">> @@ "t" :> <<>>
MCLogEntries == <<"c1">>

HookOff == HookInit([page |-> 0, filter |-> ""], FALSE)
FlightOff == PageInit({})
ConvOff == cvDetail = None /\ cvFailed = FALSE /\ cvWanted = None /\ cvOverlap = FALSE
SessOff ==
    /\ ssAuto = FALSE /\ ssTo = 0 /\ ssSelected = {} /\ ssConfirm = None /\ ssClosing = FALSE
    /\ ssActed = 0 /\ ssMoved = FALSE
OverviewOff ==
    /\ ovPage = "dashboard" /\ ovWs = "" /\ ovRange = FirstRange
    /\ ovStored = [ws |-> "", range |-> FirstRange]
    /\ ovShown = [s \in Sections |-> AsksFor(s, ovStored)]
    /\ ovNoData = FALSE /\ ovLoading = FALSE /\ ovBusy = {} /\ ovAlarms = {}
    /\ ovLate = {}
StatusOff == stStatus = None /\ stLoading = FALSE /\ stError = TRUE /\ stNow = 0 /\ stAsked = 0
PaletteOff == PaletteStart
BoundaryOff ==
    /\ pbPath = (CHOOSE p \in Pages : TRUE) /\ pbPrev = pbPath /\ pbError = FALSE /\ pbThrew = pbPath
    /\ pbPhase = "idle" /\ pbBroken = {} /\ pbThrows = 0

MCInit ==
    \/ /\ page = "hook" /\ \E d \in BareDeps, e \in BOOLEAN : HookInit(d, e)
       /\ FlightOff /\ ConvOff /\ SessOff /\ OverviewOff /\ StatusOff /\ PaletteOff
       /\ UsageInit /\ BoundaryOff /\ SessionInit
    \/ /\ page = "conversations" /\ ConvInit
       /\ SessOff /\ OverviewOff /\ StatusOff /\ PaletteOff /\ UsageInit /\ BoundaryOff /\ SessionInit
    \/ /\ page = "sessions" /\ SessInit
       /\ ConvOff /\ OverviewOff /\ StatusOff /\ PaletteOff /\ UsageInit /\ BoundaryOff /\ SessionInit
    \/ /\ page = "overview" /\ OverviewInit
       /\ HookOff /\ ConvOff /\ SessOff /\ StatusOff /\ PaletteOff /\ UsageInit /\ BoundaryOff /\ SessionInit
    \/ /\ page = "status" /\ StatusInit
       /\ HookOff /\ ConvOff /\ SessOff /\ OverviewOff /\ PaletteOff /\ UsageInit /\ BoundaryOff /\ SessionInit
    \/ /\ page = "search" /\ PaletteInit
       /\ HookOff /\ ConvOff /\ SessOff /\ OverviewOff /\ StatusOff /\ UsageInit /\ BoundaryOff /\ SessionInit
    \/ /\ page \in {"usage", "login"} /\ UsageInit /\ SessionInit
       /\ HookOff /\ FlightOff /\ ConvOff /\ SessOff /\ OverviewOff /\ StatusOff /\ PaletteOff /\ BoundaryOff
    \/ /\ page = "boundary" /\ BoundaryInit
       /\ HookOff /\ FlightOff /\ ConvOff /\ SessOff /\ OverviewOff /\ StatusOff /\ PaletteOff
       /\ UsageInit /\ SessionInit

BareNext ==
    \/ \E d \in BareDeps, e \in BOOLEAN : Render(d, e) \/ Remount(d, e)
    \/ Refetch \/ HookAnswers \/ ChangeWorld

MCNext ==
    /\ UNCHANGED page
    /\ \/ page = "hook" /\ BareNext /\ UNCHANGED <<pageVars, onPageVars, restVars>>
       \/ page = "conversations" /\ ConvNext /\ UNCHANGED <<ssVars, ovVars, stVars, plVars, restVars>>
       \/ page = "sessions" /\ SessNext /\ UNCHANGED <<cvVars, ovVars, stVars, plVars, restVars>>
       \/ page = "overview" /\ OverviewNext
          /\ UNCHANGED <<hookVars, cvVars, ssVars, stVars, plVars, restVars>>
       \/ page = "status" /\ StatusNext
          /\ UNCHANGED <<hookVars, cvVars, ssVars, ovVars, plVars, restVars>>
       \/ page = "search" /\ PaletteNext
          /\ UNCHANGED <<hookVars, cvVars, ssVars, ovVars, stVars, restVars>>
       \/ page = "usage" /\ UsageNext /\ UNCHANGED <<hookVars, pageVars, onPageVars, pbVars, asVars>>
       \/ page = "boundary" /\ BoundaryNext /\ UNCHANGED <<hookVars, pageVars, onPageVars, usVars, asVars>>
       \/ page = "login" /\ SessionNext /\ UNCHANGED <<hookVars, pageVars, onPageVars, usVars, pbVars>>

(* The fairness of HookSpec, for whichever page uses the hook.             *)
MCSpec == MCInit /\ [][MCNext]_allVars /\ WF_hookVars(HookProgress)
-----------------------------------------------------------------------------
ReadTypeOK == HookTypeOK /\ OverviewTypeOK /\ SessionTypeOK

(* What says that it is loading or busy is, and what is not does not, when *)
(* calls are cancelled, batches closed and ranges changed over each other. *)
ReadFlagsTrue == LoadingIsTrue /\ OneBatchAtATime /\ AnalyticsSettle

(* Once nothing is loading, the hook shows what its deps ask for, and each *)
(* page what its filters, its header, the row clicked or the last refresh  *)
(* do, unless it was asked again before the answer was there; where the    *)
(* hook is used, even then.                                                *)
ShownIsAskedFor ==
    /\ ShownIsOfCurrent
    /\ FiltersShownAreAskedFor /\ DetailIsOfRow /\ SectionsAgree /\ StatusIsKnown /\ FindsWhatIsThere

(* What is closed or opened is on the screen, and what is on the screen    *)
(* was read after the operator last acted, although lists are loaded again *)
(* at any time and selections and highlights are kept beside them.         *)
ActsOnTheScreen == BulkIsOnScreen /\ RowsReadAfterActing /\ SomethingHighlighted
=============================================================================
