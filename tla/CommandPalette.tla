---------------------------- MODULE CommandPalette ----------------------------
(***************************************************************************)
(* The search over the whole console                                       *)
(* (ui/src/components/CommandPalette.tsx): it loads what can be found each *)
(* time it is opened, keeps what it has until the answers are there, and   *)
(* cancels nothing.  Its lists of sessions and of conversations come last  *)
(* and work alike, one of them stands for both.                            *)
(***************************************************************************)
EXTENDS AdminPage, Sequences

CONSTANTS
    Census,      \* the tenants there are, in the order of the list, as time goes by
    LogEntries,  \* the conversations there are, in the order of the list
    PagesFound,  \* per query, the pages of the console that match it
    ResultLimit, \* how many results are shown
    PaletteOpens \* bound on how often the palette is opened

VARIABLES
    plOpen,      \* open
    plQuery,     \* query
    plTenants,   \* tenants: the index in Census of the answer it is from; 0: none
    plEntries,   \* whether the conversations have been loaded
    plActive,    \* active, counted from 1
    plNow,       \* the index in Census of the tenants there are now
    plAsked,     \* history: plNow when the palette was opened last
    plGrown,     \* history: a list has arrived since the query was typed
    plOverlap    \* history: it was opened while an earlier load was under way

plUI == <<plOpen, plQuery, plTenants, plEntries, plActive>>
plVars == <<plUI, plNow, plAsked, plGrown, plOverlap>>

Queries == DOMAIN PagesFound

ASSUME PaletteAssumption ==
    /\ Census \in Seq(Seq(STRING)) /\ Len(Census) > 0 /\ LogEntries \in Seq(STRING)
    /\ PagesFound \in [Queries -> Seq(STRING)] /\ "" \in Queries
    /\ ResultLimit \in Nat /\ None \notin STRING

PaletteStart ==
    /\ plOpen = FALSE /\ plQuery = ""
    /\ plTenants = 0 /\ plEntries = FALSE
    /\ plActive = 1
    /\ plNow = 1 /\ plAsked = 0
    /\ plGrown = FALSE /\ plOverlap = FALSE

PaletteInit == PaletteStart /\ PageInit({})

(* The pages come first, and without a query nothing else is offered.  The *)
(* queries of the model match every tenant and every conversation.         *)
Results ==
    LET found == PagesFound[plQuery]
                   \o (IF plQuery # "" /\ plTenants # 0 THEN Census[plTenants] ELSE <<>>)
                   \o (IF plQuery # "" /\ plEntries THEN LogEntries ELSE <<>>)
    IN  SubSeq(found, 1, IF Len(found) < ResultLimit THEN Len(found) ELSE ResultLimit)

Highlighted == IF plActive \in DOMAIN Results THEN Results[plActive] ELSE None
-----------------------------------------------------------------------------
OpenPalette ==
    /\ ~plOpen
    /\ clicks < PaletteOpens /\ clicks' = clicks + 1
    /\ plOpen' = TRUE
    /\ LET one == flight \cup {Ask(flight, "tenants", [at |-> 0])}
       IN  flight' = one \cup {Ask(one, "entries", [at |-> 0])}
    /\ plAsked' = plNow
    /\ plGrown' = FALSE
    /\ plOverlap' = (plOverlap \/ flight # {})
    /\ UNCHANGED <<faults, raced, plQuery, plTenants, plEntries, plActive, plNow>>

(* Escape, the backdrop, Ctrl-K, or going somewhere: the effect of open    *)
(* forgets the query.                                                      *)
Shut == plOpen' = FALSE /\ plQuery' = "" /\ plActive' = 1

ClosePalette ==
    /\ plOpen
    /\ Shut
    /\ UNCHANGED <<pageVars, plTenants, plEntries, plNow, plAsked, plGrown, plOverlap>>

(* Enter and a click on a result lead there; Enter needs a result that is  *)
(* highlighted.  A key moves the highlight, and so does the mouse.         *)
GoTo == Highlighted # None /\ ClosePalette

TypeQuery ==
    /\ plOpen
    /\ plQuery' \in Queries \ {plQuery}
    /\ plActive' = 1
    /\ plGrown' = FALSE
    /\ UNCHANGED <<pageVars, plOpen, plTenants, plEntries, plNow, plAsked, plOverlap>>

ArrowDown == plActive' = IF plActive + 1 < Len(Results) THEN plActive + 1 ELSE Len(Results)
ArrowUp == plActive' = IF plActive > 1 THEN plActive - 1 ELSE 1
Hover == plActive' \in DOMAIN Results

MoveHighlight ==
    /\ plOpen
    /\ ArrowDown \/ ArrowUp \/ Hover
    /\ UNCHANGED <<pageVars, plOpen, plQuery, plTenants, plEntries, plNow, plAsked, plGrown, plOverlap>>
-----------------------------------------------------------------------------
ServeLists ==
    /\ \E r \in flight : r.st = "sent" /\ (Answer(r, "ok", [at |-> plNow], {}) \/ Lose(r))
    /\ UNCHANGED plVars

(* A list that does not come is passed over in silence.                    *)
ListArrives ==
    /\ \E r \in flight :
         /\ r.st # "sent"
         /\ plTenants' = IF r.st = "ok" /\ r.kind = "tenants" THEN r.row.at ELSE plTenants
         /\ plEntries' = (plEntries \/ (r.st = "ok" /\ r.kind = "entries"))
         /\ Finish(r)
    /\ plGrown' = TRUE
    /\ UNCHANGED <<clicks, faults, plOpen, plQuery, plActive, plNow, plAsked, plOverlap>>

TenantsChange ==
    /\ plNow < Len(Census)
    /\ plNow' = plNow + 1
    /\ UNCHANGED <<pageVars, plUI, plAsked, plGrown, plOverlap>>

PaletteNext ==
    \/ OpenPalette \/ ClosePalette \/ GoTo \/ TypeQuery \/ MoveHighlight
    \/ ServeLists \/ ListArrives \/ TenantsChange
-----------------------------------------------------------------------------
(* While there are results one of them is highlighted, so that Enter leads *)
(* somewhere, unless a list has arrived since the query was typed: it may  *)
(* be shorter than the one before, and an arrow pressed without any result *)
(* leaves the highlight above the first.                                   *)
SomethingHighlighted ==
    plOpen /\ Results # <<>> /\ ~plGrown => Highlighted # None

(* Once its loads are done the palette finds the tenants there were when   *)
(* it was opened, or later, and not those of an earlier opening, unless    *)
(* the loads of two openings overlapped or an answer was lost.             *)
FindsWhatIsThere ==
    plOpen /\ flight = {} /\ faults = 0 /\ ~plOverlap => plEntries /\ plTenants >= plAsked
=============================================================================
