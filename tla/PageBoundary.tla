---------------------------- MODULE PageBoundary ----------------------------
(***************************************************************************)
(* What surrounds every page (ui/src/App.tsx, PageBoundary, and            *)
(* ui/src/components/ErrorBoundary.tsx): an error that a page throws is    *)
(* shown in its place until the operator goes elsewhere or tries again.    *)
(* React commits what was rendered, then calls componentDidUpdate with the *)
(* props of the commit before; nothing else happens in between.            *)
(***************************************************************************)
EXTENDS Naturals

CONSTANT Pages    \* the paths there are

VARIABLES
    pbPath,     \* location.pathname, which is resetKey
    pbPrev,     \* resetKey of the last commit
    pbError,    \* hasError
    pbThrew,    \* error: the page that threw it, if hasError
    pbPhase,    \* "render", "commit" or "idle"
    pbBroken,   \* the pages that throw when they are rendered
    pbThrows    \* history: how often the page threw since React was last idle

pbVars == <<pbPath, pbPrev, pbError, pbThrew, pbPhase, pbBroken, pbThrows>>

BoundaryInit ==
    /\ pbPath \in Pages /\ pbPrev = pbPath
    /\ pbError = FALSE /\ pbThrew = pbPath
    /\ pbPhase = "render"
    /\ pbBroken \in SUBSET Pages
    /\ pbThrows = 0
-----------------------------------------------------------------------------
(* The page is rendered unless there is an error; when it throws, the      *)
(* boundary is rendered once more with the error.                          *)
RenderPage ==
    /\ pbPhase = "render"
    /\ LET throws == ~pbError /\ pbPath \in pbBroken
       IN  /\ pbError' = (pbError \/ throws)
           /\ pbThrew' = IF throws THEN pbPath ELSE pbThrew
           /\ pbThrows' = pbThrows + IF throws THEN 1 ELSE 0
    /\ pbPhase' = "commit"
    /\ UNCHANGED <<pbPath, pbPrev, pbBroken>>

(* Mutant of ComponentDidUpdate: the keys are not compared. *)
DidUpdateAlways ==
    /\ pbPhase = "commit"
    /\ pbPrev' = pbPath
    /\ IF pbError
       THEN pbError' = FALSE /\ pbPhase' = "render" /\ UNCHANGED pbThrows
       ELSE UNCHANGED pbError /\ pbPhase' = "idle" /\ pbThrows' = 0
    /\ UNCHANGED <<pbPath, pbThrew, pbBroken>>

ComponentDidUpdate ==
    /\ pbPhase = "commit"
    /\ pbPrev' = pbPath
    /\ IF pbPath # pbPrev /\ pbError
       THEN pbError' = FALSE /\ pbPhase' = "render" /\ UNCHANGED pbThrows
       ELSE UNCHANGED pbError /\ pbPhase' = "idle" /\ pbThrows' = 0
    /\ UNCHANGED <<pbPath, pbThrew, pbBroken>>

Navigate ==
    /\ pbPhase = "idle"
    /\ pbPath' \in Pages \ {pbPath}
    /\ pbPhase' = "render"
    /\ UNCHANGED <<pbPrev, pbError, pbThrew, pbBroken, pbThrows>>

TryAgain ==
    /\ pbPhase = "idle" /\ pbError
    /\ pbError' = FALSE
    /\ pbPhase' = "render"
    /\ UNCHANGED <<pbPath, pbPrev, pbThrew, pbBroken, pbThrows>>

(* The page has other data, with which it renders or not, and is rendered  *)
(* if it is there.                                                         *)
DataChanges ==
    /\ pbPhase = "idle"
    /\ pbBroken' \in SUBSET Pages
    /\ pbPhase' = IF pbError THEN "idle" ELSE "render"
    /\ UNCHANGED <<pbPath, pbPrev, pbError, pbThrew, pbThrows>>

BoundaryNext == RenderPage \/ ComponentDidUpdate \/ Navigate \/ TryAgain \/ DataChanges
-----------------------------------------------------------------------------
(* The error shown is that of the page whose path is in the address bar,   *)
(* never that of the page left, and a page that is gone to has been given  *)
(* a chance to render.                                                     *)
ErrorIsOfThePage == pbPhase = "idle" /\ pbError => pbThrew = pbPath

(* A page that throws every time is tried twice when it is gone to (its    *)
(* first error is mistaken for one of the page before), and then given up: *)
(* the reset does not run forever.                                         *)
GivesUpOnPage == pbThrows <= 2

(* The boundary settles, and on the right error: an error neither outlives *)
(* its page nor keeps it rendering.                                        *)
BoundarySettles == ErrorIsOfThePage /\ GivesUpOnPage
=============================================================================
