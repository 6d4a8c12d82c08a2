--------------------------- MODULE ConsoleRead_proofs ---------------------------
(***************************************************************************)
(* Proofs about the console's pages that load and show, by themselves and  *)
(* all together (MCConsoleRead), and about what is around every page: the  *)
(* data hook (AsyncData), the boundary an error stops at (PageBoundary),   *)
(* and the login (AdminSession).                                           *)
(***************************************************************************)
EXTENDS MCConsoleRead, FiniteSetTheorems, TLAPS
-----------------------------------------------------------------------------
(***************************************************************************)
(* Proofs about AsyncData: its type invariant, that what it shows answers  *)
(* what is asked for, that loading tells the truth, and that it implements *)
(* LatestAnswer, for every set of deps and every bound.                    *)
(***************************************************************************)
(* The calls under way have numbers of their own, none above the number of *)
(* runs, and were answered in the past; the call of the live run asks for  *)
(* the current deps.                                                       *)
CallsApart == \A c, e \in calls : c.run = e.run => c = e

CallsCounted == live <= asks /\ \A c \in calls : c.run \in 1 .. asks

AnswersPast == asked <= world /\ \A c \in calls : c.at <= world

LiveIsCurrent ==
    \A c \in calls : c.run = live => c.of = deps /\ (c.st = "ok" => c.at >= asked)

LiveOnlyEnabled == enabled <=> live # 0

NoErrorWhileLoading == ~(loading /\ error)

HookInv ==
    /\ HookTypeOK /\ CallsApart /\ CallsCounted /\ AnswersPast /\ LiveIsCurrent
    /\ LiveOnlyEnabled /\ NoErrorWhileLoading /\ LoadingIsTrue /\ ShownIsOfCurrent

Call == [run : Nat, of : Deps, st : {"sent", "ok", "failed"}, at : Nat]
-----------------------------------------------------------------------------
LEMMA InitHolds ==
    ASSUME NEW d \in Deps, NEW e \in BOOLEAN, HookInit(d, e)
    PROVE  HookInv
<1>1. /\ deps = d /\ data = Undefined /\ error = FALSE
      /\ asks = live /\ asked = 0 /\ world = 0
  BY DEF HookInit
<1>2. ShownIsOfCurrent /\ NoErrorWhileLoading
  BY DEF HookInit, ShownIsOfCurrent, NoErrorWhileLoading
<1>3. CASE e
  <2>1. enabled = TRUE /\ loading = TRUE /\ live = 1 /\ calls = {Asking(1, d)}
    BY <1>3 DEF HookInit
  <2>2. \A c \in calls : c = Asking(1, d)
    BY <2>1
  <2>3. HookTypeOK
    <3>1. /\ asks \in Nat /\ live \in Nat /\ asked \in Nat /\ world \in Nat
          /\ deps \in Deps /\ data = Undefined /\ Asking(1, d) \in Call
      BY <1>1, <2>1 DEF Asking, Call
    <3>2. calls \subseteq Call
      BY <2>1, <3>1
    <3>3. QED
      BY <1>1, <2>1, <3>1, <3>2 DEF HookTypeOK, Call
  <2>4. CallsApart /\ CallsCounted /\ AnswersPast /\ LiveIsCurrent
    BY <1>1, <2>1, <2>2 DEF CallsApart, CallsCounted, AnswersPast, LiveIsCurrent, Asking
  <2>5. LiveOnlyEnabled /\ LoadingIsTrue
    BY <2>1 DEF LiveOnlyEnabled, LoadingIsTrue, Asking
  <2>6. QED
    BY <1>2, <2>3, <2>4, <2>5 DEF HookInv
<1>4. CASE ~e
  <2>1. enabled = FALSE /\ loading = FALSE /\ live = 0 /\ calls = {}
    BY <1>4 DEF HookInit
  <2>2. HookTypeOK
    BY <1>1, <2>1 DEF HookTypeOK
  <2>3. CallsApart /\ CallsCounted /\ AnswersPast /\ LiveIsCurrent /\ LiveOnlyEnabled /\ LoadingIsTrue
    BY <1>1, <2>1 DEF CallsApart, CallsCounted, AnswersPast, LiveIsCurrent, LiveOnlyEnabled, LoadingIsTrue
  <2>4. QED
    BY <1>2, <2>2, <2>3 DEF HookInv
<1>5. QED
  BY <1>3, <1>4

(* A run of the effect, with data kept (a render, a refetch) or not (a     *)
(* mount): its call is the only one of its number.                         *)
LEMMA EffectHolds ==
    ASSUME HookInv, NEW d \in Deps, NEW e \in BOOLEAN, Effect(d, e),
           error' \in BOOLEAN, e => error' = FALSE, data' \in {data, Undefined}
    PROVE  HookInv'
<1>1. /\ HookTypeOK /\ CallsApart /\ CallsCounted /\ AnswersPast /\ LiveIsCurrent
      /\ LiveOnlyEnabled /\ NoErrorWhileLoading /\ LoadingIsTrue /\ ShownIsOfCurrent
  BY DEF HookInv
<1>2. asks \in Nat /\ world \in Nat /\ calls \subseteq Call
  BY <1>1 DEF HookTypeOK, Call
<1>3. CASE e
  <2>1. /\ calls' = calls \cup {Asking(asks + 1, d)} /\ asks' = asks + 1 /\ live' = asks + 1
        /\ asked' = world /\ world' = world /\ deps' = d /\ loading' = TRUE /\ enabled' = TRUE
        /\ error' = FALSE
    BY <1>3 DEF Effect
  <2>2. \A c \in calls' : c = Asking(asks + 1, d) \/ (c \in calls /\ c.run \in 1 .. asks)
    BY <1>1, <2>1 DEF CallsCounted
  <2>3. HookTypeOK'
    BY <1>1, <2>1 DEF HookTypeOK, Asking
  <2>4. CallsApart'
    BY <1>1, <1>2, <2>2 DEF CallsApart, Asking
  <2>5. CallsCounted'
    BY <1>2, <2>1, <2>2 DEF CallsCounted, Asking
  <2>6. AnswersPast'
    BY <1>1, <1>2, <2>1, <2>2 DEF AnswersPast, Asking
  <2>7. LiveIsCurrent'
    BY <1>2, <2>1, <2>2 DEF LiveIsCurrent, Asking
  <2>8. LoadingIsTrue'
    <3>1. Asking(asks + 1, d) \in calls' /\ Asking(asks + 1, d).run = live'
      BY <2>1 DEF Asking
    <3>2. QED
      BY <2>1, <3>1 DEF LoadingIsTrue
  <2>9. LiveOnlyEnabled' /\ NoErrorWhileLoading' /\ ShownIsOfCurrent'
    BY <1>2, <2>1 DEF LiveOnlyEnabled, NoErrorWhileLoading, ShownIsOfCurrent
  <2>10. QED
    BY <2>3, <2>4, <2>5, <2>6, <2>7, <2>8, <2>9 DEF HookInv
<1>4. CASE ~e
  <2>1. /\ calls' = calls /\ asks' = asks /\ live' = 0 /\ asked' = asked /\ world' = world
        /\ loading' = FALSE /\ enabled' = FALSE /\ deps' = d
    BY <1>4 DEF Effect
  <2>2. HookTypeOK'
    BY <1>1, <2>1 DEF HookTypeOK
  <2>3. CallsApart' /\ CallsCounted' /\ AnswersPast'
    BY <1>1, <1>2, <2>1 DEF CallsApart, CallsCounted, AnswersPast
  <2>4. LiveIsCurrent' /\ LoadingIsTrue'
    BY <1>1, <1>2, <2>1 DEF LiveIsCurrent, LoadingIsTrue, CallsCounted
  <2>5. LiveOnlyEnabled' /\ NoErrorWhileLoading' /\ ShownIsOfCurrent'
    BY <2>1 DEF LiveOnlyEnabled, NoErrorWhileLoading, ShownIsOfCurrent
  <2>6. QED
    BY <2>2, <2>3, <2>4, <2>5 DEF HookInv
<1>5. QED
  BY <1>3, <1>4

LEMMA ServeHolds ==
    ASSUME HookInv, NEW c \in calls, Serve(c)
    PROVE  HookInv'
<1>1. /\ HookTypeOK /\ CallsApart /\ CallsCounted /\ AnswersPast /\ LiveIsCurrent
      /\ LiveOnlyEnabled /\ NoErrorWhileLoading /\ LoadingIsTrue /\ ShownIsOfCurrent
  BY DEF HookInv
<1>2. PICK st \in {"ok", "failed"} : calls' = (calls \ {c}) \cup {[c EXCEPT !.st = st, !.at = world]}
  BY DEF Serve
<1> DEFINE a == [c EXCEPT !.st = st, !.at = world]
<1>3. c \in Call /\ world \in Nat /\ asked \in Nat
  BY <1>1 DEF HookTypeOK, Call
<1>4. a \in Call /\ a.run = c.run /\ a.of = c.of /\ a.at = world
  BY <1>3 DEF Call
<1>5. UNCHANGED <<deps, enabled, data, loading, error, live, asks, asked, world>>
  BY DEF Serve
<1>6. calls' = (calls \ {c}) \cup {a}
  BY <1>2
<1> HIDE DEF a
<1>7. HookTypeOK'
  BY <1>1, <1>4, <1>5, <1>6 DEF HookTypeOK, Call
<1>8. CallsApart' /\ CallsCounted' /\ AnswersPast'
  BY <1>1, <1>3, <1>4, <1>5, <1>6 DEF CallsApart, CallsCounted, AnswersPast
<1>9. LiveIsCurrent'
  BY <1>1, <1>3, <1>4, <1>5, <1>6 DEF LiveIsCurrent, AnswersPast
<1>10. LoadingIsTrue'
  BY <1>1, <1>4, <1>5, <1>6 DEF LoadingIsTrue
<1>11. LiveOnlyEnabled' /\ NoErrorWhileLoading' /\ ShownIsOfCurrent'
  BY <1>1, <1>5 DEF LiveOnlyEnabled, NoErrorWhileLoading, ShownIsOfCurrent
<1>12. QED
  BY <1>7, <1>8, <1>9, <1>10, <1>11 DEF HookInv

LEMMA SettleHolds ==
    ASSUME HookInv, NEW c \in calls, Settle(c)
    PROVE  HookInv'
<1>1. /\ HookTypeOK /\ CallsApart /\ CallsCounted /\ AnswersPast /\ LiveIsCurrent
      /\ LiveOnlyEnabled /\ NoErrorWhileLoading /\ LoadingIsTrue /\ ShownIsOfCurrent
  BY DEF HookInv
<1>2. c \in Call
  BY <1>1 DEF HookTypeOK, Call
<1>3. /\ calls' = calls \ {c} /\ c.st \in {"ok", "failed"}
      /\ UNCHANGED <<deps, enabled, live, asks, asked, world>>
  BY <1>2 DEF Settle, Call
<1>4. CallsApart' /\ CallsCounted' /\ AnswersPast' /\ LiveIsCurrent' /\ LiveOnlyEnabled'
  BY <1>1, <1>3 DEF CallsApart, CallsCounted, AnswersPast, LiveIsCurrent, LiveOnlyEnabled
<1>5. CASE c.run = live
  <2>1. /\ loading' = FALSE
        /\ error' = (error \/ c.st = "failed")
        /\ data' = IF c.st = "ok" THEN [of |-> c.of, at |-> c.at] ELSE data
    BY <1>5 DEF Settle
  <2>2. HookTypeOK'
    BY <1>1, <1>2, <1>3, <2>1 DEF HookTypeOK, Call
  <2>3. LoadingIsTrue'
    BY <1>1, <1>3, <1>5, <2>1 DEF LoadingIsTrue, CallsApart
  <2>4. NoErrorWhileLoading'
    BY <2>1 DEF NoErrorWhileLoading
  <2>5. ShownIsOfCurrent'
    <3>1. CASE c.st = "ok"
      <4>1. c.of = deps /\ c.at >= asked
        BY <1>1, <1>5, <3>1 DEF LiveIsCurrent
      <4>2. [of |-> c.of, at |-> c.at] # Undefined
        BY <1>2, HookAssumption DEF Call
      <4>3. data' = [of |-> c.of, at |-> c.at]
        BY <2>1, <3>1
      <4>4. QED
        BY <1>3, <4>1, <4>2, <4>3 DEF ShownIsOfCurrent
    <3>2. CASE c.st = "failed"
      BY <2>1, <3>2 DEF ShownIsOfCurrent
    <3>3. QED
      BY <1>3, <3>1, <3>2
  <2>6. QED
    BY <1>4, <2>2, <2>3, <2>4, <2>5 DEF HookInv
<1>6. CASE c.run # live
  <2>1. UNCHANGED <<loading, error, data>>
    BY <1>6 DEF Settle
  <2>2. HookTypeOK' /\ LoadingIsTrue'
    BY <1>1, <1>3, <1>6, <2>1 DEF HookTypeOK, LoadingIsTrue
  <2>3. NoErrorWhileLoading' /\ ShownIsOfCurrent'
    BY <1>1, <1>3, <2>1 DEF NoErrorWhileLoading, ShownIsOfCurrent
  <2>4. QED
    BY <1>4, <2>2, <2>3 DEF HookInv
<1>7. QED
  BY <1>5, <1>6

LEMMA StepHolds == HookInv /\ [HookNext]_hookVars => HookInv'
<1> SUFFICES ASSUME HookInv, [HookNext]_hookVars
             PROVE  HookInv'
  OBVIOUS
<1>1. deps \in Deps /\ enabled \in BOOLEAN /\ error \in BOOLEAN /\ world \in Nat
  BY DEF HookInv, HookTypeOK
<1>2. ASSUME NEW d \in Deps, NEW e \in BOOLEAN, Rerun(d, e)
      PROVE  HookInv'
  <2>1. error' \in BOOLEAN /\ (e => error' = FALSE) /\ data' = data /\ Effect(d, e)
    BY <1>1, <1>2 DEF Rerun
  <2>2. QED
    BY <2>1, EffectHolds
<1>3. ASSUME NEW d \in Deps, NEW e \in BOOLEAN, Render(d, e) \/ Remount(d, e)
      PROVE  HookInv'
  BY <1>2, <1>3, EffectHolds DEF Render, Remount
<1>4. CASE Refetch
  BY <1>1, <1>2, <1>4 DEF Refetch
<1>5. ASSUME NEW c \in calls, Serve(c) \/ Settle(c)
      PROVE  HookInv'
  BY <1>5, ServeHolds, SettleHolds
<1>6. CASE ChangeWorld
  <2>1. /\ world' = world + 1
        /\ UNCHANGED <<deps, enabled, data, loading, error, live, calls, asks, asked>>
    BY <1>6 DEF ChangeWorld
  <2>2. HookTypeOK' /\ CallsApart' /\ CallsCounted' /\ LiveIsCurrent'
    BY <2>1 DEF HookInv, HookTypeOK, CallsApart, CallsCounted, LiveIsCurrent
  <2>3. AnswersPast'
    BY <1>1, <2>1 DEF HookInv, HookTypeOK, AnswersPast
  <2>4. LiveOnlyEnabled' /\ NoErrorWhileLoading' /\ LoadingIsTrue' /\ ShownIsOfCurrent'
    BY <2>1 DEF HookInv, LiveOnlyEnabled, NoErrorWhileLoading, LoadingIsTrue, ShownIsOfCurrent
  <2>5. QED
    BY <2>2, <2>3, <2>4 DEF HookInv
<1>7. CASE UNCHANGED hookVars
  BY <1>7 DEF hookVars, HookInv, HookTypeOK, CallsApart, CallsCounted, AnswersPast, LiveIsCurrent,
              LiveOnlyEnabled, NoErrorWhileLoading, LoadingIsTrue, ShownIsOfCurrent
<1>8. QED
  BY <1>3, <1>4, <1>5, <1>6, <1>7 DEF HookNext, HookAnswers

LEMMA InvAlways == HookSpec => []HookInv
<1>1. (\E d \in Deps, e \in BOOLEAN : HookInit(d, e)) => HookInv
  BY InitHolds
<1>2. QED
  BY <1>1, StepHolds, PTL DEF HookSpec

(* What the hook's state holds is of its type in every reachable state.    *)
THEOREM TypeAlways == HookSpec => []HookTypeOK
BY InvAlways, PTL DEF HookInv

(* What is shown once nothing is loading answers what is asked for now,    *)
(* and is no older than the question.                                      *)
THEOREM ShownAlwaysCurrent == HookSpec => []ShownIsOfCurrent
BY InvAlways, PTL DEF HookInv

(* The hook is loading exactly while its live call is under way.           *)
THEOREM LoadingAlwaysTrue == HookSpec => []LoadingIsTrue
BY InvAlways, PTL DEF HookInv
-----------------------------------------------------------------------------
(* Each step of the hook is a step of the promise, or none to it.          *)
LEMMA InitMaps ==
    ASSUME NEW d \in Deps, NEW e \in BOOLEAN, HookInit(d, e)
    PROVE  Latest!Init
<1>1. CASE e
  BY <1>1 DEF HookInit, Latest!Init, Phase
<1>2. CASE ~e
  BY <1>2 DEF HookInit, Latest!Init, Phase
<1>3. QED
  BY <1>1, <1>2

LEMMA EffectMaps ==
    ASSUME NEW d \in Deps, NEW e \in BOOLEAN, Effect(d, e), data' \in {data, Undefined}
    PROVE  Latest!Next
<1>1. CASE e
  <2>1. deps' = d /\ Phase' = "waiting" /\ asked' = world /\ world' = world
    BY <1>1 DEF Effect, Phase
  <2>2. QED
    BY <2>1 DEF Latest!Next, Latest!AskAnew
<1>2. CASE ~e
  <2>1. deps' = d /\ Phase' = "off" /\ asked' = asked /\ world' = world
    BY <1>2 DEF Effect, Phase
  <2>2. QED
    BY <2>1 DEF Latest!Next, Latest!StopAsking
<1>3. QED
  BY <1>1, <1>2

LEMMA SettleMaps ==
    ASSUME HookInv, NEW c \in calls, Settle(c)
    PROVE  [Latest!Next]_Latest!latestVars
<1>1. c \in Call /\ asked \in Nat /\ world \in Nat
  BY DEF HookInv, HookTypeOK, Call
<1>2. UNCHANGED <<deps, enabled, asked, world>> /\ c.st \in {"ok", "failed"}
  BY <1>1 DEF Settle, Call
<1>3. CASE c.run # live
  BY <1>2, <1>3 DEF Settle, Phase, Latest!latestVars
<1>4. CASE c.run = live
  <2>1. enabled /\ loading /\ ~error
    BY <1>1, <1>4 DEF HookInv, LoadingIsTrue, LiveOnlyEnabled, CallsCounted, NoErrorWhileLoading
  <2>2. Phase = "waiting"
    BY <2>1 DEF Phase
  <2>3. CASE c.st = "ok"
    <3>1. c.of = deps /\ c.at \in asked .. world
      BY <1>1, <1>4, <2>3 DEF HookInv, LiveIsCurrent, AnswersPast, Call
    <3>2. loading' = FALSE /\ error' = FALSE /\ data' = [of |-> deps, at |-> c.at]
      BY <1>4, <2>1, <2>3, <3>1 DEF Settle
    <3>3. Phase' = "answered"
      BY <1>2, <2>1, <3>2 DEF Phase
    <3>4. QED
      BY <1>2, <2>2, <3>1, <3>2, <3>3 DEF Latest!Next, Latest!Tell
  <2>4. CASE c.st = "failed"
    <3>1. loading' = FALSE /\ error' = TRUE /\ data' = data
      BY <1>4, <2>4 DEF Settle
    <3>2. Phase' = "failed"
      BY <1>2, <2>1, <3>1 DEF Phase
    <3>3. QED
      BY <1>2, <2>2, <3>1, <3>2 DEF Latest!Next, Latest!Fail
  <2>5. QED
    BY <1>2, <2>3, <2>4
<1>5. QED
  BY <1>3, <1>4

LEMMA StepMaps == HookInv /\ [HookNext]_hookVars => [Latest!Next]_Latest!latestVars
<1> SUFFICES ASSUME HookInv, [HookNext]_hookVars
             PROVE  [Latest!Next]_Latest!latestVars
  OBVIOUS
<1>1. ASSUME NEW d \in Deps, NEW e \in BOOLEAN, Render(d, e) \/ Remount(d, e)
      PROVE  Latest!Next
  BY <1>1, EffectMaps DEF Render, Rerun, Remount
<1>2. ASSUME Refetch
      PROVE  Latest!Next
  BY <1>2, EffectMaps DEF Refetch, Rerun, HookInv, HookTypeOK
<1>3. ASSUME NEW c \in calls, Serve(c)
      PROVE  UNCHANGED Latest!latestVars
  BY <1>3 DEF Serve, Phase, Latest!latestVars
<1>4. ASSUME ChangeWorld
      PROVE  Latest!Next
  BY <1>4 DEF ChangeWorld, Phase, Latest!Next, Latest!Pass
<1>5. CASE UNCHANGED hookVars
  BY <1>5 DEF hookVars, Phase, Latest!latestVars
<1>6. QED
  BY <1>1, <1>2, <1>3, <1>4, <1>5, SettleMaps DEF HookNext, HookAnswers

(* The hook implements the promise LatestAnswer states, whatever it is     *)
(* asked and in whatever order it is answered.                             *)
THEOREM PromiseKept == HookSpec => KeepsPromise
<1>1. (\E d \in Deps, e \in BOOLEAN : HookInit(d, e)) => Latest!Init
  BY InitMaps
<1>2. QED
  BY <1>1, InvAlways, StepMaps, PTL DEF HookSpec, KeepsPromise, Latest!Spec
-----------------------------------------------------------------------------
(***************************************************************************)
(* Proofs about PageBoundary, for any set of pages.  An error on the       *)
(* screen is known to be of the page because a commit whose error is not   *)
(* leads to another render; so the invariant says of each phase whose      *)
(* error there may be, and how often the page can have thrown by then.     *)
(***************************************************************************)
BoundarySpec == BoundaryInit /\ [][BoundaryNext]_pbVars

Idle ==
    pbPhase = "idle" => pbPrev = pbPath /\ pbThrows = 0 /\ (pbError => pbThrew = pbPath)

(* An error that is there when a page is to be rendered is that of the     *)
(* page before, and this one has not been tried.                           *)
Rendering ==
    pbPhase = "render" =>
      /\ pbPrev = pbPath => ~pbError /\ pbThrows <= 1
      /\ pbPrev # pbPath => pbThrows = 0

Committing ==
    pbPhase = "commit" =>
      /\ pbPrev = pbPath => pbThrows <= 2 /\ (pbError => pbThrew = pbPath)
      /\ pbPrev # pbPath => pbThrows <= 1

BoundaryInv ==
    /\ pbPhase \in {"render", "commit", "idle"} /\ pbThrows \in Nat /\ pbError \in BOOLEAN
    /\ Idle /\ Rendering /\ Committing
-----------------------------------------------------------------------------
LEMMA InitBoundary == BoundaryInit => BoundaryInv
<1> SUFFICES ASSUME BoundaryInit PROVE BoundaryInv
  OBVIOUS
<1>1. pbPhase = "render" /\ pbPrev = pbPath /\ pbError = FALSE /\ pbThrows = 0
  BY DEF BoundaryInit
<1>2. ~pbError /\ pbError \in BOOLEAN
  BY <1>1, Zenon
<1>3. QED
  BY <1>1, <1>2, SMT DEF BoundaryInv, Idle, Rendering, Committing

LEMMA StepBoundary == BoundaryInv /\ [BoundaryNext]_pbVars => BoundaryInv'
<1> SUFFICES ASSUME BoundaryInv, [BoundaryNext]_pbVars
             PROVE  BoundaryInv'
  OBVIOUS
<1> USE DEF BoundaryInv, Idle, Rendering, Committing
<1>1. CASE RenderPage
  <2>1. pbPhase = "render" /\ pbPhase' = "commit" /\ pbPath' = pbPath /\ pbPrev' = pbPrev
    BY <1>1 DEF RenderPage
  <2>2. CASE ~pbError /\ pbPath \in pbBroken
    <3>1. pbError' = TRUE /\ pbThrew' = pbPath /\ pbThrows' = pbThrows + 1
      BY <1>1, <2>2 DEF RenderPage
    <3>2. QED
      BY <2>1, <3>1
  <2>3. CASE ~(~pbError /\ pbPath \in pbBroken)
    <3>1. pbError' = pbError /\ pbThrew' = pbThrew /\ pbThrows' = pbThrows
      BY <1>1, <2>3 DEF RenderPage
    <3>2. QED
      BY <2>1, <3>1
  <2>4. QED
    BY <2>2, <2>3
<1>2. CASE ComponentDidUpdate
  <2>1. pbPhase = "commit" /\ pbPath' = pbPath /\ pbPrev' = pbPath /\ pbThrew' = pbThrew
    BY <1>2 DEF ComponentDidUpdate
  <2>2. CASE pbPath # pbPrev /\ pbError
    <3>1. pbError' = FALSE /\ pbPhase' = "render" /\ pbThrows' = pbThrows
      BY <1>2, <2>2 DEF ComponentDidUpdate
    <3>2. ~pbError' /\ pbError' \in BOOLEAN
      BY <3>1, Zenon
    <3>3. QED
      BY <2>1, <2>2, <3>1, <3>2, SMT
  <2>3. CASE ~(pbPath # pbPrev /\ pbError)
    <3>1. pbError' = pbError /\ pbPhase' = "idle" /\ pbThrows' = 0
      BY <1>2, <2>3 DEF ComponentDidUpdate
    <3>2. QED
      BY <2>1, <2>3, <3>1
  <2>4. QED
    BY <2>2, <2>3
<1>3. CASE Navigate
  BY <1>3 DEF Navigate
<1>4. CASE TryAgain
  <2>1. /\ pbPhase = "idle" /\ pbPhase' = "render" /\ pbError' = FALSE
        /\ pbPath' = pbPath /\ pbPrev' = pbPrev /\ pbThrew' = pbThrew /\ pbThrows' = pbThrows
    BY <1>4 DEF TryAgain
  <2>2. ~pbError' /\ pbError' \in BOOLEAN
    BY <2>1, Zenon
  <2>3. QED
    BY <2>1, <2>2, SMT
<1>5. CASE DataChanges
  BY <1>5 DEF DataChanges
<1>6. CASE UNCHANGED pbVars
  BY <1>6 DEF pbVars
<1>7. QED
  BY <1>1, <1>2, <1>3, <1>4, <1>5, <1>6 DEF BoundaryNext

LEMMA BoundaryAlways == BoundarySpec => []BoundaryInv
BY InitBoundary, StepBoundary, PTL DEF BoundarySpec

LEMMA BoundarySays == BoundaryInv => BoundarySettles
<1>1. BoundaryInv => ErrorIsOfThePage
  BY DEF BoundaryInv, Idle, ErrorIsOfThePage
<1>2. BoundaryInv => GivesUpOnPage
  BY DEF BoundaryInv, Idle, Rendering, Committing, GivesUpOnPage
<1>3. QED
  BY <1>1, <1>2 DEF BoundarySettles

(* The error on the screen is that of the page in the address bar: neither *)
(* a navigation over an error nor an error of the page gone to leaves the  *)
(* error of another page there; and a page that keeps throwing is given up *)
(* after two attempts.                                                     *)
THEOREM BoundaryAlwaysSettles == BoundarySpec => []BoundarySettles
BY BoundarySays, BoundaryAlways, PTL
-----------------------------------------------------------------------------
(***************************************************************************)
(* Proofs about AdminSession, for any number of tabs, logins and requests  *)
(* that get lost.  That nobody gets in unchecked rests on what a tab knows *)
(* of the answers that are on their way to it; that a token logged out of  *)
(* does not come back, on what is still only in an answer: the token of a  *)
(* login that the tab has yet to learn of is nowhere else.                 *)
(***************************************************************************)
Minted == 1 .. asMinted

(* No token is in use that no login made.                                  *)
Known ==
    /\ asVouched \in [Tabs -> SUBSET SessionTokens]
    /\ asEnded \subseteq Minted
    /\ asStored \in Minted \cup {NoToken} /\ asCookie \in Minted \cup {NoToken}
    /\ \A t \in Tabs : asToken[t] \in Minted \cup {NoToken}
    /\ \A r \in asReqs : r.token \in Minted \cup {NoToken}

(* A tab that has its token checked awaits nothing else, and a yes is one  *)
(* the server gave to this token.                                          *)
Checking ==
    \A r \in asReqs : r.kind = "verify" =>
      /\ \A q \in asReqs : q.tab = r.tab => q = r
      /\ r.token = asToken[r.tab]
      /\ r.st = "ok" => r.token \in asVouched[r.tab]

(* The token of an accepted login is in its answer, at most in the cookie  *)
(* besides, and nowhere else.                                              *)
LoggingIn ==
    \A r \in asReqs : r.kind = "login" /\ r.st = "ok" =>
      /\ r.token \in Minted /\ r.token \in asVouched[r.tab]
      /\ r.token \notin asEnded /\ r.token # asStored
      /\ \A t \in Tabs : asToken[t] # r.token
      /\ \A q \in asReqs : q # r => q.token # r.token

(* A logout is of a token, which the cookie is not once it is answered.    *)
LoggingOut ==
    \A r \in asReqs : r.kind = "logout" =>
      /\ r.token \in Minted
      /\ r.st = "ok" => asCookie # r.token

SessionInv ==
    SessionTypeOK /\ Known /\ Checking /\ LoggingIn /\ LoggingOut /\ CheckedAndForgotten
-----------------------------------------------------------------------------
SessionRequests ==
    [no : 1 .. AtOnce, tab : Tabs, kind : {"verify", "login", "logout"},
     st : {"sent", "ok", "refused", "failed"}, token : SessionTokens \cup {NoToken}]

(* A request that is answered: the answer is the request's but for what it *)
(* says and the token in it.                                               *)
Answered(r, a, st, token) ==
    /\ a \in SessionRequests
    /\ a.tab = r.tab /\ a.kind = r.kind /\ a.st = st /\ a.token = token
    /\ asReqs' = (asReqs \ {r}) \cup {a}

LEMMA AnsweredBy ==
    ASSUME SessionTypeOK, NEW r \in asReqs, NEW st \in {"sent", "ok", "refused", "failed"},
           NEW token \in SessionTokens \cup {NoToken}, Answers(r, st, token)
    PROVE  \E a : Answered(r, a, st, token)
<1> DEFINE a == [r EXCEPT !.st = st, !.token = token]
<1>1. r \in SessionRequests
  BY DEF SessionTypeOK, SessionRequests
<1>2. a \in SessionRequests /\ a.tab = r.tab /\ a.kind = r.kind /\ a.st = st /\ a.token = token
  BY <1>1 DEF SessionRequests
<1>3. asReqs' = (asReqs \ {r}) \cup {a}
  BY DEF Answers
<1> HIDE DEF a
<1>4. QED
  BY <1>2, <1>3 DEF Answered

(* A request that is sent: the tab awaits it besides those it has kept.    *)
Asked(t, kept, kind, token, q) ==
    /\ q \in SessionRequests
    /\ q.tab = t /\ q.kind = kind /\ q.st = "sent" /\ q.token = token
    /\ asReqs' = (asReqs \ ReqsOf(t)) \cup kept \cup {q}

LEMMA AskedBy ==
    ASSUME NEW t \in Tabs, NEW kept, NEW kind \in {"verify", "login", "logout"},
           NEW token \in SessionTokens \cup {NoToken}, AskServer(t, kept, kind, token)
    PROVE  \E q : Asked(t, kept, kind, token, q)
<1>1. PICK n \in 1 .. AtOnce :
        asReqs' = (asReqs \ ReqsOf(t)) \cup kept
                     \cup {[no |-> n, tab |-> t, kind |-> kind, st |-> "sent", token |-> token]}
  BY DEF AskServer
<1> DEFINE q == [no |-> n, tab |-> t, kind |-> kind, st |-> "sent", token |-> token]
<1>2. q \in SessionRequests /\ q.tab = t /\ q.kind = kind /\ q.st = "sent" /\ q.token = token
  BY <1>1 DEF SessionRequests
<1>3. asReqs' = (asReqs \ ReqsOf(t)) \cup kept \cup {q}
  BY <1>1
<1> HIDE DEF q
<1>4. QED
  BY <1>2, <1>3 DEF Asked

LEMMA TypedRequests == SessionTypeOK => asReqs \subseteq SessionRequests
BY DEF SessionTypeOK, SessionRequests

LEMMA MintedTokens == SessionTypeOK => Minted \subseteq SessionTokens /\ NoToken \notin Minted
BY SessionAssumption DEF SessionTypeOK, Minted, SessionTokens

LEMMA SessionStarts == SessionInit => SessionInv
<1> SUFFICES ASSUME SessionInit PROVE SessionInv
  OBVIOUS
<1> USE DEF SessionInit
<1>1. SessionTypeOK
  BY SessionAssumption DEF SessionTypeOK, ReqsOf, SessionTokens
<1>2. Known
  BY DEF Known
<1>3. Checking /\ LoggingIn /\ LoggingOut
  BY DEF Checking, LoggingIn, LoggingOut
<1>4. CheckedAndForgotten
  BY DEF CheckedAndForgotten, NothingShownUnchecked, LogoutForgets
<1>5. QED
  BY <1>1, <1>2, <1>3, <1>4 DEF SessionInv
-----------------------------------------------------------------------------
(* What a tab that is loaded awaits, and what it shows meanwhile.          *)
Loaded(t, new) ==
    /\ asReqs' = (asReqs \ ReqsOf(t)) \cup new
    /\ asView' = [asView EXCEPT ![t] = IF new = {} THEN "login" ELSE "checking"]
    /\ \A q \in new :
         /\ new = {q} /\ q \in SessionRequests
         /\ q.tab = t /\ q.kind = "verify" /\ q.st = "sent" /\ q.token = asStored

LEMMA LoadKeeps == ASSUME SessionInv, NEW t \in Tabs, LoadTab(t) PROVE SessionInv'
<1>a. asReqs \subseteq SessionRequests /\ SessionTypeOK /\ Known
  BY TypedRequests DEF SessionInv
<1>b. /\ asToken' = [asToken EXCEPT ![t] = asStored] /\ asVouched' = [asVouched EXCEPT ![t] = {}]
      /\ UNCHANGED <<asStored, asCookie, asLive, asMinted, asEnded>>
  BY DEF LoadTab, asShared, asServer
<1>c. \E new : Loaded(t, new)
  <2>1. CASE asStored = NoToken
    <3>1. asView' = [asView EXCEPT ![t] = "login"] /\ asReqs' = (asReqs \ ReqsOf(t)) \cup {}
      BY <2>1 DEF LoadTab, Show
    <3>2. Loaded(t, {})
      BY <3>1 DEF Loaded
    <3>3. QED
      BY <3>2
  <2>2. CASE asStored # NoToken
    <3>1. PICK q : Asked(t, {}, "verify", asStored, q)
      BY <1>a, <2>2, AskedBy DEF LoadTab, SessionTypeOK
    <3>2. asView' = [asView EXCEPT ![t] = "checking"]
      BY <2>2 DEF LoadTab, Show
    <3>3. asReqs' = (asReqs \ ReqsOf(t)) \cup {q}
      BY <3>1 DEF Asked
    <3>4. Loaded(t, {q})
      BY <3>1, <3>2, <3>3 DEF Asked, Loaded
    <3>5. QED
      BY <3>4
  <2>3. QED
    BY <2>1, <2>2
<1>i. PICK new : Loaded(t, new)
  BY <1>c
<1>d. /\ asReqs' = (asReqs \ ReqsOf(t)) \cup new
      /\ asView' = [asView EXCEPT ![t] = IF new = {} THEN "login" ELSE "checking"]
      /\ \A q \in new :
           /\ new = {q} /\ q \in SessionRequests
           /\ q.tab = t /\ q.kind = "verify" /\ q.st = "sent" /\ q.token = asStored
  BY <1>i DEF Loaded
<1>e. /\ \A r \in asReqs' : r \in new \/ (r \in asReqs /\ r.tab # t)
      /\ \A r \in asReqs : r.tab # t => r \in asReqs'
      /\ new \subseteq asReqs'
  BY <1>d DEF ReqsOf
<1>f. \A u \in Tabs \ {t} : asToken'[u] = asToken[u] /\ asView'[u] = asView[u] /\ asVouched'[u] = asVouched[u]
  BY <1>a, <1>b, <1>d DEF SessionTypeOK, Known
<1>g. asToken'[t] = asStored /\ asVouched'[t] = {} /\ asView'[t] = IF new = {} THEN "login" ELSE "checking"
  BY <1>a, <1>b, <1>d DEF SessionTypeOK, Known
<1>h. \A r \in asReqs : r.tab \in Tabs
  BY <1>a DEF SessionRequests
<1>1. SessionTypeOK'
  <2>1. asReqs' \subseteq SessionRequests
    BY <1>a, <1>d, <1>e
  <2>2. ASSUME NEW u \in Tabs
        PROVE  asView'[u] = "checking" <=> \E r \in ReqsOf(u)' : r.kind = "verify"
    <3>1. CASE u = t
      BY <1>d, <1>e, <1>g, <3>1 DEF ReqsOf
    <3>2. CASE u # t
      BY <1>a, <1>d, <1>e, <1>f, <3>2 DEF ReqsOf, SessionTypeOK
    <3>3. QED
      BY <3>1, <3>2
  <2>3. asView' \in [Tabs -> {"closed", "checking", "login", "console"}]
    BY <1>a, <1>d DEF SessionTypeOK
  <2>4. QED
    BY <1>a, <1>b, <2>1, <2>2, <2>3 DEF SessionTypeOK, SessionRequests, SessionTokens
<1>2. Known'
  <2>1. asVouched' \in [Tabs -> SUBSET SessionTokens]
    BY <1>a, <1>b DEF Known
  <2>2. \A r \in asReqs' : r.token \in Minted \cup {NoToken}
    BY <1>a, <1>d, <1>e DEF Known
  <2>3. \A u \in Tabs : asToken'[u] \in Minted \cup {NoToken}
    BY <1>a, <1>f, <1>g DEF Known
  <2>4. QED
    BY <1>a, <1>b, <2>1, <2>2, <2>3 DEF Known, Minted
<1>3. Checking'
  BY <1>d, <1>e, <1>f, <1>g, <1>h DEF Checking, SessionInv
<1>4. LoggingIn'
  BY <1>b, <1>d, <1>e, <1>f, <1>g, <1>h DEF LoggingIn, SessionInv, Minted
<1>7. LoggingOut'
  BY <1>b, <1>d, <1>e DEF LoggingOut, SessionInv, Minted
<1>5. CheckedAndForgotten'
  BY <1>b, <1>f, <1>g DEF CheckedAndForgotten, NothingShownUnchecked, LogoutForgets, SessionInv
<1>6. QED
  BY <1>1, <1>2, <1>3, <1>4, <1>5, <1>7 DEF SessionInv

LEMMA SubmitKeeps == ASSUME SessionInv, NEW t \in Tabs, SubmitLogin(t) PROVE SessionInv'
<1>a. asReqs \subseteq SessionRequests /\ SessionTypeOK /\ Known
  BY TypedRequests DEF SessionInv
<1>b. PICK q : Asked(t, ReqsOf(t), "login", NoToken, q)
  BY <1>a, AskedBy DEF SubmitLogin, SessionTypeOK
<1>c. /\ asReqs' = asReqs \cup {q} /\ q \in SessionRequests
      /\ q.tab = t /\ q.kind = "login" /\ q.st = "sent" /\ q.token = NoToken
  BY <1>b DEF Asked, ReqsOf
<1>d. asView[t] = "login" /\ UNCHANGED <<asView, asToken, asStored, asCookie, asLive, asMinted, asVouched, asEnded>>
  BY DEF SubmitLogin, asShared, asServer, asHistory
<1>e. \A r \in asReqs : r.kind = "verify" => r.tab # t
  BY <1>a, <1>d DEF SessionTypeOK, ReqsOf
<1>1. SessionTypeOK'
  <2>1. asReqs' \subseteq SessionRequests
    BY <1>a, <1>c
  <2>2. \A u \in Tabs : asView'[u] = "checking" <=> \E r \in ReqsOf(u)' : r.kind = "verify"
    BY <1>a, <1>c, <1>d DEF SessionTypeOK, ReqsOf
  <2>3. QED
    BY <1>a, <1>d, <2>1, <2>2 DEF SessionTypeOK, SessionRequests, SessionTokens
<1>2. Known'
  BY <1>a, <1>c, <1>d DEF Known, Minted
<1>3. Checking'
  BY <1>c, <1>d, <1>e DEF Checking, SessionInv
<1>4. LoggingIn'
  <2>1. NoToken \notin Minted
    BY <1>a, SessionAssumption DEF Minted, SessionTypeOK
  <2>2. Minted' = Minted
    BY <1>d DEF Minted
  <2>3. QED
    BY <1>c, <1>d, <2>1, <2>2 DEF LoggingIn, SessionInv
<1>7. LoggingOut'
  BY <1>c, <1>d DEF LoggingOut, SessionInv, Minted
<1>5. CheckedAndForgotten'
  BY <1>d DEF CheckedAndForgotten, NothingShownUnchecked, LogoutForgets, SessionInv
<1>6. QED
  BY <1>1, <1>2, <1>3, <1>4, <1>5, <1>7 DEF SessionInv

LEMMA LogoutKeeps == ASSUME SessionInv, NEW t \in Tabs, HandleLogout(t) PROVE SessionInv'
<1>a. asReqs \subseteq SessionRequests /\ SessionTypeOK /\ Known
  BY TypedRequests DEF SessionInv
<1>b. PICK q : Asked(t, ReqsOf(t), "logout", asToken[t], q)
  BY <1>a, AskedBy DEF HandleLogout, SessionTypeOK
<1>c. /\ asReqs' = asReqs \cup {q} /\ q \in SessionRequests
      /\ q.tab = t /\ q.kind = "logout" /\ q.st = "sent" /\ q.token = asToken[t]
  BY <1>b DEF Asked, ReqsOf
<1>d. asView[t] = "console" /\ UNCHANGED <<asView, asToken, asStored, asCookie, asLive, asMinted, asVouched, asEnded>>
  BY DEF HandleLogout, asShared, asServer, asHistory
<1>e. \A r \in asReqs : r.kind = "verify" => r.tab # t
  BY <1>a, <1>d DEF SessionTypeOK, ReqsOf
<1>1. SessionTypeOK'
  <2>1. asReqs' \subseteq SessionRequests
    BY <1>a, <1>c
  <2>2. \A u \in Tabs : asView'[u] = "checking" <=> \E r \in ReqsOf(u)' : r.kind = "verify"
    BY <1>a, <1>c, <1>d DEF SessionTypeOK, ReqsOf
  <2>3. QED
    BY <1>a, <1>d, <2>1, <2>2 DEF SessionTypeOK, SessionRequests, SessionTokens
<1>2. Known'
  BY <1>a, <1>c, <1>d DEF Known, Minted
<1>3. Checking'
  BY <1>c, <1>d, <1>e DEF Checking, SessionInv
<1>4. LoggingIn'
  BY <1>a, <1>c, <1>d DEF LoggingIn, SessionInv, Minted
<1>7. LoggingOut'
  <2>1. asToken[t] # NoToken
    BY <1>a, <1>d, SessionAssumption
       DEF SessionInv, CheckedAndForgotten, NothingShownUnchecked, Known, SessionTokens
  <2>2. QED
    BY <1>a, <1>c, <1>d, <2>1 DEF LoggingOut, SessionInv, Minted, Known
<1>5. CheckedAndForgotten'
  BY <1>d DEF CheckedAndForgotten, NothingShownUnchecked, LogoutForgets, SessionInv
<1>6. QED
  BY <1>1, <1>2, <1>3, <1>4, <1>5, <1>7 DEF SessionInv
-----------------------------------------------------------------------------
LEMMA AnswerFacts ==
    ASSUME SessionTypeOK, NEW r \in asReqs, NEW a, NEW st, NEW token, Answered(r, a, st, token)
    PROVE  /\ \A q \in asReqs' : q = a \/ (q \in asReqs /\ q # r)
           /\ \A q \in asReqs : q # r => q \in asReqs'
           /\ a \in asReqs' /\ asReqs' \subseteq SessionRequests
           /\ r.tab \in Tabs /\ a.tab = r.tab /\ a.kind = r.kind /\ a.st = st /\ a.token = token
<1>1. asReqs \subseteq SessionRequests
  BY TypedRequests
<1>2. r.tab \in Tabs
  BY <1>1 DEF SessionRequests
<1>3. QED
  BY <1>1, <1>2 DEF Answered

(* While a request is served the tabs do not move.                         *)
LEMMA ServedTyped ==
    ASSUME SessionTypeOK, NEW r \in asReqs, NEW a, NEW st, NEW token, Answered(r, a, st, token),
           UNCHANGED <<asView, asToken, asStored>>,
           asCookie' \in SessionTokens \cup {NoToken},
           asMinted' \in 0 .. MaxLogins, asLive' \subseteq 1 .. asMinted'
    PROVE  SessionTypeOK'
<1>a. /\ \A q \in asReqs' : q = a \/ (q \in asReqs /\ q # r)
      /\ \A q \in asReqs : q # r => q \in asReqs'
      /\ a \in asReqs' /\ asReqs' \subseteq SessionRequests
      /\ a.tab = r.tab /\ a.kind = r.kind
  BY AnswerFacts
<1>1. ASSUME NEW t \in Tabs
      PROVE  (\E q \in ReqsOf(t) : q.kind = "verify") <=> (\E q \in ReqsOf(t)' : q.kind = "verify")
  BY <1>a DEF ReqsOf
<1>2. \A t \in Tabs : asView'[t] = "checking" <=> \E q \in ReqsOf(t)' : q.kind = "verify"
  BY <1>1 DEF SessionTypeOK
<1>3. QED
  BY <1>a, <1>2 DEF SessionTypeOK, SessionRequests, SessionTokens

LEMMA VouchFacts ==
    ASSUME Known, NEW r, r.tab \in Tabs, NEW tokens \in SUBSET SessionTokens, Vouch(r, tokens)
    PROVE  /\ asVouched' \in [Tabs -> SUBSET SessionTokens]
           /\ asVouched'[r.tab] = asVouched[r.tab] \cup tokens
           /\ \A t \in Tabs : asVouched[t] \subseteq asVouched'[t]
<1>1. asVouched' = [asVouched EXCEPT ![r.tab] = asVouched[r.tab] \cup tokens]
  BY DEF Vouch
<1>2. asVouched[r.tab] \cup tokens \in SUBSET SessionTokens
  BY DEF Known
<1>3. QED
  BY <1>1, <1>2 DEF Known

LEMMA VerifyServed ==
    ASSUME SessionInv, NEW r \in asReqs, r.st = "sent", ServeVerify(r),
           UNCHANGED <<asView, asToken, asEnded>>
    PROVE  SessionInv'
<1> DEFINE st == IF r.token \in asLive THEN "ok" ELSE "refused"
<1>b. SessionTypeOK /\ Known /\ r.token \in SessionTokens \cup {NoToken} /\ r.kind = "verify"
  BY TypedRequests DEF SessionInv, SessionRequests, ServeVerify
<1>c. PICK a : Answered(r, a, st, r.token)
  BY <1>b, AnsweredBy DEF ServeVerify
<1>d. /\ \A q \in asReqs' : q = a \/ (q \in asReqs /\ q # r)
      /\ \A q \in asReqs : q # r => q \in asReqs'
      /\ a \in asReqs' /\ asReqs' \subseteq SessionRequests
      /\ r.tab \in Tabs /\ a.tab = r.tab /\ a.kind = r.kind /\ a.st = st /\ a.token = r.token
  BY <1>b, <1>c, AnswerFacts
<1>e. UNCHANGED <<asStored, asCookie, asLive, asMinted>> /\ Minted' = Minted
  BY DEF ServeVerify, asShared, asServer, Minted
<1>f. /\ asVouched' \in [Tabs -> SUBSET SessionTokens]
      /\ asVouched'[r.tab] = asVouched[r.tab] \cup ({r.token} \cap asLive)
      /\ \A t \in Tabs : asVouched[t] \subseteq asVouched'[t]
  <2>1. {r.token} \cap asLive \in SUBSET SessionTokens
    <3>1. asLive \subseteq SessionTokens
      BY <1>b, MintedTokens DEF SessionTypeOK, Minted
    <3>2. QED
      BY <3>1
  <2>2. QED
    BY <1>b, <1>d, <2>1, VouchFacts DEF ServeVerify
<1>h. \A q \in asReqs : q.tab \in Tabs
  BY <1>b, TypedRequests DEF SessionRequests
<1>1. SessionTypeOK'
  BY <1>b, <1>c, <1>e, ServedTyped DEF SessionTypeOK
<1>2. Known'
  BY <1>b, <1>d, <1>e, <1>f DEF Known
<1>3. Checking'
  <2>1. a.st = "ok" => a.token \in asVouched'[a.tab]
    BY <1>d, <1>f
  <2>2. \A q \in asReqs : q # r => q.tab # r.tab
    BY <1>b DEF SessionInv, Checking
  <2>3. QED
    BY <1>b, <1>d, <1>f, <1>h, <2>1, <2>2 DEF Checking, SessionInv
<1>4. LoggingIn'
  BY <1>b, <1>d, <1>e, <1>f, <1>h DEF LoggingIn, SessionInv
<1>7. LoggingOut'
  BY <1>b, <1>d, <1>e DEF LoggingOut, SessionInv
<1>5. CheckedAndForgotten'
  BY <1>e, <1>f DEF CheckedAndForgotten, NothingShownUnchecked, LogoutForgets, SessionInv
<1>6. QED
  BY <1>1, <1>2, <1>3, <1>4, <1>5, <1>7 DEF SessionInv

LEMMA LogoutServed ==
    ASSUME SessionInv, NEW r \in asReqs, r.st = "sent", ServeLogout(r),
           UNCHANGED <<asView, asToken, asEnded>>
    PROVE  SessionInv'
<1>b. SessionTypeOK /\ Known /\ r.token \in SessionTokens \cup {NoToken} /\ r.kind = "logout"
  BY TypedRequests DEF SessionInv, SessionRequests, ServeLogout
<1>c. PICK a : Answered(r, a, "ok", r.token)
  BY <1>b, AnsweredBy DEF ServeLogout
<1>d. /\ \A q \in asReqs' : q = a \/ (q \in asReqs /\ q # r)
      /\ \A q \in asReqs : q # r => q \in asReqs'
      /\ a \in asReqs' /\ asReqs' \subseteq SessionRequests
      /\ r.tab \in Tabs /\ a.tab = r.tab /\ a.kind = r.kind /\ a.st = "ok" /\ a.token = r.token
  BY <1>b, <1>c, AnswerFacts
<1>e. UNCHANGED <<asStored, asLive, asMinted, asVouched>> /\ Minted' = Minted /\ asCookie' = NoToken
  BY DEF ServeLogout, asServer, Minted
<1>f. NoToken \notin Minted
  BY <1>b, SessionAssumption DEF Minted, SessionTypeOK
<1>1. SessionTypeOK'
  BY <1>b, <1>c, <1>e, ServedTyped DEF SessionTypeOK
<1>2. Known'
  BY <1>b, <1>d, <1>e DEF Known
<1>3. Checking'
  <2>1. \A q \in asReqs : q.kind = "verify" => q.tab # r.tab
    BY <1>b DEF SessionInv, Checking
  <2>2. QED
    BY <1>b, <1>d, <1>e, <2>1 DEF Checking, SessionInv
<1>4. LoggingIn'
  BY <1>b, <1>d, <1>e DEF LoggingIn, SessionInv
<1>7. LoggingOut'
  BY <1>b, <1>d, <1>e, <1>f DEF LoggingOut, SessionInv
<1>5. CheckedAndForgotten'
  BY <1>b, <1>e, <1>f DEF CheckedAndForgotten, NothingShownUnchecked, LogoutForgets, SessionInv, Known
<1>6. QED
  BY <1>1, <1>2, <1>3, <1>4, <1>5, <1>7 DEF SessionInv

(* A no, or no answer at all, after which the server may have one session  *)
(* more than anybody knows of.                                             *)
LEMMA NoTold ==
    ASSUME SessionInv, NEW r \in asReqs, r.st = "sent", NEW a, NEW st \in {"refused", "failed"},
           NEW token, Answered(r, a, st, token),
           token = r.token \/ (r.kind = "login" /\ token = NoToken),
           UNCHANGED <<asView, asToken, asStored, asCookie, asVouched, asEnded>>,
           asMinted' \in 0 .. MaxLogins, asMinted <= asMinted', asLive' \subseteq 1 .. asMinted'
    PROVE  SessionInv'
<1>b. SessionTypeOK /\ Known
  BY DEF SessionInv
<1>d. /\ \A q \in asReqs' : q = a \/ (q \in asReqs /\ q # r)
      /\ \A q \in asReqs : q # r => q \in asReqs'
      /\ a \in asReqs' /\ asReqs' \subseteq SessionRequests
      /\ r.tab \in Tabs /\ a.tab = r.tab /\ a.kind = r.kind /\ a.st = st /\ a.token = token
  BY <1>b, AnswerFacts
<1>e. /\ Minted \subseteq Minted' /\ NoToken \notin Minted /\ r.token \in Minted \cup {NoToken}
  BY <1>b, SessionAssumption DEF Minted, SessionTypeOK, Known
<1>1. SessionTypeOK'
  BY <1>b, ServedTyped DEF SessionTypeOK
<1>2. Known'
  BY <1>b, <1>d, <1>e DEF Known
<1>3. Checking'
  <2>1. st # "ok" /\ (r.kind = "verify" => token = r.token)
    OBVIOUS
  <2>2. QED
    BY <1>b, <1>d, <1>e, <2>1 DEF Checking, SessionInv
<1>4. LoggingIn'
  <2>1. a.st # "ok"
    BY <1>d
  <2>2. ASSUME NEW q \in asReqs', q.kind = "login", q.st = "ok"
        PROVE  /\ q \in asReqs /\ q # r /\ q.token \in Minted /\ q.token # a.token
    BY <1>d, <1>e, <2>1, <2>2 DEF LoggingIn, SessionInv
  <2>3. QED
    BY <1>d, <1>e, <2>2 DEF LoggingIn, SessionInv
<1>7. LoggingOut'
  BY <1>b, <1>d, <1>e DEF LoggingOut, SessionInv
<1>5. CheckedAndForgotten'
  BY DEF CheckedAndForgotten, NothingShownUnchecked, LogoutForgets, SessionInv
<1>6. QED
  BY <1>1, <1>2, <1>3, <1>4, <1>5, <1>7 DEF SessionInv

LEMMA LoginServed ==
    ASSUME SessionInv, NEW r \in asReqs, r.st = "sent", ServeLogin(r),
           UNCHANGED <<asView, asToken, asEnded>>
    PROVE  SessionInv'
<1>a. SessionTypeOK /\ Known /\ r.kind = "login" /\ UNCHANGED asStored
  BY DEF SessionInv, ServeLogin
<1>b. CASE Answers(r, "refused", NoToken) /\ UNCHANGED <<asServer, asCookie, asVouched>>
  <2>1. PICK a : Answered(r, a, "refused", NoToken)
    BY <1>a, <1>b, AnsweredBy
  <2>2. asMinted' \in 0 .. MaxLogins /\ asMinted <= asMinted' /\ asLive' \subseteq 1 .. asMinted'
    BY <1>a, <1>b DEF SessionTypeOK, asServer
  <2>3. QED
    BY <1>a, <1>b, <2>1, <2>2, NoTold
<1>c. CASE /\ asMinted < MaxLogins
           /\ asMinted' = asMinted + 1
           /\ asLive' = asLive \cup {asMinted + 1}
           /\ asCookie' = asMinted + 1
           /\ Vouch(r, {asMinted + 1})
           /\ Answers(r, "ok", asMinted + 1)
  <2>a. PICK k \in SessionTokens : k = asMinted + 1
    BY <1>a, <1>c, SessionAssumption DEF SessionTypeOK, SessionTokens
  <2>b. /\ Minted' = Minted \cup {k} /\ k \notin Minted /\ NoToken \notin Minted /\ k # NoToken
        /\ asMinted' \in 0 .. MaxLogins /\ asLive' \subseteq 1 .. asMinted'
    BY <1>a, <1>c, <2>a, SessionAssumption DEF Minted, SessionTypeOK, SessionTokens
  <2>c. PICK a : Answered(r, a, "ok", k)
    BY <1>a, <1>c, <2>a, AnsweredBy
  <2>d. /\ \A q \in asReqs' : q = a \/ (q \in asReqs /\ q # r)
        /\ \A q \in asReqs : q # r => q \in asReqs'
        /\ a \in asReqs' /\ asReqs' \subseteq SessionRequests
        /\ r.tab \in Tabs /\ a.tab = r.tab /\ a.kind = r.kind /\ a.st = "ok" /\ a.token = k
    BY <1>a, <2>c, AnswerFacts
  <2>e. /\ asVouched' \in [Tabs -> SUBSET SessionTokens]
        /\ asVouched'[r.tab] = asVouched[r.tab] \cup {k}
        /\ \A t \in Tabs : asVouched[t] \subseteq asVouched'[t]
    <3>1. {k} \in SUBSET SessionTokens /\ Vouch(r, {k})
      BY <1>c, <2>a
    <3>2. QED
      BY <1>a, <2>d, <3>1, VouchFacts
  <2>g. asCookie' = k /\ asStored' = asStored /\ asEnded' = asEnded /\ asToken' = asToken /\ asView' = asView
    BY <1>a, <1>c, <2>a
  <2>f. \A q \in asReqs : q.tab \in Tabs
    BY <1>a, TypedRequests DEF SessionRequests
  <2>1. SessionTypeOK'
    BY <1>a, <1>c, <2>a, <2>b, <2>c, ServedTyped
  <2>2. Known'
    <3>1. Known /\ \A q \in asReqs' : q = a \/ q \in asReqs
      BY <1>a, <2>d
    <3>2. \A q \in asReqs' : q.token \in Minted' \cup {NoToken}
      BY <2>b, <2>d, <3>1 DEF Known
    <3>3. QED
      BY <2>b, <2>e, <2>g, <3>1, <3>2 DEF Known
  <2>3. Checking'
    <3>1. \A q \in asReqs : q.kind = "verify" => q.tab # r.tab
      BY <1>a DEF SessionInv, Checking
    <3>2. QED
      BY <1>a, <2>d, <2>e, <2>f, <2>g, <3>1 DEF Checking, SessionInv
  <2>4. LoggingIn'
    <3>1. ASSUME NEW q \in asReqs', q # a
          PROVE  q \in asReqs /\ q.token # k
      BY <2>b, <2>d, <3>1, <1>a DEF Known
    <3>2. \A q \in asReqs' : q # a /\ q.kind = "login" /\ q.st = "ok" =>
            /\ q.token \in Minted' /\ q.token \in asVouched'[q.tab]
            /\ q.token \notin asEnded' /\ q.token # asStored'
            /\ \A t \in Tabs : asToken'[t] # q.token
            /\ \A p \in asReqs' : p # q => p.token # q.token
      BY <1>a, <2>b, <2>d, <2>e, <2>f, <3>1 DEF LoggingIn, SessionInv
    <3>3. /\ a.token \in Minted' /\ a.token \in asVouched'[a.tab]
          /\ a.token \notin asEnded' /\ a.token # asStored'
          /\ \A t \in Tabs : asToken'[t] # a.token
          /\ \A p \in asReqs' : p # a => p.token # a.token
      <4>1. k \in Minted' /\ k \in asVouched'[r.tab] /\ k \notin Minted /\ k # NoToken
        BY <2>b, <2>e
      <4>2. k \notin asEnded' /\ k # asStored' /\ \A t \in Tabs : asToken'[t] # k
        BY <1>a, <2>g, <4>1 DEF Known
      <4>3. QED
        BY <2>d, <3>1, <4>1, <4>2
    <3>4. QED
      BY <3>2, <3>3 DEF LoggingIn
  <2>5. LoggingOut'
    BY <1>a, <2>b, <2>d, <2>g DEF LoggingOut, SessionInv
  <2>6. CheckedAndForgotten'
    BY <1>a, <1>c, <2>a, <2>b, <2>e DEF CheckedAndForgotten, NothingShownUnchecked, LogoutForgets, SessionInv, Known
  <2>7. QED
    BY <2>1, <2>2, <2>3, <2>4, <2>5, <2>6 DEF SessionInv
<1>d. QED
  BY <1>b, <1>c DEF ServeLogin

LEMMA LoseKeeps == SessionInv /\ LoseTab => SessionInv'
<1> SUFFICES ASSUME SessionInv, LoseTab PROVE SessionInv'
  OBVIOUS
<1>a. SessionTypeOK /\ asReqs \subseteq SessionRequests
  BY TypedRequests DEF SessionInv
<1>1. PICK r \in asReqs :
        /\ r.st = "sent"
        /\ Answers(r, "failed", r.token)
        /\ \/ UNCHANGED asServer
           \/ /\ r.kind = "login" /\ asMinted < MaxLogins
              /\ asMinted' = asMinted + 1 /\ asLive' = asLive \cup {asMinted + 1}
  BY DEF LoseTab
<1>2. UNCHANGED <<asView, asToken, asStored, asCookie, asVouched, asEnded>>
  BY DEF LoseTab, asShared, asHistory
<1>3. PICK a : Answered(r, a, "failed", r.token)
  <2>1. r.token \in SessionTokens \cup {NoToken}
    BY <1>a DEF SessionRequests
  <2>2. QED
    BY <1>1, <1>a, <2>1, AnsweredBy
<1>4. asMinted' \in 0 .. MaxLogins /\ asMinted <= asMinted' /\ asLive' \subseteq 1 .. asMinted'
  <2>1. CASE UNCHANGED asServer
    BY <1>a, <2>1 DEF SessionTypeOK, asServer
  <2>2. CASE asMinted < MaxLogins /\ asMinted' = asMinted + 1 /\ asLive' = asLive \cup {asMinted + 1}
    BY <1>a, <2>2, SessionAssumption DEF SessionTypeOK
  <2>3. QED
    BY <1>1, <2>1, <2>2
<1>5. QED
  BY <1>1, <1>2, <1>3, <1>4, NoTold
-----------------------------------------------------------------------------
(* A tab that learns an answer sees no other request than before, and, if  *)
(* it was having its token checked, none at all any more.                  *)
LEMMA LearnsFrom ==
    ASSUME SessionInv, NEW r \in asReqs
    PROVE  /\ r \in SessionRequests /\ r.tab \in Tabs
           /\ SessionTypeOK /\ Known /\ NoToken \notin Minted
           /\ \A q \in asReqs : q.tab \in Tabs
           /\ \A q \in asReqs : q # r /\ r.kind = "verify" => q.tab # r.tab
           /\ r.kind # "verify" => asView[r.tab] # "checking"
           /\ \A q \in asReqs : q.kind = "verify" /\ q # r => q.tab # r.tab
<1>1. SessionTypeOK /\ Known /\ Checking
  BY DEF SessionInv
<1>2. r \in SessionRequests /\ r.tab \in Tabs /\ \A q \in asReqs : q.tab \in Tabs
  BY <1>1, TypedRequests DEF SessionRequests
<1>3. r.kind # "verify" => asView[r.tab] # "checking"
  BY <1>1, <1>2 DEF SessionTypeOK, ReqsOf, Checking
<1>4. QED
  BY <1>1, <1>2, <1>3, MintedTokens DEF Checking

(* What the tab of an answered request does: it shows something else, and  *)
(* has another token, which the storage has too.                           *)
LEMMA LearnedTyped ==
    ASSUME SessionInv, NEW r \in asReqs, asReqs' = asReqs \ {r},
           NEW view \in {"login", "console"}, Show(r.tab, view),
           NEW token \in Minted \cup {NoToken}, asToken' = [asToken EXCEPT ![r.tab] = token],
           asStored' \in {asStored, token},
           UNCHANGED <<asCookie, asLive, asMinted, asVouched>>,
           asEnded' \subseteq Minted
    PROVE  /\ SessionTypeOK' /\ Known'
           /\ \A t \in Tabs : asView'[t] = IF t = r.tab THEN view ELSE asView[t]
           /\ \A t \in Tabs : asToken'[t] = IF t = r.tab THEN token ELSE asToken[t]
<1>a. /\ r.tab \in Tabs /\ SessionTypeOK /\ Known
      /\ \A q \in asReqs : q.kind = "verify" /\ q # r => q.tab # r.tab
  BY LearnsFrom
<1>b. token \in SessionTokens \cup {NoToken} /\ Minted' = Minted
  BY <1>a, MintedTokens DEF Minted
<1>c. asView' = [asView EXCEPT ![r.tab] = view]
  BY DEF Show
<1>1. \A t \in Tabs : asView'[t] = IF t = r.tab THEN view ELSE asView[t]
  BY <1>a, <1>c DEF SessionTypeOK
<1>2. \A t \in Tabs : asToken'[t] = IF t = r.tab THEN token ELSE asToken[t]
  BY <1>a DEF SessionTypeOK
<1>3. \A t \in Tabs : asView'[t] = "checking" <=> \E q \in ReqsOf(t)' : q.kind = "verify"
  <2> SUFFICES ASSUME NEW t \in Tabs
               PROVE  asView'[t] = "checking" <=> \E q \in ReqsOf(t)' : q.kind = "verify"
    OBVIOUS
  <2>1. CASE t = r.tab
    <3>1. asView'[t] # "checking"
      BY <1>1, <2>1
    <3>2. \A q \in ReqsOf(t)' : q.kind # "verify"
      BY <1>a, <2>1 DEF ReqsOf
    <3>3. QED
      BY <3>1, <3>2
  <2>2. CASE t # r.tab
    <3>1. asView'[t] = asView[t] /\ ReqsOf(t)' = ReqsOf(t)
      BY <1>1, <2>2 DEF ReqsOf
    <3>2. QED
      BY <1>a, <3>1 DEF SessionTypeOK
  <2>3. QED
    BY <2>1, <2>2
<1>4. /\ asView' \in [Tabs -> {"closed", "checking", "login", "console"}]
      /\ asToken' \in [Tabs -> SessionTokens \cup {NoToken}]
      /\ asStored' \in SessionTokens \cup {NoToken}
  BY <1>a, <1>b, <1>c DEF SessionTypeOK
<1>5. SessionTypeOK'
  BY <1>a, <1>3, <1>4 DEF SessionTypeOK, SessionTokens
<1>6. Known'
  BY <1>a, <1>b, <1>2 DEF Known
<1>7. QED
  BY <1>1, <1>2, <1>5, <1>6

(* A no to the token, or a yes to the logout: the tab is out.              *)
LEMMA GetsOut ==
    ASSUME SessionInv, NEW r \in asReqs, asReqs' = asReqs \ {r},
           Show(r.tab, "login"), SetAdminToken(r.tab, NoToken),
           UNCHANGED <<asCookie, asLive, asMinted, asVouched>>,
           \/ UNCHANGED asEnded
           \/ r.kind = "logout" /\ r.st = "ok" /\ asEnded' = asEnded \cup {r.token}
    PROVE  SessionInv'
<1>a. /\ r.tab \in Tabs /\ SessionTypeOK /\ Known /\ NoToken \notin Minted /\ Minted' = Minted
      /\ \A q \in asReqs : q.tab \in Tabs
      /\ \A q \in asReqs : q.kind = "verify" /\ q # r => q.tab # r.tab
  BY LearnsFrom DEF Minted
<1>b. /\ asToken' = [asToken EXCEPT ![r.tab] = NoToken] /\ asStored' = NoToken
  BY DEF SetAdminToken
<1>c. asEnded' \subseteq Minted
  BY <1>a DEF Known, SessionInv, LoggingOut
<1>d. /\ SessionTypeOK' /\ Known'
      /\ \A t \in Tabs : asView'[t] = IF t = r.tab THEN "login" ELSE asView[t]
      /\ \A t \in Tabs : asToken'[t] = IF t = r.tab THEN NoToken ELSE asToken[t]
  BY <1>b, <1>c, LearnedTyped
<1>1. Checking'
  BY <1>a, <1>d DEF Checking, SessionInv
<1>2. LoggingIn'
  <2>1. ASSUME NEW q \in asReqs', q.kind = "login", q.st = "ok"
        PROVE  /\ q.token \in Minted /\ q.token \in asVouched[q.tab]
               /\ q.token # NoToken /\ q.token \notin asEnded
               /\ \A t \in Tabs : asToken[t] # q.token
               /\ \A p \in asReqs : p # q => p.token # q.token
    BY <1>a, <2>1 DEF LoggingIn, SessionInv
  <2>2. ASSUME NEW q \in asReqs', q.kind = "login", q.st = "ok"
        PROVE  q.token \notin asEnded'
    BY <2>1, <2>2
  <2>3. QED
    BY <1>a, <1>b, <1>d, <2>1, <2>2 DEF LoggingIn
<1>3. LoggingOut'
  BY <1>a DEF LoggingOut, SessionInv
<1>4. CheckedAndForgotten'
  <2>1. asCookie \notin asEnded'
    BY DEF SessionInv, CheckedAndForgotten, LogoutForgets, LoggingOut
  <2>2. NoToken \notin asEnded'
    BY <1>a, <1>c
  <2>3. \A t \in Tabs : asView'[t] = "console" => asToken'[t] \in asVouched[t]
    BY <1>d DEF SessionInv, CheckedAndForgotten, NothingShownUnchecked
  <2>4. QED
    BY <1>b, <2>1, <2>2, <2>3 DEF CheckedAndForgotten, NothingShownUnchecked, LogoutForgets
<1>5. QED
  BY <1>1, <1>2, <1>3, <1>4, <1>d DEF SessionInv

(* A yes to the token the tab has, or to its login: the tab is in.         *)
LEMMA GetsIn ==
    ASSUME SessionInv, NEW r \in asReqs, asReqs' = asReqs \ {r}, r.st = "ok",
           Show(r.tab, "console"),
           \/ r.kind = "verify" /\ UNCHANGED <<asToken, asStored>>
           \/ r.kind = "login" /\ SetAdminToken(r.tab, r.token),
           UNCHANGED <<asCookie, asLive, asMinted, asVouched, asEnded>>
    PROVE  SessionInv'
<1>a. /\ r.tab \in Tabs /\ SessionTypeOK /\ Known /\ Minted' = Minted
      /\ \A q \in asReqs : q.tab \in Tabs
      /\ \A q \in asReqs : q.kind = "verify" /\ q # r => q.tab # r.tab
  BY LearnsFrom DEF Minted
<1>b. /\ asToken' = [asToken EXCEPT ![r.tab] = r.token]
      /\ r.token \in Minted \cup {NoToken} /\ r.token \in asVouched[r.tab]
      /\ asStored' \in {asStored, r.token} /\ asStored' \notin asEnded
  <2>1. CASE r.kind = "verify" /\ UNCHANGED <<asToken, asStored>>
    <3>1. r.token = asToken[r.tab] /\ r.token \in asVouched[r.tab]
      BY <2>1 DEF SessionInv, Checking
    <3>2. QED
      BY <1>a, <2>1, <3>1 DEF SessionTypeOK, Known, SessionInv, CheckedAndForgotten, LogoutForgets
  <2>2. CASE r.kind = "login" /\ SetAdminToken(r.tab, r.token)
    BY <2>2 DEF SetAdminToken, SessionInv, LoggingIn
  <2>3. QED
    BY <2>1, <2>2
<1>d. /\ SessionTypeOK' /\ Known'
      /\ \A t \in Tabs : asView'[t] = IF t = r.tab THEN "console" ELSE asView[t]
      /\ \A t \in Tabs : asToken'[t] = IF t = r.tab THEN r.token ELSE asToken[t]
  <2>1. asEnded' \subseteq Minted
    BY <1>a DEF Known
  <2>2. QED
    BY <1>b, <2>1, LearnedTyped
<1>1. Checking'
  BY <1>a, <1>d DEF Checking, SessionInv
<1>2. LoggingIn'
  <2>1. ASSUME NEW q \in asReqs', q.kind = "login", q.st = "ok"
        PROVE  /\ q.token \in Minted /\ q.token \in asVouched[q.tab]
               /\ q.token \notin asEnded /\ q.token # asStored /\ q.token # r.token
               /\ \A t \in Tabs : asToken[t] # q.token
               /\ \A p \in asReqs : p # q => p.token # q.token
    BY <2>1 DEF LoggingIn, SessionInv
  <2>2. QED
    BY <1>a, <1>b, <1>d, <2>1 DEF LoggingIn
<1>3. LoggingOut'
  BY <1>a DEF LoggingOut, SessionInv
<1>4. CheckedAndForgotten'
  <2>1. \A t \in Tabs : asView'[t] = "console" => asToken'[t] \in asVouched[t]
    BY <1>b, <1>d DEF SessionInv, CheckedAndForgotten, NothingShownUnchecked
  <2>2. QED
    BY <1>b, <2>1 DEF SessionInv, CheckedAndForgotten, NothingShownUnchecked, LogoutForgets
<1>5. QED
  BY <1>1, <1>2, <1>3, <1>4, <1>d DEF SessionInv

(* A login or a logout that failed: nothing but that it is over.           *)
LEMMA NothingLearned ==
    ASSUME SessionInv, NEW r \in asReqs, asReqs' = asReqs \ {r}, r.kind # "verify",
           UNCHANGED <<asView, asToken, asStored, asCookie, asLive, asMinted, asVouched, asEnded>>
    PROVE  SessionInv'
<1>1. SessionTypeOK'
  <2>1. \A t \in Tabs : asView[t] = "checking" <=> \E q \in ReqsOf(t)' : q.kind = "verify"
    BY DEF SessionInv, SessionTypeOK, ReqsOf
  <2>2. QED
    BY <2>1 DEF SessionInv, SessionTypeOK, SessionTokens
<1>2. Known' /\ Checking' /\ LoggingIn' /\ LoggingOut' /\ CheckedAndForgotten'
  BY DEF SessionInv, Known, Minted, Checking, LoggingIn, LoggingOut,
         CheckedAndForgotten, NothingShownUnchecked, LogoutForgets
<1>3. QED
  BY <1>1, <1>2 DEF SessionInv

LEMMA AnsweredKeeps == SessionInv /\ TabAnswered => SessionInv'
<1> SUFFICES ASSUME SessionInv, TabAnswered PROVE SessionInv'
  OBVIOUS
<1>1. PICK r \in asReqs :
        /\ r.st # "sent" /\ asReqs' = asReqs \ {r}
        /\ VerifyAnswered(r) \/ LoginAnswered(r) \/ LogoutAnswered(r)
  BY DEF TabAnswered
<1>2. UNCHANGED <<asCookie, asLive, asMinted, asVouched>>
  BY DEF TabAnswered, asServer
<1>3. CASE VerifyAnswered(r) /\ r.st = "ok"
  BY <1>1, <1>2, <1>3, GetsIn DEF VerifyAnswered
<1>4. CASE VerifyAnswered(r) /\ r.st # "ok"
  BY <1>1, <1>2, <1>4, GetsOut DEF VerifyAnswered
<1>5. CASE LoginAnswered(r) /\ r.st = "ok"
  BY <1>1, <1>2, <1>5, GetsIn DEF LoginAnswered
<1>6. CASE LoginAnswered(r) /\ r.st # "ok"
  BY <1>1, <1>2, <1>6, NothingLearned DEF LoginAnswered
<1>7. CASE LogoutAnswered(r) /\ r.st = "ok"
  BY <1>1, <1>2, <1>7, GetsOut DEF LogoutAnswered
<1>8. CASE LogoutAnswered(r) /\ r.st # "ok"
  BY <1>1, <1>2, <1>8, NothingLearned DEF LogoutAnswered
<1>9. QED
  BY <1>1, <1>3, <1>4, <1>5, <1>6, <1>7, <1>8

LEMMA ExpireKeeps == SessionInv /\ (ExpireSession \/ UNCHANGED asVars) => SessionInv'
<1> SUFFICES ASSUME SessionInv, ExpireSession \/ UNCHANGED asVars PROVE SessionInv'
  OBVIOUS
<1>1. /\ UNCHANGED <<asView, asToken, asReqs, asStored, asCookie, asMinted, asVouched, asEnded>>
      /\ asLive' \subseteq asLive
  BY DEF ExpireSession, asVars, asTabVars, asShared, asServer, asHistory
<1>2. SessionTypeOK'
  BY <1>1 DEF SessionInv, SessionTypeOK, ReqsOf, SessionTokens
<1>3. Known' /\ Checking' /\ LoggingIn' /\ LoggingOut' /\ CheckedAndForgotten'
  BY <1>1 DEF SessionInv, Known, Minted, Checking, LoggingIn, LoggingOut,
              CheckedAndForgotten, NothingShownUnchecked, LogoutForgets
<1>4. QED
  BY <1>2, <1>3 DEF SessionInv

LEMMA ServeKeeps == SessionInv /\ ServeTab => SessionInv'
<1> SUFFICES ASSUME SessionInv, ServeTab PROVE SessionInv'
  OBVIOUS
<1>1. PICK r \in asReqs : r.st = "sent" /\ (ServeVerify(r) \/ ServeLogin(r) \/ ServeLogout(r))
  BY DEF ServeTab
<1>2. UNCHANGED <<asView, asToken, asEnded>>
  BY DEF ServeTab
<1>3. QED
  BY <1>1, <1>2, VerifyServed, LoginServed, LogoutServed

LEMMA SessionSteps == SessionInv /\ [SessionNext]_asVars => SessionInv'
BY LoadKeeps, SubmitKeeps, LogoutKeeps, ServeKeeps, LoseKeeps, AnsweredKeeps, ExpireKeeps
   DEF SessionNext

LEMMA SessionAlways == SessionSpec => []SessionInv
BY SessionStarts, SessionSteps, PTL DEF SessionSpec

(* However many tabs are open, no tab shows the console for a token the    *)
(* server did not accept for it (App.tsx asks before it shows anything),   *)
(* and no token logged out of comes back by the storage or the cookie.     *)
THEOREM TokensForgotten == SessionSpec => []CheckedAndForgotten
<1>1. SessionInv => CheckedAndForgotten
  BY DEF SessionInv
<1>2. QED
  BY <1>1, SessionAlways, PTL

(* A tab says that it is checking exactly while the request that checks    *)
(* its token is under way.                                                 *)
THEOREM SessionsTyped == SessionSpec => []SessionTypeOK
<1>1. SessionInv => SessionTypeOK
  BY DEF SessionInv
<1>2. QED
  BY <1>1, SessionAlways, PTL
-----------------------------------------------------------------------------
(***************************************************************************)
(* The pages that load and show.  What a step does to the requests under   *)
(* way (AdminPage) is the same on each of them.                            *)
(***************************************************************************)
Shaped(r) ==
    /\ r = [no |-> r.no, kind |-> r.kind, row |-> r.row, st |-> r.st,
            rows |-> r.rows, mine |-> r.mine]
    /\ r.mine \in BOOLEAN

\* a is a request of this kind, row, state and owner.
Is(a, kind, row, st, mine) ==
    Shaped(a) /\ a.kind = kind /\ a.row = row /\ a.st = st /\ a.mine = mine

\* r is answered, or lost: it becomes a.
Becomes(r, a, row, st) ==
    /\ Is(a, r.kind, row, st, r.mine)
    /\ flight' = (flight \ {r}) \cup {a}

One(S) == \A a, b \in S : a = b

LEMMA AskIs ==
    ASSUME NEW f, NEW kind, NEW row
    PROVE  Is(Ask(f, kind, row), kind, row, "sent", TRUE)
<1> DEFINE n == Fresh(f)
<1>1. Ask(f, kind, row) = [no |-> n, kind |-> kind, row |-> row, st |-> "sent",
                           rows |-> {}, mine |-> TRUE]
  BY DEF Ask
<1> HIDE DEF n
<1>2. QED
  BY <1>1 DEF Is, Shaped

LEMMA AnswerBy ==
    ASSUME NEW r, Shaped(r), NEW st, NEW row, NEW rows, Answer(r, st, row, rows)
    PROVE  /\ \E a : Becomes(r, a, row, st)
           /\ UNCHANGED <<clicks, faults, raced>>
<1>1. PICK a : a = [r EXCEPT !.st = st, !.row = row, !.rows = rows]
  OBVIOUS
<1>2. a = [no |-> r.no, kind |-> r.kind, row |-> row, st |-> st, rows |-> rows, mine |-> r.mine]
  BY <1>1 DEF Shaped
<1>3. Is(a, r.kind, row, st, r.mine)
  BY <1>2 DEF Is, Shaped
<1>4. flight' = (flight \ {r}) \cup {a} /\ UNCHANGED <<clicks, faults, raced>>
  BY <1>1 DEF Answer
<1>5. QED
  BY <1>3, <1>4 DEF Becomes

LEMMA LoseBy ==
    ASSUME NEW r, Shaped(r), Lose(r)
    PROVE  /\ \E a : Becomes(r, a, r.row, "failed")
           /\ faults' = faults + 1 /\ UNCHANGED <<clicks, raced>>
<1>1. PICK a : a = [r EXCEPT !.st = "failed"]
  OBVIOUS
<1>2. a = [no |-> r.no, kind |-> r.kind, row |-> r.row, st |-> "failed", rows |-> r.rows, mine |-> r.mine]
  BY <1>1 DEF Shaped
<1>3. Is(a, r.kind, r.row, "failed", r.mine)
  BY <1>2 DEF Is, Shaped
<1>4. flight' = (flight \ {r}) \cup {a} /\ faults' = faults + 1 /\ UNCHANGED <<clicks, raced>>
  BY <1>1 DEF Lose
<1>5. QED
  BY <1>3, <1>4 DEF Becomes

LEMMA OneKept ==
    ASSUME NEW r \in flight, NEW a, NEW row, NEW st, Becomes(r, a, row, st), One(flight)
    PROVE  One(flight') /\ flight' = {a} /\ flight = {r}
BY DEF Becomes, One

LEMMA OneCounted == ASSUME NEW S, One(S) PROVE Cardinality(S) <= 1
<1>1. CASE S = {}
  BY <1>1, FS_EmptySet
<1>2. CASE S # {}
  <2>1. PICK x : S = {x}
    BY <1>2 DEF One
  <2>2. Cardinality({x}) = 1
    BY FS_Singleton
  <2>3. QED
    BY <2>1, <2>2
<1>3. QED
  BY <1>1, <1>2

\* Whatever a page does with the hook is a step of the hook.
LEMMA HookKept == HookInv /\ UNCHANGED hookVars => HookInv'
BY StepHolds

LEMMA HookAnswered == HookInv /\ (HookAnswers \/ ChangeWorld \/ Refetch) => HookInv'
BY StepHolds DEF HookNext

LEMMA HookRendered == ASSUME HookInv, NEW d \in Deps, Render(d, TRUE) PROVE HookInv'
<1>1. \E dd \in Deps, e \in BOOLEAN : Render(dd, e) \/ Remount(dd, e)
  OBVIOUS
<1>2. QED
  BY <1>1, StepHolds DEF HookNext
-----------------------------------------------------------------------------
(***************************************************************************)
(* The page of conversations.  Until a row is clicked while a conversation *)
(* is loading, what is under way is the conversation clicked last.         *)
(***************************************************************************)
DetailAlone ==
    /\ One(flight)
    /\ \A r \in flight : r.row = cvWanted
    /\ flight # {} => ~cvFailed
    /\ cvFailed => cvDetail = None
    /\ cvDetail # None /\ flight = {} => cvDetail = cvWanted

ConversationsInv ==
    /\ deps \in ConvDeps /\ enabled = TRUE
    /\ \A r \in flight : Shaped(r) /\ r.kind = "detail"
    /\ cvFailed \in BOOLEAN /\ cvOverlap \in BOOLEAN
    /\ ~cvOverlap => DetailAlone

LEMMA ConversationsStart ==
    ASSUME ConvInit PROVE ConversationsInv /\ HookInv
<1>1. /\ HookInit([page |-> 1, filter |-> ""], TRUE) /\ flight = {}
      /\ cvDetail = None /\ cvFailed = FALSE /\ cvOverlap = FALSE
  BY DEF ConvInit, PageInit
<1>2. [page |-> 1, filter |-> ""] \in Deps
  BY DepsAssumption DEF BareDeps
<1>3. HookInv
  BY <1>1, <1>2, InitHolds
<1>4. [page |-> 1, filter |-> ""] \in ConvDeps
  BY LogAssumption DEF ConvDeps
<1>5. deps = [page |-> 1, filter |-> ""] /\ enabled = TRUE
  BY <1>1 DEF HookInit
<1>6. DetailAlone
  BY <1>1 DEF DetailAlone, One
<1>7. QED
  BY <1>1, <1>3, <1>4, <1>5, <1>6 DEF ConversationsInv

\* The list is asked for another page or filter.
LEMMA ConversationsRendered ==
    ASSUME ConversationsInv, HookInv, SetFilter \/ TurnPage
    PROVE  ConversationsInv' /\ HookInv' /\ HookNext
<1>0. 1 \in 1 .. LogPages
  BY LogAssumption
<1>1. PICK d \in ConvDeps : Render(d, TRUE)
  <2>1. CASE SetFilter
    <3>1. PICK f \in RowTenants \cup {""} : Render([page |-> 1, filter |-> f], TRUE)
      BY <2>1 DEF SetFilter
    <3>2. f \in LogTenants \cup {""}
      BY DEF RowTenants, InLog
    <3>3. [page |-> 1, filter |-> f] \in ConvDeps
      BY <1>0, <3>2 DEF ConvDeps
    <3>4. QED
      BY <3>1, <3>3
  <2>2. CASE TurnPage
    <3>1. PICK p \in 1 .. LogPages : Render([deps EXCEPT !.page = p], TRUE)
      BY <2>2 DEF TurnPage
    <3>2. [deps EXCEPT !.page = p] \in ConvDeps
      BY <3>1 DEF ConversationsInv, ConvDeps
    <3>3. QED
      BY <3>1, <3>2
  <2>3. QED
    BY <2>1, <2>2
<1>2. d \in Deps
  BY DepsAssumption DEF AllDeps
<1>3. HookInv'
  BY <1>1, <1>2, HookRendered
<1>4. deps' = d /\ enabled' = TRUE
  BY <1>1 DEF Render, Rerun, Effect
<1>5. UNCHANGED <<flight, cvDetail, cvFailed, cvWanted, cvOverlap>>
  BY DEF SetFilter, TurnPage, pageVars, cvVars
<1>6. HookNext
  BY <1>1, <1>2 DEF HookNext
<1>7. QED
  BY <1>1, <1>3, <1>4, <1>5, <1>6 DEF ConversationsInv, DetailAlone

\* A row is clicked: its conversation is asked for, or put away.
LEMMA ConversationsOpened ==
    ASSUME ConversationsInv, OpenDetail \/ Collapse
    PROVE  ConversationsInv'
<1>1. CASE OpenDetail
  <2>1. PICK id : cvWanted' = id /\ flight' = flight \cup {Ask(flight, "detail", id)}
    BY <1>1 DEF OpenDetail
  <2>2. PICK a : a = Ask(flight, "detail", id)
    OBVIOUS
  <2>3. Is(a, "detail", id, "sent", TRUE) /\ flight' = flight \cup {a}
    BY <2>1, <2>2, AskIs
  <2>4. /\ cvFailed' = FALSE /\ cvDetail' = cvDetail /\ deps' = deps /\ enabled' = enabled
        /\ cvOverlap' = (cvOverlap \/ flight # {})
    BY <1>1 DEF OpenDetail, hookVars
  <2>5. ASSUME ~cvOverlap' PROVE DetailAlone'
    <3>1. flight' = {a}
      BY <2>3, <2>4, <2>5
    <3>2. QED
      BY <2>1, <2>3, <2>4, <3>1 DEF DetailAlone, One, Is
  <2>6. \A r \in flight' : Shaped(r) /\ r.kind = "detail"
    BY <2>3 DEF ConversationsInv, Is
  <2>7. QED
    BY <2>4, <2>5, <2>6 DEF ConversationsInv
<1>2. CASE Collapse
  <2>1. /\ cvDetail' = None /\ cvWanted' = None /\ cvFailed' = cvFailed /\ cvDetail # None
        /\ cvOverlap' = (cvOverlap \/ flight # {})
        /\ flight' = flight /\ deps' = deps /\ enabled' = enabled
    BY <1>2 DEF Collapse, hookVars, pageVars
  <2>2. QED
    BY <2>1 DEF ConversationsInv, DetailAlone, One
<1>3. QED
  BY <1>1, <1>2

LEMMA ConversationsServed ==
    ASSUME ConversationsInv, ServeDetail
    PROVE  ConversationsInv'
<1>1. PICK r \in flight : Answer(r, "ok", r.row, {}) \/ Lose(r)
  BY DEF ServeDetail
<1>2. Shaped(r)
  BY DEF ConversationsInv
<1>3. PICK a, st : Becomes(r, a, r.row, st)
  BY <1>1, <1>2, AnswerBy, LoseBy
<1>4. UNCHANGED <<deps, enabled, cvDetail, cvFailed, cvWanted, cvOverlap>>
  BY DEF ServeDetail, cvVars, hookVars
<1>5. DetailAlone => DetailAlone'
  BY <1>3, <1>4, OneKept DEF DetailAlone, Becomes, Is
<1>6. \A q \in flight' : Shaped(q) /\ q.kind = "detail"
  BY <1>3 DEF ConversationsInv, Becomes, Is
<1>7. QED
  BY <1>4, <1>5, <1>6 DEF ConversationsInv

LEMMA ConversationsArrived ==
    ASSUME ConversationsInv, DetailArrives
    PROVE  ConversationsInv'
<1>1. PICK r \in flight :
        /\ IF r.st = "ok"
           THEN cvDetail' = r.row /\ UNCHANGED cvFailed
           ELSE cvDetail' = None /\ cvFailed' = TRUE
        /\ Finish(r)
  BY DEF DetailArrives
<1>2. flight' = flight \ {r} /\ UNCHANGED <<deps, enabled, cvWanted, cvOverlap>>
  BY <1>1 DEF DetailArrives, Finish, hookVars
<1>3. ASSUME DetailAlone PROVE DetailAlone'
  <2>1. flight' = {} /\ ~cvFailed /\ r.row = cvWanted
    BY <1>2, <1>3 DEF DetailAlone, One
  <2>2. QED
    BY <1>1, <1>2, <2>1 DEF DetailAlone, One
<1>4. \A q \in flight' : Shaped(q) /\ q.kind = "detail"
  BY <1>2 DEF ConversationsInv
<1>5. cvFailed' \in BOOLEAN
  BY <1>1 DEF ConversationsInv
<1>6. QED
  BY <1>2, <1>3, <1>4, <1>5 DEF ConversationsInv

LEMMA ConversationsNext ==
    ASSUME ConversationsInv, HookInv, ConvNext \/ UNCHANGED <<hookVars, pageVars, cvVars>>
    PROVE  ConversationsInv' /\ HookInv'
<1>1. CASE SetFilter \/ TurnPage
  BY <1>1, ConversationsRendered
<1>2. CASE OpenDetail \/ Collapse
  BY <1>2, ConversationsOpened, HookKept DEF OpenDetail, Collapse
<1>3. CASE ServeDetail
  BY <1>3, ConversationsServed, HookKept DEF ServeDetail
<1>4. CASE DetailArrives
  BY <1>4, ConversationsArrived, HookKept DEF DetailArrives
<1>5. CASE (HookAnswers \/ ChangeWorld) /\ UNCHANGED <<pageVars, cvVars>>
  <2>1. UNCHANGED <<deps, enabled>>
    BY <1>5 DEF HookAnswers, Serve, Settle, ChangeWorld
  <2>2. HookInv'
    BY <1>5, HookAnswered
  <2>3. QED
    BY <1>5, <2>1, <2>2 DEF ConversationsInv, DetailAlone, One, pageVars, cvVars
<1>6. CASE UNCHANGED <<hookVars, pageVars, cvVars>>
  <2>1. UNCHANGED <<deps, enabled, flight, cvDetail, cvFailed, cvWanted, cvOverlap>>
    BY <1>6 DEF hookVars, pageVars, cvVars
  <2>2. ConversationsInv'
    BY <2>1 DEF ConversationsInv, DetailAlone, One
  <2>3. QED
    BY <1>6, <2>2, HookKept
<1>7. QED
  BY <1>1, <1>2, <1>3, <1>4, <1>5, <1>6 DEF ConvNext

LEMMA ConversationsSay == ConversationsInv /\ HookInv => FiltersShownAreAskedFor /\ DetailIsOfRow
<1> SUFFICES ASSUME ConversationsInv, HookInv
             PROVE  FiltersShownAreAskedFor /\ DetailIsOfRow
  OBVIOUS
<1>1. FiltersShownAreAskedFor
  <2> SUFFICES ASSUME ~loading, ~error, RowTenants # {} PROVE FilterShown = deps.filter
    BY DEF FiltersShownAreAskedFor
  <2>1. data # Undefined /\ data.of = deps
    BY DEF ConversationsInv, HookInv, ShownIsOfCurrent
  <2>2. deps.filter # "" => RowTenants = {deps.filter}
    BY <2>1 DEF RowTenants
  <2>3. QED
    BY <2>2 DEF FilterShown
<1>2. DetailIsOfRow
  BY DEF ConversationsInv, DetailAlone, DetailIsOfRow
<1>3. QED
  BY <1>1, <1>2
-----------------------------------------------------------------------------
(***************************************************************************)
(* The page of sessions.  What was answered was answered in the past, and  *)
(* the list was asked for after the last answer; the selection is of rows  *)
(* on the screen until these change under it.                              *)
(***************************************************************************)
Closes == {r \in flight : r.kind = "close"}

\* What a request asks for, with the time of its answer.
SessRow(row) ==
    /\ row = [ids |-> row.ids, bulk |-> row.bulk, rows |-> row.rows, at |-> row.at]
    /\ row.at \in Nat /\ row.at <= world

SessRequest(r) == Shaped(r) /\ SessRow(r.row)

OnScreen(r) == r.kind = "close" /\ r.row.bulk => r.row.ids \subseteq r.row.rows \/ ssMoved

SessionsInv ==
    /\ deps.filter = ""
    /\ \A r \in flight : SessRequest(r) /\ OnScreen(r)
    /\ ssMoved \in BOOLEAN /\ ssClosing \in BOOLEAN
    /\ One(Closes) /\ (ssClosing <=> Closes # {})
    /\ ssSelected \subseteq SessionRows \/ ssMoved
    /\ ssActed \in Nat /\ ssActed <= asked

LEMMA SessionsStart ==
    ASSUME SessInit PROVE SessionsInv /\ HookInv
<1>1. /\ HookInit([page |-> 0, filter |-> ""], TRUE) /\ flight = {}
      /\ ssSelected = {} /\ ssClosing = FALSE /\ ssActed = 0 /\ ssMoved = FALSE
  BY DEF SessInit, PageInit
<1>2. [page |-> 0, filter |-> ""] \in Deps
  BY DepsAssumption DEF AllDeps, SessDeps
<1>3. HookInv
  BY <1>1, <1>2, InitHolds
<1>4. deps.filter = "" /\ ssActed = 0 /\ Closes = {}
  BY <1>1 DEF HookInit, Closes
<1>5. asked = 0
  BY <1>1 DEF HookInit
<1>6. ssActed = 0
  BY <1>1
<1>7. ssActed \in Nat /\ ssActed <= asked
  BY <1>5, <1>6
<1>8. QED
  BY <1>1, <1>3, <1>4, <1>7 DEF SessionsInv, One

\* Nothing that is under way, on the screen or selected changes.
LEMMA SessionsKept ==
    ASSUME SessionsInv, HookInv, UNCHANGED <<flight, ssSelected, ssClosing, ssActed, ssTo, ssMoved>>,
           UNCHANGED <<deps, data>>, world' \in Nat /\ world' >= world, asked' \in Nat /\ asked' >= asked
    PROVE  SessionsInv'
<1>0. asked \in Nat /\ world \in Nat
  BY DEF HookInv, HookTypeOK
<1>1. SessionRows' = SessionRows /\ Closes' = Closes
  BY DEF SessionRows, Born, Closes
<1>2. ASSUME NEW r \in flight PROVE SessRequest(r)' /\ OnScreen(r)'
  <2>1. SessRequest(r) /\ OnScreen(r)
    BY DEF SessionsInv
  <2>2. r.row.at \in Nat /\ r.row.at <= world
    BY <2>1 DEF SessRequest, SessRow
  <2>3. r.row.at <= world'
    BY <1>0, <2>2
  <2>4. QED
    BY <2>1, <2>2, <2>3 DEF SessRequest, SessRow, OnScreen
<1>3. ssActed \in Nat /\ ssActed <= asked
  BY DEF SessionsInv
<1>4. ssActed' \in Nat /\ ssActed' <= asked'
  BY <1>0, <1>3
<1>5. QED
  BY <1>1, <1>2, <1>4 DEF SessionsInv

LEMMA RefetchBy ==
    ASSUME HookInv, Refetch
    PROVE  /\ UNCHANGED <<deps, enabled, data, world>>
           /\ asked' \in Nat /\ asked' >= asked /\ (enabled => asked' = world)
<1>1. asked \in Nat /\ world \in Nat /\ asked <= world /\ enabled \in BOOLEAN
  BY DEF HookInv, HookTypeOK, AnswersPast
<1>2. QED
  BY <1>1 DEF Refetch, Rerun, Effect

LEMMA SessionsRefreshed == ASSUME SessionsInv, HookInv, RefreshRows PROVE SessionsInv' /\ HookInv'
<1>1. Refetch /\ UNCHANGED <<flight, ssSelected, ssClosing, ssActed, ssTo, ssMoved>>
  BY DEF RefreshRows, pageVars, ssVars, ssUI
<1>2. world \in Nat
  BY DEF HookInv, HookTypeOK
<1>3. SessionsInv'
  BY <1>1, <1>2, RefetchBy, SessionsKept
<1>4. QED
  BY <1>1, <1>3, HookAnswered

\* What the operator does without asking for anything.
LEMMA SessionsClicked ==
    ASSUME SessionsInv, HookInv, SwitchAuto \/ PickRange \/ Select \/ HandleClose \/ CancelClose
    PROVE  SessionsInv' /\ HookInv'
<1>0. asked \in Nat /\ world \in Nat
  BY DEF HookInv, HookTypeOK
<1>1. hookVars' = hookVars /\ flight' = flight
  BY DEF SwitchAuto, PickRange, Select, HandleClose, CancelClose, pageVars
<1>2. UNCHANGED <<deps, data, world, asked>>
  BY <1>1 DEF hookVars
<1>3. HookInv'
  BY <1>1, HookKept
<1>4. CASE SwitchAuto \/ HandleClose \/ CancelClose
  <2>1. UNCHANGED <<ssSelected, ssClosing, ssActed, ssTo, ssMoved>>
    BY <1>4 DEF SwitchAuto, HandleClose, CancelClose
  <2>2. SessionsInv'
    BY <1>0, <1>1, <1>2, <2>1, SessionsKept
  <2>3. QED
    BY <1>3, <2>2
<1>5. /\ ssActed' = ssActed /\ ssClosing' = ssClosing /\ Closes' = Closes
  BY <1>1 DEF SwitchAuto, PickRange, Select, HandleClose, CancelClose, Closes
<1>6. CASE PickRange
  <2>1. ssSelected' = ssSelected /\ ssMoved' = (ssMoved \/ ssSelected # {})
    BY <1>6 DEF PickRange
  <2>2. \A r \in flight : SessRequest(r)' /\ OnScreen(r)'
    BY <1>2, <2>1 DEF SessionsInv, SessRequest, SessRow, OnScreen
  <2>3. ssSelected' \subseteq SessionRows' \/ ssMoved'
    BY <2>1
  <2>4. QED
    BY <1>1, <1>2, <1>3, <1>5, <2>1, <2>2, <2>3 DEF SessionsInv
<1>7. CASE Select
  <2>1. ssMoved' = ssMoved /\ ssTo' = ssTo
    BY <1>7 DEF Select
  <2>2. SessionRows' = SessionRows
    BY <1>2, <2>1 DEF SessionRows, Born
  <2>3. \A r \in flight : SessRequest(r)' /\ OnScreen(r)'
    BY <1>2, <2>1 DEF SessionsInv, SessRequest, SessRow, OnScreen
  <2>4. ssSelected' \subseteq SessionRows \/ ssMoved
    BY <1>7 DEF Select, ToggleSelect, ToggleSelectAll, SessionsInv
  <2>5. QED
    BY <1>1, <1>2, <1>3, <1>5, <2>1, <2>2, <2>3, <2>4 DEF SessionsInv
<1>8. QED
  BY <1>4, <1>6, <1>7

\* A request is sent.
LEMMA SessionsPosted ==
    ASSUME SessionsInv, HookInv, ConfirmAction \/ HandleExtend
    PROVE  SessionsInv' /\ HookInv'
<1>1. hookVars' = hookVars /\ UNCHANGED <<ssSelected, ssActed, ssTo, ssMoved>>
  BY DEF ConfirmAction, HandleExtend, ssVars, ssUI
<1>2. UNCHANGED <<deps, data, world, asked>>
  BY <1>1 DEF hookVars
<1>3. SessionRows' = SessionRows /\ HookInv' /\ world \in Nat
  BY <1>1, <1>2, HookKept DEF SessionRows, Born, HookInv, HookTypeOK
<1>4. PICK kind, ids, bulk, rows :
        /\ Post(kind, [ids |-> ids, bulk |-> bulk, rows |-> rows, at |-> 0])
        /\ kind = "close" => ~ssClosing /\ ssClosing' = TRUE /\ (bulk => ids \subseteq rows \/ ssMoved)
        /\ kind # "close" => ssClosing' = ssClosing
  <2>1. CASE ConfirmAction
    <3>1. PICK ids, bulk : ids = (IF ssConfirm = Bulk THEN ssSelected ELSE ssConfirm)
                           /\ bulk = (ssConfirm = Bulk)
      OBVIOUS
    <3>2. /\ Post("close", [ids |-> ids, bulk |-> bulk, rows |-> SessionRows, at |-> 0])
          /\ ~ssClosing /\ ssClosing' = TRUE
      BY <2>1, <3>1 DEF ConfirmAction
    <3>3. bulk => ids \subseteq SessionRows \/ ssMoved
      BY <3>1 DEF SessionsInv
    <3>4. QED
      BY <3>2, <3>3
  <2>2. CASE HandleExtend
    <3>1. PICK id : Post("extend", [ids |-> {id}, bulk |-> FALSE, rows |-> {}, at |-> 0])
      BY <2>2 DEF HandleExtend
    <3>2. ssClosing' = ssClosing
      BY <2>2 DEF HandleExtend, ssVars, ssUI
    <3>3. QED
      BY <3>1, <3>2
  <2>3. QED
    BY <2>1, <2>2
<1>5. PICK row : row = [ids |-> ids, bulk |-> bulk, rows |-> rows, at |-> 0]
  OBVIOUS
<1>6. SessRow(row)' /\ row.bulk = bulk /\ row.ids = ids /\ row.rows = rows
  BY <1>2, <1>3, <1>5 DEF SessRow
<1>7. PICK a : a = Ask(flight, kind, row)
  OBVIOUS
<1>8. Is(a, kind, row, "sent", TRUE) /\ flight' = flight \cup {a}
  BY <1>4, <1>5, <1>7, AskIs DEF Post
<1>9. SessRequest(a)' /\ OnScreen(a)'
  BY <1>1, <1>4, <1>6, <1>8 DEF SessRequest, OnScreen, Is
<1>10. \A r \in flight : SessRequest(r)' /\ OnScreen(r)'
  BY <1>1, <1>2 DEF SessionsInv, SessRequest, SessRow, OnScreen
<1>11. One(Closes') /\ (ssClosing' <=> Closes' # {}) /\ ssClosing' \in BOOLEAN
  <2>1. CASE kind = "close"
    <3>0. Closes = {}
      BY <1>4, <2>1 DEF SessionsInv
    <3>1. Closes' = {a}
      BY <1>8, <2>1, <3>0 DEF Closes, Is
    <3>2. ssClosing' = TRUE
      BY <1>4, <2>1
    <3>3. QED
      BY <3>1, <3>2 DEF One
  <2>2. CASE kind # "close"
    <3>1. Closes' = Closes
      BY <1>8, <2>2 DEF Closes, Is
    <3>2. ssClosing' = ssClosing
      BY <1>4, <2>2
    <3>3. QED
      BY <3>1, <3>2 DEF SessionsInv
  <2>3. QED
    BY <2>1, <2>2
<1>12. \A r \in flight' : SessRequest(r)' /\ OnScreen(r)'
  BY <1>8, <1>9, <1>10
<1>13. QED
  BY <1>1, <1>2, <1>3, <1>11, <1>12 DEF SessionsInv

LEMMA SessionsRefused ==
    ASSUME SessionsInv, HookInv, Refuse
    PROVE  SessionsInv' /\ HookInv'
<1>1. PICK r \in flight : Answer(r, "ok", [r.row EXCEPT !.at = world], {}) \/ Lose(r)
  BY DEF Refuse
<1>2. hookVars' = hookVars /\ UNCHANGED <<ssSelected, ssClosing, ssActed, ssTo, ssMoved>>
  BY DEF Refuse, ssVars, ssUI
<1>3. UNCHANGED <<deps, data, world, asked>>
  BY <1>2 DEF hookVars
<1>4. SessionRows' = SessionRows /\ HookInv' /\ world \in Nat
  BY <1>2, <1>3, HookKept DEF SessionRows, Born, HookInv, HookTypeOK
<1>5. SessRequest(r) /\ OnScreen(r)
  BY DEF SessionsInv
<1>6. PICK a, row, st : /\ Becomes(r, a, row, st) /\ SessRow(row)
                        /\ row.ids = r.row.ids /\ row.bulk = r.row.bulk /\ row.rows = r.row.rows
  <2>1. CASE Lose(r)
    BY <1>5, <2>1, LoseBy DEF SessRequest
  <2>2. CASE Answer(r, "ok", [r.row EXCEPT !.at = world], {})
    <3>1. PICK row : row = [r.row EXCEPT !.at = world]
      OBVIOUS
    <3>2. row = [ids |-> r.row.ids, bulk |-> r.row.bulk, rows |-> r.row.rows, at |-> world]
      BY <1>5, <3>1 DEF SessRequest, SessRow
    <3>3. SessRow(row) /\ row.ids = r.row.ids /\ row.bulk = r.row.bulk /\ row.rows = r.row.rows
      BY <1>4, <3>2 DEF SessRow
    <3>4. \E a : Becomes(r, a, row, "ok")
      BY <1>5, <2>2, <3>1, AnswerBy DEF SessRequest
    <3>5. QED
      BY <3>3, <3>4
  <2>3. QED
    BY <1>1, <2>1, <2>2
<1>7. /\ Shaped(a) /\ a.kind = r.kind /\ a.row = row /\ flight' = (flight \ {r}) \cup {a}
  BY <1>6 DEF Becomes, Is
<1>8. SessRequest(a)' /\ OnScreen(a)'
  BY <1>2, <1>3, <1>5, <1>6, <1>7 DEF SessRequest, SessRow, OnScreen
<1>9. \A q \in flight : SessRequest(q)' /\ OnScreen(q)'
  BY <1>2, <1>3 DEF SessionsInv, SessRequest, SessRow, OnScreen
<1>10. One(Closes') /\ (Closes' # {} <=> Closes # {})
  <2>1. CASE r.kind = "close"
    <3>1. Closes' = (Closes \ {r}) \cup {a} /\ r \in Closes
      BY <1>7, <2>1 DEF Closes
    <3>2. QED
      BY <3>1 DEF SessionsInv, One
  <2>2. CASE r.kind # "close"
    <3>1. Closes' = Closes
      BY <1>7, <2>2 DEF Closes
    <3>2. QED
      BY <3>1 DEF SessionsInv
  <2>3. QED
    BY <2>1, <2>2
<1>11. \A q \in flight' : SessRequest(q)' /\ OnScreen(q)'
  BY <1>7, <1>8, <1>9
<1>12. QED
  BY <1>2, <1>3, <1>4, <1>10, <1>11 DEF SessionsInv

LEMMA SessionsActed ==
    ASSUME SessionsInv, HookInv, enabled, Acted
    PROVE  SessionsInv' /\ HookInv' /\ enabled' = enabled
<1>0. asked \in Nat /\ world \in Nat /\ asked <= world
  BY DEF HookInv, HookTypeOK, AnswersPast
<1>1. PICK r \in flight :
        /\ ssClosing' = (ssClosing /\ r.kind # "close")
        /\ IF r.st = "ok"
           THEN /\ ssSelected' = IF r.kind = "close" THEN ssSelected \ r.row.ids ELSE ssSelected
                /\ ssActed' = IF r.row.at > ssActed THEN r.row.at ELSE ssActed
                /\ Refetch
           ELSE UNCHANGED <<ssSelected, ssActed, hookVars>>
        /\ Finish(r)
  BY DEF Acted
<1>2. flight' = flight \ {r} /\ UNCHANGED <<ssTo, ssMoved>>
  BY <1>1 DEF Acted, Finish
<1>3. /\ HookInv' /\ UNCHANGED <<deps, enabled, data, world>>
      /\ asked' \in Nat /\ asked' >= asked /\ (r.st = "ok" => asked' = world)
  <2>1. CASE r.st = "ok"
    BY <1>1, <2>1, RefetchBy, HookAnswered
  <2>2. CASE r.st # "ok"
    <3>1. hookVars' = hookVars
      BY <1>1, <2>2
    <3>2. UNCHANGED <<deps, enabled, data, world, asked>>
      BY <3>1 DEF hookVars
    <3>3. QED
      BY <1>0, <2>2, <3>1, <3>2, HookKept
  <2>3. QED
    BY <2>1, <2>2
<1>4. SessionRows' = SessionRows
  BY <1>2, <1>3 DEF SessionRows, Born
<1>5. r.row.at \in Nat /\ r.row.at <= world
  BY DEF SessionsInv, SessRequest, SessRow
<1>6. ssActed' \in Nat /\ ssActed' <= asked'
  <2>0. ssActed \in Nat /\ ssActed <= asked
    BY DEF SessionsInv
  <2>1. CASE r.st = "ok"
    BY <1>0, <1>1, <1>3, <1>5, <2>0, <2>1
  <2>2. CASE r.st # "ok"
    BY <1>0, <1>1, <1>3, <2>0, <2>2
  <2>3. QED
    BY <2>1, <2>2
<1>7. ssSelected' \subseteq ssSelected
  BY <1>1
<1>8. \A q \in flight' : SessRequest(q)' /\ OnScreen(q)'
  BY <1>2, <1>3 DEF SessionsInv, SessRequest, SessRow, OnScreen
<1>9. One(Closes') /\ (ssClosing' <=> Closes' # {}) /\ ssClosing' \in BOOLEAN
  <2>1. CASE r.kind = "close"
    <3>1. Closes' = {} /\ ssClosing' = FALSE
      BY <1>1, <1>2, <2>1 DEF SessionsInv, Closes, One
    <3>2. QED
      BY <3>1 DEF One
  <2>2. CASE r.kind # "close"
    <3>1. Closes' = Closes
      BY <1>2, <2>2 DEF Closes
    <3>2. ssClosing' = ssClosing
      BY <1>1, <2>2 DEF SessionsInv
    <3>3. QED
      BY <3>1, <3>2 DEF SessionsInv
  <2>3. QED
    BY <2>1, <2>2
<1>10. ssMoved' \in BOOLEAN /\ deps'.filter = "" /\ (ssSelected' \subseteq SessionRows' \/ ssMoved')
  BY <1>2, <1>3, <1>4, <1>7 DEF SessionsInv
<1>11. QED
  BY <1>3, <1>6, <1>8, <1>9, <1>10 DEF SessionsInv

LEMMA SessionsListed ==
    ASSUME SessionsInv, HookInv, SessionsArrive
    PROVE  SessionsInv' /\ HookInv' /\ enabled' = enabled
<1>1. HookAnswers /\ UNCHANGED <<flight, ssSelected, ssClosing, ssActed>>
  BY DEF SessionsArrive, pageVars, ssUI
<1>2. UNCHANGED <<deps, enabled, asked, world>>
  BY <1>1 DEF HookAnswers, Serve, Settle
<1>3. HookInv' /\ Closes' = Closes
  BY <1>1, HookAnswered DEF Closes
<1>4. PICK moved \in BOOLEAN : moved = (ssSelected # {} /\ SessionRows' # SessionRows)
  OBVIOUS
<1>5. ssMoved' = (ssMoved \/ moved)
  BY <1>4 DEF SessionsArrive
<1>6. ssSelected' \subseteq SessionRows' \/ ssMoved'
  BY <1>1, <1>4, <1>5 DEF SessionsInv
<1>7. ssMoved => ssMoved'
  BY <1>5
<1>8. \A q \in flight : SessRequest(q)' /\ OnScreen(q)'
  BY <1>2, <1>7 DEF SessionsInv, SessRequest, SessRow, OnScreen
<1>9. ssMoved' \in BOOLEAN
  BY <1>5 DEF SessionsInv
<1>10. QED
  BY <1>1, <1>2, <1>3, <1>6, <1>8, <1>9 DEF SessionsInv

LEMMA SessionsNext ==
    ASSUME SessionsInv, HookInv, enabled, SessNext \/ UNCHANGED <<hookVars, pageVars, ssVars>>
    PROVE  SessionsInv' /\ HookInv' /\ enabled' = enabled
<1>0. asked \in Nat /\ world \in Nat
  BY DEF HookInv, HookTypeOK
<1>1. CASE RefreshRows
  BY <1>1, SessionsRefreshed, RefetchBy DEF RefreshRows
<1>2. CASE SwitchAuto \/ PickRange \/ Select \/ HandleClose \/ CancelClose
  <2>1. enabled' = enabled
    BY <1>2 DEF SwitchAuto, PickRange, Select, HandleClose, CancelClose, hookVars
  <2>2. QED
    BY <1>2, <2>1, SessionsClicked
<1>3. CASE ConfirmAction \/ HandleExtend
  <2>1. enabled' = enabled
    BY <1>3 DEF ConfirmAction, HandleExtend, hookVars
  <2>2. QED
    BY <1>3, <2>1, SessionsPosted
<1>4. CASE Refuse
  <2>1. enabled' = enabled
    BY <1>4 DEF Refuse, hookVars
  <2>2. QED
    BY <1>4, <2>1, SessionsRefused
<1>5. CASE Acted
  BY <1>5, SessionsActed
<1>6. CASE SessionsArrive
  BY <1>6, SessionsListed
<1>7. CASE ChangeWorld /\ UNCHANGED <<pageVars, ssVars>>
  <2>1. UNCHANGED <<deps, enabled, data, asked>> /\ world' = world + 1
    BY <1>7 DEF ChangeWorld
  <2>2. UNCHANGED <<flight, ssSelected, ssClosing, ssActed, ssTo, ssMoved>>
    BY <1>7 DEF pageVars, ssVars, ssUI
  <2>3. SessionsInv'
    BY <1>0, <2>1, <2>2, SessionsKept
  <2>4. QED
    BY <1>7, <2>1, <2>3, HookAnswered
<1>8. CASE UNCHANGED <<hookVars, pageVars, ssVars>>
  <2>1. UNCHANGED <<deps, enabled, data, asked, world>> /\ hookVars' = hookVars
    BY <1>8 DEF hookVars
  <2>2. UNCHANGED <<flight, ssSelected, ssClosing, ssActed, ssTo, ssMoved>>
    BY <1>8 DEF pageVars, ssVars, ssUI
  <2>3. SessionsInv'
    BY <1>0, <2>1, <2>2, SessionsKept
  <2>4. QED
    BY <2>1, <2>3, HookKept
<1>9. QED
  BY <1>1, <1>2, <1>3, <1>4, <1>5, <1>6, <1>7, <1>8 DEF SessNext

LEMMA RowsRead == ASSUME HookInv, ssActed \in Nat, ssActed <= asked PROVE RowsReadAfterActing
<1> SUFFICES ASSUME enabled, ~loading, ~error PROVE data.at >= ssActed
  BY DEF RowsReadAfterActing
<1>1. data # Undefined /\ data.at >= asked /\ asked \in Nat
  BY DEF HookInv, HookTypeOK, ShownIsOfCurrent
<1>2. data.at \in Nat
  BY <1>1 DEF HookInv, HookTypeOK
<1>3. QED
  BY <1>1, <1>2

LEMMA SessionsSay ==
    ASSUME SessionsInv, HookInv
    PROVE  BulkIsOnScreen /\ RowsReadAfterActing /\ OneBatchAtATime
<1>1. BulkIsOnScreen
  BY DEF SessionsInv, OnScreen, BulkIsOnScreen
<1>2. RowsReadAfterActing
  BY RowsRead DEF SessionsInv
<1>3. Cardinality(Closes) <= 1 /\ (ssClosing <=> Closes # {})
  BY OneCounted DEF SessionsInv
<1>4. OneBatchAtATime
  BY <1>3 DEF OneBatchAtATime, Closes
<1>5. QED
  BY <1>1, <1>2, <1>4
-----------------------------------------------------------------------------
(***************************************************************************)
(* The status in the settings.  While loads did not overlap, the one under *)
(* way was carried out after it was asked for.                             *)
(***************************************************************************)
StatusInv ==
    /\ stNow \in Nat /\ stAsked \in Nat /\ stAsked <= stNow
    /\ raced \in BOOLEAN
    /\ \A r \in flight : Shaped(r) /\ r.kind = "status" /\ (r.st = "ok" => r.row \in Nat)
    /\ ~raced => One(flight) /\ \A r \in flight : r.st = "ok" => r.row >= stAsked
    /\ StatusIsKnown

LEMMA StatusStarts == ASSUME StatusInit PROVE StatusInv
<1>1. PICK a : a = Ask({}, "status", 0)
  OBVIOUS
<1>2. flight = {a} /\ raced = FALSE /\ stNow = 0 /\ stAsked = 0
  BY <1>1 DEF StatusInit, PageInit
<1>3. Is(a, "status", 0, "sent", TRUE)
  BY <1>1, AskIs
<1>4. flight # {} /\ One(flight) /\ \A r \in flight : Shaped(r) /\ r.kind = "status" /\ r.st = "sent"
  BY <1>2, <1>3 DEF One, Is
<1>5. stNow \in Nat /\ stAsked \in Nat /\ stAsked <= stNow
  BY <1>2
<1>6. QED
  BY <1>2, <1>4, <1>5 DEF StatusInv, StatusIsKnown

LEMMA StatusAsked == ASSUME StatusInv, StatusRefresh PROVE StatusInv'
<1>1. PICK a : a = Ask(flight, "status", 0)
  OBVIOUS
<1>2. flight' = flight \cup {a} /\ raced' = (raced \/ flight # {})
  <2>1. flight \ {} = flight
    OBVIOUS
  <2>2. QED
    BY <1>1, <2>1 DEF StatusRefresh, Send
<1>3. Is(a, "status", 0, "sent", TRUE)
  BY <1>1, AskIs
<1>4. stAsked' = stNow /\ stNow' = stNow
  BY DEF StatusRefresh
<1>5. stNow' \in Nat /\ stAsked' \in Nat /\ stAsked' <= stNow'
  BY <1>4 DEF StatusInv
<1>6. \A r \in flight' : Shaped(r) /\ r.kind = "status" /\ (r.st = "ok" => r.row \in Nat)
  BY <1>2, <1>3 DEF StatusInv, Is
<1>7. ASSUME ~raced' PROVE One(flight') /\ \A r \in flight' : r.st = "ok" => r.row >= stAsked'
  <2>1. flight' = {a}
    BY <1>2, <1>7
  <2>2. QED
    BY <1>3, <2>1 DEF One, Is
<1>8. StatusIsKnown' /\ raced' \in BOOLEAN
  BY <1>2 DEF StatusIsKnown, StatusInv
<1>9. QED
  BY <1>5, <1>6, <1>7, <1>8 DEF StatusInv

LEMMA StatusServed == ASSUME StatusInv, ServeStatus PROVE StatusInv'
<1>1. PICK r \in flight : r.st = "sent" /\ (Answer(r, "ok", stNow, {}) \/ Lose(r))
  BY DEF ServeStatus
<1>2. UNCHANGED <<stStatus, stLoading, stError, stNow, stAsked>>
  BY DEF ServeStatus, stVars, stUI
<1>3. Shaped(r) /\ r.kind = "status"
  BY DEF StatusInv
<1>4. PICK a, row, st : /\ Becomes(r, a, row, st) /\ raced' = raced
                        /\ st = "ok" => row = stNow
  BY <1>1, <1>3, AnswerBy, LoseBy
<1>5. /\ flight' = (flight \ {r}) \cup {a} /\ Shaped(a)
      /\ a.kind = "status" /\ a.row = row /\ a.st = st
  BY <1>3, <1>4 DEF Becomes, Is
<1>6. stNow \in Nat /\ stAsked \in Nat /\ stNow >= stAsked
  BY DEF StatusInv
<1>7. a.st = "ok" => a.row \in Nat /\ a.row >= stAsked
  BY <1>4, <1>5, <1>6
<1>8. \A q \in flight' : Shaped(q) /\ q.kind = "status" /\ (q.st = "ok" => q.row \in Nat)
  BY <1>5, <1>7 DEF StatusInv
<1>9. ASSUME ~raced' PROVE One(flight') /\ \A q \in flight' : q.st = "ok" => q.row >= stAsked'
  <2>1. One(flight)
    BY <1>4, <1>9 DEF StatusInv
  <2>2. One(flight') /\ flight' = {a}
    BY <1>4, <2>1, OneKept
  <2>3. QED
    BY <1>2, <1>7, <2>2
<1>10. StatusIsKnown' /\ raced' \in BOOLEAN
  BY <1>4, <1>5 DEF StatusIsKnown, StatusInv
<1>11. QED
  BY <1>2, <1>6, <1>8, <1>9, <1>10 DEF StatusInv

LEMMA StatusShown == ASSUME StatusInv, StatusArrives PROVE StatusInv'
<1>1. PICK r \in flight :
        /\ stStatus' = IF r.st = "ok" THEN r.row ELSE stStatus
        /\ stError' = (r.st # "ok")
        /\ Finish(r)
  BY DEF StatusArrives
<1>2. /\ flight' = flight \ {r} /\ raced' = raced /\ stLoading' = FALSE
      /\ stNow' = stNow /\ stAsked' = stAsked
  BY <1>1 DEF StatusArrives, Finish
<1>3. ASSUME ~stError', raced' = FALSE \/ raced' = TRUE
      PROVE  stStatus' # None /\ (raced' \/ stStatus' >= stAsked')
  <2>1. r.st = "ok" /\ stStatus' = r.row
    BY <1>1, <1>3
  <2>2. r.row \in Nat
    BY <2>1 DEF StatusInv
  <2>3. stStatus' # None
    BY <2>1, <2>2, StatusAssumption
  <2>4. ~raced => r.row >= stAsked
    BY <2>1 DEF StatusInv
  <2>5. QED
    BY <1>2, <2>1, <2>3, <2>4
<1>4. raced \in BOOLEAN
  BY DEF StatusInv
<1>5. StatusIsKnown'
  BY <1>2, <1>3, <1>4 DEF StatusIsKnown
<1>6. QED
  BY <1>2, <1>5 DEF StatusInv, One

LEMMA StatusSteps == ASSUME StatusInv, StatusNext \/ UNCHANGED <<pageVars, stVars>> PROVE StatusInv'
<1>1. CASE StatusChanges
  <2>1. stNow' = stNow + 1 /\ UNCHANGED <<flight, raced, stStatus, stLoading, stError, stAsked>>
    BY <1>1 DEF StatusChanges, pageVars, stUI
  <2>2. stNow \in Nat /\ stAsked \in Nat /\ stAsked <= stNow
    BY DEF StatusInv
  <2>3. stNow' \in Nat /\ stAsked' \in Nat /\ stAsked' <= stNow'
    BY <2>1, <2>2
  <2>4. QED
    BY <2>1, <2>3 DEF StatusInv, StatusIsKnown
<1>2. CASE UNCHANGED <<pageVars, stVars>>
  <2>1. UNCHANGED <<flight, raced, stStatus, stLoading, stError, stNow, stAsked>>
    BY <1>2 DEF pageVars, stVars, stUI
  <2>2. QED
    BY <2>1 DEF StatusInv, StatusIsKnown
<1>3. QED
  BY <1>1, <1>2, StatusAsked, StatusServed, StatusShown DEF StatusNext
-----------------------------------------------------------------------------
(***************************************************************************)
(* The search.  Unless openings overlapped or an answer was lost, each of  *)
(* the two lists is there or under way, and no answer under way is older   *)
(* than the opening.                                                       *)
(***************************************************************************)
ListRequest(r) ==
    /\ Shaped(r) /\ r.kind \in {"tenants", "entries"}
    /\ r.st = "ok" => r.row.at \in 1 .. Len(Census)

Awaited(kind) == \E r \in flight : r.kind = kind

ListsKnown ==
    /\ plEntries \/ Awaited("entries")
    /\ plTenants >= plAsked \/ Awaited("tenants")
    /\ \A r \in flight : r.st \in {"sent", "ok"} /\ (r.st = "ok" => r.row.at >= plAsked)

PaletteLists ==
    /\ faults \in Nat
    /\ plNow \in 1 .. Len(Census) /\ plAsked \in Nat /\ plAsked <= plNow
    /\ plTenants \in 0 .. Len(Census)
    /\ plEntries \in BOOLEAN /\ plOverlap \in BOOLEAN
    /\ \A r \in flight : ListRequest(r)
    /\ plOpen /\ faults = 0 /\ ~plOverlap => ListsKnown

\* An open palette has its highlight on one of the results, if there are any.
PaletteHighlight ==
    /\ plQuery \in Queries
    /\ ~plOpen => plActive = 1
    /\ plOpen /\ ~plGrown /\ Results # <<>> => plActive \in 1 .. Len(Results)

PaletteInv == PaletteLists /\ PaletteHighlight

LEMMA CensusTyped == Len(Census) \in Nat /\ 1 \in 1 .. Len(Census)
<1>1. PICK S : S = Seq(STRING)
  OBVIOUS
<1>2. Census \in Seq(S) /\ Len(Census) > 0
  BY <1>1, PaletteAssumption
<1>3. Len(Census) \in Nat
  BY <1>2
<1>4. QED
  BY <1>2, <1>3

LEMMA ResultsTyped ==
    ASSUME plQuery \in Queries, plTenants \in 0 .. Len(Census)
    PROVE  Results \in Seq(STRING)
<1>1. PagesFound[plQuery] \in Seq(STRING) /\ LogEntries \in Seq(STRING) /\ ResultLimit \in Nat
  BY PaletteAssumption
<1>2. Census \in Seq(Seq(STRING))
  BY PaletteAssumption
<1>3. plTenants # 0 => Census[plTenants] \in Seq(STRING)
  BY <1>2
<1>4. PICK tenants : tenants = (IF plQuery # "" /\ plTenants # 0 THEN Census[plTenants] ELSE <<>>)
  OBVIOUS
<1>5. PICK entries : entries = (IF plQuery # "" /\ plEntries THEN LogEntries ELSE <<>>)
  OBVIOUS
<1>6. tenants \in Seq(STRING) /\ entries \in Seq(STRING)
  <2>1. <<>> \in Seq(STRING)
    OBVIOUS
  <2>2. tenants = <<>> \/ (plTenants # 0 /\ tenants = Census[plTenants])
    BY <1>4
  <2>3. entries = <<>> \/ entries = LogEntries
    BY <1>5
  <2>4. QED
    BY <1>1, <1>3, <2>1, <2>2, <2>3
<1>7. PICK found : found = PagesFound[plQuery] \o tenants \o entries
  OBVIOUS
<1>8. found \in Seq(STRING)
  BY <1>1, <1>6, <1>7
<1>9. PICK n : n = (IF Len(found) < ResultLimit THEN Len(found) ELSE ResultLimit)
  OBVIOUS
<1>10. n \in Nat /\ n <= Len(found)
  BY <1>1, <1>8, <1>9
<1>11. Results = SubSeq(found, 1, n)
  BY <1>4, <1>5, <1>7, <1>9 DEF Results
<1>12. SubSeq(found, 1, n) \in Seq(STRING)
  BY <1>8, <1>10
<1>13. QED
  BY <1>11, <1>12

\* A highlight on a result is one.
LEMMA HighlightIsThere ==
    ASSUME plQuery \in Queries, plTenants \in 0 .. Len(Census), plActive \in 1 .. Len(Results)
    PROVE  Highlighted # None
<1>1. PICK R \in Seq(STRING) : R = Results
  BY ResultsTyped
<1>2. plActive \in DOMAIN R
  BY <1>1
<1>3. R[plActive] \in STRING
  BY <1>1, <1>2
<1>4. QED
  BY <1>1, <1>2, <1>3, PaletteAssumption DEF Highlighted

LEMMA FirstResult ==
    ASSUME plQuery \in Queries, plTenants \in 0 .. Len(Census), Results # <<>>
    PROVE  1 \in 1 .. Len(Results)
<1>1. PICK R \in Seq(STRING) : R = Results
  BY ResultsTyped
<1>2. Len(R) \in Nat /\ Len(R) # 0
  BY <1>1
<1>3. 1 \in 1 .. Len(R)
  BY <1>2
<1>4. QED
  BY <1>1, <1>3

LEMMA PaletteStarts == ASSUME PaletteStart, faults = 0, flight = {} PROVE PaletteInv
<1>1. /\ plOpen = FALSE /\ plQuery = "" /\ plTenants = 0 /\ plEntries = FALSE /\ plActive = 1
      /\ plNow = 1 /\ plAsked = 0 /\ plOverlap = FALSE
  BY DEF PaletteStart
<1>2. plQuery \in Queries
  BY <1>1, PaletteAssumption
<1>3. Len(Census) \in Nat /\ 1 \in 1 .. Len(Census)
  BY CensusTyped
<1>4. plNow = 1 /\ plAsked = 0 /\ plTenants = 0
  BY <1>1
<1>5. /\ plNow \in 1 .. Len(Census) /\ plAsked \in Nat /\ plAsked <= plNow
      /\ plTenants \in 0 .. Len(Census)
  BY <1>3, <1>4
<1>6. PaletteLists
  BY <1>1, <1>5 DEF PaletteLists
<1>7. PaletteHighlight
  BY <1>1, <1>2 DEF PaletteHighlight
<1>8. QED
  BY <1>6, <1>7 DEF PaletteInv

LEMMA PaletteOpened == ASSUME PaletteInv, OpenPalette PROVE PaletteInv'
<1>1. PICK a, one, b : /\ a = Ask(flight, "tenants", [at |-> 0]) /\ one = flight \cup {a}
                       /\ b = Ask(one, "entries", [at |-> 0])
  OBVIOUS
<1>2. flight' = one \cup {b}
  BY <1>1 DEF OpenPalette
<1>3. /\ ~plOpen /\ plOpen' = TRUE /\ plAsked' = plNow /\ plGrown' = FALSE
      /\ plOverlap' = (plOverlap \/ flight # {})
      /\ UNCHANGED <<faults, plQuery, plTenants, plEntries, plActive, plNow>>
  BY DEF OpenPalette
<1>a. Is(a, "tenants", [at |-> 0], "sent", TRUE) /\ Is(b, "entries", [at |-> 0], "sent", TRUE)
  BY <1>1, AskIs
<1>4. /\ Shaped(a) /\ a.kind = "tenants" /\ a.st = "sent"
      /\ Shaped(b) /\ b.kind = "entries" /\ b.st = "sent"
  BY <1>a DEF Is
<1>5. \A r \in flight' : ListRequest(r)
  BY <1>1, <1>2, <1>4 DEF PaletteInv, PaletteLists, ListRequest
<1>6. ~plOverlap' => ListsKnown'
  <2> SUFFICES ASSUME ~plOverlap' PROVE ListsKnown'
    OBVIOUS
  <2>1. flight' = {a, b}
    BY <1>1, <1>2, <1>3
  <2>2. Awaited("entries")' /\ Awaited("tenants")'
    BY <1>4, <2>1 DEF Awaited
  <2>3. \A r \in flight' : r.st = "sent"
    BY <1>4, <2>1
  <2>4. QED
    BY <2>2, <2>3 DEF ListsKnown
<1>7. plNow \in 1 .. Len(Census) /\ Len(Census) \in Nat
  BY CensusTyped DEF PaletteInv, PaletteLists
<1>8. plAsked' \in Nat /\ plAsked' <= plNow'
  BY <1>3, <1>7
<1>9. PaletteLists'
  BY <1>3, <1>5, <1>6, <1>8 DEF PaletteInv, PaletteLists
<1>10. PaletteHighlight'
  <2>1. Results' = Results /\ plActive = 1 /\ plQuery \in Queries /\ plTenants \in 0 .. Len(Census)
    BY <1>3 DEF Results, PaletteInv, PaletteLists, PaletteHighlight
  <2>2. Results # <<>> => plActive \in 1 .. Len(Results)
    BY <2>1, FirstResult
  <2>3. QED
    BY <1>3, <2>1, <2>2 DEF PaletteHighlight
<1>11. QED
  BY <1>9, <1>10 DEF PaletteInv

LEMMA PaletteClosed == ASSUME PaletteInv, ClosePalette PROVE PaletteInv'
<1>1. /\ plOpen' = FALSE /\ plQuery' = "" /\ plActive' = 1
      /\ UNCHANGED <<flight, faults, plTenants, plEntries, plNow, plAsked, plOverlap>>
  BY DEF ClosePalette, Shut, pageVars
<1>2. plQuery' \in Queries
  BY <1>1, PaletteAssumption
<1>3. PaletteLists'
  BY <1>1 DEF PaletteInv, PaletteLists
<1>4. PaletteHighlight'
  BY <1>1, <1>2 DEF PaletteHighlight
<1>5. QED
  BY <1>3, <1>4 DEF PaletteInv

LEMMA ListsStay ==
    ASSUME PaletteLists, UNCHANGED <<flight, faults, plOpen, plTenants, plEntries, plNow, plAsked, plOverlap>>
    PROVE  PaletteLists'
BY DEF PaletteLists, ListsKnown, Awaited

LEMMA PaletteTyped == ASSUME PaletteInv, TypeQuery PROVE PaletteInv'
<1>1. /\ plOpen /\ plQuery' \in Queries /\ plActive' = 1
      /\ UNCHANGED <<flight, faults, plOpen, plTenants, plEntries, plNow, plAsked, plOverlap>>
  BY DEF TypeQuery, pageVars
<1>2. PaletteLists'
  BY <1>1, ListsStay DEF PaletteInv
<1>3. plTenants' \in 0 .. Len(Census)
  BY <1>1 DEF PaletteInv, PaletteLists
<1>4. (plQuery \in Queries /\ plTenants \in 0 .. Len(Census) /\ Results # <<>> => 1 \in 1 .. Len(Results))'
  BY FirstResult, PTL
<1>5. Results' # <<>> => plActive' \in 1 .. Len(Results')
  BY <1>1, <1>3, <1>4
<1>6. PaletteHighlight'
  BY <1>1, <1>5 DEF PaletteHighlight
<1>7. QED
  BY <1>2, <1>6 DEF PaletteInv

LEMMA PaletteMoved == ASSUME PaletteInv, MoveHighlight PROVE PaletteInv'
<1>1. /\ plOpen /\ (ArrowDown \/ ArrowUp \/ Hover)
      /\ UNCHANGED <<flight, faults, plOpen, plQuery, plTenants, plEntries, plNow, plAsked, plGrown, plOverlap>>
  BY DEF MoveHighlight, pageVars
<1>2. PaletteLists'
  BY <1>1, ListsStay DEF PaletteInv
<1>3. Results' = Results /\ plQuery \in Queries /\ plTenants \in 0 .. Len(Census)
  BY <1>1 DEF Results, PaletteInv, PaletteLists, PaletteHighlight
<1>4. (~plGrown /\ Results # <<>>) => plActive' \in 1 .. Len(Results)
  <2> SUFFICES ASSUME ~plGrown, Results # <<>> PROVE plActive' \in 1 .. Len(Results)
    OBVIOUS
  <2>1. PICK R \in Seq(STRING) : R = Results
    BY <1>3, ResultsTyped
  <2>2. plActive \in 1 .. Len(R) /\ Len(R) \in Nat
    BY <1>1, <2>1 DEF PaletteInv, PaletteHighlight
  <2>3. \/ plActive' = IF plActive + 1 < Len(R) THEN plActive + 1 ELSE Len(R)
        \/ plActive' = IF plActive > 1 THEN plActive - 1 ELSE 1
        \/ plActive' \in DOMAIN R
    BY <1>1, <2>1 DEF ArrowDown, ArrowUp, Hover
  <2>4. DOMAIN R = 1 .. Len(R)
    BY <2>1
  <2>5. plActive' \in 1 .. Len(R)
    BY <2>2, <2>3, <2>4
  <2>6. QED
    BY <2>1, <2>5
<1>5. PaletteHighlight'
  BY <1>1, <1>3, <1>4 DEF PaletteHighlight
<1>6. QED
  BY <1>2, <1>5 DEF PaletteInv

\* The highlight stays while the results do, or when a list has arrived.
LEMMA HighlightStays ==
    ASSUME PaletteHighlight, UNCHANGED <<plOpen, plQuery, plActive>>,
           plGrown' = TRUE \/ (plGrown' = plGrown /\ Results' = Results)
    PROVE  PaletteHighlight'
BY DEF PaletteHighlight

LEMMA PaletteServed == ASSUME PaletteInv, ServeLists PROVE PaletteInv'
<1>1. PICK r \in flight : r.st = "sent" /\ (Answer(r, "ok", [at |-> plNow], {}) \/ Lose(r))
  BY DEF ServeLists
<1>2. UNCHANGED <<plOpen, plQuery, plTenants, plEntries, plActive, plNow, plAsked, plGrown, plOverlap>>
  BY DEF ServeLists, plVars, plUI
<1>3. ListRequest(r) /\ Shaped(r)
  BY DEF PaletteInv, PaletteLists, ListRequest
<1>4. PICK now : now = [at |-> plNow]
  OBVIOUS
<1>5. now.at = plNow /\ (Answer(r, "ok", now, {}) \/ Lose(r))
  BY <1>1, <1>4
<1>6. faults \in Nat
  BY DEF PaletteInv, PaletteLists
<1>7. PICK a, row, st : /\ Becomes(r, a, row, st)
                        /\ \/ st = "ok" /\ row.at = plNow /\ faults' = faults
                           \/ st = "failed" /\ faults' = faults + 1
  BY <1>3, <1>5, AnswerBy, LoseBy
<1>8. /\ flight' = (flight \ {r}) \cup {a} /\ Shaped(a)
      /\ a.kind = r.kind /\ a.row = row /\ a.st = st
  BY <1>7 DEF Becomes, Is
<1>9. plNow \in 1 .. Len(Census) /\ plAsked \in Nat /\ plAsked <= plNow
  BY DEF PaletteInv, PaletteLists
<1>10. ListRequest(a)
  BY <1>3, <1>7, <1>8, <1>9 DEF ListRequest
<1>11. \A q \in flight' : ListRequest(q)
  BY <1>8, <1>10 DEF PaletteInv, PaletteLists
<1>12. faults' \in Nat /\ (faults' = 0 => faults = 0 /\ st = "ok")
  BY <1>6, <1>7
<1>13. ASSUME plOpen', faults' = 0, ~plOverlap' PROVE ListsKnown'
  <2>1. ListsKnown /\ st = "ok"
    BY <1>2, <1>12, <1>13 DEF PaletteInv, PaletteLists
  <2>2. \A kind : Awaited(kind) => Awaited(kind)'
    BY <1>8 DEF Awaited
  <2>3. a.st = "ok" /\ a.row.at = plNow
    BY <1>7, <1>8, <2>1
  <2>4. a.row.at >= plAsked
    BY <1>9, <2>3
  <2>5. \A q \in flight' : q.st \in {"sent", "ok"} /\ (q.st = "ok" => q.row.at >= plAsked)
    BY <1>8, <2>1, <2>3, <2>4 DEF ListsKnown
  <2>6. QED
    BY <1>2, <2>1, <2>2, <2>5 DEF ListsKnown
<1>14. PaletteLists'
  BY <1>2, <1>11, <1>12, <1>13 DEF PaletteInv, PaletteLists
<1>15. Results' = Results
  BY <1>2 DEF Results
<1>16. QED
  BY <1>2, <1>14, <1>15, HighlightStays DEF PaletteInv

LEMMA PaletteFilled == ASSUME PaletteInv, ListArrives PROVE PaletteInv'
<1>1. PICK r \in flight :
        /\ r.st # "sent"
        /\ plTenants' = IF r.st = "ok" /\ r.kind = "tenants" THEN r.row.at ELSE plTenants
        /\ plEntries' = (plEntries \/ (r.st = "ok" /\ r.kind = "entries"))
        /\ Finish(r)
  BY DEF ListArrives
<1>2. /\ flight' = flight \ {r} /\ plGrown' = TRUE
      /\ UNCHANGED <<faults, plOpen, plQuery, plActive, plNow, plAsked, plOverlap>>
  BY <1>1 DEF ListArrives, Finish
<1>3. ListRequest(r)
  BY DEF PaletteInv, PaletteLists
<1>4. plTenants' \in 0 .. Len(Census)
  <2>1. plTenants \in 0 .. Len(Census) /\ Len(Census) \in Nat
    BY CensusTyped DEF PaletteInv, PaletteLists
  <2>2. r.st = "ok" => r.row.at \in 1 .. Len(Census)
    BY <1>3 DEF ListRequest
  <2>3. plTenants' = plTenants \/ (r.st = "ok" /\ plTenants' = r.row.at)
    BY <1>1
  <2>4. plTenants' = plTenants \/ plTenants' \in 1 .. Len(Census)
    BY <2>2, <2>3
  <2>5. QED
    BY <2>1, <2>4
<1>5. ASSUME plOpen', faults' = 0, ~plOverlap' PROVE ListsKnown'
  <2>1. ListsKnown
    BY <1>2, <1>5 DEF PaletteInv, PaletteLists
  <2>2. r.st = "ok" /\ r.row.at >= plAsked
    BY <1>1, <2>1 DEF ListsKnown
  <2>3. plEntries' \/ Awaited("entries")'
    BY <1>1, <1>2, <2>1, <2>2 DEF ListsKnown, Awaited
  <2>4. plTenants' >= plAsked \/ Awaited("tenants")'
    <3>1. CASE r.kind = "tenants"
      BY <1>1, <2>2, <3>1
    <3>2. CASE r.kind # "tenants"
      <4>1. plTenants' = plTenants
        BY <1>1, <3>2
      <4>2. Awaited("tenants") => Awaited("tenants")'
        BY <1>2, <3>2 DEF Awaited
      <4>3. QED
        BY <2>1, <4>1, <4>2 DEF ListsKnown
    <3>3. QED
      BY <3>1, <3>2
  <2>5. QED
    BY <1>2, <2>1, <2>3, <2>4 DEF ListsKnown
<1>6. plEntries' \in BOOLEAN
  BY <1>1
<1>7. PaletteLists'
  BY <1>2, <1>4, <1>5, <1>6 DEF PaletteInv, PaletteLists
<1>8. QED
  BY <1>2, <1>7, HighlightStays DEF PaletteInv

LEMMA PaletteSteps == ASSUME PaletteInv, PaletteNext \/ UNCHANGED <<pageVars, plVars>> PROVE PaletteInv'
<1>1. CASE TenantsChange
  <2>1. /\ plNow' = plNow + 1 /\ plNow < Len(Census)
        /\ UNCHANGED <<flight, faults, plOpen, plQuery, plTenants, plEntries, plActive, plAsked, plGrown, plOverlap>>
    BY <1>1 DEF TenantsChange, pageVars, plUI
  <2>2. plNow \in 1 .. Len(Census) /\ plAsked \in Nat /\ plAsked <= plNow /\ Len(Census) \in Nat
    BY CensusTyped DEF PaletteInv, PaletteLists
  <2>3. plNow' = plNow + 1 /\ plNow < Len(Census) /\ plAsked' = plAsked
    BY <2>1
  <2>4. plNow' \in 1 .. Len(Census) /\ plAsked' <= plNow'
    BY <2>2, <2>3
  <2>5. ListsKnown => ListsKnown'
    BY <2>1 DEF ListsKnown, Awaited
  <2>6. PaletteLists'
    BY <2>1, <2>4, <2>5 DEF PaletteInv, PaletteLists
  <2>7. Results' = Results
    BY <2>1 DEF Results
  <2>8. QED
    BY <2>1, <2>6, <2>7, HighlightStays DEF PaletteInv
<1>2. CASE UNCHANGED <<pageVars, plVars>>
  <2>1. UNCHANGED <<flight, faults, plOpen, plQuery, plTenants, plEntries, plActive, plNow, plAsked, plGrown, plOverlap>>
    BY <1>2 DEF pageVars, plVars, plUI
  <2>2. Results' = Results
    BY <2>1 DEF Results
  <2>3. QED
    BY <2>1, <2>2, HighlightStays, ListsStay DEF PaletteInv
<1>3. QED
  BY <1>1, <1>2, PaletteOpened, PaletteClosed, PaletteTyped, PaletteMoved, PaletteServed, PaletteFilled
     DEF PaletteNext, GoTo

LEMMA PaletteSays == ASSUME PaletteInv PROVE SomethingHighlighted /\ FindsWhatIsThere
<1>1. SomethingHighlighted
  BY HighlightIsThere DEF PaletteInv, PaletteLists, PaletteHighlight, SomethingHighlighted
<1>2. FindsWhatIsThere
  BY DEF PaletteInv, PaletteLists, ListsKnown, Awaited, FindsWhatIsThere
<1>3. QED
  BY <1>1, <1>2
-----------------------------------------------------------------------------
(***************************************************************************)
(* The dashboard and the analytics.  A section that was not asked for      *)
(* anew while it was loading (and one that always asks for the same) has   *)
(* only requests under way that ask for what it asks for now, and until an *)
(* answer is lost it shows that, or has such a request.                    *)
(***************************************************************************)
PageSections == IF ovPage = "dashboard" THEN DashboardSections ELSE {"analytics"}

Cur(s) == AsksFor(s, [ws |-> ovWs, range |-> ovRange])

Fixed == {"activity", "passRate"}

Steady(s) == s \notin ovLate \/ s \in Fixed

OverviewFields ==
    /\ ovPage \in {"dashboard", "analytics"}
    /\ ovStored \in Scope /\ ovWs \in Workspaces \cup {""} /\ ovRange \in Ranges
    /\ ovShown \in [Sections -> Scope \cup {None}]
    /\ ovBusy \subseteq Workspaces /\ ovAlarms \subseteq ovBusy \cup {""} /\ ovLate \subseteq Sections
    /\ ovNoData \in BOOLEAN /\ ovLoading \in BOOLEAN
    /\ faults \in Nat
    /\ ovWs = ovStored.ws
    /\ ovPage = "analytics" => ovRange = ovStored.range

SectionsAsked ==
    \A r \in flight :
      /\ Shaped(r) /\ r.kind \in PageSections /\ r.row \in Scope
      /\ Steady(r.kind) => r.row = Cur(r.kind)

Coming(s) == \E r \in flight : r.kind = s /\ r.mine

SectionsKnown ==
    faults = 0 => /\ ~ovNoData
                  /\ \A s \in PageSections : Steady(s) => ovShown[s] = Cur(s) \/ Coming(s)

AttentionComes == ovPage = "dashboard" => ovShown["attention"] # None \/ Coming("attention")

OneAnalysis ==
    ovPage = "analytics" /\ "analytics" \notin ovLate =>
      One(flight) /\ (ovLoading <=> flight # {})

OverviewInv == OverviewFields /\ SectionsAsked /\ SectionsKnown /\ AttentionComes /\ OneAnalysis

LEMMA OverviewFieldsTyped == OverviewFields => OverviewTypeOK
BY DEF OverviewFields, OverviewTypeOK

LEMMA FirstIsRange == FirstRange \in Ranges
BY ScopeAssumption DEF FirstRange

LEMMA Reranged ==
    ASSUME NEW v, NEW g, v = [ws |-> v.ws, range |-> v.range]
    PROVE  [v EXCEPT !.range = g] = [ws |-> v.ws, range |-> g]
OBVIOUS

LEMMA AsksTyped ==
    ASSUME NEW s, NEW scope \in Scope
    PROVE  /\ AsksFor(s, scope) \in Scope
           /\ s \in Fixed => AsksFor(s, scope) = [ws |-> "", range |-> FirstRange]
           /\ s = "attention" => AsksFor(s, scope) = [ws |-> scope.ws, range |-> FirstRange]
           /\ s \notin Fixed \cup {"attention"} => AsksFor(s, scope) = scope
<1>0. PICK w \in Workspaces \cup {""} : \E g \in Ranges : scope = [ws |-> w, range |-> g]
  BY DEF Scope
<1>01. PICK g \in Ranges : scope = [ws |-> w, range |-> g]
  BY <1>0
<1>02. scope.ws = w
  BY <1>01
<1>1. scope.ws \in Workspaces \cup {""}
  BY <1>02
<1>2. [scope EXCEPT !.range = FirstRange] = [ws |-> scope.ws, range |-> FirstRange]
  <2>1. scope = [ws |-> scope.ws, range |-> scope.range]
    BY <1>01
  <2>2. QED
    BY <2>1, Reranged
<1>3. [ws |-> "", range |-> FirstRange] \in Scope /\ [ws |-> scope.ws, range |-> FirstRange] \in Scope
  BY <1>1, FirstIsRange DEF Scope
<1>4. CASE s \in Fixed
  <2>1. AsksFor(s, scope) = [ws |-> "", range |-> FirstRange]
    BY <1>4 DEF AsksFor, Fixed
  <2>2. QED
    BY <1>3, <1>4, <2>1 DEF Fixed
<1>5. CASE s = "attention"
  <2>1. AsksFor(s, scope) = [scope EXCEPT !.range = FirstRange]
    BY <1>5 DEF AsksFor
  <2>2. QED
    BY <1>2, <1>3, <1>5, <2>1 DEF Fixed
<1>6. CASE s \notin Fixed \cup {"attention"}
  <2>1. AsksFor(s, scope) = scope
    BY <1>6 DEF AsksFor, Fixed
  <2>2. QED
    BY <1>6, <2>1
<1>7. QED
  BY <1>4, <1>5, <1>6

\* q asks for section s of this scope.
Loads(q, s, scope) == Shaped(q) /\ q.kind = s /\ q.row = AsksFor(s, scope) /\ q.mine = TRUE

LEMMA LoadsAre ==
    ASSUME NEW sections, NEW scope, NEW pending
    PROVE  /\ \A q \in LoadsOf(sections, scope, pending) : \E s \in sections : Loads(q, s, scope)
           /\ \A s \in sections : \E q \in LoadsOf(sections, scope, pending) : Loads(q, s, scope)
           /\ One(sections) => One(LoadsOf(sections, scope, pending))
<1> DEFINE ask(s) == Ask({r \in pending : r.kind = s}, s, AsksFor(s, scope))
<1>1. LoadsOf(sections, scope, pending) = {ask(s) : s \in sections}
  BY DEF LoadsOf
<1>2. ASSUME NEW s \in sections PROVE Loads(ask(s), s, scope)
  <2>1. Is(ask(s), s, AsksFor(s, scope), "sent", TRUE)
    BY AskIs
  <2> HIDE DEF ask
  <2>2. QED
    BY <2>1 DEF Is, Loads
<1> HIDE DEF ask
<1>3. QED
  BY <1>1, <1>2 DEF One

\* What the effects that load leave under way.
LEMMA LoadBy ==
    ASSUME SectionsAsked, NEW sections, NEW scope, Load(sections, scope)
    PROVE  /\ \A q \in flight' :
                /\ Shaped(q)
                /\ \/ \E r \in flight : q.kind = r.kind /\ q.row = r.row
                   \/ \E s \in sections : q.kind = s /\ q.row = AsksFor(s, scope)
           /\ \A s \in sections : Coming(s)'
           /\ \A r \in flight : r.kind \notin sections => r \in flight'
           /\ flight = {} /\ One(sections) => One(flight')
           /\ ovLate' = ovLate \cup {r.kind : r \in {q \in flight : q.kind \in sections}}
           /\ ovLoading' = (ovLoading \/ "analytics" \in sections)
<1> DEFINE kept(r) == IF r.kind \in sections \cap {"passRate"} THEN [r EXCEPT !.mine = FALSE] ELSE r
           before == {kept(r) : r \in flight}
<1>1. /\ flight' = before \cup LoadsOf(sections, scope, before)
      /\ ovLate' = ovLate \cup {r.kind : r \in {q \in flight : q.kind \in sections}}
      /\ ovLoading' = (ovLoading \/ "analytics" \in sections)
  BY DEF Load
<1>2. ASSUME NEW r \in flight
      PROVE  /\ Shaped(kept(r)) /\ kept(r).kind = r.kind /\ kept(r).row = r.row
             /\ r.kind \notin sections => kept(r) = r
  <2>1. Shaped(r)
    BY DEF SectionsAsked
  <2>2. CASE r.kind \in sections \cap {"passRate"}
    <3>1. kept(r) = [r EXCEPT !.mine = FALSE]
      BY <2>2
    <3>2. kept(r) = [no |-> r.no, kind |-> r.kind, row |-> r.row, st |-> r.st,
                     rows |-> r.rows, mine |-> FALSE]
      BY <2>1, <3>1 DEF Shaped
    <3> HIDE DEF kept
    <3>3. QED
      BY <2>2, <3>2 DEF Shaped
  <2>3. CASE r.kind \notin sections \cap {"passRate"}
    <3>1. kept(r) = r
      BY <2>3
    <3> HIDE DEF kept
    <3>2. QED
      BY <2>1, <3>1
  <2>4. QED
    BY <2>2, <2>3
<1> HIDE DEF kept
<1>3. \A q \in before : \E r \in flight : q = kept(r)
  OBVIOUS
<1>4. \A r \in flight : kept(r) \in before
  OBVIOUS
<1>5. flight = {} => before = {}
  OBVIOUS
<1> HIDE DEF before
<1>6. \A q \in flight' :
        /\ Shaped(q)
        /\ \/ \E r \in flight : q.kind = r.kind /\ q.row = r.row
           \/ \E s \in sections : q.kind = s /\ q.row = AsksFor(s, scope)
  <2> SUFFICES ASSUME NEW q \in flight'
               PROVE  /\ Shaped(q)
                      /\ \/ \E r \in flight : q.kind = r.kind /\ q.row = r.row
                         \/ \E s \in sections : q.kind = s /\ q.row = AsksFor(s, scope)
    OBVIOUS
  <2>1. CASE q \in before
    <3>1. PICK r \in flight : q = kept(r)
      BY <1>3, <2>1
    <3>2. QED
      BY <1>2, <3>1
  <2>2. CASE q \in LoadsOf(sections, scope, before)
    <3>1. PICK s \in sections : Loads(q, s, scope)
      BY <2>2, LoadsAre
    <3>2. QED
      BY <3>1 DEF Loads
  <2>3. QED
    BY <1>1, <2>1, <2>2
<1>7. \A s \in sections : Coming(s)'
  <2> SUFFICES ASSUME NEW s \in sections PROVE \E q \in flight' : q.kind = s /\ q.mine
    BY DEF Coming
  <2>1. PICK q \in LoadsOf(sections, scope, before) : Loads(q, s, scope)
    BY LoadsAre
  <2>2. q \in flight'
    BY <1>1
  <2>3. QED
    BY <2>1, <2>2 DEF Loads
<1>8. \A r \in flight : r.kind \notin sections => r \in flight'
  BY <1>1, <1>2, <1>4
<1>9. flight = {} /\ One(sections) => One(flight')
  <2> SUFFICES ASSUME flight = {}, One(sections) PROVE One(flight')
    OBVIOUS
  <2>1. flight' = LoadsOf(sections, scope, before)
    BY <1>1, <1>5
  <2>2. QED
    BY <2>1, LoadsAre
<1>10. QED
  BY <1>1, <1>6, <1>7, <1>8, <1>9

\* The page stays, and the sections that ask for something else are loaded.
LEMMA OverviewLoaded ==
    ASSUME OverviewInv, NEW sections, sections \subseteq PageSections,
           ovPage = "analytics" => sections = {"analytics"},
           UNCHANGED <<ovPage, ovShown, ovNoData, ovBusy, ovAlarms, faults>>,
           ovStored' \in Scope, ovWs' \in Workspaces \cup {""}, ovRange' \in Ranges,
           ovWs' = ovStored'.ws, ovPage = "analytics" => ovRange' = ovStored'.range,
           Load(sections, [ws |-> ovWs', range |-> ovRange']),
           \A s \in PageSections \ sections : Cur(s)' = Cur(s)
    PROVE  OverviewInv'
<1>1. PICK scope : scope = [ws |-> ovWs', range |-> ovRange']
  OBVIOUS
<1>2. scope \in Scope /\ Load(sections, scope) /\ \A s : Cur(s)' = AsksFor(s, scope)
  BY <1>1 DEF Scope, Cur
<1>3. [ws |-> ovWs, range |-> ovRange] \in Scope
  BY DEF OverviewInv, OverviewFields, Scope
<1>4. \A s \in Fixed : Cur(s)' = Cur(s)
  BY <1>2, <1>3, AsksTyped DEF Cur
<1>5. PageSections' = PageSections /\ PageSections \subseteq Sections
  BY DEF PageSections, Sections
<1>6. SectionsAsked /\ SectionsKnown /\ OneAnalysis /\ OverviewFields
  BY DEF OverviewInv
<1>7. /\ \A q \in flight' :
           /\ Shaped(q)
           /\ \/ \E r \in flight : q.kind = r.kind /\ q.row = r.row
              \/ \E s \in sections : q.kind = s /\ q.row = AsksFor(s, scope)
      /\ \A s \in sections : Coming(s)'
      /\ \A r \in flight : r.kind \notin sections => r \in flight'
      /\ flight = {} /\ One(sections) => One(flight')
      /\ ovLate' = ovLate \cup {r.kind : r \in {q \in flight : q.kind \in sections}}
      /\ ovLoading' = (ovLoading \/ "analytics" \in sections)
  BY <1>2, <1>6, LoadBy
<1>8. \A s : Steady(s)' => Steady(s)
  BY <1>7 DEF Steady
<1>9. OverviewFields'
  <2>1. ovLate' \subseteq Sections
    BY <1>5, <1>6, <1>7 DEF SectionsAsked, OverviewFields
  <2>2. ovLoading' \in BOOLEAN
    BY <1>7
  <2>3. QED
    BY <1>6, <2>1, <2>2 DEF OverviewFields
<1>10. SectionsAsked'
  <2> SUFFICES ASSUME NEW q \in flight'
               PROVE  /\ Shaped(q) /\ q.kind \in PageSections /\ q.row \in Scope
                      /\ Steady(q.kind)' => q.row = Cur(q.kind)'
    BY <1>5 DEF SectionsAsked
  <2>1. CASE \E s \in sections : q.kind = s /\ q.row = AsksFor(s, scope)
    <3>1. q.row = AsksFor(q.kind, scope) /\ q.kind \in sections
      BY <2>1
    <3>2. AsksFor(q.kind, scope) \in Scope
      BY <1>2, AsksTyped
    <3>3. QED
      BY <1>2, <1>7, <3>1, <3>2
  <2>2. CASE \E r \in flight : q.kind = r.kind /\ q.row = r.row
    <3>1. PICK r \in flight : q.kind = r.kind /\ q.row = r.row
      BY <2>2
    <3>2. /\ r.kind \in PageSections /\ r.row \in Scope
          /\ Steady(r.kind) => r.row = Cur(r.kind)
      BY <1>6 DEF SectionsAsked
    <3>3. ASSUME Steady(r.kind)' PROVE Cur(r.kind)' = Cur(r.kind)
      <4>1. CASE r.kind \in Fixed
        BY <1>4, <4>1
      <4>2. CASE r.kind \notin Fixed
        <5>1. r.kind \notin sections
          BY <1>7, <3>3, <4>2 DEF Steady
        <5>2. QED
          BY <3>2, <5>1
      <4>3. QED
        BY <4>1, <4>2
    <3>4. QED
      BY <1>7, <1>8, <3>1, <3>2, <3>3
  <2>3. QED
    BY <1>7, <2>1, <2>2
<1>11. SectionsKnown'
  <2> SUFFICES ASSUME faults = 0
               PROVE  ~ovNoData /\ \A s \in PageSections : Steady(s)' => ovShown[s] = Cur(s)' \/ Coming(s)'
    BY <1>5 DEF SectionsKnown
  <2>1. ~ovNoData /\ \A s \in PageSections : Steady(s) => ovShown[s] = Cur(s) \/ Coming(s)
    BY <1>6 DEF SectionsKnown
  <2>2. ASSUME NEW s \in PageSections \ sections, Steady(s)'
        PROVE  ovShown[s] = Cur(s)' \/ Coming(s)'
    <3>1. Cur(s)' = Cur(s) /\ Steady(s)
      BY <1>8, <2>2
    <3>2. Coming(s) => Coming(s)'
      BY <1>7, <2>2 DEF Coming
    <3>3. QED
      BY <2>1, <3>1, <3>2
  <2>3. QED
    BY <1>7, <2>1, <2>2
<1>12. OneAnalysis'
  <2> SUFFICES ASSUME ovPage = "analytics", "analytics" \notin ovLate'
               PROVE  One(flight') /\ (ovLoading' <=> flight' # {})
    BY DEF OneAnalysis
  <2>1. sections = {"analytics"} /\ PageSections = {"analytics"}
    BY DEF PageSections
  <2>2. flight = {}
    BY <1>6, <1>7, <2>1 DEF SectionsAsked
  <2>3. One(flight') /\ flight' # {}
    BY <1>7, <2>1, <2>2 DEF One, Coming
  <2>4. ovLoading' = TRUE
    BY <1>7, <2>1
  <2>5. QED
    BY <2>3, <2>4
<1>13. AttentionComes'
  <2> SUFFICES ASSUME ovPage = "dashboard" PROVE ovShown["attention"] # None \/ Coming("attention")'
    BY DEF AttentionComes
  <2>1. ovShown["attention"] # None \/ Coming("attention")
    BY DEF OverviewInv, AttentionComes
  <2>2. Coming("attention") => Coming("attention")'
    BY <1>7 DEF Coming
  <2>3. QED
    BY <2>1, <2>2
<1>14. QED
  BY <1>9, <1>10, <1>11, <1>12, <1>13 DEF OverviewInv

\* A page is mounted: all it has is asked for.
Mounted ==
    /\ ovPage \in {"dashboard", "analytics"} /\ ovStored \in Scope
    /\ ovWs = ovStored.ws
    /\ ovRange = IF ovPage = "analytics" THEN ovStored.range ELSE FirstRange
    /\ ovShown = Nothing /\ ovNoData = FALSE /\ ovLoading = TRUE /\ ovLate = {}
    /\ ovBusy \subseteq Workspaces /\ ovAlarms \subseteq ovBusy \cup {""} /\ faults \in Nat
    /\ flight = LoadsOf(PageSections, [ws |-> ovWs, range |-> ovRange], {})

LEMMA MountedHolds == Mounted => OverviewInv
<1> SUFFICES ASSUME Mounted PROVE OverviewInv
  OBVIOUS
<1>1. PICK scope : scope = [ws |-> ovWs, range |-> ovRange]
  OBVIOUS
<1>2. ovWs \in Workspaces \cup {""} /\ ovRange \in Ranges
  BY FirstIsRange DEF Mounted, Scope
<1>3. scope \in Scope /\ \A s : Cur(s) = AsksFor(s, scope)
  BY <1>1, <1>2 DEF Scope, Cur
<1>4. flight = LoadsOf(PageSections, scope, {})
  BY <1>1 DEF Mounted
<1>5. /\ \A q \in flight : \E s \in PageSections : Loads(q, s, scope)
      /\ \A s \in PageSections : \E q \in flight : Loads(q, s, scope)
      /\ One(PageSections) => One(flight)
  BY <1>4, LoadsAre
<1>6. ovShown \in [Sections -> Scope \cup {None}]
  BY DEF Mounted, Nothing
<1>7. OverviewFields
  BY <1>2, <1>6 DEF Mounted, OverviewFields
<1>8. SectionsAsked
  BY <1>3, <1>5, AsksTyped DEF SectionsAsked, Loads
<1>9. \A s \in PageSections : Coming(s)
  BY <1>5 DEF Coming, Loads
<1>10. SectionsKnown
  BY <1>9 DEF Mounted, SectionsKnown
<1>11. OneAnalysis
  BY <1>5, <1>9 DEF Mounted, OneAnalysis, PageSections, Coming, One
<1>12. AttentionComes
  <2>1. ovPage = "dashboard" => "attention" \in PageSections
    BY DEF PageSections, DashboardSections
  <2>2. QED
    BY <1>9, <2>1 DEF AttentionComes
<1>13. QED
  BY <1>7, <1>8, <1>10, <1>11, <1>12 DEF OverviewInv

LEMMA OverviewStarts == ASSUME OverviewInit PROVE OverviewInv
<1>1. Mounted
  <2>1. ovBusy \subseteq Workspaces /\ ovAlarms \subseteq ovBusy \cup {""}
    BY ScopeAssumption DEF OverviewInit
  <2>2. faults = 0 /\ flight = LoadsOf(PageSections, [ws |-> ovWs, range |-> ovRange], {})
    BY DEF OverviewInit, PageInit, PageSections
  <2>3. faults \in Nat
    BY <2>2
  <2>4. QED
    BY <2>1, <2>2, <2>3 DEF OverviewInit, Mounted
<1>2. QED
  BY <1>1, MountedHolds

LEMMA OverviewOperated == ASSUME OverviewInv, OverviewOperator PROVE OverviewInv'
<1>0. OverviewFields /\ UNCHANGED <<faults, ovBusy, ovAlarms>>
  BY DEF OverviewInv, OverviewOperator
<1>1. CASE VisitPage
  <2>1. Mounted'
    <3>1. ovPage' \in {"dashboard", "analytics"} /\ ovPage' # ovPage
      BY <1>0, <1>1 DEF VisitPage, OverviewFields
    <3>2. flight' = LoadsOf(PageSections', [ws |-> ovWs', range |-> ovRange'], {})
      BY <1>1 DEF VisitPage, PageSections
    <3>3. /\ ovStored' = ovStored /\ ovWs' = ovStored.ws
          /\ ovRange' = IF ovPage' = "analytics" THEN ovStored.range ELSE FirstRange
          /\ ovShown' = Nothing /\ ovNoData' = FALSE /\ ovLoading' = TRUE /\ ovLate' = {}
      BY <1>1 DEF VisitPage
    <3>4. QED
      BY <1>0, <3>1, <3>2, <3>3 DEF Mounted, OverviewFields, Nothing
  <2>2. Mounted' => OverviewInv'
    BY MountedHolds, PTL
  <2>3. QED
    BY <2>1, <2>2
<1>2. CASE (PickWorkspace \/ PickPeriod \/ PickMetric) /\ UNCHANGED <<ovShown, ovNoData>>
  <2>0. [ws |-> ovWs, range |-> ovRange] \in Scope
    BY <1>0 DEF OverviewFields, Scope
  <2>1. CASE PickWorkspace
    <3>1. PICK w \in Workspaces \cup {""} :
            /\ ovStored' = [ovStored EXCEPT !.ws = w]
            /\ ovWs' = w
            /\ Load(PageSections, [ws |-> w, range |-> ovRange])
      BY <2>1 DEF PickWorkspace, PageSections
    <3>2. ovPage' = ovPage /\ ovRange' = ovRange
      BY <2>1 DEF PickWorkspace
    <3>3. ovStored' = [ws |-> w, range |-> ovStored.range] /\ ovStored' \in Scope
      BY <1>0, <3>1 DEF OverviewFields, Scope
    <3>4. ovStored'.ws = w /\ ovStored'.range = ovStored.range
      BY <3>3
    <3>5. Load(PageSections, [ws |-> ovWs', range |-> ovRange'])
      BY <3>1, <3>2
    <3>6. ovPage = "analytics" => ovRange' = ovStored'.range /\ PageSections = {"analytics"}
      BY <1>0, <3>2, <3>4 DEF OverviewFields, PageSections
    <3>7. ovRange' \in Ranges /\ ovWs' \in Workspaces \cup {""} /\ ovWs' = ovStored'.ws
      BY <1>0, <3>1, <3>2, <3>4 DEF OverviewFields
    <3>8. QED
      BY <1>0, <1>2, <3>2, <3>3, <3>5, <3>6, <3>7, OverviewLoaded
  <2>2. CASE PickPeriod
    <3>1. PICK sections : sections = IF ovPage = "dashboard" THEN DashboardSections \ {"passRate"} ELSE {"analytics"}
      OBVIOUS
    <3>2. PICK g \in Ranges :
            /\ ovRange' = g
            /\ ovStored' = IF ovPage = "analytics" THEN [ovStored EXCEPT !.range = g] ELSE ovStored
            /\ Load(sections, [ws |-> ovWs, range |-> g])
      BY <2>2, <3>1 DEF PickPeriod
    <3>3. ovPage' = ovPage /\ ovWs' = ovWs
      BY <2>2 DEF PickPeriod
    <3>4. sections \subseteq PageSections /\ (ovPage = "analytics" => sections = {"analytics"})
      BY <1>0, <3>1 DEF PageSections, DashboardSections, OverviewFields
    <3>5. PageSections \ sections \subseteq Fixed
      BY <3>1 DEF PageSections, Fixed, DashboardSections
    <3>6. \A s \in PageSections \ sections : Cur(s)' = Cur(s)
      <4>1. [ws |-> ovWs', range |-> ovRange'] \in Scope
        BY <1>0, <3>2, <3>3 DEF OverviewFields, Scope
      <4>2. QED
        BY <2>0, <3>5, <4>1, AsksTyped DEF Cur
    <3>7. /\ ovStored' \in Scope /\ ovStored'.ws = ovStored.ws
          /\ ovPage = "analytics" => ovStored'.range = g
      <4>1. CASE ovPage = "analytics"
        <5>1. ovStored' = [ws |-> ovStored.ws, range |-> g]
          BY <1>0, <3>2, <4>1 DEF OverviewFields, Scope
        <5>2. QED
          BY <1>0, <3>2, <4>1, <5>1 DEF OverviewFields, Scope
      <4>2. CASE ovPage # "analytics"
        BY <1>0, <3>2, <4>2 DEF OverviewFields
      <4>3. QED
        BY <4>1, <4>2
    <3>8. Load(sections, [ws |-> ovWs', range |-> ovRange'])
      BY <3>2, <3>3
    <3>9. ovRange' \in Ranges /\ ovWs' \in Workspaces \cup {""} /\ ovWs' = ovStored'.ws
      BY <1>0, <3>2, <3>3, <3>7 DEF OverviewFields
    <3>10. ovPage = "analytics" => ovRange' = ovStored'.range
      BY <3>2, <3>7
    <3>11. QED
      BY <1>0, <1>2, <3>3, <3>4, <3>6, <3>7, <3>8, <3>9, <3>10, OverviewLoaded
  <2>3. CASE PickMetric
    <3>1. /\ ovPage = "dashboard" /\ Load({"series"}, [ws |-> ovWs, range |-> ovRange])
          /\ UNCHANGED <<ovPage, ovStored, ovWs, ovRange>>
      BY <2>3 DEF PickMetric
    <3>2. Load({"series"}, [ws |-> ovWs', range |-> ovRange']) /\ \A s : Cur(s)' = Cur(s)
      BY <3>1 DEF Cur
    <3>3. {"series"} \subseteq PageSections
      BY <3>1 DEF PageSections, DashboardSections
    <3>4. /\ ovStored' \in Scope /\ ovWs' \in Workspaces \cup {""} /\ ovRange' \in Ranges
          /\ ovWs' = ovStored'.ws /\ ovPage # "analytics"
      BY <1>0, <3>1 DEF OverviewFields
    <3>5. QED
      BY <1>0, <1>2, <3>1, <3>2, <3>3, <3>4, OverviewLoaded
  <2>4. QED
    BY <1>2, <2>1, <2>2, <2>3
<1>3. QED
  BY <1>1, <1>2 DEF OverviewOperator

\* An answer arrives, or is lost.
LEMMA SectionArrived ==
    ASSUME OverviewInv, NEW r \in flight, NEW ok \in BOOLEAN, SectionArrives(r, ok),
           faults' \in Nat, faults' = 0 => ok /\ faults = 0
    PROVE  OverviewInv'
<1>0. OverviewFields /\ SectionsAsked /\ SectionsKnown /\ OneAnalysis
  BY DEF OverviewInv
<1>1. /\ ovNoData' = IF r.kind = "kpis" THEN ~ok ELSE ovNoData
      /\ ovLoading' = (ovLoading /\ r.kind # "analytics")
      /\ flight' = flight \ {r}
      /\ UNCHANGED <<ovPage, ovStored, ovWs, ovRange, ovBusy, ovAlarms, ovLate>>
  BY DEF SectionArrives
<1>2. /\ r.kind \in PageSections /\ r.row \in Scope /\ r.mine \in BOOLEAN
      /\ Steady(r.kind) => r.row = Cur(r.kind)
  BY <1>0 DEF SectionsAsked, Shaped
<1>3. r.kind \in Sections
  BY <1>2 DEF PageSections, Sections
<1>4. PICK what : what = IF ok \/ r.kind = "attention" THEN r.row
                         ELSE IF r.kind \in {"kpis", "analytics"} THEN ovShown[r.kind] ELSE None
  OBVIOUS
<1>5. ovShown' = IF ~r.mine THEN ovShown ELSE [ovShown EXCEPT ![r.kind] = what]
  BY <1>4 DEF SectionArrives
<1>6. what \in Scope \cup {None} /\ (ok => what = r.row)
  BY <1>0, <1>2, <1>3, <1>4 DEF OverviewFields
<1>7. ovShown' \in [Sections -> Scope \cup {None}]
  BY <1>0, <1>5, <1>6 DEF OverviewFields
<1>8. OverviewFields'
  <2>1. ovNoData' \in BOOLEAN /\ ovLoading' \in BOOLEAN
    BY <1>0, <1>1 DEF OverviewFields
  <2>2. QED
    BY <1>0, <1>1, <1>7, <2>1 DEF OverviewFields
<1>9. /\ PageSections' = PageSections /\ \A s : Cur(s)' = Cur(s) /\ (Steady(s)' <=> Steady(s))
  BY <1>1 DEF PageSections, Cur, Steady
<1>10. SectionsAsked'
  BY <1>0, <1>1, <1>9 DEF SectionsAsked
<1>11. SectionsKnown'
  <2> SUFFICES ASSUME faults' = 0
               PROVE  ~ovNoData' /\ \A s \in PageSections : Steady(s) => ovShown'[s] = Cur(s) \/ Coming(s)'
    BY <1>9 DEF SectionsKnown
  <2>1. /\ ok /\ ~ovNoData
        /\ \A s \in PageSections : Steady(s) => ovShown[s] = Cur(s) \/ Coming(s)
    BY <1>0 DEF SectionsKnown
  <2>2. ASSUME NEW s \in PageSections, Steady(s)
        PROVE  ovShown'[s] = Cur(s) \/ Coming(s)'
    <3>1. s \in Sections
      BY <2>2 DEF PageSections, Sections
    <3>2. CASE s = r.kind /\ r.mine
      <4>1. ovShown'[s] = r.row
        BY <1>0, <1>3, <1>5, <1>6, <2>1, <3>2 DEF OverviewFields
      <4>2. QED
        BY <1>2, <2>2, <3>2, <4>1
    <3>3. CASE ~(s = r.kind /\ r.mine)
      <4>1. ovShown'[s] = ovShown[s]
        BY <1>0, <1>5, <3>1, <3>3 DEF OverviewFields
      <4>2. Coming(s) => Coming(s)'
        BY <1>1, <3>3 DEF Coming
      <4>3. QED
        BY <2>1, <2>2, <4>1, <4>2
    <3>4. QED
      BY <3>2, <3>3
  <2>3. ~ovNoData'
    BY <1>1, <2>1
  <2>4. QED
    BY <2>2, <2>3
<1>12. OneAnalysis'
  <2> SUFFICES ASSUME ovPage = "analytics", "analytics" \notin ovLate
               PROVE  One(flight') /\ (ovLoading' <=> flight' # {})
    BY <1>1 DEF OneAnalysis
  <2>1. One(flight) /\ r.kind = "analytics"
    BY <1>0, <1>2 DEF OneAnalysis, PageSections
  <2>2. flight' = {} /\ ovLoading' = FALSE
    BY <1>1, <2>1 DEF One
  <2>3. QED
    BY <2>2 DEF One
<1>13. AttentionComes'
  <2> SUFFICES ASSUME ovPage = "dashboard" PROVE ovShown'["attention"] # None \/ Coming("attention")'
    BY <1>1 DEF AttentionComes
  <2>1. ovShown["attention"] # None \/ Coming("attention")
    BY DEF OverviewInv, AttentionComes
  <2>2. "attention" \in Sections
    BY DEF Sections, DashboardSections
  <2>3. CASE r.kind = "attention" /\ r.mine
    <3>1. what = r.row /\ what # None
      BY <1>2, <1>4, <2>3, ScopeAssumption
    <3>2. ovShown'["attention"] = what
      BY <1>0, <1>5, <2>2, <2>3 DEF OverviewFields
    <3>3. QED
      BY <3>1, <3>2
  <2>4. CASE ~(r.kind = "attention" /\ r.mine)
    <3>1. ovShown'["attention"] = ovShown["attention"]
      BY <1>0, <1>5, <2>2, <2>4 DEF OverviewFields
    <3>2. Coming("attention") => Coming("attention")'
      BY <1>1, <2>4 DEF Coming
    <3>3. QED
      BY <2>1, <3>1, <3>2
  <2>5. QED
    BY <2>3, <2>4
<1>14. QED
  BY <1>8, <1>10, <1>11, <1>12, <1>13 DEF OverviewInv

LEMMA OverviewSteps == ASSUME OverviewInv, OverviewNext \/ UNCHANGED <<pageVars, ovVars>> PROVE OverviewInv'
<1>1. CASE OverviewArrives
  <2>0. faults \in Nat
    BY DEF OverviewInv, OverviewFields
  <2>1. PICK r \in flight :
          \/ SectionArrives(r, TRUE) /\ UNCHANGED faults
          \/ faults' = faults + 1 /\ SectionArrives(r, FALSE)
    BY <1>1 DEF OverviewArrives
  <2>2. CASE SectionArrives(r, TRUE) /\ UNCHANGED faults
    BY <2>0, <2>2, SectionArrived
  <2>3. CASE faults' = faults + 1 /\ SectionArrives(r, FALSE)
    <3>1. faults' \in Nat /\ faults' # 0
      BY <2>0, <2>3
    <3>2. QED
      BY <2>3, <3>1, SectionArrived
  <2>4. QED
    BY <2>1, <2>2, <2>3
<1>2. CASE UNCHANGED <<pageVars, ovVars>>
  <2>1. UNCHANGED <<flight, faults, ovPage, ovStored, ovWs, ovRange, ovShown, ovNoData, ovLoading, ovBusy, ovAlarms, ovLate>>
    BY <1>2 DEF pageVars, ovVars, ovUI
  <2>2. /\ PageSections' = PageSections
        /\ \A s : Cur(s)' = Cur(s) /\ (Steady(s)' <=> Steady(s)) /\ (Coming(s)' <=> Coming(s))
    BY <2>1 DEF PageSections, Cur, Steady, Coming
  <2>3. SectionsAsked' /\ SectionsKnown' /\ OneAnalysis' /\ AttentionComes'
    BY <2>1, <2>2 DEF OverviewInv, SectionsAsked, SectionsKnown, OneAnalysis, AttentionComes
  <2>4. OverviewFields'
    BY <2>1 DEF OverviewInv, OverviewFields
  <2>5. QED
    BY <2>3, <2>4 DEF OverviewInv
<1>3. QED
  BY <1>1, <1>2, OverviewOperated DEF OverviewNext

\* Who is greeted is decided by the activity, which is that of everybody,
\* and by what needs attention, whatever workspace that was loaded for.
LEMMA GreetedBy ==
    ASSUME ovShown \in [Sections -> Scope \cup {None}], ovBusy \subseteq Workspaces,
           ovAlarms \subseteq ovBusy \cup {""}, ~ovNoData,
           ovShown["activity"] = [ws |-> "", range |-> FirstRange], ovShown["attention"] # None
    PROVE  FirstRun <=> ovBusy = {} /\ ovAlarms = {}
<1>1. ovShown["activity"] # None /\ ovShown["activity"].ws = ""
  <2>1. PICK v : v = [ws |-> "", range |-> FirstRange]
    OBVIOUS
  <2>2. v \in Scope
    BY <2>1, FirstIsRange DEF Scope
  <2>3. v # None
    BY <2>2, ScopeAssumption
  <2>4. v.ws = ""
    BY <2>1
  <2>5. QED
    BY <2>1, <2>3, <2>4
<1>2. NotEmpty("activity") <=> ovBusy # {}
  BY <1>1 DEF NotEmpty, Within
<1>3. ovBusy = {} /\ ovAlarms = {} => \A s : ~NotEmpty(s)
  BY DEF NotEmpty
<1>4. ovBusy = {} /\ ~NotEmpty("attention") => ovAlarms = {}
  BY DEF NotEmpty
<1>5. QED
  BY <1>2, <1>3, <1>4 DEF FirstRun

LEMMA OverviewSays ==
    ASSUME OverviewInv
    PROVE  OverviewTypeOK /\ SectionsAgree /\ GreetsOnlyQuietGateways /\ AnalyticsSettle
<1>0. OverviewFields /\ SectionsAsked /\ SectionsKnown /\ AttentionComes /\ OneAnalysis
  BY DEF OverviewInv
<1>1. ASSUME flight = {}, faults = 0
      PROVE  ~ovNoData /\ \A s \in PageSections : Steady(s) => ovShown[s] = Cur(s)
  BY <1>0, <1>1 DEF SectionsKnown, Coming
<1>2. SectionsAgree
  <2> SUFFICES ASSUME flight = {}, faults = 0
               PROVE  /\ ovWs = ovStored.ws
                      /\ \A s \in PageSections \ (ovLate \ {"passRate"}) : ovShown[s] = Cur(s)
    BY DEF SectionsAgree, PageSections, Cur
  <2>1. \A s \in PageSections \ (ovLate \ {"passRate"}) : Steady(s)
    BY DEF Steady, Fixed
  <2>2. QED
    BY <1>0, <1>1, <2>1 DEF OverviewFields
<1>3. GreetsOnlyQuietGateways
  <2> SUFFICES ASSUME ovPage = "dashboard", flight = {}, faults = 0
               PROVE  FirstRun <=> ovBusy = {} /\ ovAlarms = {}
    BY DEF GreetsOnlyQuietGateways
  <2>1. "activity" \in PageSections /\ Steady("activity")
    BY DEF PageSections, DashboardSections, Steady, Fixed
  <2>2. [ws |-> ovWs, range |-> ovRange] \in Scope
    BY <1>0 DEF OverviewFields, Scope
  <2>3. Cur("activity") = [ws |-> "", range |-> FirstRange]
    BY <2>2, AsksTyped DEF Cur, Fixed
  <2>4. ovShown["attention"] # None
    BY <1>0 DEF AttentionComes, Coming
  <2>5. QED
    BY <1>0, <1>1, <2>1, <2>3, <2>4, GreetedBy DEF OverviewFields
<1>4. AnalyticsSettle
  BY <1>0 DEF OneAnalysis, OverviewFields, AnalyticsSettle
<1>5. QED
  BY <1>0, <1>2, <1>3, <1>4, OverviewFieldsTyped
-----------------------------------------------------------------------------
(***************************************************************************)
(* All of them: a behaviour stays with one page, which keeps to its        *)
(* invariant, and the variables of the others rest as they were.  Only the *)
(* page of conversations has a filter, and only that of sessions closes    *)
(* any.                                                                    *)
(***************************************************************************)
ConvPart ==
    /\ page = "conversations" => ConversationsInv
    /\ page # "conversations" => ConvOff /\ deps.filter = ""

SessPart ==
    /\ page = "sessions" => SessionsInv /\ enabled
    /\ page # "sessions" => SessOff /\ Closes = {}

OverviewPart ==
    /\ page = "overview" => OverviewInv
    /\ page # "overview" => OverviewOff

StatusPart ==
    /\ page = "status" => StatusInv
    /\ page # "status" => StatusOff

PalettePart ==
    /\ page = "search" => PaletteInv
    /\ page # "search" => PaletteOff

Still == page \in {"hook", "usage", "login", "boundary"} => flight = {}

ReadInv ==
    /\ HookInv /\ SessionInv
    /\ ConvPart /\ SessPart /\ OverviewPart /\ StatusPart /\ PalettePart /\ Still

LEMMA HookRests == HookOff => HookInv /\ deps.filter = ""
<1> SUFFICES ASSUME HookOff PROVE HookInv /\ deps.filter = ""
  OBVIOUS
<1>1. [page |-> 0, filter |-> ""] \in Deps
  BY DepsAssumption DEF AllDeps, SessDeps
<1>2. HookInv
  BY <1>1, InitHolds DEF HookOff
<1>3. deps = [page |-> 0, filter |-> ""]
  BY DEF HookOff, HookInit
<1>4. QED
  BY <1>2, <1>3

LEMMA BareTyped == \A d \in BareDeps : d \in Deps /\ d.filter = ""
BY DepsAssumption DEF BareDeps

ClosesNowhereElse ==
    /\ flight = {} => Closes = {}
    /\ ConversationsInv => Closes = {}
    /\ OverviewInv => Closes = {}
    /\ StatusInv => Closes = {}
    /\ PaletteInv => Closes = {}

LEMMA NoneClosed == ClosesNowhereElse
<1>1. flight = {} => Closes = {}
  BY DEF Closes
<1>2. ConversationsInv => Closes = {}
  BY DEF Closes, ConversationsInv
<1>3. OverviewInv => Closes = {}
  <2>1. "close" \notin PageSections
    BY DEF PageSections, DashboardSections
  <2>2. QED
    BY <2>1 DEF Closes, OverviewInv, SectionsAsked
<1>4. StatusInv => Closes = {}
  BY DEF Closes, StatusInv
<1>5. PaletteInv => Closes = {}
  BY DEF Closes, PaletteInv, PaletteLists, ListRequest
<1>6. QED
  BY <1>1, <1>2, <1>3, <1>4, <1>5 DEF ClosesNowhereElse

\* What rests shows nothing wrong.
LEMMA RestingSays ==
    /\ ConvOff /\ deps.filter = "" => FiltersShownAreAskedFor /\ DetailIsOfRow
    /\ SessOff /\ Closes = {} /\ HookInv => BulkIsOnScreen /\ RowsReadAfterActing /\ OneBatchAtATime
    /\ OverviewOff => OverviewTypeOK /\ SectionsAgree /\ GreetsOnlyQuietGateways /\ AnalyticsSettle
    /\ StatusOff => StatusIsKnown
    /\ PaletteOff => SomethingHighlighted /\ FindsWhatIsThere
<1>1. ConvOff /\ deps.filter = "" => FiltersShownAreAskedFor /\ DetailIsOfRow
  BY DEF ConvOff, FiltersShownAreAskedFor, FilterShown, DetailIsOfRow
<1>2. ASSUME SessOff, Closes = {}, HookInv PROVE BulkIsOnScreen /\ RowsReadAfterActing /\ OneBatchAtATime
  <2>1. BulkIsOnScreen
    BY <1>2 DEF BulkIsOnScreen, Closes
  <2>2. ssActed \in Nat /\ ssActed <= asked
    <3>1. ssActed = 0 /\ asked \in Nat
      BY <1>2 DEF SessOff, HookInv, HookTypeOK
    <3>2. QED
      BY <3>1
  <2>3. OneBatchAtATime
    <3>1. Cardinality({}) = 0
      BY FS_EmptySet
    <3>2. Cardinality(Closes) <= 1
      BY <1>2, <3>1
    <3>3. QED
      BY <1>2, <3>2 DEF SessOff, OneBatchAtATime, Closes
  <2>4. QED
    BY <1>2, <2>1, <2>2, <2>3, RowsRead
<1>3. ASSUME OverviewOff
      PROVE  OverviewTypeOK /\ SectionsAgree /\ GreetsOnlyQuietGateways /\ AnalyticsSettle
  <2>1. PICK scope : scope = [ws |-> "", range |-> FirstRange]
    OBVIOUS
  <2>2. scope \in Scope
    BY <2>1, FirstIsRange DEF Scope
  <2>3. ovStored = scope /\ ovWs = "" /\ ovRange = FirstRange /\ ovShown = [s \in Sections |-> AsksFor(s, scope)]
    BY <1>3, <2>1 DEF OverviewOff
  <2>4. \A s \in Sections : ovShown[s] = AsksFor(s, scope)
    BY <2>3
  <2>5. ovShown \in [Sections -> Scope \cup {None}]
    BY <2>2, <2>3, AsksTyped
  <2>6. ovPage = "dashboard" /\ ovBusy = {} /\ ovAlarms = {} /\ ovNoData = FALSE /\ ovLoading = FALSE /\ ovLate = {}
    BY <1>3 DEF OverviewOff
  <2>7. OverviewTypeOK
    BY <2>2, <2>3, <2>5, <2>6, FirstIsRange DEF OverviewTypeOK
  <2>8. SectionsAgree
    <3>1. DashboardSections \subseteq Sections
      BY DEF Sections
    <3>2. \A s \in DashboardSections : ovShown[s] = AsksFor(s, [ws |-> ovWs, range |-> ovRange])
      BY <2>1, <2>3, <2>4, <3>1
    <3>3. ovWs = ovStored.ws
      BY <2>1, <2>3
    <3>4. QED
      BY <2>6, <3>2, <3>3 DEF SectionsAgree
  <2>9. GreetsOnlyQuietGateways
    <3>1. \A s : ~NotEmpty(s)
      BY <2>6 DEF NotEmpty
    <3>2. QED
      BY <2>6, <3>1 DEF GreetsOnlyQuietGateways, FirstRun
  <2>10. AnalyticsSettle
    BY <2>6 DEF AnalyticsSettle
  <2>11. QED
    BY <2>7, <2>8, <2>9, <2>10
<1>4. StatusOff => StatusIsKnown
  BY DEF StatusOff, StatusIsKnown
<1>5. PaletteOff => SomethingHighlighted /\ FindsWhatIsThere
  BY DEF PaletteOff, PaletteStart, SomethingHighlighted, FindsWhatIsThere
<1>6. QED
  BY <1>1, <1>2, <1>3, <1>4, <1>5

LEMMA ReadSays ==
    ASSUME ReadInv
    PROVE  ReadTypeOK /\ ReadFlagsTrue /\ ShownIsAskedFor /\ ActsOnTheScreen /\ GreetsOnlyQuietGateways
<1>0. /\ HookInv /\ SessionInv /\ ConvPart /\ SessPart /\ OverviewPart /\ StatusPart /\ PalettePart
  BY DEF ReadInv
<1>1. FiltersShownAreAskedFor /\ DetailIsOfRow
  BY <1>0, RestingSays, ConversationsSay DEF ConvPart
<1>2. BulkIsOnScreen /\ RowsReadAfterActing /\ OneBatchAtATime
  BY <1>0, RestingSays, SessionsSay DEF SessPart
<1>3. OverviewTypeOK /\ SectionsAgree /\ GreetsOnlyQuietGateways /\ AnalyticsSettle
  BY <1>0, RestingSays, OverviewSays DEF OverviewPart
<1>4. StatusIsKnown
  BY <1>0, RestingSays DEF StatusPart, StatusInv
<1>5. SomethingHighlighted /\ FindsWhatIsThere
  BY <1>0, RestingSays, PaletteSays DEF PalettePart
<1>6. HookTypeOK /\ LoadingIsTrue /\ ShownIsOfCurrent /\ SessionTypeOK
  BY <1>0 DEF HookInv, SessionInv
<1>7. QED
  BY <1>1, <1>2, <1>3, <1>4, <1>5, <1>6 DEF ReadTypeOK, ReadFlagsTrue, ShownIsAskedFor, ActsOnTheScreen

LEMMA ReadStarts == MCInit => ReadInv
<1> SUFFICES ASSUME MCInit PROVE ReadInv
  OBVIOUS
<1>1. SessionInv
  BY SessionStarts DEF MCInit
<1>2. CASE /\ page = "hook" /\ \E d \in BareDeps, e \in BOOLEAN : HookInit(d, e)
           /\ FlightOff /\ ConvOff /\ SessOff /\ OverviewOff /\ StatusOff /\ PaletteOff
  <2>1. PICK d \in BareDeps, e \in BOOLEAN : HookInit(d, e)
    BY <1>2
  <2>2. d \in Deps /\ d.filter = ""
    BY BareTyped
  <2>3. HookInv /\ deps = d
    BY <2>1, <2>2, InitHolds DEF HookInit
  <2>4. flight = {}
    BY <1>2 DEF FlightOff, PageInit
  <2>5. QED
    BY <1>1, <1>2, <2>2, <2>3, <2>4, NoneClosed
       DEF ReadInv, ConvPart, SessPart, OverviewPart, StatusPart, PalettePart, Still, ClosesNowhereElse
<1>3. CASE page = "conversations" /\ ConvInit /\ SessOff /\ OverviewOff /\ StatusOff /\ PaletteOff
  <2>1. ConversationsInv /\ HookInv
    BY <1>3, ConversationsStart
  <2>2. QED
    BY <1>1, <1>3, <2>1, NoneClosed
       DEF ReadInv, ConvPart, SessPart, OverviewPart, StatusPart, PalettePart, Still, ClosesNowhereElse
<1>4. CASE page = "sessions" /\ SessInit /\ ConvOff /\ OverviewOff /\ StatusOff /\ PaletteOff
  <2>1. SessionsInv /\ HookInv
    BY <1>4, SessionsStart
  <2>2. enabled /\ deps.filter = ""
    BY <1>4, <2>1 DEF SessInit, HookInit, SessionsInv
  <2>3. QED
    BY <1>1, <1>4, <2>1, <2>2
       DEF ReadInv, ConvPart, SessPart, OverviewPart, StatusPart, PalettePart, Still, ClosesNowhereElse
<1>5. CASE page = "overview" /\ OverviewInit /\ HookOff /\ ConvOff /\ SessOff /\ StatusOff /\ PaletteOff
  <2>1. OverviewInv
    BY <1>5, OverviewStarts
  <2>2. QED
    BY <1>1, <1>5, <2>1, HookRests, NoneClosed
       DEF ReadInv, ConvPart, SessPart, OverviewPart, StatusPart, PalettePart, Still, ClosesNowhereElse
<1>6. CASE page = "status" /\ StatusInit /\ HookOff /\ ConvOff /\ SessOff /\ OverviewOff /\ PaletteOff
  <2>1. StatusInv
    BY <1>6, StatusStarts
  <2>2. QED
    BY <1>1, <1>6, <2>1, HookRests, NoneClosed
       DEF ReadInv, ConvPart, SessPart, OverviewPart, StatusPart, PalettePart, Still, ClosesNowhereElse
<1>7. CASE page = "search" /\ PaletteInit /\ HookOff /\ ConvOff /\ SessOff /\ OverviewOff /\ StatusOff
  <2>1. PaletteInv
    BY <1>7, PaletteStarts DEF PaletteInit, PageInit
  <2>2. QED
    BY <1>1, <1>7, <2>1, HookRests, NoneClosed
       DEF ReadInv, ConvPart, SessPart, OverviewPart, StatusPart, PalettePart, Still, ClosesNowhereElse
<1>8. CASE /\ page \in {"usage", "login", "boundary"}
           /\ HookOff /\ FlightOff /\ ConvOff /\ SessOff /\ OverviewOff /\ StatusOff /\ PaletteOff
  <2>1. flight = {}
    BY <1>8 DEF FlightOff, PageInit
  <2>2. QED
    BY <1>1, <1>8, <2>1, HookRests, NoneClosed
       DEF ReadInv, ConvPart, SessPart, OverviewPart, StatusPart, PalettePart, Still, ClosesNowhereElse
<1>9. QED
  BY <1>2, <1>3, <1>4, <1>5, <1>6, <1>7, <1>8 DEF MCInit

\* What rests stays as it is when its variables do.
LEMMA RestKept ==
    /\ ConvOff /\ UNCHANGED cvVars => ConvOff'
    /\ SessOff /\ UNCHANGED ssVars => SessOff'
    /\ OverviewOff /\ UNCHANGED ovVars => OverviewOff'
    /\ StatusOff /\ UNCHANGED stVars => StatusOff'
    /\ PaletteOff /\ UNCHANGED plVars => PaletteOff'
<1>1. ConvOff /\ UNCHANGED cvVars => ConvOff'
  BY DEF ConvOff, cvVars
<1>2. SessOff /\ UNCHANGED ssVars => SessOff'
  BY DEF SessOff, ssVars, ssUI
<1>3. OverviewOff /\ UNCHANGED ovVars => OverviewOff'
  BY DEF OverviewOff, ovVars, ovUI
<1>4. StatusOff /\ UNCHANGED stVars => StatusOff'
  BY DEF StatusOff, stVars, stUI
<1>5. PaletteOff /\ UNCHANGED plVars => PaletteOff'
  BY DEF PaletteOff, PaletteStart, plVars, plUI
<1>6. QED
  BY <1>1, <1>2, <1>3, <1>4, <1>5

LEMMA NoneClosedThen == ClosesNowhereElse'
BY NoneClosed, PTL

LEMMA ReadSteps == ReadInv /\ [MCNext]_allVars => ReadInv'
<1> SUFFICES ASSUME ReadInv, [MCNext]_allVars PROVE ReadInv'
  OBVIOUS
<1>0. /\ HookInv /\ SessionInv
      /\ ConvPart /\ SessPart /\ OverviewPart /\ StatusPart /\ PalettePart /\ Still
  BY DEF ReadInv
<1>1. page' = page
  BY DEF MCNext, allVars
<1>2. SessionInv'
  <2>1. [SessionNext]_asVars
    BY DEF MCNext, allVars, restVars
  <2>2. QED
    BY <1>0, <2>1, SessionSteps
<1>3. CASE page = "conversations"
  <2>1. /\ ConvNext \/ UNCHANGED <<hookVars, pageVars, cvVars>>
        /\ UNCHANGED <<ssVars, ovVars, stVars, plVars>>
    BY <1>3 DEF MCNext, allVars, onPageVars
  <2>2. ConversationsInv' /\ HookInv'
    BY <1>0, <1>3, <2>1, ConversationsNext DEF ConvPart
  <2>3. QED
    BY <1>0, <1>1, <1>2, <1>3, <2>1, <2>2, NoneClosedThen, RestKept
       DEF ReadInv, ConvPart, SessPart, OverviewPart, StatusPart, PalettePart, Still, ClosesNowhereElse
<1>4. CASE page = "sessions"
  <2>1. /\ SessNext \/ UNCHANGED <<hookVars, pageVars, ssVars>>
        /\ UNCHANGED <<cvVars, ovVars, stVars, plVars>>
    BY <1>4 DEF MCNext, allVars, onPageVars
  <2>2. SessionsInv' /\ HookInv' /\ enabled'
    BY <1>0, <1>4, <2>1, SessionsNext DEF SessPart
  <2>3. deps'.filter = ""
    BY <2>2 DEF SessionsInv
  <2>4. QED
    BY <1>0, <1>1, <1>2, <1>4, <2>1, <2>2, <2>3, RestKept
       DEF ReadInv, ConvPart, SessPart, OverviewPart, StatusPart, PalettePart, Still, ClosesNowhereElse
<1>5. CASE page = "overview"
  <2>1. /\ OverviewNext \/ UNCHANGED <<pageVars, ovVars>>
        /\ UNCHANGED <<hookVars, cvVars, ssVars, stVars, plVars>>
    BY <1>5 DEF MCNext, allVars, onPageVars
  <2>2. OverviewInv'
    BY <1>0, <1>5, <2>1, OverviewSteps DEF OverviewPart
  <2>3. HookInv' /\ deps' = deps
    BY <1>0, <2>1, HookKept DEF hookVars
  <2>4. QED
    BY <1>0, <1>1, <1>2, <1>5, <2>1, <2>2, <2>3, NoneClosedThen, RestKept
       DEF ReadInv, ConvPart, SessPart, OverviewPart, StatusPart, PalettePart, Still, ClosesNowhereElse
<1>6. CASE page = "status"
  <2>1. /\ StatusNext \/ UNCHANGED <<pageVars, stVars>>
        /\ UNCHANGED <<hookVars, cvVars, ssVars, ovVars, plVars>>
    BY <1>6 DEF MCNext, allVars, onPageVars
  <2>2. StatusInv'
    BY <1>0, <1>6, <2>1, StatusSteps DEF StatusPart
  <2>3. HookInv' /\ deps' = deps
    BY <1>0, <2>1, HookKept DEF hookVars
  <2>4. QED
    BY <1>0, <1>1, <1>2, <1>6, <2>1, <2>2, <2>3, NoneClosedThen, RestKept
       DEF ReadInv, ConvPart, SessPart, OverviewPart, StatusPart, PalettePart, Still, ClosesNowhereElse
<1>7. CASE page = "search"
  <2>1. /\ PaletteNext \/ UNCHANGED <<pageVars, plVars>>
        /\ UNCHANGED <<hookVars, cvVars, ssVars, ovVars, stVars>>
    BY <1>7 DEF MCNext, allVars, onPageVars
  <2>2. PaletteInv'
    BY <1>0, <1>7, <2>1, PaletteSteps DEF PalettePart
  <2>3. HookInv' /\ deps' = deps
    BY <1>0, <2>1, HookKept DEF hookVars
  <2>4. QED
    BY <1>0, <1>1, <1>2, <1>7, <2>1, <2>2, <2>3, NoneClosedThen, RestKept
       DEF ReadInv, ConvPart, SessPart, OverviewPart, StatusPart, PalettePart, Still, ClosesNowhereElse
<1>8. CASE page = "hook" /\ BareNext
  <2>1. UNCHANGED <<pageVars, onPageVars>>
    BY <1>8 DEF MCNext, allVars
  <2>2. HookNext /\ deps'.filter = ""
    <3>1. CASE \E d \in BareDeps, e \in BOOLEAN : Render(d, e) \/ Remount(d, e)
      <4>1. PICK d \in BareDeps, e \in BOOLEAN : Render(d, e) \/ Remount(d, e)
        BY <3>1
      <4>2. deps' = d
        BY <4>1 DEF Render, Rerun, Remount, Effect
      <4>3. QED
        BY <4>1, <4>2, BareTyped DEF HookNext
    <3>2. CASE Refetch \/ HookAnswers \/ ChangeWorld
      <4>1. deps' = deps
        BY <3>2 DEF Refetch, Rerun, Effect, HookAnswers, Serve, Settle, ChangeWorld
      <4>2. QED
        BY <1>0, <1>8, <3>2, <4>1 DEF HookNext, ConvPart
    <3>3. QED
      BY <1>8, <3>1, <3>2 DEF BareNext
  <2>3. HookInv'
    BY <1>0, <2>2, StepHolds
  <2>4. flight' = {}
    BY <1>0, <1>8, <2>1 DEF Still, pageVars
  <2>5. UNCHANGED <<cvVars, ssVars, ovVars, stVars, plVars>>
    BY <2>1 DEF onPageVars
  <2>6. QED
    BY <1>0, <1>1, <1>2, <1>8, <2>2, <2>3, <2>4, <2>5, NoneClosedThen, RestKept
       DEF ReadInv, ConvPart, SessPart, OverviewPart, StatusPart, PalettePart, Still, ClosesNowhereElse
<1>9. CASE page \notin {"conversations", "sessions", "overview", "status", "search"} /\ ~(page = "hook" /\ BareNext)
  <2>1. UNCHANGED <<hookVars, pageVars, cvVars, ssVars, ovVars, stVars, plVars>>
    BY <1>9 DEF MCNext, allVars, onPageVars
  <2>2. HookInv' /\ deps' = deps /\ flight' = flight
    BY <1>0, <2>1, HookKept DEF hookVars, pageVars
  <2>3. Closes' = Closes
    BY <2>2 DEF Closes
  <2>4. QED
    BY <1>0, <1>1, <1>2, <1>9, <2>1, <2>2, <2>3, RestKept
       DEF ReadInv, ConvPart, SessPart, OverviewPart, StatusPart, PalettePart, Still, ClosesNowhereElse
<1>10. QED
  BY <1>3, <1>4, <1>5, <1>6, <1>7, <1>8, <1>9

LEMMA ReadAlways == MCSpec => []ReadInv
<1>1. MCInit => ReadInv
  BY ReadStarts
<1>2. ReadInv /\ [MCNext]_allVars => ReadInv'
  BY ReadSteps
<1>3. QED
  BY <1>1, <1>2, PTL DEF MCSpec

(* The hook, the overview pages and the login, on whichever page, never    *)
(* leave the values they may have: the sections show scopes there are, and *)
(* a tab that checks a token has one request under way.                    *)
THEOREM ReadingTyped == MCSpec => []ReadTypeOK
<1>1. ReadInv => ReadTypeOK
  BY ReadSays
<1>2. QED
  BY <1>1, ReadAlways, PTL

(* What says that it is loading or busy is, and what is not does not:      *)
(* loading of the hook, closing of the sessions (never two batches of them *)
(* at a time), loading of the analytics where no load overtook another.    *)
THEOREM ReadingFlagsTrue == MCSpec => []ReadFlagsTrue
<1>1. ReadInv => ReadFlagsTrue
  BY ReadSays
<1>2. QED
  BY <1>1, ReadAlways, PTL

(* Once nothing is loading, each page shows what its filters, its header,  *)
(* the row clicked, the last refresh or the opening ask for, whatever was  *)
(* asked for and answered, and in what order, before.                      *)
THEOREM ReadingShowsWhatIsAskedFor == MCSpec => []ShownIsAskedFor
<1>1. ReadInv => ShownIsAskedFor
  BY ReadSays
<1>2. QED
  BY <1>1, ReadAlways, PTL

(* The sessions closed together were on the screen when that was           *)
(* confirmed, the rows there were read after the operator last acted, and  *)
(* the search has one of its results highlighted.                          *)
THEOREM ReadingActsOnTheScreen == MCSpec => []ActsOnTheScreen
<1>1. ReadInv => ActsOnTheScreen
  BY ReadSays
<1>2. QED
  BY <1>1, ReadAlways, PTL

(* The dashboard greets the operator exactly when there has been no        *)
(* traffic and nothing needs attention, in every workspace and range, once *)
(* it has loaded without a failure.                                        *)
THEOREM OnlyQuietGatewaysGreeted == MCSpec => []GreetsOnlyQuietGateways
<1>1. ReadInv => GreetsOnlyQuietGateways
  BY ReadSays
<1>2. QED
  BY <1>1, ReadAlways, PTL
-----------------------------------------------------------------------------
(***************************************************************************)
(* The parts in place: what holds of the hook, the boundary and the login  *)
(* by themselves holds of them where the pages use them, since each step   *)
(* of a page is a step of the hook or leaves it alone.                     *)
(***************************************************************************)
LEMMA HookInPlace == ReadInv /\ [MCNext]_allVars => [HookNext]_hookVars
<1> SUFFICES ASSUME ReadInv, [MCNext]_allVars PROVE [HookNext]_hookVars
  OBVIOUS
<1>1. CASE page = "hook" /\ BareNext
  <2>1. CASE \E d \in BareDeps, e \in BOOLEAN : Render(d, e) \/ Remount(d, e)
    <3>1. PICK d \in BareDeps, e \in BOOLEAN : Render(d, e) \/ Remount(d, e)
      BY <2>1
    <3>2. QED
      BY <3>1, BareTyped DEF HookNext
  <2>2. QED
    BY <1>1, <2>1 DEF BareNext, HookNext
<1>2. CASE page = "conversations" /\ ConvNext
  <2>1. CASE SetFilter \/ TurnPage
    <3>1. ConversationsInv /\ HookInv
      BY <1>2 DEF ReadInv, ConvPart
    <3>2. QED
      BY <2>1, <3>1, ConversationsRendered
  <2>2. CASE OpenDetail \/ Collapse \/ ServeDetail \/ DetailArrives
    BY <2>2 DEF OpenDetail, Collapse, ServeDetail, DetailArrives
  <2>3. CASE HookAnswers \/ ChangeWorld
    BY <2>3 DEF HookNext
  <2>4. QED
    BY <1>2, <2>1, <2>2, <2>3 DEF ConvNext
<1>3. CASE page = "sessions" /\ SessNext
  <2>1. CASE RefreshRows \/ Acted \/ SessionsArrive \/ ChangeWorld
    BY <2>1 DEF RefreshRows, Acted, SessionsArrive, HookNext
  <2>2. CASE SwitchAuto \/ PickRange \/ Select \/ HandleClose \/ CancelClose
    BY <2>2 DEF SwitchAuto, PickRange, Select, HandleClose, CancelClose
  <2>3. CASE ConfirmAction \/ HandleExtend \/ Refuse
    BY <2>3 DEF ConfirmAction, HandleExtend, Refuse
  <2>4. QED
    BY <1>3, <2>1, <2>2, <2>3 DEF SessNext
<1>4. CASE UNCHANGED hookVars
  BY <1>4
<1>5. QED
  BY <1>1, <1>2, <1>3, <1>4 DEF MCNext, allVars

LEMMA HookStartsInPlace == MCInit => Latest!Init
<1> SUFFICES ASSUME MCInit PROVE Latest!Init
  OBVIOUS
<1>1. \E d \in Deps : \E e \in BOOLEAN : HookInit(d, e)
  <2>1. \A d \in AllDeps \cup BareDeps : d \in Deps
    BY DepsAssumption
  <2>2. [page |-> 1, filter |-> ""] \in BareDeps
    BY DEF BareDeps
  <2>3. [page |-> 0, filter |-> ""] \in AllDeps
    BY DEF AllDeps, SessDeps
  <2>4. CASE \E d \in BareDeps, e \in BOOLEAN : HookInit(d, e)
    BY <2>1, <2>4
  <2>5. CASE ConvInit
    BY <2>1, <2>2, <2>5 DEF ConvInit
  <2>6. CASE SessInit
    BY <2>1, <2>3, <2>6 DEF SessInit
  <2>7. CASE HookOff
    BY <2>1, <2>3, <2>7 DEF HookOff
  <2>8. QED
    BY <2>4, <2>5, <2>6, <2>7 DEF MCInit
<1>2. PICK d \in Deps : \E e \in BOOLEAN : HookInit(d, e)
  BY <1>1
<1>3. PICK e \in BOOLEAN : HookInit(d, e)
  BY <1>2
<1>4. QED
  BY <1>3, InitMaps

(* The hook keeps its promise on the pages that use it, and not only by    *)
(* itself: what Conversations and Sessions do between its renders, with    *)
(* filters, refreshes and batches of their own, never makes it show the    *)
(* answer to another question.                                             *)
THEOREM PromiseKeptOnPages == MCSpec => KeepsPromise
<1>1. MCInit => Latest!Init
  BY HookStartsInPlace
<1>2. ReadInv /\ [MCNext]_allVars => [Latest!Next]_Latest!latestVars
  <2>1. ReadInv => HookInv
    BY DEF ReadInv
  <2>2. QED
    BY <2>1, HookInPlace, StepMaps
<1>3. QED
  BY <1>1, <1>2, ReadAlways, PTL DEF MCSpec, KeepsPromise, Latest!Spec

(* The boundary settles on the right error around all of the pages as it   *)
(* does by itself.                                                         *)
THEOREM BoundarySettlesInPlace == MCSpec => []BoundarySettles
<1>1. MCInit => BoundaryInv
  <2>1. BoundaryOff => BoundaryInv
    <3>1. BoundaryOff => pbPhase = "idle" /\ pbThrows = 0 /\ pbPrev = pbPath /\ pbError = FALSE
      BY Zenon DEF BoundaryOff
    <3>2. pbPhase = "idle" /\ pbThrows \in Nat => Rendering /\ Committing
      BY DEF Rendering, Committing
    <3>3. pbThrows = 0 => pbThrows \in Nat
      OBVIOUS
    <3>4. QED
      BY <3>1, <3>2, <3>3, Zenon DEF BoundaryInv, Idle
  <2>2. MCInit => BoundaryOff \/ BoundaryInit
    BY DEF MCInit
  <2>3. QED
    BY <2>1, <2>2, InitBoundary
<1>2. BoundaryInv /\ [MCNext]_allVars => BoundaryInv'
  <2>1. [MCNext]_allVars => [BoundaryNext]_pbVars
    BY DEF MCNext, allVars, restVars
  <2>2. QED
    BY <2>1, StepBoundary
<1>3. BoundaryInv => BoundarySettles
  BY BoundarySays
<1>4. QED
  BY <1>1, <1>2, <1>3, PTL DEF MCSpec

(* The same of the tabs, whatever page they log in to.                     *)
THEOREM ForgottenInPlace == MCSpec => []CheckedAndForgotten
<1>1. ReadInv => CheckedAndForgotten
  BY DEF ReadInv, SessionInv
<1>2. QED
  BY <1>1, ReadAlways, PTL
-----------------------------------------------------------------------------
(***************************************************************************)
(* The tables of usage.  A set that is divided among the rows of a table   *)
(* has as many elements as the rows add up to.                             *)
(***************************************************************************)
LEMMA PartsAddUp ==
    ASSUME NEW S, IsFiniteSet(S), NEW K, NEW p \in [S -> K], NEW f \in [K -> Nat],
           \A k \in K : f[k] = Cardinality({i \in S : p[i] = k})
    PROVE  Added(f) = Cardinality(S)
<1> DEFINE part(k) == {i \in S : p[i] = k}
           units == UNION {{k} \X (1 .. f[k]) : k \in K}
           b == [k \in K |-> CHOOSE g : g \in Bijection(1 .. f[k], part(k))]
<1>1. ASSUME NEW k \in K PROVE b[k] \in Bijection(1 .. f[k], part(k))
  <2>1. IsFiniteSet(part(k))
    BY FS_Subset
  <2>2. ExistsBijection(1 .. f[k], part(k))
    BY <2>1, FS_CardinalityType
  <2>3. \E g : g \in Bijection(1 .. f[k], part(k))
    BY <2>2 DEF ExistsBijection
  <2>4. b[k] = CHOOSE g : g \in Bijection(1 .. f[k], part(k))
    OBVIOUS
  <2> HIDE DEF b, part
  <2>5. QED
    BY <2>3, <2>4
<1> HIDE DEF b
<1>2. ASSUME NEW k \in K
      PROVE  /\ \A n \in 1 .. f[k] : b[k][n] \in S /\ p[b[k][n]] = k
             /\ \A n, m \in 1 .. f[k] : b[k][n] = b[k][m] => n = m
             /\ \A i \in S : p[i] = k => \E n \in 1 .. f[k] : b[k][n] = i
  BY <1>1 DEF Bijection, Injection, Surjection, IsInjective
<1> DEFINE place(i) == CHOOSE n \in 1 .. f[p[i]] : b[p[i]][n] = i
           F == [i \in S |-> <<p[i], place(i)>>]
<1>3. ASSUME NEW i \in S PROVE p[i] \in K /\ place(i) \in 1 .. f[p[i]] /\ b[p[i]][place(i)] = i
  BY <1>2
<1>4. \A i \in S : F[i] = <<p[i], place(i)>>
  OBVIOUS
<1>5. \A u : u \in units <=> \E k \in K : \E n \in 1 .. f[k] : u = <<k, n>>
  OBVIOUS
<1>6. F \in [S -> units]
  <2>1. \A i \in S : <<p[i], place(i)>> \in units
    <3> HIDE DEF place, units
    <3>1. QED
      BY <1>3, <1>5
  <2> HIDE DEF place, units
  <2>2. QED
    BY <2>1
<1> HIDE DEF F, place, units, part
<1>7. ASSUME NEW i \in S, NEW j \in S, F[i] = F[j] PROVE i = j
  <2>1. p[i] = p[j] /\ place(i) = place(j)
    BY <1>4, <1>7
  <2>2. QED
    BY <1>3, <2>1
<1>8. ASSUME NEW u \in units PROVE \E i \in S : F[i] = u
  <2>1. PICK k \in K : \E n \in 1 .. f[k] : u = <<k, n>>
    BY <1>5
  <2>2. PICK n \in 1 .. f[k] : u = <<k, n>>
    BY <2>1
  <2>3. b[k][n] \in S /\ p[b[k][n]] = k
    BY <1>2
  <2>4. PICK i \in S : i = b[k][n] /\ p[i] = k
    BY <2>3
  <2>5. place(i) \in 1 .. f[k] /\ b[k][place(i)] = i
    BY <1>3, <2>4
  <2>6. place(i) = n
    BY <1>2, <2>4, <2>5
  <2>7. QED
    BY <1>4, <2>2, <2>4, <2>6
<1>9. F \in Bijection(S, units)
  BY <1>6, <1>7, <1>8 DEF Bijection, Injection, Surjection, IsInjective
<1>10. ExistsBijection(S, units)
  BY <1>9 DEF ExistsBijection
<1>11. Cardinality(units) = Cardinality(S)
  BY <1>10, FS_Bijection
<1>12. DOMAIN f = K
  OBVIOUS
<1>13. QED
  BY <1>11, <1>12 DEF Added, units

\* Answers are of what was recorded.
UsageInv ==
    /\ Len(usLog) \in Nat
    /\ \A a \in Reports : usRead[a] \in 0 .. Len(usLog) \cup {MaxTraffic + 1}
    /\ \A a \in Reports : usShown.read[a] \in 0 .. Len(usLog)
    /\ usLog \in Seq([tenant : UsageTenants, model : Models])
    /\ usRead = [a \in Reports |-> usRead[a]]

\* A page of an answer is of what was found, and is all of it when that fits on a page.
LEMMA PageOfFound ==
    ASSUME NEW s, IsFiniteSet(s)
    PROVE  /\ IsFiniteSet(Paginate(s)) /\ Cardinality(Paginate(s)) \in Nat
           /\ Cardinality(s) \in Nat /\ Cardinality(Paginate(s)) <= Cardinality(s)
           /\ Cardinality(s) <= PerPage => Paginate(s) = s
<1>1. Paginate(s) \subseteq s
  BY DEF Paginate
<1>2. IsFiniteSet(Paginate(s)) /\ Cardinality(Paginate(s)) <= Cardinality(s)
  BY <1>1, FS_Subset
<1>3. Cardinality(Paginate(s)) \in Nat /\ Cardinality(s) \in Nat
  BY <1>2, FS_CardinalityType
<1>4. ASSUME Cardinality(s) <= PerPage, NEW i \in s PROVE UpTo(s, i) <= PerPage
  <2>1. PICK t : t = {j \in s : j <= i}
    OBVIOUS
  <2>2. IsFiniteSet(t) /\ Cardinality(t) <= Cardinality(s)
    BY <2>1, FS_Subset
  <2>3. Cardinality(t) \in Nat /\ PerPage \in Nat
    BY <2>2, FS_CardinalityType, UsageAssumption
  <2>4. Cardinality(t) <= PerPage
    BY <1>3, <1>4, <2>2, <2>3
  <2>5. QED
    BY <2>1, <2>4 DEF UpTo
<1>5. Cardinality(s) <= PerPage => Paginate(s) = s
  BY <1>4 DEF Paginate
<1>6. QED
  BY <1>2, <1>3, <1>5

LEMMA UsageSays ==
    ASSUME UsageInv PROVE TablesTrue
<1>1. ASSUME NEW a \in Reports PROVE IsFiniteSet(Found(a))
  <2>1. usShown.read[a] \in Nat
    BY DEF UsageInv
  <2>2. IsFiniteSet(1 .. usShown.read[a])
    BY <2>1, FS_Interval
  <2>3. Found(a) \in SUBSET (1 .. usShown.read[a])
    BY DEF Found, Matching
  <2>4. QED
    BY <2>2, <2>3, FS_Subset
<1>2. PICK tokens : tokens = Records("tokens")
  OBVIOUS
<1>3. PICK costs : costs = Records("cost")
  OBVIOUS
<1>4. /\ IsFiniteSet(costs) /\ Cardinality(costs) <= Total("cost")
      /\ Total("cost") <= PerPage => Cardinality(costs) = Total("cost")
  <2>1. IsFiniteSet(Found("cost"))
    BY <1>1 DEF Reports
  <2>2. QED
    BY <1>3, <2>1, PageOfFound DEF Records, Total
<1>5. Tabulated("tenant") = Cardinality(costs)
  <2> DEFINE K == {usLog[i].tenant : i \in costs}
             p == [i \in costs |-> usLog[i].tenant]
             f == [t \in K |-> Cardinality({i \in costs : usLog[i].tenant = t})]
  <2>1. TenantRows = f
    BY <1>3 DEF TenantRows
  <2>2. p \in [costs -> K] /\ \A i \in costs : p[i] = usLog[i].tenant
    OBVIOUS
  <2>3. ASSUME NEW t \in K
        PROVE  /\ f[t] = Cardinality({i \in costs : p[i] = t})
               /\ f[t] \in Nat
    <3>1. {i \in costs : p[i] = t} = {i \in costs : usLog[i].tenant = t}
      BY <2>2
    <3>2. IsFiniteSet({i \in costs : p[i] = t})
      BY <1>4, FS_Subset
    <3>3. Cardinality({i \in costs : p[i] = t}) \in Nat
      BY <3>2, FS_CardinalityType
    <3>4. f[t] = Cardinality({i \in costs : usLog[i].tenant = t})
      OBVIOUS
    <3> HIDE DEF f, p, K
    <3>5. QED
      BY <3>1, <3>3, <3>4
  <2>4. f = [t \in K |-> f[t]]
    OBVIOUS
  <2> HIDE DEF f, p, K
  <2>5. f \in [K -> Nat]
    BY <2>3, <2>4
  <2>6. Added(f) = Cardinality(costs)
    BY <1>4, <2>2, <2>3, <2>5, PartsAddUp
  <2>7. QED
    BY <2>1, <2>6 DEF Tabulated
<1>6. Tabulated("model") = Cardinality(costs)
  <2> DEFINE K == {ModelOf(i) : i \in tokens \cup costs}
             p == [i \in costs |-> ModelOf(i)]
             f == [m \in K |-> Cardinality({i \in costs : ModelOf(i) = m})]
  <2>1. [m \in DOMAIN ModelRows |-> ModelRows[m].requests] = f
    BY <1>2, <1>3 DEF ModelRows
  <2>2. p \in [costs -> K] /\ \A i \in costs : p[i] = ModelOf(i)
    OBVIOUS
  <2>3. ASSUME NEW m \in K
        PROVE  /\ f[m] = Cardinality({i \in costs : p[i] = m})
               /\ f[m] \in Nat
    <3>1. {i \in costs : p[i] = m} = {i \in costs : ModelOf(i) = m}
      BY <2>2
    <3>2. IsFiniteSet({i \in costs : p[i] = m})
      BY <1>4, FS_Subset
    <3>3. Cardinality({i \in costs : p[i] = m}) \in Nat
      BY <3>2, FS_CardinalityType
    <3>4. f[m] = Cardinality({i \in costs : ModelOf(i) = m})
      OBVIOUS
    <3> HIDE DEF f, p, K
    <3>5. QED
      BY <3>1, <3>3, <3>4
  <2>4. f = [m \in K |-> f[m]]
    OBVIOUS
  <2> HIDE DEF f, p, K
  <2>5. f \in [K -> Nat]
    BY <2>3, <2>4
  <2>6. Added(f) = Cardinality(costs)
    BY <1>4, <2>2, <2>3, <2>5, PartsAddUp
  <2>7. QED
    BY <2>1, <2>6 DEF Tabulated
<1>7. ASSUME usShown.read["tokens"] = usShown.read["cost"], NEW m \in DOMAIN ModelRows
      PROVE  ModelRows[m].requests = ModelRows[m].tokens
  <2>1. tokens = costs
    BY <1>2, <1>3, <1>7 DEF Records, Found
  <2>2. QED
    BY <1>2, <1>3, <1>7, <2>1 DEF ModelRows
<1>8. TablesAgree
  BY <1>5, <1>6, <1>7 DEF TablesAgree
<1>9. TablesWithinTiles
  BY <1>4, <1>5 DEF TablesWithinTiles
<1>10. QED
  BY <1>8, <1>9 DEF TablesTrue

LEMMA UsageStarts == UsageInit => UsageInv
<1> SUFFICES ASSUME UsageInit PROVE UsageInv
  OBVIOUS
<1>1. usLog = <<>> /\ usRead = NotRead /\ usShown.read = [a \in Reports |-> 0]
  BY DEF UsageInit
<1>2. Len(usLog) = 0 /\ usLog \in Seq([tenant : UsageTenants, model : Models])
  BY <1>1
<1>3. usRead = [a \in Reports |-> usRead[a]] /\ \A a \in Reports : usRead[a] = MaxTraffic + 1
  BY <1>1 DEF NotRead
<1>4. \A a \in Reports : usShown.read[a] = 0
  BY <1>1
<1>5. QED
  BY <1>2, <1>3, <1>4 DEF UsageInv

LEMMA UsageSteps == UsageInv /\ [UsageNext]_usVars => UsageInv'
<1> SUFFICES ASSUME UsageInv, [UsageNext]_usVars PROVE UsageInv'
  OBVIOUS
<1> USE DEF UsageInv
<1>1. CASE RecordUsage
  <2>1. PICK q \in [tenant : UsageTenants, model : Models] : usLog' = Append(usLog, q)
    BY <1>1 DEF RecordUsage
  <2>2. /\ usLog' \in Seq([tenant : UsageTenants, model : Models])
        /\ Len(usLog') = Len(usLog) + 1
    BY <2>1
  <2>3. UNCHANGED <<usRead, usShown>>
    BY <1>1 DEF RecordUsage
  <2>4. Len(usLog') \in Nat /\ 0 .. Len(usLog) \subseteq 0 .. Len(usLog')
    BY <2>2
  <2>5. QED
    BY <2>2, <2>3, <2>4
<1>2. CASE ReadAnswer
  <2>1. PICK a \in Reports : usRead' = [usRead EXCEPT ![a] = Len(usLog)]
    BY <1>2 DEF ReadAnswer
  <2>2. UNCHANGED <<usLog, usShown>>
    BY <1>2 DEF ReadAnswer
  <2>3. /\ usRead' = [c \in Reports |-> usRead'[c]]
        /\ \A c \in Reports : usRead'[c] = IF c = a THEN Len(usLog) ELSE usRead[c]
    BY <2>1
  <2>4. Len(usLog) \in 0 .. Len(usLog)
    OBVIOUS
  <2>5. QED
    BY <2>2, <2>3, <2>4
<1>3. CASE ShowAnswers
  <2>1. UNCHANGED <<usLog, usRead>> /\ usShown'.read = usRead /\ \A a \in Reports : usRead[a] # MaxTraffic + 1
    BY <1>3 DEF ShowAnswers, NotRead
  <2>2. QED
    BY <2>1
<1>4. CASE AskUsage
  <2>1. UNCHANGED <<usLog, usShown>> /\ usRead' = NotRead
    BY <1>4 DEF AskUsage
  <2>2. usRead' = [a \in Reports |-> usRead'[a]] /\ \A a \in Reports : usRead'[a] = MaxTraffic + 1
    BY <2>1 DEF NotRead
  <2>3. QED
    BY <2>1, <2>2
<1>5. CASE UNCHANGED usVars
  BY <1>5 DEF usVars
<1>6. QED
  BY <1>1, <1>2, <1>3, <1>4, <1>5 DEF UsageNext

(* Tables and tiles of the analytics are two views of the same traffic:    *)
(* by model and by tenant they add up to as many requests, never to more   *)
(* than the tile says, and to all of them when one page holds all; for any *)
(* traffic, tenants and models, and whatever is recorded between the       *)
(* answers of HandleTokens and HandleCost.                                 *)
THEOREM TablesAddUp == MCSpec => []TablesTrue
<1>1. MCInit => UsageInv
  BY UsageStarts DEF MCInit
<1>2. UsageInv /\ [MCNext]_allVars => UsageInv'
  <2>1. [MCNext]_allVars => [UsageNext]_usVars
    BY DEF MCNext, allVars, restVars
  <2>2. QED
    BY <2>1, UsageSteps
<1>3. UsageInv => TablesTrue
  BY UsageSays
<1>4. QED
  BY <1>1, <1>2, <1>3, PTL DEF MCSpec
=============================================================================
