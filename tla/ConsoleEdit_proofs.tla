--------------------------- MODULE ConsoleEdit_proofs ---------------------------
(***************************************************************************)
(* Proofs about the console's pages that change something: the keys, the   *)
(* budgets, the routing configuration and the tenants.                     *)
(***************************************************************************)
EXTENDS MCConsoleEdit, FiniteSetTheorems, TLAPS
-----------------------------------------------------------------------------
(***************************************************************************)
(* What a step does to the requests under way, the same on every page.     *)
(***************************************************************************)
Shaped(r) ==
    /\ r = [no |-> r.no, kind |-> r.kind, row |-> r.row, st |-> r.st,
            rows |-> r.rows, mine |-> r.mine]
    /\ r.mine \in BOOLEAN

Shapes == \A r \in flight : Shaped(r)

\* a is a request of this kind, row, state, answer and owner.
Is(a, kind, row, st, rows, mine) ==
    /\ Shaped(a)
    /\ a.kind = kind /\ a.row = row /\ a.st = st /\ a.rows = rows /\ a.mine = mine

\* r is answered, or lost: it becomes a.
Becomes(r, a, st, row, rows) ==
    /\ Is(a, r.kind, row, st, rows, r.mine)
    /\ flight' = (flight \ {r}) \cup {a}

\* A new request a is sent when those in done are finished.
Sends(done, a, kind, row) ==
    /\ Is(a, kind, row, "sent", {}, TRUE)
    /\ flight' = (flight \ done) \cup {a}

LEMMA AskIs ==
    ASSUME NEW f, NEW kind, NEW row
    PROVE  Is(Ask(f, kind, row), kind, row, "sent", {}, TRUE)
<1> DEFINE n == Fresh(f)
<1>1. Ask(f, kind, row) = [no |-> n, kind |-> kind, row |-> row, st |-> "sent",
                           rows |-> {}, mine |-> TRUE]
  BY DEF Ask
<1> HIDE DEF n
<1>2. QED
  BY <1>1 DEF Is, Shaped

LEMMA AnswerBy ==
    ASSUME NEW r, Shaped(r), NEW st, NEW row, NEW rows, Answer(r, st, row, rows)
    PROVE  /\ \E a : Becomes(r, a, st, row, rows)
           /\ clicks' = clicks /\ faults' = faults /\ raced' = raced
<1>1. PICK a : a = [r EXCEPT !.st = st, !.row = row, !.rows = rows]
  OBVIOUS
<1>2. a = [no |-> r.no, kind |-> r.kind, row |-> row, st |-> st, rows |-> rows, mine |-> r.mine]
  BY <1>1 DEF Shaped
<1>3. Is(a, r.kind, row, st, rows, r.mine)
  BY <1>2 DEF Is, Shaped
<1>4. flight' = (flight \ {r}) \cup {a} /\ clicks' = clicks /\ faults' = faults /\ raced' = raced
  BY <1>1 DEF Answer
<1>5. QED
  BY <1>3, <1>4 DEF Becomes

LEMMA LoseBy ==
    ASSUME NEW r, Shaped(r), Lose(r)
    PROVE  /\ \E a : Becomes(r, a, "failed", r.row, r.rows)
           /\ clicks' = clicks /\ faults' = faults + 1 /\ raced' = raced
<1>1. PICK a : a = [r EXCEPT !.st = "failed"]
  OBVIOUS
<1>2. a = [no |-> r.no, kind |-> r.kind, row |-> r.row, st |-> "failed", rows |-> r.rows, mine |-> r.mine]
  BY <1>1 DEF Shaped
<1>3. Is(a, r.kind, r.row, "failed", r.rows, r.mine)
  BY <1>2 DEF Is, Shaped
<1>4. /\ flight' = (flight \ {r}) \cup {a}
      /\ clicks' = clicks /\ faults' = faults + 1 /\ raced' = raced
  BY <1>1 DEF Lose
<1>5. QED
  BY <1>3, <1>4 DEF Becomes

LEMMA SendBy ==
    ASSUME NEW done, NEW kind, NEW row, Send(done, kind, row)
    PROVE  /\ \E a : Sends(done, a, kind, row)
           /\ raced' = (raced \/ flight \ done # {})
<1>1. PICK a : a = Ask(flight \ done, kind, row)
  OBVIOUS
<1>2. Is(a, kind, row, "sent", {}, TRUE)
  BY <1>1, AskIs
<1>3. flight' = (flight \ done) \cup {a} /\ raced' = (raced \/ flight \ done # {})
  BY <1>1 DEF Send
<1>4. QED
  BY <1>2, <1>3 DEF Sends

\* q is r, whose component was unmounted.
Orphaned(q, r) == Is(q, r.kind, r.row, r.st, r.rows, FALSE) /\ q.no = r.no

LEMMA OrphanBy ==
    ASSUME Shapes, NEW loads, NEW q \in Orphan(loads)
    PROVE  \E r \in flight : r.kind \notin loads /\ Orphaned(q, r)
<1>1. PICK r \in flight : r.kind \notin loads /\ q = [r EXCEPT !.mine = FALSE]
  BY DEF Orphan
<1>2. r = [no |-> r.no, kind |-> r.kind, row |-> r.row, st |-> r.st, rows |-> r.rows, mine |-> r.mine]
  BY DEF Shapes, Shaped
<1>n. q = [r EXCEPT !.mine = FALSE]
  BY <1>1
<1>3. q = [no |-> r.no, kind |-> r.kind, row |-> r.row, st |-> r.st, rows |-> r.rows, mine |-> FALSE]
  BY <1>2, <1>n
<1>4. QED
  BY <1>1, <1>3 DEF Orphaned, Is, Shaped

-----------------------------------------------------------------------------
(***************************************************************************)
(* The requests of these kinds whose component is still mounted, and that  *)
(* there is at most one of them.                                           *)
(***************************************************************************)
Mine(kinds) == {r \in flight : r.mine /\ r.kind \in kinds}

One(S) == \A a, b \in S : a = b

LEMMA OneCounted == ASSUME NEW S, One(S) PROVE Cardinality(S) <= 1
<1>1. CASE S = {}
  BY <1>1, FS_EmptySet
<1>2. CASE S # {}
  <2>1. PICK x : S = {x}
    BY <1>2 DEF One
  <2>2. Cardinality({x}) = 1
    BY FS_Singleton
  <2>3. QED
    BY <2>1, <2>2
<1>3. QED
  BY <1>1, <1>2

LEMMA MineWhenAnswered ==
    ASSUME Shapes, NEW r \in flight, NEW a, NEW st, NEW row, NEW rows,
           Becomes(r, a, st, row, rows), NEW kinds
    PROVE  /\ Shapes'
           /\ Mine(kinds)' = {} <=> Mine(kinds) = {}
           /\ One(Mine(kinds)) => One(Mine(kinds)')
<1>1. /\ flight' = (flight \ {r}) \cup {a} /\ Shaped(a)
      /\ a.kind = r.kind /\ a.mine = r.mine
  BY DEF Becomes, Is
<1>2. Shapes'
  BY <1>1 DEF Shapes
<1>3. CASE r \in Mine(kinds)
  <2>1. Mine(kinds)' = (Mine(kinds) \ {r}) \cup {a}
    BY <1>1, <1>3 DEF Mine
  <2>2. QED
    BY <1>2, <1>3, <2>1 DEF One
<1>4. CASE r \notin Mine(kinds)
  <2>1. Mine(kinds)' = Mine(kinds)
    BY <1>1, <1>4 DEF Mine
  <2>2. QED
    BY <1>2, <2>1
<1>5. QED
  BY <1>3, <1>4

LEMMA MineWhenFinished ==
    ASSUME Shapes, NEW r, flight' = flight \ {r}, NEW kinds
    PROVE  Shapes' /\ Mine(kinds)' = Mine(kinds) \ {r}
BY DEF Shapes, Mine

LEMMA MineWhenSent ==
    ASSUME Shapes, NEW done, NEW a, NEW kind, NEW row, Sends(done, a, kind, row), NEW kinds
    PROVE  /\ Shapes'
           /\ kind \in kinds => Mine(kinds)' = (Mine(kinds) \ done) \cup {a}
           /\ kind \notin kinds => Mine(kinds)' = Mine(kinds) \ done
<1>1. /\ flight' = (flight \ done) \cup {a} /\ Shaped(a) /\ a.kind = kind /\ a.mine = TRUE
  BY DEF Sends, Is
<1>2. QED
  BY <1>1 DEF Shapes, Mine

LEMMA MineWhenAdded ==
    ASSUME Shapes, NEW a, NEW kind, NEW row, Sends({}, a, kind, row)
    PROVE  /\ Shapes'
           /\ \A kinds : /\ kind \in kinds => Mine(kinds)' = Mine(kinds) \cup {a}
                         /\ kind \notin kinds => Mine(kinds)' = Mine(kinds)
<1>1. /\ flight' = flight \cup {a} /\ Shaped(a) /\ a.kind = kind /\ a.mine = TRUE
  BY DEF Sends, Is
<1>2. QED
  BY <1>1 DEF Shapes, Mine

LEMMA MineWhenLeft ==
    ASSUME Shapes, NEW loads, NEW D, D \subseteq Orphan(loads), NEW S,
           flight' = D \cup S, \A q \in S : Shaped(q), NEW kinds
    PROVE  Shapes' /\ Mine(kinds)' = {q \in S : q.mine /\ q.kind \in kinds}
<1>1. \A q \in D : Shaped(q) /\ q.mine = FALSE
  BY OrphanBy DEF Orphaned, Is
<1>2. QED
  BY <1>1 DEF Shapes, Mine
-----------------------------------------------------------------------------
(***************************************************************************)
(* The page of virtual keys: its flags, and the secret on the screen.  The *)
(* form that creates a key lets a second creation be sent during a first;  *)
(* without that at most one is under way, and none once its secret shows.  *)
(***************************************************************************)
KeysFlags ==
    /\ Shapes
    /\ clicks \in Nat /\ keyBusy \in BOOLEAN /\ keyTwice \in BOOLEAN
    /\ keyBusy <=> Mine({"revoke", "reload"}) # {}
    /\ One(Mine({"revoke", "reload"}))
    /\ keyLoading => Mine(KeyLoads) # {}
    /\ ~keyTwice => One(Mine({"create"}))
    /\ ~keyTwice /\ keyReveal # None => Mine({"create"}) = {}

LEMMA KeysFlagsInit == KeysInit => KeysFlags
<1> SUFFICES ASSUME KeysInit PROVE KeysFlags
  OBVIOUS
<1>1. PICK a : flight = {a} /\ Is(a, "list", None, "sent", {}, TRUE)
  BY AskIs DEF KeysInit, PageInit
<1>2. /\ clicks = 0 /\ keyBusy = FALSE /\ keyTwice = FALSE /\ keyReveal = None
  BY DEF KeysInit, PageInit
<1>3. Mine({"revoke", "reload"}) = {} /\ Mine({"create"}) = {} /\ Mine(KeyLoads) = {a}
  BY <1>1 DEF Mine, Is, KeyLoads
<1>4. Shapes
  BY <1>1 DEF Shapes, Is
<1>5. QED
  BY <1>2, <1>3, <1>4 DEF KeysFlags, One

\* The server, or what loses a request, leaves the flags true.
LEMMA KeysFlagsAnswered ==
    ASSUME KeysFlags, NEW r \in flight, NEW a, NEW st, NEW row, NEW rows,
           Becomes(r, a, st, row, rows), clicks' = clicks,
           UNCHANGED <<keyUI, keyTwice>>
    PROVE  KeysFlags'
<1>1. /\ keyBusy' = keyBusy /\ keyTwice' = keyTwice /\ keyLoading' = keyLoading
      /\ keyReveal' = keyReveal
  BY DEF keyUI
<1>2. Shapes
  BY DEF KeysFlags
<1>3. \A kinds : /\ Shapes'
                 /\ Mine(kinds)' = {} <=> Mine(kinds) = {}
                 /\ One(Mine(kinds)) => One(Mine(kinds)')
  BY <1>2, MineWhenAnswered
<1>4. QED
  BY <1>1, <1>3 DEF KeysFlags

\* Whatever the operator does leaves the flags true.
LEMMA KeysFlagsOperator == KeysFlags /\ KeysOperator => KeysFlags'
<1> SUFFICES ASSUME KeysFlags, KeysOperator PROVE KeysFlags'
  OBVIOUS
<1>0. /\ Shapes /\ clicks \in Nat /\ clicks' = clicks + 1 /\ clicks' \in Nat
      /\ keyBusy \in BOOLEAN /\ keyTwice \in BOOLEAN
  BY DEF KeysFlags, KeysOperator, Click
<1>1. CASE \/ OpenDrawer \/ CloseDrawer \/ DoneWithSecret \/ AskRevoke \/ CancelRevoke
  <2>1. /\ flight' = flight /\ keyBusy' = keyBusy /\ keyTwice' = keyTwice /\ keyLoading' = keyLoading
        /\ keyReveal' = keyReveal \/ keyReveal' = None
    BY <1>1 DEF OpenDrawer, CloseDrawer, DoneWithSecret, AskRevoke, CancelRevoke
  <2>2. \A kinds : Mine(kinds)' = Mine(kinds)
    BY <2>1 DEF Mine
  <2>3. QED
    BY <1>0, <2>1, <2>2 DEF KeysFlags, Shapes
<1>2. CASE SubmitKey
  <2>1. /\ keyReveal = None /\ keyReveal' = None /\ keyBusy' = keyBusy /\ keyLoading' = keyLoading
        /\ keyTwice' = (keyTwice \/ \E r \in flight : r.kind = "create" /\ r.mine)
        /\ Send({}, "create", None)
    BY <1>2 DEF SubmitKey, keyUI
  <2>2. PICK a : Sends({}, a, "create", None)
    BY <2>1, SendBy
  <2>3. /\ Shapes' /\ Mine({"revoke", "reload"})' = Mine({"revoke", "reload"})
        /\ Mine(KeyLoads)' = Mine(KeyLoads) /\ Mine({"create"})' = Mine({"create"}) \cup {a}
    BY <1>0, <2>2, MineWhenAdded DEF KeyLoads
  <2>4. ~keyTwice' => ~keyTwice /\ Mine({"create"}) = {}
    BY <1>0, <2>1 DEF Mine
  <2>5. ~keyTwice' => One(Mine({"create"})')
    BY <2>3, <2>4 DEF One
  <2>6. keyTwice' \in BOOLEAN
    BY <1>0, <2>1, Zenon
  <2>7. QED
    BY <1>0, <2>1, <2>3, <2>5, <2>6 DEF KeysFlags
<1>3. CASE ToggleKey
  <2>1. PICK k : Send({}, "toggle", k)
    BY <1>3 DEF ToggleKey
  <2>2. PICK a : Sends({}, a, "toggle", k)
    BY <2>1, SendBy
  <2>3. /\ Shapes' /\ Mine({"revoke", "reload"})' = Mine({"revoke", "reload"})
        /\ Mine(KeyLoads)' = Mine(KeyLoads) /\ Mine({"create"})' = Mine({"create"})
    BY <1>0, <2>2, MineWhenAdded DEF KeyLoads
  <2>4. UNCHANGED <<keyUI, keyTwice>>
    BY <1>3 DEF ToggleKey
  <2>5. QED
    BY <1>0, <2>3, <2>4 DEF KeysFlags, keyUI
<1>4. CASE ConfirmRevoke
  <2>1. /\ keyReveal = None /\ keyReveal' = None /\ keyBusy = FALSE /\ keyBusy' = TRUE
        /\ keyLoading' = keyLoading /\ keyTwice' = keyTwice
        /\ Send({}, "revoke", keyDialog)
    BY <1>0, <1>4 DEF ConfirmRevoke
  <2>2. PICK a : Sends({}, a, "revoke", keyDialog)
    BY <2>1, SendBy
  <2>3. /\ Shapes' /\ Mine({"revoke", "reload"})' = Mine({"revoke", "reload"}) \cup {a}
        /\ Mine(KeyLoads)' = Mine(KeyLoads) /\ Mine({"create"})' = Mine({"create"})
    BY <1>0, <2>2, MineWhenAdded DEF KeyLoads
  <2>4. Mine({"revoke", "reload"})' = {a}
    BY <2>1, <2>3 DEF KeysFlags
  <2>5. QED
    BY <1>0, <2>1, <2>3, <2>4 DEF KeysFlags, One
<1>5. CASE RevisitKeys
  <2>1. /\ keyReveal' = None /\ keyBusy' = FALSE /\ keyTwice' = keyTwice
        /\ flight' = Orphan(KeyLoads) \cup {Ask(Orphan(KeyLoads), "list", None)}
    BY <1>5 DEF RevisitKeys, KeysMounted
  <2>2. PICK a : /\ Is(a, "list", None, "sent", {}, TRUE)
                 /\ flight' = Orphan(KeyLoads) \cup {a}
    BY <2>1, AskIs
  <2>3. a.mine /\ a.kind = "list" /\ \A q \in {a} : Shaped(q)
    BY <2>2 DEF Is
  <2>4. \A kinds : Shapes' /\ Mine(kinds)' = {q \in {a} : q.mine /\ q.kind \in kinds}
    BY <1>0, <2>2, <2>3, MineWhenLeft
  <2>5. /\ Mine({"revoke", "reload"})' = {} /\ Mine({"create"})' = {} /\ Mine(KeyLoads)' = {a}
    BY <2>3, <2>4 DEF KeyLoads
  <2>6. QED
    BY <1>0, <2>1, <2>4, <2>5 DEF KeysFlags, One
<1>6. QED
  BY <1>1, <1>2, <1>3, <1>4, <1>5 DEF KeysOperator

\* And so does whatever answer arrives.
LEMMA KeysFlagsArrived == KeysFlags /\ KeysAnswered => KeysFlags'
<1> SUFFICES ASSUME KeysFlags, NEW r \in flight,
                    IF r.mine
                    THEN KeysLoaded(r) \/ KeyCreated(r) \/ KeyToggled(r) \/ KeyRevoked(r)
                    ELSE Finish(r) /\ UNCHANGED keyUI,
                    clicks' = clicks, keyTwice' = keyTwice
             PROVE  KeysFlags'
  BY DEF KeysAnswered
<1>0. /\ Shapes /\ clicks' \in Nat /\ keyBusy \in BOOLEAN /\ keyTwice \in BOOLEAN /\ keyTwice' \in BOOLEAN
      /\ Shaped(r) /\ r.mine \in BOOLEAN
  BY DEF KeysFlags, Shapes, Shaped
<1>f. Finish(r) => Shapes' /\ \A kinds : Mine(kinds)' = Mine(kinds) \ {r}
  BY <1>0, MineWhenFinished DEF Finish
<1>1. CASE ~r.mine
  <2>1. Finish(r) /\ UNCHANGED keyUI
    BY <1>1
  <2>2. Shapes' /\ \A kinds : Mine(kinds)' = Mine(kinds)
    BY <1>1, <1>f, <2>1 DEF Mine
  <2>3. /\ keyBusy' = keyBusy /\ keyLoading' = keyLoading /\ keyReveal' = keyReveal
    BY <2>1 DEF keyUI
  <2>4. QED
    BY <1>0, <2>2, <2>3 DEF KeysFlags
<1>2. CASE r.mine /\ KeysLoaded(r)
  <2>1. /\ r.kind \in {"list", "reload"} /\ keyLoading' = FALSE /\ Finish(r)
        /\ keyBusy' = (keyBusy /\ r.kind # "reload") /\ keyReveal' = keyReveal
    BY <1>2 DEF KeysLoaded, KeyLoads
  <2>2. Shapes' /\ \A kinds : Mine(kinds)' = Mine(kinds) \ {r}
    BY <1>f, <2>1
  <2>3. Mine({"create"})' = Mine({"create"})
    BY <2>1, <2>2 DEF Mine
  <2>4. /\ keyBusy' \in BOOLEAN /\ keyBusy' <=> Mine({"revoke", "reload"})' # {}
        /\ One(Mine({"revoke", "reload"})')
    <3>1. CASE r.kind = "reload"
      <4>1. r \in Mine({"revoke", "reload"})
        BY <1>2, <3>1 DEF Mine
      <4>2. Mine({"revoke", "reload"})' = {}
        BY <2>2, <4>1 DEF KeysFlags, One
      <4>3. QED
        BY <2>1, <3>1, <4>2 DEF One
    <3>2. CASE r.kind = "list"
      <4>1. Mine({"revoke", "reload"})' = Mine({"revoke", "reload"}) /\ keyBusy' = keyBusy
        BY <1>0, <2>1, <2>2, <3>2 DEF Mine
      <4>2. QED
        BY <1>0, <4>1 DEF KeysFlags
    <3>3. QED
      BY <2>1, <3>1, <3>2
  <2>5. QED
    BY <1>0, <2>1, <2>2, <2>3, <2>4 DEF KeysFlags
<1>3. CASE r.mine /\ KeyCreated(r) /\ r.st = "ok"
  <2>1. r.kind = "create" /\ keyLoading' = TRUE /\ Send({r}, "list", None) /\ keyBusy' = keyBusy
    BY <1>3 DEF KeyCreated
  <2>2. PICK a : Sends({r}, a, "list", None)
    BY <2>1, SendBy
  <2>3. /\ Shapes'
        /\ \A kinds : /\ "list" \in kinds => Mine(kinds)' = (Mine(kinds) \ {r}) \cup {a}
                      /\ "list" \notin kinds => Mine(kinds)' = Mine(kinds) \ {r}
    BY <1>0, <2>2, MineWhenSent
  <2>4. /\ Mine({"revoke", "reload"})' = Mine({"revoke", "reload"}) \ {r}
        /\ Mine({"create"})' = Mine({"create"}) \ {r}
        /\ Mine(KeyLoads)' = (Mine(KeyLoads) \ {r}) \cup {a}
    BY <2>3 DEF KeyLoads
  <2>5. Mine({"revoke", "reload"})' = Mine({"revoke", "reload"}) /\ r \in Mine({"create"})
    BY <1>3, <2>1, <2>4 DEF Mine
  <2>6. ~keyTwice => Mine({"create"})' = {}
    BY <2>4, <2>5 DEF KeysFlags, One
  <2>7. QED
    BY <1>0, <2>1, <2>3, <2>4, <2>5, <2>6 DEF KeysFlags, One
<1>4. CASE r.mine /\ (KeyToggled(r) \/ (KeyCreated(r) /\ r.st # "ok"))
  <2>1. /\ r.kind \in {"toggle", "create"} /\ Finish(r)
        /\ keyBusy' = keyBusy /\ keyLoading' = keyLoading /\ keyReveal' = keyReveal
    BY <1>4 DEF KeyToggled, KeyCreated
  <2>2. Shapes' /\ \A kinds : Mine(kinds)' = Mine(kinds) \ {r}
    BY <1>f, <2>1
  <2>3. Mine({"revoke", "reload"})' = Mine({"revoke", "reload"}) /\ Mine(KeyLoads)' = Mine(KeyLoads)
    BY <2>1, <2>2 DEF Mine, KeyLoads
  <2>4. One(Mine({"create"})) => One(Mine({"create"})')
    BY <2>2 DEF One
  <2>5. ~keyTwice' => One(Mine({"create"})')
    BY <1>0, <2>1, <2>4 DEF KeysFlags
  <2>6. ~keyTwice' /\ keyReveal' # None => Mine({"create"})' = {}
    BY <1>0, <2>1, <2>2 DEF KeysFlags
  <2>7. QED
    BY <1>0, <2>1, <2>2, <2>3, <2>5, <2>6 DEF KeysFlags
<1>5. CASE r.mine /\ KeyRevoked(r) /\ r.st = "ok"
  <2>1. /\ r.kind = "revoke" /\ keyLoading' = TRUE /\ Send({r}, "reload", None)
        /\ keyBusy' = keyBusy /\ keyReveal' = keyReveal
    BY <1>5 DEF KeyRevoked
  <2>2. PICK a : Sends({r}, a, "reload", None)
    BY <2>1, SendBy
  <2>3. /\ Shapes'
        /\ \A kinds : /\ "reload" \in kinds => Mine(kinds)' = (Mine(kinds) \ {r}) \cup {a}
                      /\ "reload" \notin kinds => Mine(kinds)' = Mine(kinds) \ {r}
    BY <1>0, <2>2, MineWhenSent
  <2>4. /\ Mine({"revoke", "reload"})' = (Mine({"revoke", "reload"}) \ {r}) \cup {a}
        /\ Mine({"create"})' = Mine({"create"}) \ {r}
        /\ Mine(KeyLoads)' = (Mine(KeyLoads) \ {r}) \cup {a}
    BY <2>3 DEF KeyLoads
  <2>5. Mine({"create"})' = Mine({"create"}) /\ r \in Mine({"revoke", "reload"})
    BY <1>5, <2>1, <2>4 DEF Mine
  <2>6. Mine({"revoke", "reload"})' = {a} /\ keyBusy = TRUE
    BY <1>0, <2>4, <2>5 DEF KeysFlags, One
  <2>7. QED
    BY <1>0, <2>1, <2>3, <2>4, <2>5, <2>6 DEF KeysFlags, One
<1>6. CASE r.mine /\ KeyRevoked(r) /\ r.st # "ok"
  <2>1. /\ r.kind = "revoke" /\ Finish(r) /\ keyBusy' = FALSE
        /\ keyLoading' = keyLoading /\ keyReveal' = keyReveal
    BY <1>6 DEF KeyRevoked
  <2>2. Shapes' /\ \A kinds : Mine(kinds)' = Mine(kinds) \ {r}
    BY <1>f, <2>1
  <2>3. /\ Mine({"create"})' = Mine({"create"}) /\ Mine(KeyLoads)' = Mine(KeyLoads)
        /\ r \in Mine({"revoke", "reload"})
    BY <1>6, <2>1, <2>2 DEF Mine, KeyLoads
  <2>4. Mine({"revoke", "reload"})' = {}
    BY <2>2, <2>3 DEF KeysFlags, One
  <2>5. QED
    BY <1>0, <2>1, <2>2, <2>3, <2>4 DEF KeysFlags, One
<1>7. QED
  BY <1>0, <1>1, <1>2, <1>3, <1>4, <1>5, <1>6

\* The server's steps, as one.
LEMMA KeysServerBy ==
    ASSUME Shapes, KeysServer
    PROVE  /\ \E r \in flight : \E a, st, row, rows : Becomes(r, a, st, row, rows)
           /\ clicks' = clicks /\ faults' = faults /\ raced' = raced
           /\ UNCHANGED <<keyUI, keyTwice>>
<1>1. PICK r, st, row, rows : r \in flight /\ Answer(r, st, row, rows)
  BY DEF KeysServer, ServeKeys, ServeCreateKey, ServeToggle, ServeRevoke
<1>2. Shaped(r)
  BY <1>1 DEF Shapes
<1>3. UNCHANGED <<keyUI, keyTwice>>
  BY DEF KeysServer
<1>4. QED
  BY <1>1, <1>2, <1>3, AnswerBy

LEMMA KeysFlagsNext == KeysFlags /\ [KeysNext]_<<pageVars, keyVars>> => KeysFlags'
<1> SUFFICES ASSUME KeysFlags, [KeysNext]_<<pageVars, keyVars>> PROVE KeysFlags'
  OBVIOUS
<1>0. Shapes
  BY DEF KeysFlags
<1>1. CASE KeysServer
  BY <1>0, <1>1, KeysServerBy, KeysFlagsAnswered
<1>2. CASE \E r \in flight : Lose(r) /\ UNCHANGED keyVars
  <2>1. PICK r \in flight : Lose(r) /\ UNCHANGED keyVars
    BY <1>2
  <2>2. Shaped(r)
    BY <1>0 DEF Shapes
  <2>3. PICK a : Becomes(r, a, "failed", r.row, r.rows)
    BY <2>1, <2>2, LoseBy
  <2>4. clicks' = clicks /\ UNCHANGED <<keyUI, keyTwice>>
    BY <2>1, <2>2, LoseBy DEF keyVars
  <2>5. QED
    BY <2>3, <2>4, KeysFlagsAnswered
<1>3. CASE UNCHANGED <<pageVars, keyVars>>
  <2>1. UNCHANGED <<flight, clicks, keyBusy, keyTwice, keyLoading, keyReveal>>
    BY <1>3 DEF pageVars, keyVars, keyUI
  <2>2. \A kinds : Mine(kinds)' = Mine(kinds)
    BY <2>1 DEF Mine
  <2>3. QED
    BY <2>1, <2>2 DEF KeysFlags, Shapes
<1>4. QED
  BY <1>1, <1>2, <1>3, KeysFlagsOperator, KeysFlagsArrived DEF KeysNext
-----------------------------------------------------------------------------
(***************************************************************************)
(* The page of budgets: types, and that a budget for a key is one for a    *)
(* key of its own tenant.                                                  *)
(***************************************************************************)
OwnKey(w) == w.key \in {None, w.tenant}

NewBudget == {w \in [tenant : Tenants, key : Tenants \cup {None}] : OwnKey(w)}

BudgetRequest(r) ==
    /\ Shaped(r)
    /\ r.kind \in {"list", "relist", "history", "create", "toggle", "delete"}
    /\ r.kind = "create" => r.row \in NewBudget
    /\ r.kind \in {"toggle", "delete"} => r.row \in BudgetRow
    /\ r.kind = "history" => r.row \in BudgetIds
    /\ r.kind \in {"list", "relist"} /\ r.st = "ok" => r.rows \subseteq BudgetRow

BudgetsTyped ==
    /\ BudgetsTypeOK
    /\ KeyOfItsTenant
    /\ budForm # None => OwnKey(budForm)
    /\ \A r \in flight : BudgetRequest(r)

\* The variables of the page one by one.
BudgetFields ==
    /\ budDb \subseteq BudgetRow /\ budList \subseteq BudgetRow /\ budKnown \subseteq Tenants
    /\ budForm \in BudgetForm \cup {None} /\ budDialog \in BudgetRow \cup {None}
    /\ budTitle \in BudgetIds \cup {None} /\ budEntries \in BudgetIds \cup {None}
    /\ budLoading \in BOOLEAN /\ budBusy \in BOOLEAN /\ budCrossed \in BOOLEAN

LEMMA BudgetFieldsTyped == BudgetsTypeOK <=> BudgetFields
BY DEF BudgetsTypeOK, BudgetFields

LEMMA BudgetSwitched ==
    ASSUME NEW b \in BudgetRow, NEW v \in BOOLEAN
    PROVE  /\ [b EXCEPT !.enabled = v] \in BudgetRow
           /\ [b EXCEPT !.enabled = v].key = b.key
           /\ [b EXCEPT !.enabled = v].tenant = b.tenant
           /\ [b EXCEPT !.enabled = v].id = b.id
BY DEF BudgetRow

\* What the server answers is typed, and what it stores.
LEMMA BudgetsTypedServer == BudgetsTyped /\ BudgetsServer => BudgetsTyped'
<1> SUFFICES ASSUME BudgetsTyped, NEW r \in flight,
                    ServeBudgets(r) \/ ServeCreateBudget(r) \/ ServeToggleBudget(r) \/ ServeDeleteBudget(r),
                    UNCHANGED <<budUI, budCrossed>>
             PROVE  BudgetsTyped'
  BY DEF BudgetsServer
<1>0. BudgetRequest(r) /\ BudgetFields /\ KeyOfItsTenant /\ Shaped(r)
  BY BudgetFieldsTyped DEF BudgetsTyped, BudgetRequest
<1>1. /\ budDb' \subseteq BudgetRow /\ KeyOfItsTenant'
      /\ \E st, row, rows : /\ Answer(r, st, row, rows) /\ row = r.row
                            /\ r.kind \in {"list", "relist"} => rows \subseteq BudgetRow
  <2>1. CASE ServeBudgets(r)
    <3>1. Answer(r, "ok", r.row, budDb) /\ budDb' = budDb
      BY <2>1 DEF ServeBudgets
    <3>2. QED
      BY <1>0, <3>1 DEF BudgetFields, KeyOfItsTenant
  <2>2. CASE ServeCreateBudget(r)
    <3>1. PICK i \in BudgetIds :
            budDb' = budDb \cup {[id |-> i, tenant |-> r.row.tenant, key |-> r.row.key, enabled |-> TRUE]}
      BY <2>2 DEF ServeCreateBudget
    <3>2. r.kind = "create" /\ Answer(r, "ok", r.row, {})
      BY <2>2 DEF ServeCreateBudget
    <3>3. PICK b : b = [id |-> i, tenant |-> r.row.tenant, key |-> r.row.key, enabled |-> TRUE]
      OBVIOUS
    <3>4. b \in BudgetRow /\ b.key \in {None, b.tenant}
      BY <1>0, <3>2, <3>3 DEF BudgetRow, BudgetRequest, NewBudget, OwnKey
    <3>5. QED
      BY <1>0, <3>1, <3>2, <3>3, <3>4 DEF BudgetFields, KeyOfItsTenant
  <2>3. CASE ServeToggleBudget(r)
    <3>1. PICK v : v = ~r.row.enabled
      OBVIOUS
    <3>2. /\ r.kind = "toggle" /\ Answer(r, IF \E b \in budDb : b.id = r.row.id THEN "ok" ELSE "failed", r.row, {})
          /\ budDb' = {IF b.id = r.row.id THEN [b EXCEPT !.enabled = v] ELSE b : b \in budDb}
      BY <2>3, <3>1 DEF ServeToggleBudget
    <3>3. v \in BOOLEAN
      BY <3>1, Zenon
    <3>4. \A c \in budDb' : \E b \in budDb : c = b \/ c = [b EXCEPT !.enabled = v]
      BY <3>2
    <3>5. \A c \in budDb' : c \in BudgetRow /\ c.key \in {None, c.tenant}
      <4> SUFFICES ASSUME NEW c \in budDb' PROVE c \in BudgetRow /\ c.key \in {None, c.tenant}
        OBVIOUS
      <4>1. PICK b \in budDb : c = b \/ c = [b EXCEPT !.enabled = v]
        BY <3>4
      <4>2. b \in BudgetRow /\ b.key \in {None, b.tenant}
        BY <1>0 DEF BudgetFields, KeyOfItsTenant
      <4>3. QED
        BY <3>3, <4>1, <4>2, BudgetSwitched
    <3>6. QED
      BY <3>2, <3>5 DEF KeyOfItsTenant
  <2>4. CASE ServeDeleteBudget(r)
    <3>1. /\ r.kind = "delete" /\ Answer(r, IF budDb' = budDb THEN "failed" ELSE "ok", r.row, {})
          /\ budDb' \subseteq budDb
      BY <2>4 DEF ServeDeleteBudget
    <3>2. QED
      BY <1>0, <3>1 DEF BudgetFields, KeyOfItsTenant
  <2>5. QED
    BY <2>1, <2>2, <2>3, <2>4
<1>2. PICK a, st, row, rows :
        /\ Becomes(r, a, st, row, rows) /\ row = r.row
        /\ r.kind \in {"list", "relist"} => rows \subseteq BudgetRow
  BY <1>0, <1>1, AnswerBy
<1>3. BudgetRequest(a)
  BY <1>0, <1>2 DEF BudgetRequest, Becomes, Is
<1>4. \A q \in flight' : BudgetRequest(q)
  BY <1>2, <1>3 DEF BudgetsTyped, Becomes
<1>5. BudgetFields' /\ (budForm' # None => OwnKey(budForm'))
  BY <1>0, <1>1 DEF BudgetFields, budUI, BudgetsTyped
<1>6. BudgetFields'
  BY <1>5
<1>7. BudgetsTypeOK'
  BY <1>6, BudgetFieldsTyped, PTL
<1>8. QED
  BY <1>1, <1>4, <1>5, <1>7 DEF BudgetsTyped

\* A request is sent, or those left are the ones that were there, orphaned.
LEMMA BudgetsTypedSent ==
    ASSUME \A r \in flight : BudgetRequest(r),
           NEW done, NEW kind, NEW row, Send(done, kind, row),
           kind \in {"list", "relist", "history", "create", "toggle", "delete"},
           kind = "create" => row \in NewBudget,
           kind \in {"toggle", "delete"} => row \in BudgetRow,
           kind = "history" => row \in BudgetIds
    PROVE  \A r \in flight' : BudgetRequest(r)
<1>1. PICK a : Sends(done, a, kind, row)
  BY SendBy
<1>2. BudgetRequest(a)
  BY <1>1 DEF Sends, Is, BudgetRequest
<1>3. QED
  BY <1>1, <1>2 DEF Sends

LEMMA BudgetsTypedLeft ==
    ASSUME \A r \in flight : BudgetRequest(r), RevisitBudgets
    PROVE  \A r \in flight' : BudgetRequest(r)
<1>1. PICK a : /\ Is(a, "list", None, "sent", {}, TRUE)
               /\ flight' = Orphan(BudgetLoads) \cup {a}
  BY AskIs DEF RevisitBudgets
<1>2. BudgetRequest(a)
  BY <1>1 DEF Is, BudgetRequest
<1>3. ASSUME NEW q \in Orphan(BudgetLoads) PROVE BudgetRequest(q)
  <2>1. PICK r \in flight : Orphaned(q, r)
    BY <1>3, OrphanBy DEF Shapes, BudgetRequest
  <2>2. QED
    BY <2>1 DEF Orphaned, Is, BudgetRequest
<1>4. QED
  BY <1>1, <1>2, <1>3

\* A form that is filled names no key but one of its tenant.
LEMMA FormFilled ==
    ASSUME BudgetsTyped, FillBudgetForm
    PROVE  budForm' \in BudgetForm /\ OwnKey(budForm')
<1>1. budForm \in BudgetForm /\ OwnKey(budForm) /\ budKnown \subseteq Tenants
  BY BudgetFieldsTyped DEF BudgetsTyped, BudgetFields, FillBudgetForm
<1>2. PICK t, s, k : budForm = [tenant |-> t, scope |-> s, key |-> k]
  BY <1>1 DEF BudgetForm
<1>3. CASE budForm' \in PickTenant(budForm)
  <2>1. PICK n \in budKnown : budForm' = [budForm EXCEPT !.tenant = n, !.key = None]
    BY <1>3 DEF PickTenant
  <2>2. budForm' = [tenant |-> n, scope |-> s, key |-> None]
    BY <1>2, <2>1
  <2>3. QED
    BY <1>1, <1>2, <2>2 DEF BudgetForm, OwnKey
<1>4. CASE budForm' \in PickScope(budForm)
  <2>1. PICK n \in {"tenant", "key"} : budForm' = [budForm EXCEPT !.scope = n]
    BY <1>4 DEF PickScope
  <2>2. budForm' = [tenant |-> t, scope |-> n, key |-> k]
    BY <1>2, <2>1
  <2>3. QED
    BY <1>1, <1>2, <2>2 DEF BudgetForm, OwnKey
<1>5. CASE budForm' \in PickKey(budForm)
  <2>1. PICK n \in (budKnown \cap {t}) \cup {None} : budForm' = [budForm EXCEPT !.key = n]
    BY <1>2, <1>5 DEF PickKey
  <2>2. budForm' = [tenant |-> t, scope |-> s, key |-> n]
    BY <1>2, <2>1
  <2>3. QED
    BY <1>1, <1>2, <2>1, <2>2 DEF BudgetForm, OwnKey
<1>6. QED
  BY <1>3, <1>4, <1>5 DEF FillBudgetForm

LEMMA BudgetsTypedOperator == BudgetsTyped /\ BudgetsOperator => BudgetsTyped'
<1> SUFFICES ASSUME BudgetsTyped, BudgetsOperator PROVE BudgetsTyped'
  OBVIOUS
<1>0. BudgetFields /\ KeyOfItsTenant /\ (budForm # None => OwnKey(budForm)) /\ \A r \in flight : BudgetRequest(r)
  BY BudgetFieldsTyped DEF BudgetsTyped
<1>1. budDb' = budDb
  BY DEF BudgetsOperator, FillBudgetForm
<1>2. /\ \A r \in flight' : BudgetRequest(r)
      /\ BudgetFields' /\ (budForm' # None => OwnKey(budForm'))
  <2>1. CASE FillBudgetForm
    <3>1. flight' = flight /\ budForm' \in BudgetForm /\ OwnKey(budForm')
      BY <2>1, FormFilled DEF FillBudgetForm, pageVars
    <3>2. UNCHANGED <<budDb, budList, budKnown, budLoading, budDialog, budBusy, budTitle, budEntries, budCrossed>>
      BY <2>1 DEF FillBudgetForm
    <3>3. QED
      BY <1>0, <3>1, <3>2 DEF BudgetFields
  <2>2. CASE OpenBudgetForm
    <3>1. PICK t : t = IF budKnown = {} THEN None ELSE CHOOSE n \in budKnown : TRUE
      OBVIOUS
    <3>2. t \in Tenants \cup {None}
      BY <1>0, <3>1 DEF BudgetFields
    <3>3. budForm' = [tenant |-> t, scope |-> "tenant", key |-> None]
      BY <2>2, <3>1 DEF OpenBudgetForm
    <3>4. budForm' \in BudgetForm /\ OwnKey(budForm')
      BY <3>2, <3>3 DEF BudgetForm, OwnKey
    <3>5. UNCHANGED <<flight, budList, budKnown, budLoading, budDialog, budBusy, budTitle, budEntries, budCrossed>>
      BY <2>2 DEF OpenBudgetForm
    <3>6. QED
      BY <1>0, <1>1, <3>4, <3>5 DEF BudgetFields
  <2>3. CASE SubmitBudget
    <3>1. /\ budForm \in BudgetForm /\ OwnKey(budForm) /\ budForm.tenant # None
          /\ budForm.scope = "key" => budForm.key # None
      BY <1>0, <2>3 DEF SubmitBudget, BudgetFields
    <3>2. PICK w : /\ w = [tenant |-> budForm.tenant,
                           key |-> IF budForm.scope = "key" THEN budForm.key ELSE None]
                   /\ Send({}, "create", w)
      BY <2>3 DEF SubmitBudget
    <3>3. w \in NewBudget
      BY <3>1, <3>2 DEF BudgetForm, NewBudget, OwnKey
    <3>4. \A r \in flight' : BudgetRequest(r)
      BY <1>0, <3>2, <3>3, BudgetsTypedSent
    <3>5. UNCHANGED <<budUI, budCrossed>>
      BY <2>3 DEF SubmitBudget
    <3>6. QED
      BY <1>0, <1>1, <3>4, <3>5 DEF BudgetFields, budUI
  <2>4. CASE ToggleBudget
    <3>1. PICK b \in budList : Send({}, "toggle", b)
      BY <2>4 DEF ToggleBudget
    <3>2. \A r \in flight' : BudgetRequest(r)
      BY <1>0, <3>1, BudgetsTypedSent DEF BudgetFields
    <3>3. UNCHANGED <<budUI, budCrossed>>
      BY <2>4 DEF ToggleBudget
    <3>4. QED
      BY <1>0, <1>1, <3>2, <3>3 DEF BudgetFields, budUI
  <2>5. CASE ConfirmDeleteBudget
    <3>1. Send({}, "delete", budDialog) /\ budDialog \in BudgetRow /\ budBusy' = TRUE
      BY <1>0, <2>5 DEF ConfirmDeleteBudget, BudgetFields
    <3>2. \A r \in flight' : BudgetRequest(r)
      BY <1>0, <3>1, BudgetsTypedSent
    <3>3. UNCHANGED <<budList, budKnown, budLoading, budForm, budDialog, budTitle, budEntries, budCrossed>>
      BY <2>5 DEF ConfirmDeleteBudget
    <3>4. QED
      BY <1>0, <1>1, <3>1, <3>2, <3>3 DEF BudgetFields
  <2>6. CASE ShowHistory
    <3>1. PICK b \in budList : budTitle' = b.id /\ Send({}, "history", b.id)
      BY <2>6 DEF ShowHistory
    <3>2. b.id \in BudgetIds
      BY <1>0 DEF BudgetFields, BudgetRow
    <3>3. \A r \in flight' : BudgetRequest(r)
      BY <1>0, <3>1, <3>2, BudgetsTypedSent
    <3>4. /\ budEntries' = None
          /\ budCrossed' = (budCrossed \/ \E r \in flight : r.kind = "history")
          /\ UNCHANGED <<budList, budKnown, budLoading, budForm, budDialog, budBusy>>
      BY <2>6 DEF ShowHistory
    <3>5. budCrossed' \in BOOLEAN
      BY <1>0, <3>4, Zenon DEF BudgetFields
    <3>6. QED
      BY <1>0, <1>1, <3>1, <3>2, <3>3, <3>4, <3>5 DEF BudgetFields
  <2>7. CASE RevisitBudgets
    <3>1. \A r \in flight' : BudgetRequest(r)
      BY <1>0, <2>7, BudgetsTypedLeft
    <3>2. BudgetsMounted /\ budCrossed' = budCrossed
      BY <2>7 DEF RevisitBudgets
    <3>3. QED
      BY <1>0, <1>1, <3>1, <3>2 DEF BudgetFields, BudgetsMounted
  <2>8. CASE CloseBudgetForm \/ CloseHistory
    BY <1>0, <1>1, <2>8 DEF CloseBudgetForm, CloseHistory, BudgetFields
  <2>9. CASE AskDeleteBudget \/ CancelDeleteBudget
    BY <1>0, <1>1, <2>9 DEF AskDeleteBudget, CancelDeleteBudget, BudgetFields
  <2>10. QED
    BY <2>1, <2>2, <2>3, <2>4, <2>5, <2>6, <2>7, <2>8, <2>9 DEF BudgetsOperator
<1>3. BudgetFields'
  BY <1>2
<1>4. BudgetsTypeOK'
  BY <1>3, BudgetFieldsTyped, PTL
<1>5. QED
  BY <1>0, <1>1, <1>2, <1>4 DEF BudgetsTyped, KeyOfItsTenant

LEMMA BudgetsTypedArrived == BudgetsTyped /\ BudgetsAnswered => BudgetsTyped'
<1> SUFFICES ASSUME BudgetsTyped, NEW r \in flight, r.st # "sent",
                    IF r.mine
                    THEN \/ BudgetsLoaded(r) \/ BudgetCreated(r) \/ BudgetToggled(r)
                         \/ BudgetDeleted(r) \/ HistoryArrives(r)
                    ELSE Finish(r) /\ UNCHANGED budUI,
                    budDb' = budDb, budCrossed' = budCrossed
             PROVE  BudgetsTyped'
  BY DEF BudgetsAnswered
<1>0. /\ BudgetFields /\ KeyOfItsTenant /\ (budForm # None => OwnKey(budForm))
      /\ BudgetRequest(r) /\ \A q \in flight : BudgetRequest(q)
  BY BudgetFieldsTyped DEF BudgetsTyped
<1>f. Finish(r) => \A q \in flight' : BudgetRequest(q)
  BY <1>0 DEF Finish
<1>s. ASSUME NEW kind \in {"list", "relist"}, Send({r}, kind, None)
      PROVE  \A q \in flight' : BudgetRequest(q)
  BY <1>0, <1>s, BudgetsTypedSent
<1>1. /\ \A q \in flight' : BudgetRequest(q)
      /\ BudgetFields' /\ (budForm' # None => OwnKey(budForm'))
  <2>1. CASE ~r.mine
    BY <1>0, <1>f, <2>1 DEF budUI, BudgetFields
  <2>2. CASE BudgetsLoaded(r)
    <3>1. /\ r.kind \in {"list", "relist"} /\ Finish(r)
          /\ r.st = "ok" => budList' = r.rows /\ budKnown' = Tenants
          /\ r.st # "ok" => UNCHANGED <<budList, budKnown>>
          /\ budLoading' = FALSE /\ budBusy' = (budBusy /\ r.kind # "relist")
          /\ UNCHANGED <<budForm, budDialog, budTitle, budEntries>>
      BY <2>2 DEF BudgetsLoaded
    <3>2. budList' \subseteq BudgetRow /\ budKnown' \subseteq Tenants
      BY <1>0, <3>1 DEF BudgetFields, BudgetRequest
    <3>3. budBusy' \in BOOLEAN
      BY <1>0, <3>1, Zenon DEF BudgetFields
    <3>4. QED
      BY <1>0, <1>f, <3>1, <3>2, <3>3 DEF BudgetFields
  <2>3. CASE BudgetCreated(r) \/ BudgetToggled(r)
    <3>1. /\ UNCHANGED <<budList, budKnown, budDialog, budBusy, budTitle, budEntries>>
          /\ budForm' \in {None, budForm} /\ budLoading' \in {TRUE, budLoading}
          /\ Finish(r) \/ Send({r}, "list", None)
      BY <2>3 DEF BudgetCreated, BudgetToggled
    <3>2. QED
      BY <1>0, <1>f, <1>s, <3>1 DEF BudgetFields
  <2>4. CASE BudgetDeleted(r)
    <3>1. /\ UNCHANGED <<budList, budKnown, budForm, budTitle, budEntries>>
          /\ budDialog' \in {None, budDialog} /\ budLoading' \in {TRUE, budLoading}
          /\ budBusy' \in {FALSE, budBusy}
          /\ Finish(r) \/ Send({r}, "relist", None)
      BY <2>4 DEF BudgetDeleted
    <3>2. QED
      BY <1>0, <1>f, <1>s, <3>1 DEF BudgetFields
  <2>5. CASE HistoryArrives(r)
    <3>1. /\ Finish(r) /\ r.kind = "history" /\ budEntries' \in {r.row, budEntries}
          /\ UNCHANGED <<budList, budKnown, budLoading, budForm, budDialog, budBusy, budTitle>>
      BY <2>5 DEF HistoryArrives
    <3>2. QED
      BY <1>0, <1>f, <3>1 DEF BudgetFields, BudgetRequest
  <2>6. QED
    BY <2>1, <2>2, <2>3, <2>4, <2>5
<1>2. BudgetFields'
  BY <1>1
<1>3. BudgetsTypeOK'
  BY <1>2, BudgetFieldsTyped, PTL
<1>4. QED
  BY <1>0, <1>1, <1>3 DEF BudgetsTyped, KeyOfItsTenant

LEMMA BudgetsTypedLost ==
    ASSUME BudgetsTyped, NEW r \in flight, Lose(r), UNCHANGED budVars
    PROVE  BudgetsTyped'
<1>1. BudgetRequest(r) /\ Shaped(r)
  BY DEF BudgetsTyped, BudgetRequest
<1>2. PICK a : Becomes(r, a, "failed", r.row, r.rows)
  BY <1>1, LoseBy
<1>3. BudgetRequest(a)
  BY <1>1, <1>2 DEF BudgetRequest, Becomes, Is
<1>4. \A q \in flight' : BudgetRequest(q)
  BY <1>2, <1>3 DEF BudgetsTyped, Becomes
<1>5. QED
  BY <1>4 DEF BudgetsTyped, BudgetsTypeOK, KeyOfItsTenant, budVars, budUI

LEMMA BudgetsTypedNext == BudgetsTyped /\ [BudgetsNext]_<<pageVars, budVars>> => BudgetsTyped'
<1> SUFFICES ASSUME BudgetsTyped, [BudgetsNext]_<<pageVars, budVars>> PROVE BudgetsTyped'
  OBVIOUS
<1>1. CASE UNCHANGED <<pageVars, budVars>>
  BY <1>1 DEF BudgetsTyped, BudgetsTypeOK, KeyOfItsTenant, pageVars, budVars, budUI
<1>2. QED
  BY <1>1, BudgetsTypedServer, BudgetsTypedOperator, BudgetsTypedArrived, BudgetsTypedLost
     DEF BudgetsNext

LEMMA BudgetsTypedInit == BudgetsInit => BudgetsTyped
<1> SUFFICES ASSUME BudgetsInit PROVE BudgetsTyped
  OBVIOUS
<1>1. PICK a : flight = {a} /\ Is(a, "list", None, "sent", {}, TRUE)
  BY AskIs DEF BudgetsInit, PageInit
<1>2. \A r \in flight : BudgetRequest(r)
  BY <1>1 DEF Is, BudgetRequest
<1>3. \A b \in budDb : b \in BudgetRow /\ b.key = None
  <2>1. PICK ids \in SUBSET BudgetIds, t \in Tenants :
          budDb = {[id |-> i, tenant |-> t, key |-> None, enabled |-> TRUE] : i \in ids}
    BY DEF BudgetsInit
  <2>2. \A i \in ids : /\ [id |-> i, tenant |-> t, key |-> None, enabled |-> TRUE] \in BudgetRow
                       /\ [id |-> i, tenant |-> t, key |-> None, enabled |-> TRUE].key = None
    BY DEF BudgetRow
  <2>3. QED
    BY <2>1, <2>2
<1>4. BudgetFields /\ budForm = None
  BY <1>3 DEF BudgetsInit, BudgetFields
<1>5. QED
  BY <1>2, <1>3, <1>4, BudgetFieldsTyped DEF BudgetsTyped, KeyOfItsTenant
-----------------------------------------------------------------------------
(***************************************************************************)
(* The history under a budget's title: while no two were asked for at      *)
(* once, the one under way is that of the title too.                       *)
(***************************************************************************)
BudgetHistory ==
    /\ HistoryIsOfTitle
    /\ ~budCrossed /\ budTitle # None => \A r \in flight : r.kind = "history" => r.row = budTitle

\* No history is under way that was not before.
NoNewHistory ==
    \A q \in flight' : q.kind = "history" => \E r \in flight : r.kind = "history" /\ r.row = q.row

LEMMA SentNoHistory ==
    ASSUME NEW done, NEW kind, NEW row, Send(done, kind, row), kind # "history"
    PROVE  NoNewHistory
<1>1. PICK a : Sends(done, a, kind, row)
  BY SendBy
<1>2. a.kind # "history" /\ flight' = (flight \ done) \cup {a}
  BY <1>1 DEF Sends, Is
<1>3. QED
  BY <1>2 DEF NoNewHistory

LEMMA HistoryKept ==
    ASSUME BudgetHistory, NoNewHistory, UNCHANGED <<budTitle, budEntries, budCrossed>>
    PROVE  BudgetHistory'
BY DEF BudgetHistory, HistoryIsOfTitle, NoNewHistory

LEMMA BudgetHistoryServer ==
    ASSUME Shapes, BudgetHistory, BudgetsServer \/ \E r \in flight : Lose(r) /\ UNCHANGED budVars
    PROVE  BudgetHistory'
<1>1. \E r \in flight : \/ Lose(r)
                       \/ \E st, rows : Answer(r, st, r.row, rows)
  BY DEF BudgetsServer, ServeBudgets, ServeCreateBudget, ServeToggleBudget, ServeDeleteBudget
<1>2. PICK r, a, st, rows : r \in flight /\ Becomes(r, a, st, r.row, rows)
  BY <1>1, AnswerBy, LoseBy DEF Shapes
<1>3. NoNewHistory
  BY <1>2 DEF NoNewHistory, Becomes, Is
<1>4. UNCHANGED <<budTitle, budEntries, budCrossed>>
  BY DEF BudgetsServer, budVars, budUI
<1>5. QED
  BY <1>3, <1>4, HistoryKept

LEMMA BudgetHistoryOperator ==
    ASSUME Shapes, BudgetHistory, BudgetsOperator
    PROVE  BudgetHistory'
<1>1. CASE FillBudgetForm \/ OpenBudgetForm \/ CloseBudgetForm \/ AskDeleteBudget \/ CancelDeleteBudget
  <2>1. flight' = flight /\ UNCHANGED <<budTitle, budEntries, budCrossed>>
    BY <1>1 DEF FillBudgetForm, OpenBudgetForm, CloseBudgetForm, AskDeleteBudget,
                CancelDeleteBudget, pageVars
  <2>2. QED
    BY <2>1, HistoryKept DEF NoNewHistory
<1>2. CASE SubmitBudget \/ ToggleBudget \/ ConfirmDeleteBudget
  <2>1. \E kind \in {"create", "toggle", "delete"} : \E row : Send({}, kind, row)
    BY <1>2 DEF SubmitBudget, ToggleBudget, ConfirmDeleteBudget
  <2>2. UNCHANGED <<budTitle, budEntries, budCrossed>>
    BY <1>2 DEF SubmitBudget, ToggleBudget, ConfirmDeleteBudget, budUI
  <2>3. QED
    BY <2>1, <2>2, SentNoHistory, HistoryKept
<1>3. CASE ShowHistory
  <2>1. PICK i : budTitle' = i /\ Send({}, "history", i)
    BY <1>3 DEF ShowHistory
  <2>2. PICK a : Sends({}, a, "history", i)
    BY <2>1, SendBy
  <2>3. a.row = i /\ flight' = flight \cup {a}
    BY <2>2 DEF Sends, Is
  <2>4. budEntries' = None /\ budCrossed' = (budCrossed \/ \E r \in flight : r.kind = "history")
    BY <1>3 DEF ShowHistory
  <2>5. ~budCrossed' => \A r \in flight' : r.kind = "history" => r.row = budTitle'
    BY <2>1, <2>3, <2>4
  <2>6. QED
    BY <2>4, <2>5 DEF BudgetHistory, HistoryIsOfTitle
<1>4. CASE CloseHistory \/ RevisitBudgets
  <2>1. budTitle' = None
    BY <1>4 DEF CloseHistory, RevisitBudgets, BudgetsMounted
  <2>2. QED
    BY <2>1 DEF BudgetHistory, HistoryIsOfTitle
<1>5. QED
  BY <1>1, <1>2, <1>3, <1>4 DEF BudgetsOperator

LEMMA BudgetHistoryArrived ==
    ASSUME Shapes, BudgetHistory, BudgetsAnswered
    PROVE  BudgetHistory'
<1>1. PICK r \in flight :
        /\ IF r.mine
           THEN \/ BudgetsLoaded(r) \/ BudgetCreated(r) \/ BudgetToggled(r)
                \/ BudgetDeleted(r) \/ HistoryArrives(r)
           ELSE Finish(r) /\ UNCHANGED budUI
        /\ budCrossed' = budCrossed
  BY DEF BudgetsAnswered
<1>2. CASE ~HistoryArrives(r)
  <2>1. UNCHANGED <<budTitle, budEntries>>
    BY <1>1, <1>2 DEF BudgetsLoaded, BudgetCreated, BudgetToggled, BudgetDeleted, budUI
  <2>2. Finish(r) \/ \E kind \in {"list", "relist"} : Send({r}, kind, None)
    BY <1>1, <1>2 DEF BudgetsLoaded, BudgetCreated, BudgetToggled, BudgetDeleted
  <2>3. NoNewHistory
    BY <2>2, SentNoHistory DEF Finish, NoNewHistory
  <2>4. QED
    BY <1>1, <2>1, <2>3, HistoryKept
<1>3. CASE HistoryArrives(r)
  <2>1. /\ r.kind = "history" /\ budEntries' \in {r.row, budEntries} /\ flight' = flight \ {r}
        /\ budTitle' = budTitle
    BY <1>3 DEF HistoryArrives, Finish
  <2>2. QED
    BY <1>1, <2>1 DEF BudgetHistory, HistoryIsOfTitle
<1>4. QED
  BY <1>2, <1>3
-----------------------------------------------------------------------------
(***************************************************************************)
(* While requests never overlap, at most one is under way.                 *)
(***************************************************************************)
LEMMA SentAlone ==
    ASSUME NEW done, NEW kind, NEW row, Send(done, kind, row), ~raced'
    PROVE  /\ ~raced /\ flight \subseteq done
           /\ \E a : Is(a, kind, row, "sent", {}, TRUE) /\ flight' = {a}
<1>1. PICK a : Sends(done, a, kind, row)
  BY SendBy
<1>2. ~raced /\ flight \ done = {}
  BY DEF Send
<1>3. flight' = {a}
  BY <1>1, <1>2 DEF Sends
<1>4. QED
  BY <1>1, <1>2, <1>3 DEF Sends

LEMMA LeftAlone ==
    ASSUME NEW loads, flight' = Orphan(loads) \cup {Ask(Orphan(loads), "list", None)},
           raced' = (raced \/ flight # {}), ~raced'
    PROVE  ~raced /\ flight = {} /\ \E a : Is(a, "list", None, "sent", {}, TRUE) /\ flight' = {a}
<1>1. ~raced /\ flight = {}
  OBVIOUS
<1>2. Orphan(loads) = {}
  BY <1>1 DEF Orphan
<1>3. QED
  BY <1>1, <1>2, AskIs

LEMMA AnsweredAlone ==
    ASSUME One(flight), NEW r \in flight, NEW a, NEW st, NEW row, NEW rows,
           Becomes(r, a, st, row, rows)
    PROVE  flight' = {a}
BY DEF One, Becomes

LEMMA FinishedAlone ==
    ASSUME One(flight), NEW r \in flight, Finish(r) PROVE flight' = {} /\ raced' = raced
BY DEF One, Finish
-----------------------------------------------------------------------------
(***************************************************************************)
(* The budgets shown are the server's.  Between a change and the load that *)
(* follows it they are not; whatever else is under way, they are.          *)
(***************************************************************************)
BudgetWaits(r) ==
    /\ r.mine
    /\ r.kind \in {"list", "relist"} => r.st = "sent" \/ (r.st = "ok" /\ r.rows = budDb)
    /\ r.kind = "history" => budList = budDb
    /\ r.kind \in {"create", "toggle", "delete"} /\ r.st # "ok" => budList = budDb

BudgetsAgree ==
    /\ faults \in Nat
    /\ ~raced /\ faults = 0 =>
          /\ One(flight)
          /\ \A r \in flight : BudgetWaits(r)
          /\ flight = {} => budList = budDb

LEMMA BudgetsAgreeInit == BudgetsInit => BudgetsAgree
<1> SUFFICES ASSUME BudgetsInit PROVE BudgetsAgree
  OBVIOUS
<1>1. PICK a : flight = {a} /\ Is(a, "list", None, "sent", {}, TRUE)
  BY AskIs DEF BudgetsInit, PageInit
<1>2. faults = 0
  BY DEF BudgetsInit, PageInit
<1>3. QED
  BY <1>1, <1>2 DEF BudgetsAgree, BudgetWaits, Is, One

LEMMA BudgetsAgreeServer ==
    ASSUME BudgetsTyped, BudgetsAgree, BudgetsServer
    PROVE  BudgetsAgree'
<1>1. PICK r \in flight :
        /\ r.st = "sent"
        /\ ServeBudgets(r) \/ ServeCreateBudget(r) \/ ServeToggleBudget(r) \/ ServeDeleteBudget(r)
        /\ UNCHANGED <<budUI, budCrossed>>
  BY DEF BudgetsServer
<1>2. Shaped(r) /\ budList' = budList
  BY <1>1 DEF BudgetsTyped, BudgetRequest, budUI
<1>3. faults' = faults /\ raced' = raced
  BY <1>1 DEF ServeBudgets, ServeCreateBudget, ServeToggleBudget, ServeDeleteBudget, Answer
<1> SUFFICES ASSUME ~raced, faults = 0
             PROVE  One(flight') /\ (\A q \in flight' : BudgetWaits(q)') /\ flight' # {}
  BY <1>3 DEF BudgetsAgree
<1>4. One(flight) /\ BudgetWaits(r)
  BY DEF BudgetsAgree
<1>5. ASSUME NEW st, NEW row, NEW rows, Answer(r, st, row, rows),
             r.kind \in {"list", "relist"} => st = "ok" /\ rows = budDb',
             r.kind = "history" => budList = budDb',
             r.kind \in {"create", "toggle", "delete"} /\ st # "ok" => budList = budDb'
      PROVE  One(flight') /\ (\A q \in flight' : BudgetWaits(q)') /\ flight' # {}
  <2>1. PICK a : Becomes(r, a, st, row, rows) /\ flight' = {a}
    BY <1>2, <1>4, <1>5, AnswerBy, AnsweredAlone
  <2>2. BudgetWaits(a)'
    BY <1>2, <1>4, <1>5, <2>1 DEF BudgetWaits, Becomes, Is
  <2>3. QED
    BY <2>1, <2>2 DEF One
<1>6. CASE ServeBudgets(r)
  <2>1. Answer(r, "ok", r.row, budDb) /\ budDb' = budDb /\ r.kind \in {"list", "relist", "history"}
    BY <1>6 DEF ServeBudgets, BudgetLoads
  <2>2. r.kind = "history" => budList = budDb
    BY <1>4 DEF BudgetWaits
  <2>3. QED
    BY <1>5, <2>1, <2>2
<1>7. CASE ServeCreateBudget(r)
  BY <1>5, <1>7 DEF ServeCreateBudget
<1>8. CASE ServeToggleBudget(r)
  <2>1. PICK st : /\ st = IF \E b \in budDb : b.id = r.row.id THEN "ok" ELSE "failed"
                  /\ Answer(r, st, r.row, {})
    BY <1>8 DEF ServeToggleBudget
  <2>2. st # "ok" => budDb' = budDb
    BY <1>8, <2>1 DEF ServeToggleBudget
  <2>3. r.kind = "toggle" /\ budList = budDb
    BY <1>1, <1>4, <1>8 DEF ServeToggleBudget, BudgetWaits
  <2>4. QED
    BY <1>5, <2>1, <2>2, <2>3
<1>9. CASE ServeDeleteBudget(r)
  <2>1. PICK st : st = (IF budDb' = budDb THEN "failed" ELSE "ok") /\ Answer(r, st, r.row, {})
    BY <1>9 DEF ServeDeleteBudget
  <2>2. st # "ok" => budDb' = budDb
    BY <2>1
  <2>3. r.kind = "delete" /\ budList = budDb
    BY <1>1, <1>4, <1>9 DEF ServeDeleteBudget, BudgetWaits
  <2>4. QED
    BY <1>5, <2>1, <2>2, <2>3
<1>10. QED
  BY <1>1, <1>6, <1>7, <1>8, <1>9

LEMMA BudgetsAgreeOperator ==
    ASSUME BudgetsAgree, BudgetsOperator
    PROVE  BudgetsAgree'
<1>1. faults' = faults /\ budDb' = budDb
  BY DEF BudgetsOperator, FillBudgetForm, pageVars
<1>2. CASE \/ FillBudgetForm \/ OpenBudgetForm \/ CloseBudgetForm \/ AskDeleteBudget
           \/ CancelDeleteBudget \/ CloseHistory
  <2>1. UNCHANGED <<flight, raced, budList>>
    BY <1>2 DEF FillBudgetForm, OpenBudgetForm, CloseBudgetForm, AskDeleteBudget,
                CancelDeleteBudget, CloseHistory, pageVars
  <2>2. QED
    BY <1>1, <2>1 DEF BudgetsAgree, BudgetWaits
<1>3. CASE SubmitBudget \/ ToggleBudget \/ ConfirmDeleteBudget \/ ShowHistory
  <2>1. PICK kind, row : kind \in {"create", "toggle", "delete", "history"} /\ Send({}, kind, row)
    BY <1>3 DEF SubmitBudget, ToggleBudget, ConfirmDeleteBudget, ShowHistory
  <2>2. budList' = budList
    BY <1>3 DEF SubmitBudget, ToggleBudget, ConfirmDeleteBudget, ShowHistory, budUI
  <2>3. SUFFICES ASSUME ~raced', faults = 0
                 PROVE  One(flight') /\ (\A q \in flight' : BudgetWaits(q)') /\ flight' # {}
    BY <1>1 DEF BudgetsAgree
  <2>0. /\ ~raced /\ flight \subseteq {}
        /\ \E a : Is(a, kind, row, "sent", {}, TRUE) /\ flight' = {a}
    BY <2>1, <2>3, SentAlone
  <2>4. PICK a : ~raced /\ flight = {} /\ Is(a, kind, row, "sent", {}, TRUE) /\ flight' = {a}
    BY <2>0
  <2>5. budList' = budDb'
    BY <1>1, <2>2, <2>3, <2>4 DEF BudgetsAgree
  <2>6. BudgetWaits(a)'
    BY <2>1, <2>4, <2>5 DEF BudgetWaits, Is
  <2>7. QED
    BY <2>4, <2>6 DEF One
<1>4. CASE RevisitBudgets
  <2>1. SUFFICES ASSUME ~raced'
                 PROVE  One(flight') /\ (\A q \in flight' : BudgetWaits(q)') /\ flight' # {}
    BY <1>1 DEF BudgetsAgree
  <2>2. PICK a : Is(a, "list", None, "sent", {}, TRUE) /\ flight' = {a}
    BY <1>4, <2>1, LeftAlone DEF RevisitBudgets
  <2>3. BudgetWaits(a)'
    BY <2>2 DEF BudgetWaits, Is
  <2>4. QED
    BY <2>2, <2>3 DEF One
<1>5. QED
  BY <1>2, <1>3, <1>4 DEF BudgetsOperator

LEMMA BudgetsAgreeArrived ==
    ASSUME BudgetsTyped, BudgetsAgree, BudgetsAnswered
    PROVE  BudgetsAgree'
<1>1. PICK r \in flight :
        /\ r.st # "sent"
        /\ IF r.mine
           THEN \/ BudgetsLoaded(r) \/ BudgetCreated(r) \/ BudgetToggled(r)
                \/ BudgetDeleted(r) \/ HistoryArrives(r)
           ELSE Finish(r) /\ UNCHANGED budUI
        /\ faults' = faults /\ budDb' = budDb
  BY DEF BudgetsAnswered
<1> SUFFICES ASSUME ~raced', faults = 0
             PROVE  /\ One(flight') /\ (\A q \in flight' : BudgetWaits(q)')
                    /\ flight' = {} => budList' = budDb
  BY <1>1 DEF BudgetsAgree
<1>2. ~raced
  BY <1>1 DEF BudgetsLoaded, BudgetCreated, BudgetToggled, BudgetDeleted, HistoryArrives,
              Finish, Send
<1>3. One(flight) /\ BudgetWaits(r) /\ r.mine
  BY <1>2 DEF BudgetsAgree, BudgetWaits
<1>4. CASE BudgetsLoaded(r)
  <2>1. flight' = {}
    BY <1>3, <1>4, FinishedAlone DEF BudgetsLoaded
  <2>2. r.kind \in {"list", "relist"} /\ (r.st = "ok" => budList' = r.rows)
    BY <1>4 DEF BudgetsLoaded
  <2>3. budList' = budDb
    BY <1>1, <1>3, <2>2 DEF BudgetWaits
  <2>4. QED
    BY <2>1, <2>3 DEF One
<1>5. CASE HistoryArrives(r)
  <2>1. flight' = {}
    BY <1>3, <1>5, FinishedAlone DEF HistoryArrives
  <2>2. budList' = budDb
    BY <1>3, <1>5 DEF HistoryArrives, BudgetWaits
  <2>3. QED
    BY <2>1, <2>2 DEF One
<1>6. CASE BudgetCreated(r) \/ BudgetToggled(r) \/ BudgetDeleted(r)
  <2>1. /\ r.kind \in {"create", "toggle", "delete"} /\ budList' = budList
        /\ \/ r.st # "ok" /\ Finish(r)
           \/ \E kind \in {"list", "relist"} : Send({r}, kind, None)
    BY <1>6 DEF BudgetCreated, BudgetToggled, BudgetDeleted
  <2>2. CASE r.st # "ok" /\ Finish(r)
    <3>1. flight' = {}
      BY <1>3, <2>2, FinishedAlone
    <3>2. budList' = budDb
      BY <1>3, <2>1, <2>2 DEF BudgetWaits
    <3>3. QED
      BY <3>1, <3>2 DEF One
  <2>3. CASE \E kind \in {"list", "relist"} : Send({r}, kind, None)
    <3>1. PICK kind \in {"list", "relist"} : Send({r}, kind, None)
      BY <2>3
    <3>2. PICK a : Is(a, kind, None, "sent", {}, TRUE) /\ flight' = {a}
      BY <3>1, SentAlone
    <3>3. BudgetWaits(a)'
      BY <3>1, <3>2 DEF BudgetWaits, Is
    <3>4. QED
      BY <3>2, <3>3 DEF One
  <2>4. QED
    BY <2>1, <2>2, <2>3
<1>7. QED
  BY <1>1, <1>3, <1>4, <1>5, <1>6

LEMMA BudgetsAgreeLost ==
    ASSUME BudgetsAgree, NEW r, Lose(r) PROVE BudgetsAgree'
BY DEF BudgetsAgree, Lose

\* What the page of budgets keeps, in all.
BudgetsInv == BudgetsTyped /\ BudgetHistory /\ BudgetsAgree

LEMMA BudgetsInvInit == BudgetsInit => BudgetsInv
<1> SUFFICES ASSUME BudgetsInit PROVE BudgetsInv
  OBVIOUS
<1>1. BudgetHistory
  BY DEF BudgetsInit, BudgetHistory, HistoryIsOfTitle
<1>2. QED
  BY <1>1, BudgetsTypedInit, BudgetsAgreeInit DEF BudgetsInv

LEMMA BudgetsInvNext == BudgetsInv /\ [BudgetsNext]_<<pageVars, budVars>> => BudgetsInv'
<1> SUFFICES ASSUME BudgetsInv, [BudgetsNext]_<<pageVars, budVars>> PROVE BudgetsInv'
  OBVIOUS
<1>0. BudgetsTyped /\ BudgetHistory /\ BudgetsAgree /\ Shapes
  BY DEF BudgetsInv, BudgetsTyped, BudgetRequest, Shapes
<1>1. BudgetsTyped'
  BY <1>0, BudgetsTypedNext
<1>2. BudgetHistory' /\ BudgetsAgree'
  <2>1. CASE BudgetsServer
    BY <1>0, <2>1, BudgetHistoryServer, BudgetsAgreeServer
  <2>2. CASE BudgetsOperator
    BY <1>0, <2>2, BudgetHistoryOperator, BudgetsAgreeOperator
  <2>3. CASE BudgetsAnswered
    BY <1>0, <2>3, BudgetHistoryArrived, BudgetsAgreeArrived
  <2>4. CASE \E r \in flight : Lose(r) /\ UNCHANGED budVars
    BY <1>0, <2>4, BudgetHistoryServer, BudgetsAgreeLost
  <2>5. CASE UNCHANGED <<pageVars, budVars>>
    BY <1>0, <2>5 DEF pageVars, budVars, budUI, BudgetHistory, HistoryIsOfTitle, BudgetsAgree, BudgetWaits
  <2>6. QED
    BY <2>1, <2>2, <2>3, <2>4, <2>5 DEF BudgetsNext
<1>3. QED
  BY <1>1, <1>2 DEF BudgetsInv
-----------------------------------------------------------------------------
(***************************************************************************)
(* The page of virtual keys: types, and that no two keys of the server     *)
(* share an id.                                                            *)
(***************************************************************************)
Apart(S) == S \subseteq KeyRow /\ IsFiniteSet(S) /\ \A k, l \in S : k.id = l.id => k = l

KeyRequest(r) ==
    /\ Shaped(r)
    /\ r.kind \in {"list", "reload", "create", "toggle", "revoke"}
    /\ r.kind = "create" /\ r.st = "ok" => r.row \in KeyIds
    /\ r.kind \in {"toggle", "revoke"} => r.row \in KeyRow
    /\ r.kind \in {"list", "reload"} /\ r.st = "ok" => r.rows \subseteq KeyRow

\* The variables of the page one by one.
KeyFields ==
    /\ keyList \subseteq KeyRow
    /\ keyDialog \in KeyRow \cup {None} /\ keyReveal \in KeyIds \cup {None}
    /\ keyTenants \in BOOLEAN /\ keyLoading \in BOOLEAN /\ keyDrawer \in BOOLEAN
    /\ keyBusy \in BOOLEAN /\ keyTwice \in BOOLEAN

KeysTyped ==
    /\ Apart(keyDb)
    /\ KeyFields
    /\ \A r \in flight : KeyRequest(r)

LEMMA ApartCounts ==
    ASSUME NEW S, Apart(S) PROVE Cardinality(IdsOf(S)) = Cardinality(S)
<1> DEFINE f == [k \in S |-> k.id]
<1>1. f \in Surjection(S, IdsOf(S))
  BY DEF Surjection, IdsOf
<1>2. f \in Injection(S, IdsOf(S))
  BY DEF Injection, IsInjective, IdsOf, Apart
<1>3. QED
  BY <1>1, <1>2, FS_Surjection DEF Apart

LEMMA KeysTypedIsTypeOK == KeysTyped => KeysTypeOK
<1> SUFFICES ASSUME KeysTyped PROVE KeysTypeOK
  OBVIOUS
<1>1. Cardinality(IdsOf(keyDb)) = Cardinality(keyDb)
  BY ApartCounts DEF KeysTyped
<1>2. QED
  BY <1>1 DEF KeysTyped, KeysTypeOK, KeyFields, Apart

\* Rows that are written over keep their ids.
LEMMA WrittenOver ==
    ASSUME NEW S, Apart(S), NEW g \in [S -> KeyRow], \A k \in S : g[k].id = k.id
    PROVE  Apart({g[k] : k \in S})
<1> DEFINE T == {g[k] : k \in S}
<1>1. g \in Surjection(S, T)
  BY DEF Surjection
<1>2. IsFiniteSet(T)
  BY <1>1, FS_Surjection DEF Apart
<1>3. T \subseteq KeyRow /\ \A k, l \in T : k.id = l.id => k = l
  BY DEF Apart
<1>4. QED
  BY <1>2, <1>3 DEF Apart

LEMMA KeySwitched ==
    ASSUME NEW k \in KeyRow, NEW v \in BOOLEAN
    PROVE  /\ [k EXCEPT !.enabled = v] \in KeyRow /\ [k EXCEPT !.enabled = v].id = k.id
           /\ [k EXCEPT !.enabled = v].enabled = v
           /\ [k EXCEPT !.enabled = v, !.scoped = FALSE] \in KeyRow
           /\ [k EXCEPT !.enabled = v, !.scoped = FALSE].id = k.id
           /\ [k EXCEPT !.enabled = v, !.scoped = FALSE].enabled = v
BY DEF KeyRow

\* The rows of one id get this switch, and lose their restrictions if strip.
Switched(S, id, v, strip) ==
    {IF k.id = id
     THEN IF strip THEN [k EXCEPT !.enabled = v, !.scoped = FALSE] ELSE [k EXCEPT !.enabled = v]
     ELSE k : k \in S}

LEMMA SwitchedIsApart ==
    ASSUME NEW S, Apart(S), NEW id, NEW v \in BOOLEAN, NEW strip \in BOOLEAN
    PROVE  Apart(Switched(S, id, v, strip))
<1> DEFINE g == [k \in S |-> IF k.id = id
                             THEN IF strip THEN [k EXCEPT !.enabled = v, !.scoped = FALSE]
                                  ELSE [k EXCEPT !.enabled = v]
                             ELSE k]
<1>1. ASSUME NEW k \in S PROVE g[k] \in KeyRow /\ g[k].id = k.id
  <2>1. k \in KeyRow
    BY DEF Apart
  <2>2. QED
    BY <2>1, KeySwitched
<1>2. g \in [S -> KeyRow]
  BY <1>1
<1>3. Switched(S, id, v, strip) = {g[k] : k \in S}
  BY DEF Switched
<1> HIDE DEF g
<1>4. QED
  BY <1>1, <1>2, <1>3, WrittenOver

LEMMA SwitchedIsTyped ==
    ASSUME NEW S, S \subseteq KeyRow, NEW id, NEW v \in BOOLEAN, NEW strip \in BOOLEAN
    PROVE  Switched(S, id, v, strip) \subseteq KeyRow
<1> SUFFICES ASSUME NEW l \in Switched(S, id, v, strip) PROVE l \in KeyRow
  OBVIOUS
<1>1. PICK k \in S : l = IF k.id = id
                         THEN IF strip THEN [k EXCEPT !.enabled = v, !.scoped = FALSE]
                              ELSE [k EXCEPT !.enabled = v]
                         ELSE k
  BY DEF Switched
<1>2. k \in KeyRow
  OBVIOUS
<1>3. QED
  BY <1>1, <1>2, KeySwitched

LEMMA KeysTypedInit == KeysInit => KeysTyped
<1> SUFFICES ASSUME KeysInit PROVE KeysTyped
  OBVIOUS
<1>1. PICK a : flight = {a} /\ Is(a, "list", None, "sent", {}, TRUE)
  BY AskIs DEF KeysInit, PageInit
<1>2. \A r \in flight : KeyRequest(r)
  BY <1>1 DEF Is, KeyRequest
<1>3. Apart(keyDb)
  <2>1. CASE keyDb = {}
    BY <2>1, FS_EmptySet DEF Apart
  <2>2. CASE keyDb # {}
    <3>1. PICK i \in KeyIds : keyDb = {[id |-> i, enabled |-> TRUE, scoped |-> TRUE]}
      BY <2>2 DEF KeysInit
    <3>2. [id |-> i, enabled |-> TRUE, scoped |-> TRUE] \in KeyRow
      BY DEF KeyRow
    <3>3. QED
      BY <3>1, <3>2, FS_Singleton DEF Apart
  <2>3. QED
    BY <2>1, <2>2
<1>4. KeyFields
  BY DEF KeysInit, KeyFields
<1>5. QED
  BY <1>2, <1>3, <1>4 DEF KeysTyped

\* The server's rows stay apart, and what it answers is typed.
LEMMA KeysTypedServer == KeysTyped /\ KeysServer => KeysTyped'
<1> SUFFICES ASSUME KeysTyped, NEW r \in flight,
                    ServeKeys(r) \/ ServeCreateKey(r) \/ ServeToggle(r) \/ ServeRevoke(r),
                    UNCHANGED <<keyUI, keyTwice>>
             PROVE  KeysTyped'
  BY DEF KeysServer
<1>0. Apart(keyDb) /\ KeyFields /\ KeyRequest(r) /\ Shaped(r)
  BY DEF KeysTyped, KeyRequest
<1>1. /\ Apart(keyDb')
      /\ \E st, row, rows : /\ Answer(r, st, row, rows)
                            /\ r.kind = "create" => row \in KeyIds
                            /\ r.kind \in {"toggle", "revoke"} => row = r.row
                            /\ r.kind \in {"list", "reload"} => rows \subseteq KeyRow
  <2>1. CASE ServeKeys(r)
    <3>1. Answer(r, "ok", r.row, keyDb) /\ keyDb' = keyDb /\ r.kind \in {"list", "reload"}
      BY <2>1 DEF ServeKeys, KeyLoads
    <3>2. QED
      BY <1>0, <3>1 DEF Apart
  <2>2. CASE ServeCreateKey(r)
    <3>1. PICK i \in KeyIds \ IdsOf(keyDb) :
            /\ keyDb' = keyDb \cup {[id |-> i, enabled |-> TRUE, scoped |-> TRUE]}
            /\ Answer(r, "ok", i, {})
      BY <2>2 DEF ServeCreateKey
    <3>2. PICK k : k = [id |-> i, enabled |-> TRUE, scoped |-> TRUE]
      OBVIOUS
    <3>3. k \in KeyRow /\ k.id = i
      BY <3>2 DEF KeyRow
    <3>4. \A l \in keyDb : l.id # i
      BY <3>1 DEF IdsOf
    <3>5. IsFiniteSet(keyDb \cup {k})
      BY <1>0, FS_AddElement DEF Apart
    <3>6. Apart(keyDb')
      BY <1>0, <3>1, <3>2, <3>3, <3>4, <3>5 DEF Apart
    <3>7. QED
      BY <2>2, <3>1, <3>6 DEF ServeCreateKey
  <2>3. CASE ServeToggle(r)
    <3>1. PICK v : v = ~r.row.enabled
      OBVIOUS
    <3>2. v \in BOOLEAN
      BY <3>1, Zenon
    <3>3. keyDb' = Switched(keyDb, r.row.id, v, TRUE)
      BY <2>3, <3>1 DEF ServeToggle, Switched
    <3>4. r.kind = "toggle" /\ Answer(r, "ok", r.row, {})
      BY <2>3 DEF ServeToggle
    <3>5. Apart(keyDb')
      BY <1>0, <3>2, <3>3, SwitchedIsApart
    <3>6. QED
      BY <3>4, <3>5
  <2>4. CASE ServeRevoke(r)
    <3>1. keyDb' = Switched(keyDb, r.row.id, FALSE, FALSE)
      BY <2>4 DEF ServeRevoke, Switched
    <3>2. r.kind = "revoke" /\ Answer(r, IF keyDb' = keyDb THEN "failed" ELSE "ok", r.row, {})
      BY <2>4 DEF ServeRevoke
    <3>3. Apart(keyDb')
      BY <1>0, <3>1, SwitchedIsApart
    <3>4. QED
      BY <3>2, <3>3
  <2>5. QED
    BY <2>1, <2>2, <2>3, <2>4
<1>2. PICK a, st, row, rows :
        /\ Becomes(r, a, st, row, rows)
        /\ r.kind = "create" => row \in KeyIds
        /\ r.kind \in {"toggle", "revoke"} => row = r.row
        /\ r.kind \in {"list", "reload"} => rows \subseteq KeyRow
  BY <1>0, <1>1, AnswerBy
<1>3. KeyRequest(a)
  BY <1>0, <1>2 DEF KeyRequest, Becomes, Is
<1>4. \A q \in flight' : KeyRequest(q)
  BY <1>2, <1>3 DEF KeysTyped, Becomes
<1>5. KeyFields'
  BY <1>0 DEF KeyFields, keyUI
<1>6. QED
  BY <1>1, <1>4, <1>5 DEF KeysTyped

LEMMA KeysTypedSent ==
    ASSUME \A r \in flight : KeyRequest(r),
           NEW done, NEW kind, NEW row, Send(done, kind, row),
           kind \in {"list", "reload", "create", "toggle", "revoke"},
           kind \in {"toggle", "revoke"} => row \in KeyRow
    PROVE  \A r \in flight' : KeyRequest(r)
<1>1. PICK a : Sends(done, a, kind, row)
  BY SendBy
<1>2. KeyRequest(a)
  BY <1>1 DEF Sends, Is, KeyRequest
<1>3. QED
  BY <1>1, <1>2 DEF Sends

LEMMA KeysTypedLeft ==
    ASSUME \A r \in flight : KeyRequest(r), RevisitKeys
    PROVE  \A r \in flight' : KeyRequest(r)
<1>1. PICK a : /\ Is(a, "list", None, "sent", {}, TRUE)
               /\ flight' = Orphan(KeyLoads) \cup {a}
  BY AskIs DEF RevisitKeys
<1>2. KeyRequest(a)
  BY <1>1 DEF Is, KeyRequest
<1>3. ASSUME NEW q \in Orphan(KeyLoads) PROVE KeyRequest(q)
  <2>1. PICK r \in flight : Orphaned(q, r)
    BY <1>3, OrphanBy DEF Shapes, KeyRequest
  <2>2. QED
    BY <2>1 DEF Orphaned, Is, KeyRequest
<1>4. QED
  BY <1>1, <1>2, <1>3

LEMMA KeysTypedOperator == KeysTyped /\ KeysOperator => KeysTyped'
<1> SUFFICES ASSUME KeysTyped, KeysOperator PROVE KeysTyped'
  OBVIOUS
<1>0. KeyFields /\ \A r \in flight : KeyRequest(r)
  BY DEF KeysTyped
<1>1. Apart(keyDb')
  BY DEF KeysTyped, KeysOperator
<1>2. \A filter : KeyRows(filter) \subseteq KeyRow
  BY <1>0 DEF KeyRows, KeyFields
<1>3. KeyFields' /\ \A r \in flight' : KeyRequest(r)
  <2>1. CASE OpenDrawer \/ CloseDrawer
    BY <1>0, <2>1 DEF OpenDrawer, CloseDrawer, KeyFields
  <2>2. CASE DoneWithSecret \/ CancelRevoke
    BY <1>0, <2>2 DEF DoneWithSecret, CancelRevoke, KeyFields
  <2>3. CASE SubmitKey
    <3>1. /\ Send({}, "create", None) /\ UNCHANGED keyUI
          /\ keyTwice' = (keyTwice \/ \E r \in flight : r.kind = "create" /\ r.mine)
      BY <2>3 DEF SubmitKey
    <3>2. keyTwice' \in BOOLEAN
      BY <1>0, <3>1, Zenon DEF KeyFields
    <3>3. \A r \in flight' : KeyRequest(r)
      BY <1>0, <3>1, KeysTypedSent
    <3>4. QED
      BY <1>0, <3>1, <3>2, <3>3 DEF KeyFields, keyUI
  <2>4. CASE ToggleKey
    <3>1. PICK k \in KeyRow : Send({}, "toggle", k)
      BY <1>2, <2>4 DEF ToggleKey
    <3>2. \A r \in flight' : KeyRequest(r)
      BY <1>0, <3>1, KeysTypedSent
    <3>3. UNCHANGED <<keyUI, keyTwice>>
      BY <2>4 DEF ToggleKey
    <3>4. QED
      BY <1>0, <3>2, <3>3 DEF KeyFields, keyUI
  <2>5. CASE AskRevoke
    <3>1. keyDialog' \in KeyRow
      BY <1>2, <2>5 DEF AskRevoke
    <3>2. UNCHANGED <<flight, keyList, keyTenants, keyLoading, keyDrawer, keyReveal, keyBusy, keyTwice>>
      BY <2>5 DEF AskRevoke
    <3>3. QED
      BY <1>0, <3>1, <3>2 DEF KeyFields
  <2>6. CASE ConfirmRevoke
    <3>1. Send({}, "revoke", keyDialog) /\ keyDialog \in KeyRow /\ keyBusy' = TRUE
      BY <1>0, <2>6 DEF ConfirmRevoke, KeyFields
    <3>2. \A r \in flight' : KeyRequest(r)
      BY <1>0, <3>1, KeysTypedSent
    <3>3. UNCHANGED <<keyList, keyTenants, keyLoading, keyDrawer, keyReveal, keyDialog, keyTwice>>
      BY <2>6 DEF ConfirmRevoke
    <3>4. QED
      BY <1>0, <3>1, <3>2, <3>3 DEF KeyFields
  <2>7. CASE RevisitKeys
    <3>1. \A r \in flight' : KeyRequest(r)
      BY <1>0, <2>7, KeysTypedLeft
    <3>2. KeysMounted(FALSE) /\ keyTwice' = keyTwice
      BY <2>7 DEF RevisitKeys
    <3>3. QED
      BY <1>0, <3>1, <3>2 DEF KeyFields, KeysMounted
  <2>8. QED
    BY <2>1, <2>2, <2>3, <2>4, <2>5, <2>6, <2>7 DEF KeysOperator
<1>4. QED
  BY <1>1, <1>3 DEF KeysTyped

LEMMA KeysTypedArrived == KeysTyped /\ KeysAnswered => KeysTyped'
<1> SUFFICES ASSUME KeysTyped, NEW r \in flight, r.st # "sent",
                    IF r.mine
                    THEN KeysLoaded(r) \/ KeyCreated(r) \/ KeyToggled(r) \/ KeyRevoked(r)
                    ELSE Finish(r) /\ UNCHANGED keyUI,
                    keyDb' = keyDb, keyTwice' = keyTwice
             PROVE  KeysTyped'
  BY DEF KeysAnswered
<1>0. /\ KeyFields /\ KeyRequest(r) /\ \A q \in flight : KeyRequest(q)
  BY DEF KeysTyped
<1>f. Finish(r) => \A q \in flight' : KeyRequest(q)
  BY <1>0 DEF Finish
<1>s. ASSUME NEW kind \in {"list", "reload"}, Send({r}, kind, None)
      PROVE  \A q \in flight' : KeyRequest(q)
  BY <1>0, <1>s, KeysTypedSent
<1>1. KeyFields' /\ \A q \in flight' : KeyRequest(q)
  <2>1. CASE ~r.mine
    BY <1>0, <1>f, <2>1 DEF keyUI, KeyFields
  <2>2. CASE KeysLoaded(r)
    <3>1. /\ r.kind \in {"list", "reload"} /\ Finish(r)
          /\ keyList' = IF r.st = "ok" THEN r.rows ELSE keyList
          /\ keyTenants' = (keyTenants \/ r.st = "ok")
          /\ keyLoading' = FALSE /\ keyBusy' = (keyBusy /\ r.kind # "reload")
          /\ UNCHANGED <<keyDrawer, keyReveal, keyDialog>>
      BY <2>2 DEF KeysLoaded, KeyLoads
    <3>2. keyList' \subseteq KeyRow
      BY <1>0, <3>1 DEF KeyFields, KeyRequest
    <3>3. keyBusy' \in BOOLEAN /\ keyTenants' \in BOOLEAN
      BY <1>0, <3>1, Zenon DEF KeyFields
    <3>4. QED
      BY <1>0, <1>f, <3>1, <3>2, <3>3 DEF KeyFields
  <2>3. CASE KeyCreated(r)
    <3>1. /\ UNCHANGED <<keyList, keyTenants, keyDialog, keyBusy>>
          /\ keyReveal' \in KeyIds \cup {None}
          /\ keyDrawer' \in {FALSE, keyDrawer} /\ keyLoading' \in {TRUE, keyLoading}
          /\ Finish(r) \/ Send({r}, "list", None)
      BY <1>0, <2>3 DEF KeyCreated, KeyRequest, KeyFields
    <3>2. QED
      BY <1>0, <1>f, <1>s, <3>1 DEF KeyFields
  <2>4. CASE KeyToggled(r)
    <3>1. PICK v : v = ~r.row.enabled
      OBVIOUS
    <3>2. v \in BOOLEAN
      BY <3>1, Zenon
    <3>3. keyList' = keyList \/ keyList' = Switched(keyList, r.row.id, v, FALSE)
      BY <2>4, <3>1 DEF KeyToggled, Switched
    <3>n. keyList \subseteq KeyRow /\ FALSE \in BOOLEAN
      BY <1>0 DEF KeyFields
    <3>m. Switched(keyList, r.row.id, v, FALSE) \subseteq KeyRow
      BY <3>2, <3>n, SwitchedIsTyped
    <3>4. keyList' \subseteq KeyRow
      BY <3>3, <3>n, <3>m
    <3>5. Finish(r) /\ UNCHANGED <<keyTenants, keyLoading, keyDrawer, keyReveal, keyDialog, keyBusy>>
      BY <2>4 DEF KeyToggled
    <3>6. QED
      BY <1>0, <1>f, <3>4, <3>5 DEF KeyFields
  <2>5. CASE KeyRevoked(r)
    <3>1. /\ UNCHANGED <<keyList, keyTenants, keyDrawer, keyReveal>>
          /\ keyDialog' \in {None, keyDialog} /\ keyLoading' \in {TRUE, keyLoading}
          /\ keyBusy' \in {FALSE, keyBusy}
          /\ Finish(r) \/ Send({r}, "reload", None)
      BY <2>5 DEF KeyRevoked
    <3>2. QED
      BY <1>0, <1>f, <1>s, <3>1 DEF KeyFields
  <2>6. QED
    BY <2>1, <2>2, <2>3, <2>4, <2>5
<1>2. QED
  BY <1>1 DEF KeysTyped

LEMMA KeysTypedLost ==
    ASSUME KeysTyped, NEW r \in flight, Lose(r), UNCHANGED keyVars
    PROVE  KeysTyped'
<1>1. KeyRequest(r) /\ Shaped(r)
  BY DEF KeysTyped, KeyRequest
<1>2. PICK a : Becomes(r, a, "failed", r.row, r.rows)
  BY <1>1, LoseBy
<1>3. KeyRequest(a)
  BY <1>1, <1>2 DEF KeyRequest, Becomes, Is
<1>4. \A q \in flight' : KeyRequest(q)
  BY <1>2, <1>3 DEF KeysTyped, Becomes
<1>5. QED
  BY <1>4 DEF KeysTyped, KeyFields, keyVars, keyUI

LEMMA KeysTypedNext == KeysTyped /\ [KeysNext]_<<pageVars, keyVars>> => KeysTyped'
<1> SUFFICES ASSUME KeysTyped, [KeysNext]_<<pageVars, keyVars>> PROVE KeysTyped'
  OBVIOUS
<1>1. CASE UNCHANGED <<pageVars, keyVars>>
  BY <1>1 DEF KeysTyped, KeyFields, pageVars, keyVars, keyUI
<1>2. QED
  BY <1>1, KeysTypedServer, KeysTypedOperator, KeysTypedArrived, KeysTypedLost DEF KeysNext
-----------------------------------------------------------------------------
(***************************************************************************)
(* The keys shown are the server's, each switched as it is there.  Between *)
(* a creation or a revocation and the load that follows it they are not;   *)
(* a toggle that went well brings the list where the server already is.    *)
(***************************************************************************)
Switches(S) == {<<k.id, k.enabled>> : k \in S}

Patched(P, id, v) == {IF p[1] = id THEN <<id, v>> ELSE p : p \in P}

Agreed == Switches(keyList) = Switches(keyDb)

LEMMA PatchedWhenSwitched ==
    ASSUME NEW S, S \subseteq KeyRow, NEW id, NEW v \in BOOLEAN, NEW strip \in BOOLEAN
    PROVE  Switches(Switched(S, id, v, strip)) = Patched(Switches(S), id, v)
<1> DEFINE g(k) == IF k.id = id
                   THEN IF strip THEN [k EXCEPT !.enabled = v, !.scoped = FALSE]
                        ELSE [k EXCEPT !.enabled = v]
                   ELSE k
           p(k) == <<k.id, k.enabled>>
           w(q) == IF q[1] = id THEN <<id, v>> ELSE q
<1>1. ASSUME NEW k \in S PROVE p(g(k)) = w(p(k))
  <2>1. k \in KeyRow
    OBVIOUS
  <2>2. CASE k.id = id
    <3>1. g(k).id = id /\ g(k).enabled = v
      BY <2>1, <2>2, KeySwitched
    <3>2. p(k)[1] = id
      BY <2>2
    <3>3. w(p(k)) = <<id, v>>
      BY <3>2
    <3>4. p(g(k)) = <<id, v>>
      BY <3>1
    <3>5. QED
      BY <3>3, <3>4
  <2>3. CASE k.id # id
    <3>1. g(k) = k
      BY <2>3
    <3>2. p(k)[1] # id
      BY <2>3
    <3>3. w(p(k)) = p(k)
      BY <3>2
    <3>4. QED
      BY <3>1, <3>3
  <2>4. QED
    BY <2>2, <2>3
<1>2. Switched(S, id, v, strip) = {g(k) : k \in S}
  BY DEF Switched
<1>3. Switches(S) = {p(k) : k \in S}
  BY DEF Switches
<1>4. Switches(Switched(S, id, v, strip)) = {p(l) : l \in {g(k) : k \in S}}
  BY <1>2 DEF Switches
<1>5. Patched(Switches(S), id, v) = {w(q) : q \in {p(k) : k \in S}}
  BY <1>3 DEF Patched
<1> HIDE DEF g, p, w
<1>6. {p(l) : l \in {g(k) : k \in S}} = {w(q) : q \in {p(k) : k \in S}}
  BY <1>1
<1>7. QED
  BY <1>4, <1>5, <1>6

KeyWaits(r) ==
    /\ r.mine
    /\ r.kind \in {"list", "reload"} => r.st = "sent" \/ (r.st = "ok" /\ r.rows = keyDb)
    /\ r.kind \in {"create", "toggle", "revoke"} /\ r.st # "ok" => Agreed
    /\ r.kind = "toggle" /\ r.st = "ok" =>
         Patched(Switches(keyList), r.row.id, ~r.row.enabled) = Switches(keyDb)

KeysAgree ==
    /\ faults \in Nat
    /\ ~raced /\ faults = 0 =>
          /\ One(flight)
          /\ \A r \in flight : KeyWaits(r)
          /\ flight = {} => Agreed

LEMMA KeysAgreeInit == KeysInit => KeysAgree
<1> SUFFICES ASSUME KeysInit PROVE KeysAgree
  OBVIOUS
<1>1. PICK a : flight = {a} /\ Is(a, "list", None, "sent", {}, TRUE)
  BY AskIs DEF KeysInit, PageInit
<1>2. faults = 0
  BY DEF KeysInit, PageInit
<1>3. KeyWaits(a)
  BY <1>1 DEF KeyWaits, Is
<1>4. QED
  BY <1>1, <1>2, <1>3 DEF KeysAgree, One

LEMMA KeysAgreeServer ==
    ASSUME KeysTyped, KeysAgree, KeysServer
    PROVE  KeysAgree'
<1>1. PICK r \in flight :
        /\ r.st = "sent"
        /\ ServeKeys(r) \/ ServeCreateKey(r) \/ ServeToggle(r) \/ ServeRevoke(r)
        /\ UNCHANGED <<keyUI, keyTwice>>
  BY DEF KeysServer
<1>2. Shaped(r) /\ keyList' = keyList
  BY <1>1 DEF KeysTyped, KeyRequest, keyUI
<1>3. faults' = faults /\ raced' = raced
  BY <1>1 DEF ServeKeys, ServeCreateKey, ServeToggle, ServeRevoke, Answer
<1> SUFFICES ASSUME ~raced, faults = 0
             PROVE  One(flight') /\ (\A q \in flight' : KeyWaits(q)') /\ flight' # {}
  BY <1>3 DEF KeysAgree
<1>4. One(flight) /\ KeyWaits(r)
  BY DEF KeysAgree
<1>5. ASSUME NEW st, NEW row, NEW rows, Answer(r, st, row, rows),
             r.kind \in {"list", "reload"} => st = "ok" /\ rows = keyDb',
             r.kind \in {"create", "toggle", "revoke"} /\ st # "ok" => Agreed',
             r.kind = "toggle" /\ st = "ok" =>
               Patched(Switches(keyList'), row.id, ~row.enabled) = Switches(keyDb')
      PROVE  One(flight') /\ (\A q \in flight' : KeyWaits(q)') /\ flight' # {}
  <2>1. PICK a : Becomes(r, a, st, row, rows) /\ flight' = {a}
    BY <1>2, <1>4, <1>5, AnswerBy, AnsweredAlone
  <2>2. KeyWaits(a)'
    BY <1>2, <1>4, <1>5, <2>1 DEF KeyWaits, Becomes, Is
  <2>3. QED
    BY <2>1, <2>2 DEF One
<1>6. CASE ServeKeys(r)
  <2>1. Answer(r, "ok", r.row, keyDb) /\ keyDb' = keyDb /\ r.kind \in {"list", "reload"}
    BY <1>6 DEF ServeKeys, KeyLoads
  <2>2. QED
    BY <1>5, <2>1
<1>7. CASE ServeCreateKey(r)
  <2>1. PICK i : Answer(r, "ok", i, {}) /\ r.kind = "create"
    BY <1>7 DEF ServeCreateKey
  <2>2. QED
    BY <1>5, <2>1
<1>8. CASE ServeToggle(r)
  <2>1. PICK v : v = ~r.row.enabled
    OBVIOUS
  <2>2. v \in BOOLEAN
    BY <2>1, Zenon
  <2>3. keyDb' = Switched(keyDb, r.row.id, v, TRUE)
    BY <1>8, <2>1 DEF ServeToggle, Switched
  <2>4. r.kind = "toggle" /\ Answer(r, "ok", r.row, {})
    BY <1>8 DEF ServeToggle
  <2>5. keyDb \subseteq KeyRow /\ TRUE \in BOOLEAN
    BY DEF KeysTyped, Apart
  <2>6. Switches(keyDb') = Patched(Switches(keyDb), r.row.id, v)
    BY <2>2, <2>3, <2>5, PatchedWhenSwitched
  <2>7. Switches(keyList) = Switches(keyDb)
    BY <1>1, <1>4, <2>4 DEF KeyWaits, Agreed
  <2>8. Patched(Switches(keyList'), r.row.id, ~r.row.enabled) = Switches(keyDb')
    BY <1>2, <2>1, <2>6, <2>7
  <2>9. QED
    BY <1>5, <2>4, <2>8
<1>9. CASE ServeRevoke(r)
  <2>1. PICK st : st = (IF keyDb' = keyDb THEN "failed" ELSE "ok") /\ Answer(r, st, r.row, {})
    BY <1>9 DEF ServeRevoke
  <2>2. r.kind = "revoke" /\ Agreed
    BY <1>1, <1>4, <1>9 DEF ServeRevoke, KeyWaits
  <2>3. st # "ok" => Agreed'
    BY <1>2, <2>1, <2>2 DEF Agreed
  <2>4. QED
    BY <1>5, <2>1, <2>2, <2>3
<1>10. QED
  BY <1>1, <1>6, <1>7, <1>8, <1>9

LEMMA KeysAgreeOperator ==
    ASSUME KeysAgree, KeysOperator
    PROVE  KeysAgree'
<1>1. faults' = faults /\ keyDb' = keyDb
  BY DEF KeysOperator
<1>2. CASE OpenDrawer \/ CloseDrawer \/ DoneWithSecret \/ AskRevoke \/ CancelRevoke
  <2>1. UNCHANGED <<flight, raced, keyList>>
    BY <1>2 DEF OpenDrawer, CloseDrawer, DoneWithSecret, AskRevoke, CancelRevoke
  <2>2. QED
    BY <1>1, <2>1 DEF KeysAgree, KeyWaits, Agreed
<1>3. CASE SubmitKey \/ ToggleKey \/ ConfirmRevoke
  <2>k. PICK kind \in {"create", "toggle", "revoke"} : \E row : Send({}, kind, row)
    BY <1>3 DEF SubmitKey, ToggleKey, ConfirmRevoke
  <2>1. PICK row : kind \in {"create", "toggle", "revoke"} /\ Send({}, kind, row)
    BY <2>k
  <2>2. keyList' = keyList
    BY <1>3 DEF SubmitKey, ToggleKey, ConfirmRevoke, keyUI
  <2>3. SUFFICES ASSUME ~raced', faults = 0
                 PROVE  One(flight') /\ (\A q \in flight' : KeyWaits(q)') /\ flight' # {}
    BY <1>1 DEF KeysAgree
  <2>0. /\ ~raced /\ flight \subseteq {}
        /\ \E a : Is(a, kind, row, "sent", {}, TRUE) /\ flight' = {a}
    BY <2>1, <2>3, SentAlone
  <2>4. PICK a : ~raced /\ flight = {} /\ Is(a, kind, row, "sent", {}, TRUE) /\ flight' = {a}
    BY <2>0
  <2>5. Agreed'
    BY <1>1, <2>2, <2>3, <2>4 DEF KeysAgree, Agreed
  <2>6. KeyWaits(a)'
    BY <2>1, <2>4, <2>5 DEF KeyWaits, Is
  <2>7. QED
    BY <2>4, <2>6 DEF One
<1>4. CASE RevisitKeys
  <2>1. SUFFICES ASSUME ~raced'
                 PROVE  One(flight') /\ (\A q \in flight' : KeyWaits(q)') /\ flight' # {}
    BY <1>1 DEF KeysAgree
  <2>2. PICK a : Is(a, "list", None, "sent", {}, TRUE) /\ flight' = {a}
    BY <1>4, <2>1, LeftAlone DEF RevisitKeys
  <2>3. KeyWaits(a)'
    BY <2>2 DEF KeyWaits, Is
  <2>4. QED
    BY <2>2, <2>3 DEF One
<1>5. QED
  BY <1>2, <1>3, <1>4 DEF KeysOperator

LEMMA KeysAgreeArrived ==
    ASSUME KeysTyped, KeysAgree, KeysAnswered
    PROVE  KeysAgree'
<1>1. PICK r \in flight :
        /\ r.st # "sent"
        /\ IF r.mine
           THEN KeysLoaded(r) \/ KeyCreated(r) \/ KeyToggled(r) \/ KeyRevoked(r)
           ELSE Finish(r) /\ UNCHANGED keyUI
        /\ faults' = faults /\ keyDb' = keyDb
  BY DEF KeysAnswered
<1> SUFFICES ASSUME ~raced', faults = 0
             PROVE  /\ One(flight') /\ (\A q \in flight' : KeyWaits(q)')
                    /\ flight' = {} => Agreed'
  BY <1>1 DEF KeysAgree
<1>2. ~raced
  BY <1>1 DEF KeysLoaded, KeyCreated, KeyToggled, KeyRevoked, Finish, Send
<1>3. One(flight) /\ KeyWaits(r) /\ r.mine
  BY <1>2 DEF KeysAgree, KeyWaits
<1>4. CASE KeysLoaded(r)
  <2>1. flight' = {}
    BY <1>3, <1>4, FinishedAlone DEF KeysLoaded
  <2>2. r.kind \in {"list", "reload"} /\ (r.st = "ok" => keyList' = r.rows)
    BY <1>4 DEF KeysLoaded, KeyLoads
  <2>3. keyList' = keyDb
    BY <1>1, <1>3, <2>2 DEF KeyWaits
  <2>4. QED
    BY <1>1, <2>1, <2>3 DEF One, Agreed
<1>5. CASE KeyToggled(r)
  <2>1. flight' = {} /\ r.kind = "toggle"
    BY <1>3, <1>5, FinishedAlone DEF KeyToggled
  <2>2. CASE r.st # "ok"
    BY <1>1, <1>3, <1>5, <2>1, <2>2 DEF KeyToggled, KeyWaits, Agreed, One
  <2>3. CASE r.st = "ok"
    <3>1. PICK v : v = ~r.row.enabled
      OBVIOUS
    <3>2. v \in BOOLEAN
      BY <3>1, Zenon
    <3>3. keyList' = Switched(keyList, r.row.id, v, FALSE)
      BY <1>5, <2>3, <3>1 DEF KeyToggled, Switched
    <3>4. keyList \subseteq KeyRow /\ FALSE \in BOOLEAN
      BY DEF KeysTyped, KeyFields
    <3>5. Switches(keyList') = Patched(Switches(keyList), r.row.id, v)
      BY <3>2, <3>3, <3>4, PatchedWhenSwitched
    <3>6. Patched(Switches(keyList), r.row.id, v) = Switches(keyDb)
      BY <1>3, <2>1, <2>3, <3>1 DEF KeyWaits
    <3>7. Agreed'
      BY <1>1, <3>5, <3>6 DEF Agreed
    <3>8. QED
      BY <2>1, <3>7 DEF One
  <2>4. QED
    BY <2>2, <2>3
<1>6. CASE KeyCreated(r) \/ KeyRevoked(r)
  <2>1. /\ r.kind \in {"create", "revoke"} /\ keyList' = keyList
        /\ \/ r.st # "ok" /\ Finish(r)
           \/ \E kind \in {"list", "reload"} : Send({r}, kind, None)
    BY <1>6 DEF KeyCreated, KeyRevoked
  <2>2. CASE r.st # "ok" /\ Finish(r)
    <3>1. flight' = {}
      BY <1>3, <2>2, FinishedAlone
    <3>2. Agreed'
      BY <1>1, <1>3, <2>1, <2>2 DEF KeyWaits, Agreed
    <3>3. QED
      BY <3>1, <3>2 DEF One
  <2>3. CASE \E kind \in {"list", "reload"} : Send({r}, kind, None)
    <3>1. PICK kind \in {"list", "reload"} : Send({r}, kind, None)
      BY <2>3
    <3>2. PICK a : Is(a, kind, None, "sent", {}, TRUE) /\ flight' = {a}
      BY <3>1, SentAlone
    <3>3. KeyWaits(a)'
      BY <3>1, <3>2 DEF KeyWaits, Is
    <3>4. QED
      BY <3>2, <3>3 DEF One
  <2>4. QED
    BY <2>1, <2>2, <2>3
<1>7. QED
  BY <1>1, <1>3, <1>4, <1>5, <1>6

LEMMA KeysAgreeLost == ASSUME KeysAgree, NEW r, Lose(r) PROVE KeysAgree'
BY DEF KeysAgree, Lose

\* What the page of virtual keys keeps, in all.
KeysInv == KeysFlags /\ KeysTyped /\ KeysAgree

LEMMA KeysInvInit == KeysInit => KeysInv
BY KeysFlagsInit, KeysTypedInit, KeysAgreeInit DEF KeysInv

LEMMA KeysInvNext == KeysInv /\ [KeysNext]_<<pageVars, keyVars>> => KeysInv'
<1> SUFFICES ASSUME KeysInv, [KeysNext]_<<pageVars, keyVars>> PROVE KeysInv'
  OBVIOUS
<1>1. KeysFlags /\ KeysTyped /\ KeysAgree
  BY DEF KeysInv
<1>2. KeysFlags' /\ KeysTyped'
  BY <1>1, KeysFlagsNext, KeysTypedNext
<1>3. KeysAgree'
  <2>1. CASE UNCHANGED <<pageVars, keyVars>>
    BY <1>1, <2>1 DEF pageVars, keyVars, keyUI, KeysAgree, KeyWaits, Agreed
  <2>2. QED
    BY <1>1, <2>1, KeysAgreeServer, KeysAgreeOperator, KeysAgreeArrived, KeysAgreeLost DEF KeysNext
<1>4. QED
  BY <1>2, <1>3 DEF KeysInv
-----------------------------------------------------------------------------
(***************************************************************************)
(* The page of the routing configuration: types, and that the server has   *)
(* one row of a kind and name.                                             *)
(***************************************************************************)
RoutingRequest(r) ==
    /\ Shaped(r)
    /\ r.kind \in {"list", "relist", "save", "delete"}
    /\ r.kind = "save" => r.row \in RoutingRow
    /\ r.kind \in {"list", "relist"} /\ r.st = "ok" => r.rows \subseteq RoutingRow

OneOfAName(S) == \A a, b \in S : SameRow(a, b) => a = b

\* The variables of the page one by one.
RoutingFields ==
    /\ rtList \subseteq RoutingRow
    /\ rtDialog \in RoutingRow \cup {None}
    /\ rtEditor \in Editor \cup {None}
    /\ rtLoading \in BOOLEAN /\ rtBusy \in BOOLEAN /\ rtEarly \in BOOLEAN /\ rtGuess \in BOOLEAN

RoutingTyped ==
    /\ rtDb \subseteq RoutingRow /\ OneOfAName(rtDb)
    /\ RoutingFields
    /\ \A r \in flight : RoutingRequest(r)

LEMMA RoutingTypedIsTypeOK == RoutingTyped => RoutingTypeOK
BY DEF RoutingTyped, RoutingTypeOK, RoutingFields, OneOfAName

LEMMA ProviderRows == [kind : {"provider"}, name : Names, val : Secrets] \subseteq RoutingRow
BY DEF RoutingRow, RowNamed

LEMMA AsShownTyped == ASSUME NEW row \in RoutingRow PROVE AsShown(row) \in RoutingRow
<1>1. CASE row.kind = "provider"
  <2>1. row \in [kind : {"provider"}, name : Names, val : Secrets]
    BY <1>1 DEF RoutingRow, RowNamed
  <2>2. [i \in DOMAIN row.val |-> "masked"] \in Secrets
    BY <2>1 DEF Secrets
  <2>3. AsShown(row) = [row EXCEPT !.val = [i \in DOMAIN row.val |-> "masked"]]
    BY <1>1 DEF AsShown
  <2>4. AsShown(row) \in [kind : {"provider"}, name : Names, val : Secrets]
    BY <2>1, <2>2, <2>3
  <2>5. QED
    BY <2>4, ProviderRows
<1>2. CASE row.kind # "provider"
  BY <1>2 DEF AsShown
<1>3. QED
  BY <1>1, <1>2

\* The keys put back are keys, and the row keeps its kind and name.
LEMMA AsStoredTyped ==
    ASSUME rtDb \subseteq RoutingRow, NEW row \in RoutingRow
    PROVE  AsStored(row) \in RoutingRow /\ SameRow(AsStored(row), row)
<1>1. CASE row.kind = "provider"
  <2>1. row \in [kind : {"provider"}, name : Names, val : Secrets]
    BY <1>1 DEF RoutingRow, RowNamed
  <2>2. PICK old : old = Previous(row)
    OBVIOUS
  <2>3. old \in RoutingRow /\ old.kind = "provider"
    BY <1>1, <2>2 DEF Previous, SameRow
  <2>4. old.val \in Secrets
    BY <2>3 DEF RoutingRow, RowNamed
  <2>5. PICK keys : keys = Preserved(row.val, old.val)
    OBVIOUS
  <2>6. keys \in Secrets
    <3>1. row.val \in Seq({"used", "typed", "masked"}) /\ old.val \in Seq({"used", "typed", "masked"})
      BY <2>1, <2>4 DEF Secrets
    <3>2. keys = [i \in 1 .. Len(row.val) |->
                    IF row.val[i] = "masked" /\ i <= Len(old.val) THEN old.val[i] ELSE row.val[i]]
      BY <2>5, <3>1 DEF Preserved
    <3>3. \A i \in 1 .. Len(row.val) : keys[i] \in {"used", "typed", "masked"}
      BY <3>1, <3>2
    <3>4. keys \in [1 .. Len(row.val) -> {"used", "typed", "masked"}] /\ Len(row.val) \in Nat
      BY <3>1, <3>2, <3>3
    <3>5. QED
      BY <3>4 DEF Secrets
  <2>7. AsStored(row) = [row EXCEPT !.val = keys]
    BY <1>1, <2>2, <2>5 DEF AsStored
  <2>8. AsStored(row) \in [kind : {"provider"}, name : Names, val : Secrets]
    BY <2>1, <2>6, <2>7
  <2>9. QED
    BY <2>1, <2>7, <2>8, ProviderRows DEF SameRow
<1>2. CASE row.kind # "provider"
  BY <1>2 DEF AsStored, SameRow
<1>3. QED
  BY <1>1, <1>2

\* A deletion leaves rows with the names they had.
LEMMA WithoutTyped ==
    ASSUME rtDb \subseteq RoutingRow, OneOfAName(rtDb), NEW row
    PROVE  /\ Without(row) \subseteq RoutingRow /\ OneOfAName(Without(row))
           /\ \A q \in Without(row) : ~SameRow(q, row) /\ \E p \in rtDb : SameRow(p, q)
           /\ \A p \in rtDb : SameRow(p, row) \/ \E q \in Without(row) : SameRow(q, p)
<1> DEFINE Cut(q) == IF q.kind = "route" THEN [q EXCEPT !.val = @ \ {row.name}] ELSE q
<1>1. ASSUME NEW q \in RoutingRow PROVE Cut(q) \in RoutingRow /\ SameRow(Cut(q), q)
  <2>1. CASE q.kind = "route"
    <3>1. q \in [kind : {"route"}, name : Names, val : SUBSET Names]
      BY <2>1 DEF RoutingRow, RowNamed
    <3>2. Cut(q) = [q EXCEPT !.val = q.val \ {row.name}]
      BY <2>1
    <3>3. Cut(q) \in [kind : {"route"}, name : Names, val : SUBSET Names]
      BY <3>1, <3>2
    <3>4. QED
      BY <3>1, <3>2, <3>3 DEF RoutingRow, RowNamed, SameRow
  <2>2. CASE q.kind # "route"
    BY <2>2 DEF SameRow
  <2>3. QED
    BY <2>1, <2>2
<1>2. PICK left : /\ left = IF row.kind = "provider" THEN Stripped(row.name) ELSE rtDb
                  /\ Without(row) = {q \in left : ~SameRow(q, row)}
  BY DEF Without
<1>3. left = rtDb \/ left = {Cut(q) : q \in rtDb}
  BY <1>2 DEF Stripped
<1>4. left \subseteq RoutingRow
  BY <1>1, <1>3
<1>5. OneOfAName(left)
  <2>1. CASE left = {Cut(q) : q \in rtDb}
    <3>1. SUFFICES ASSUME NEW x \in left, NEW y \in left, SameRow(x, y) PROVE x = y
      BY DEF OneOfAName
    <3>2. PICK a \in rtDb, b \in rtDb : x = Cut(a) /\ y = Cut(b)
      BY <2>1
    <3>3. SameRow(x, a) /\ SameRow(y, b)
      BY <1>1, <3>2
    <3>4. SameRow(a, b)
      BY <3>1, <3>3 DEF SameRow
    <3>5. a = b
      BY <3>4 DEF OneOfAName
    <3>6. QED
      BY <3>2, <3>5
  <2>2. QED
    BY <1>3, <2>1
<1>6. \A q \in left : \E p \in rtDb : SameRow(p, q)
  <2>1. CASE left = {Cut(q) : q \in rtDb}
    <3>1. ASSUME NEW p \in rtDb PROVE SameRow(p, Cut(p))
      BY <1>1 DEF SameRow
    <3>2. QED
      BY <2>1, <3>1
  <2>2. QED
    BY <1>3, <2>1 DEF SameRow
<1>7. \A p \in rtDb : \E q \in left : SameRow(q, p)
  <2>1. CASE left = {Cut(q) : q \in rtDb}
    <3>1. ASSUME NEW p \in rtDb PROVE SameRow(Cut(p), p)
      BY <1>1
    <3>2. QED
      BY <2>1, <3>1
  <2>2. QED
    BY <1>3, <2>1 DEF SameRow
<1>8. QED
  BY <1>2, <1>4, <1>5, <1>6, <1>7 DEF OneOfAName, SameRow

LEMMA RoutingTypedInit == RoutingInit => RoutingTyped
<1> SUFFICES ASSUME RoutingInit PROVE RoutingTyped
  OBVIOUS
<1>1. PICK a : flight = {a} /\ Is(a, "list", None, "sent", {}, TRUE)
  BY AskIs DEF RoutingInit, PageInit
<1>2. \A r \in flight : RoutingRequest(r)
  BY <1>1 DEF Is, RoutingRequest
<1>3. PICK n \in Names :
         rtDb \in {{}, {[kind |-> "rate", name |-> n, val |-> 1]},
                   {[kind |-> "provider", name |-> n, val |-> <<"used", "used">>],
                    [kind |-> "route", name |-> n, val |-> Names]}}
  BY DEF RoutingInit
<1>4. rtDb \subseteq RoutingRow /\ OneOfAName(rtDb)
  <2>1. <<"used", "used">> \in Secrets
    BY DEF Secrets
  <2>2. /\ [kind |-> "provider", name |-> n, val |-> <<"used", "used">>] \in RoutingRow
        /\ [kind |-> "route", name |-> n, val |-> Names] \in RoutingRow
        /\ [kind |-> "rate", name |-> n, val |-> 1] \in RoutingRow
    BY <2>1 DEF RoutingRow, RowNamed
  <2>3. rtDb \subseteq RoutingRow
    BY <1>3, <2>2
  <2>4. OneOfAName(rtDb)
    BY <1>3 DEF OneOfAName, SameRow
  <2>5. QED
    BY <2>3, <2>4
<1>5. RoutingFields
  BY DEF RoutingInit, RoutingFields
<1>6. QED
  BY <1>2, <1>4, <1>5 DEF RoutingTyped

LEMMA RoutingTypedServer == RoutingTyped /\ RoutingServer => RoutingTyped'
<1> SUFFICES ASSUME RoutingTyped, NEW r \in flight,
                    ServeRouting(r) \/ ServeUpsert(r) \/ ServeDeleteRow(r),
                    UNCHANGED <<rtUI, rtPast>>
             PROVE  RoutingTyped'
  BY DEF RoutingServer
<1>0. rtDb \subseteq RoutingRow /\ OneOfAName(rtDb) /\ RoutingFields /\ RoutingRequest(r) /\ Shaped(r)
  BY DEF RoutingTyped, RoutingRequest
<1>1. /\ rtDb' \subseteq RoutingRow /\ OneOfAName(rtDb')
      /\ \E st, rows : /\ Answer(r, st, r.row, rows)
                       /\ r.kind \in {"list", "relist"} => rows \subseteq RoutingRow
  <2>1. CASE ServeRouting(r)
    <3>1. PICK rows : rows = {AsShown(row) : row \in rtDb}
      OBVIOUS
    <3>2. Answer(r, "ok", r.row, rows) /\ rtDb' = rtDb
      BY <2>1, <3>1 DEF ServeRouting
    <3>3. rows \subseteq RoutingRow
      BY <1>0, <3>1, AsShownTyped
    <3>4. QED
      BY <1>0, <3>2, <3>3
  <2>2. CASE ServeUpsert(r)
    <3>1. /\ r.kind = "save" /\ Answer(r, "ok", r.row, {})
          /\ rtDb' = {row \in rtDb : ~SameRow(row, r.row)} \cup {AsStored(r.row)}
      BY <2>2 DEF ServeUpsert
    <3>2. AsStored(r.row) \in RoutingRow /\ SameRow(AsStored(r.row), r.row)
      BY <1>0, <3>1, AsStoredTyped DEF RoutingRequest
    <3>3. OneOfAName(rtDb')
      BY <1>0, <3>1, <3>2 DEF OneOfAName, SameRow
    <3>4. QED
      BY <1>0, <3>1, <3>2, <3>3
  <2>3. CASE ServeDeleteRow(r)
    <3>1. PICK st : r.kind = "delete" /\ Answer(r, st, r.row, {}) /\ rtDb' = Without(r.row)
      BY <2>3 DEF ServeDeleteRow
    <3>2. rtDb' \subseteq RoutingRow /\ OneOfAName(rtDb')
      BY <1>0, <3>1, WithoutTyped
    <3>3. QED
      BY <3>1, <3>2
  <2>4. QED
    BY <2>1, <2>2, <2>3
<1>2. PICK a, st, rows :
        /\ Becomes(r, a, st, r.row, rows)
        /\ r.kind \in {"list", "relist"} => rows \subseteq RoutingRow
  BY <1>0, <1>1, AnswerBy
<1>3. RoutingRequest(a)
  BY <1>0, <1>2 DEF RoutingRequest, Becomes, Is
<1>4. \A q \in flight' : RoutingRequest(q)
  BY <1>2, <1>3 DEF RoutingTyped, Becomes
<1>5. RoutingFields'
  BY <1>0 DEF RoutingFields, rtUI, rtPast
<1>6. QED
  BY <1>1, <1>4, <1>5 DEF RoutingTyped

LEMMA RoutingTypedSent ==
    ASSUME \A r \in flight : RoutingRequest(r),
           NEW done, NEW kind, NEW row, Send(done, kind, row),
           kind \in {"list", "relist", "save", "delete"},
           kind = "save" => row \in RoutingRow
    PROVE  \A r \in flight' : RoutingRequest(r)
<1>1. PICK a : Sends(done, a, kind, row)
  BY SendBy
<1>2. RoutingRequest(a)
  BY <1>1 DEF Sends, Is, RoutingRequest
<1>3. QED
  BY <1>1, <1>2 DEF Sends

LEMMA RoutingTypedLeft ==
    ASSUME \A r \in flight : RoutingRequest(r), RevisitRouting
    PROVE  \A r \in flight' : RoutingRequest(r)
<1>1. PICK a : /\ Is(a, "list", None, "sent", {}, TRUE)
               /\ flight' = Orphan(RoutingLoads) \cup {a}
  BY AskIs DEF RevisitRouting
<1>2. RoutingRequest(a)
  BY <1>1 DEF Is, RoutingRequest
<1>3. ASSUME NEW q \in Orphan(RoutingLoads) PROVE RoutingRequest(q)
  <2>1. PICK r \in flight : Orphaned(q, r)
    BY <1>3, OrphanBy DEF Shapes, RoutingRequest
  <2>2. QED
    BY <2>1 DEF Orphaned, Is, RoutingRequest
<1>4. QED
  BY <1>1, <1>2, <1>3

LEMMA RetypedAreKeys ==
    ASSUME NEW keys \in Secrets, NEW v \in Retyped(keys)
    PROVE  v \in Secrets
<1>1. <<"typed">> \in Secrets
  BY DEF Secrets
<1>2. \A i \in DOMAIN keys : [keys EXCEPT ![i] = "typed"] \in Secrets
  BY DEF Secrets
<1>3. Append(keys, "typed") \in Secrets
  BY DEF Secrets
<1>4. QED
  BY <1>1, <1>2, <1>3 DEF Retyped

\* What the operator types keeps an editor one, and what it was sent.
LEMMA EditorFilled ==
    ASSUME rtEditor \in Editor, FillEditor
    PROVE  rtEditor' \in Editor /\ rtEditor'.sent = rtEditor.sent
<1> DEFINE R == RowNamed(Names \cup {None})
<1>1. PICK row \in R, sent \in BOOLEAN : rtEditor = [row |-> row, sent |-> sent]
  BY DEF Editor
<1>2. \A x \in R : [row |-> x, sent |-> sent] \in Editor
  BY DEF Editor
<1>3. \E x \in R : rtEditor' = [row |-> x, sent |-> sent]
  <2>1. CASE \E n \in Names : rtEditor' = [rtEditor EXCEPT !.row.name = n]
    <3>1. PICK n \in Names : rtEditor' = [rtEditor EXCEPT !.row.name = n]
      BY <2>1
    <3>2. rtEditor' = [row |-> [row EXCEPT !.name = n], sent |-> sent]
      BY <1>1, <3>1
    <3>3. [row EXCEPT !.name = n] \in R
      BY DEF RowNamed
    <3>4. QED
      BY <3>2, <3>3
  <2>2. CASE \E v \in Values(rtEditor.row) : rtEditor' = [rtEditor EXCEPT !.row.val = v]
    <3>1. PICK v \in Values(row) : rtEditor' = [rtEditor EXCEPT !.row.val = v]
      BY <1>1, <2>2
    <3>2. rtEditor' = [row |-> [row EXCEPT !.val = v], sent |-> sent]
      BY <1>1, <3>1
    <3>3. CASE row.kind = "provider"
      <4>1. row \in [kind : {"provider"}, name : Names \cup {None}, val : Secrets]
        BY <3>3 DEF RowNamed
      <4>2. v \in Secrets
        BY <3>1, <3>3, <4>1, RetypedAreKeys DEF Values
      <4>3. [row EXCEPT !.val = v] \in R
        BY <4>1, <4>2 DEF RowNamed
      <4>4. QED
        BY <3>2, <4>3
    <3>4. CASE row.kind = "route"
      <4>1. row \in [kind : {"route"}, name : Names \cup {None}, val : SUBSET Names]
        BY <3>4 DEF RowNamed
      <4>2. v \in SUBSET Names
        BY <3>1, <3>4 DEF Values
      <4>3. [row EXCEPT !.val = v] \in R
        BY <4>1, <4>2 DEF RowNamed
      <4>4. QED
        BY <3>2, <4>3
    <3>5. CASE row.kind = "rate"
      <4>1. row \in [kind : {"rate"}, name : Names \cup {None}, val : 1 .. 2]
        BY <3>5 DEF RowNamed
      <4>2. v \in 1 .. 2
        BY <3>1, <3>5 DEF Values
      <4>3. [row EXCEPT !.val = v] \in R
        BY <4>1, <4>2 DEF RowNamed
      <4>4. QED
        BY <3>2, <4>3
    <3>6. QED
      BY <3>3, <3>4, <3>5 DEF RowNamed
  <2>3. QED
    BY <2>1, <2>2 DEF FillEditor
<1>4. QED
  BY <1>1, <1>2, <1>3

LEMMA EditorOpened ==
    ASSUME rtList \subseteq RoutingRow, OpenEditor
    PROVE  rtEditor' \in Editor /\ rtEditor'.sent = FALSE
<1>1. PICK row \in rtList \cup {NewProvider} :
        rtEditor' = [row |-> row, sent |-> FALSE]
  BY DEF OpenEditor
<1>2. row \in RowNamed(Names \cup {None})
  <2>1. CASE row \in rtList
    BY <2>1 DEF RoutingRow, RowNamed
  <2>2. CASE row = NewProvider
    BY <2>2 DEF NewProvider, RowNamed, Secrets
  <2>3. QED
    BY <1>1, <2>1, <2>2
<1>3. QED
  BY <1>1, <1>2 DEF Editor

LEMMA EditorSaved ==
    ASSUME rtEditor \in Editor, SaveEditor
    PROVE  /\ rtEditor' \in Editor /\ rtEditor'.sent = TRUE
           /\ rtEditor.row \in RoutingRow /\ Send({}, "save", rtEditor.row)
<1>1. PICK row \in RowNamed(Names \cup {None}), sent \in BOOLEAN : rtEditor = [row |-> row, sent |-> sent]
  BY DEF Editor
<1>2. rtEditor' = [row |-> row, sent |-> TRUE] /\ row.name # None /\ Send({}, "save", rtEditor.row)
  BY <1>1 DEF SaveEditor, Submittable
<1>3. row \in RoutingRow
  BY <1>1, <1>2 DEF RoutingRow, RowNamed
<1>4. QED
  BY <1>1, <1>2, <1>3 DEF Editor

LEMMA RoutingTypedOperator == RoutingTyped /\ RoutingOperator => RoutingTyped'
<1> SUFFICES ASSUME RoutingTyped, RoutingOperator PROVE RoutingTyped'
  OBVIOUS
<1>0. RoutingFields /\ \A r \in flight : RoutingRequest(r)
  BY DEF RoutingTyped
<1>1. rtDb' \subseteq RoutingRow /\ OneOfAName(rtDb')
  BY DEF RoutingTyped, RoutingOperator, FillEditor
<1>2. RoutingFields' /\ \A r \in flight' : RoutingRequest(r)
  <2>1. CASE FillEditor
    <3>1. rtEditor' \in Editor
      BY <1>0, <2>1, EditorFilled DEF RoutingFields, FillEditor
    <3>2. UNCHANGED <<flight, rtList, rtLoading, rtDialog, rtBusy, rtEarly>>
      BY <2>1 DEF FillEditor, pageVars
    <3>3. rtGuess' = rtGuess \/ rtGuess' \in BOOLEAN
      BY <2>1, Zenon DEF FillEditor
    <3>4. QED
      BY <1>0, <3>1, <3>2, <3>3 DEF RoutingFields
  <2>2. CASE OpenEditor
    <3>1. rtEditor' \in Editor
      BY <1>0, <2>2, EditorOpened DEF RoutingFields
    <3>2. /\ UNCHANGED <<flight, rtList, rtLoading, rtDialog, rtBusy>>
          /\ rtEarly' = (rtEarly \/ \E r \in flight : r.kind = "save" /\ r.mine)
          /\ \E row : rtGuess' = (rtGuess \/ (HasMask(row) /\ flight # {}))
      BY <2>2 DEF OpenEditor
    <3>3. rtEarly' \in BOOLEAN /\ rtGuess' \in BOOLEAN
      BY <1>0, <3>2, Zenon DEF RoutingFields
    <3>4. QED
      BY <1>0, <3>1, <3>2, <3>3 DEF RoutingFields
  <2>3. CASE SaveEditor
    <3>1. rtEditor' \in Editor /\ rtEditor.row \in RoutingRow /\ Send({}, "save", rtEditor.row)
      BY <1>0, <2>3, EditorSaved DEF RoutingFields, SaveEditor
    <3>2. \A r \in flight' : RoutingRequest(r)
      BY <1>0, <3>1, RoutingTypedSent
    <3>3. UNCHANGED <<rtList, rtLoading, rtDialog, rtBusy, rtEarly, rtGuess>>
      BY <2>3 DEF SaveEditor, rtPast
    <3>4. QED
      BY <1>0, <3>1, <3>2, <3>3 DEF RoutingFields
  <2>4. CASE CloseEditor \/ AskDeleteRow \/ CancelDeleteRow
    BY <1>0, <2>4 DEF CloseEditor, AskDeleteRow, CancelDeleteRow, RoutingFields, rtPast
  <2>5. CASE ConfirmDeleteRow
    <3>1. Send({}, "delete", rtDialog) /\ rtBusy' = TRUE
      BY <2>5 DEF ConfirmDeleteRow
    <3>2. \A r \in flight' : RoutingRequest(r)
      BY <1>0, <3>1, RoutingTypedSent
    <3>3. UNCHANGED <<rtList, rtLoading, rtEditor, rtDialog, rtEarly, rtGuess>>
      BY <2>5 DEF ConfirmDeleteRow, rtPast
    <3>4. QED
      BY <1>0, <3>1, <3>2, <3>3 DEF RoutingFields
  <2>6. CASE RevisitRouting
    <3>1. \A r \in flight' : RoutingRequest(r)
      BY <1>0, <2>6, RoutingTypedLeft
    <3>2. RoutingMounted /\ rtEarly' = rtEarly /\ rtGuess' = rtGuess
      BY <2>6 DEF RevisitRouting, rtPast
    <3>3. QED
      BY <1>0, <3>1, <3>2 DEF RoutingFields, RoutingMounted
  <2>7. QED
    BY <2>1, <2>2, <2>3, <2>4, <2>5, <2>6 DEF RoutingOperator
<1>3. QED
  BY <1>1, <1>2 DEF RoutingTyped

LEMMA RoutingTypedArrived == RoutingTyped /\ RoutingAnswered => RoutingTyped'
<1> SUFFICES ASSUME RoutingTyped, NEW r \in flight, r.st # "sent",
                    IF r.mine
                    THEN RoutingLoaded(r) \/ RowSaved(r) \/ RowDeleted(r)
                    ELSE Finish(r) /\ UNCHANGED rtUI,
                    rtDb' = rtDb, rtEarly' = rtEarly, rtGuess' = rtGuess
             PROVE  RoutingTyped'
  BY DEF RoutingAnswered, rtPast
<1>0. RoutingFields /\ RoutingRequest(r) /\ \A q \in flight : RoutingRequest(q)
  BY DEF RoutingTyped
<1>f. Finish(r) => \A q \in flight' : RoutingRequest(q)
  BY <1>0 DEF Finish
<1>s. ASSUME NEW kind \in {"list", "relist"}, Send({r}, kind, None)
      PROVE  \A q \in flight' : RoutingRequest(q)
  BY <1>0, <1>s, RoutingTypedSent
<1>1. RoutingFields' /\ \A q \in flight' : RoutingRequest(q)
  <2>1. CASE ~r.mine
    BY <1>0, <1>f, <2>1 DEF rtUI, RoutingFields
  <2>2. CASE RoutingLoaded(r)
    <3>1. /\ r.kind \in {"list", "relist"} /\ Finish(r)
          /\ rtList' = IF r.st = "ok" THEN r.rows ELSE rtList
          /\ rtLoading' = FALSE /\ rtBusy' = (rtBusy /\ r.kind # "relist")
          /\ UNCHANGED <<rtEditor, rtDialog>>
      BY <2>2 DEF RoutingLoaded, RoutingLoads
    <3>2. rtList' \subseteq RoutingRow
      BY <1>0, <3>1 DEF RoutingFields, RoutingRequest
    <3>3. rtBusy' \in BOOLEAN
      BY <1>0, <3>1, Zenon DEF RoutingFields
    <3>4. QED
      BY <1>0, <1>f, <3>1, <3>2, <3>3 DEF RoutingFields
  <2>3. CASE RowSaved(r)
    <3>1. /\ UNCHANGED <<rtList, rtDialog, rtBusy>>
          /\ rtEditor' \in {None, rtEditor} /\ rtLoading' \in {TRUE, rtLoading}
          /\ Finish(r) \/ Send({r}, "list", None)
      BY <2>3 DEF RowSaved
    <3>2. QED
      BY <1>0, <1>f, <1>s, <3>1 DEF RoutingFields
  <2>4. CASE RowDeleted(r)
    <3>1. /\ UNCHANGED <<rtList, rtEditor>>
          /\ rtDialog' \in {None, rtDialog} /\ rtLoading' \in {TRUE, rtLoading}
          /\ rtBusy' \in {FALSE, rtBusy}
          /\ Finish(r) \/ Send({r}, "relist", None)
      BY <2>4 DEF RowDeleted
    <3>2. QED
      BY <1>0, <1>f, <1>s, <3>1 DEF RoutingFields
  <2>5. QED
    BY <2>1, <2>2, <2>3, <2>4
<1>2. QED
  BY <1>1 DEF RoutingTyped

LEMMA RoutingTypedLost ==
    ASSUME RoutingTyped, NEW r \in flight, Lose(r), UNCHANGED rtVars
    PROVE  RoutingTyped'
<1>1. RoutingRequest(r) /\ Shaped(r)
  BY DEF RoutingTyped, RoutingRequest
<1>2. PICK a : Becomes(r, a, "failed", r.row, r.rows)
  BY <1>1, LoseBy
<1>3. RoutingRequest(a)
  BY <1>1, <1>2 DEF RoutingRequest, Becomes, Is
<1>4. \A q \in flight' : RoutingRequest(q)
  BY <1>2, <1>3 DEF RoutingTyped, Becomes
<1>5. QED
  BY <1>4 DEF RoutingTyped, RoutingFields, rtVars, rtUI, rtPast

LEMMA RoutingTypedNext == RoutingTyped /\ [RoutingNext]_<<pageVars, rtVars>> => RoutingTyped'
<1> SUFFICES ASSUME RoutingTyped, [RoutingNext]_<<pageVars, rtVars>> PROVE RoutingTyped'
  OBVIOUS
<1>1. CASE UNCHANGED <<pageVars, rtVars>>
  BY <1>1 DEF RoutingTyped, RoutingFields, pageVars, rtVars, rtUI, rtPast
<1>2. QED
  BY <1>1, RoutingTypedServer, RoutingTypedOperator, RoutingTypedArrived, RoutingTypedLost
     DEF RoutingNext
-----------------------------------------------------------------------------
(***************************************************************************)
(* The routing rows shown are the server's, but for the API keys, while no *)
(* save or deletion waits for the load that follows it.  A deletion that   *)
(* is refused has stripped no route either: its row is there, or went by a *)
(* deletion that stripped what could be stripped.                          *)
(***************************************************************************)
RowsShown == {AsShown(row) : row \in rtDb}

Present(row) == \E q \in rtDb : SameRow(q, row)
Harmless(row) == Present(row) \/ Without(row) = rtDb

RowWaits(r) ==
    /\ r.mine
    /\ r.kind \in {"list", "relist"} => r.st = "sent" \/ (r.st = "ok" /\ r.rows = RowsShown)
    /\ r.kind \in {"save", "delete"} /\ r.st # "ok" => rtList = RowsShown
    /\ r.kind = "save" /\ r.st = "sent" => rtDialog = None \/ Present(rtDialog)
    /\ r.kind = "delete" /\ r.st = "sent" =>
          Harmless(r.row) /\ (rtDialog = None \/ Present(rtDialog) \/ SameRow(rtDialog, r.row))

RowsHarmless ==
    /\ rtDialog # None => Harmless(rtDialog)
    /\ \A row \in rtList : Harmless(row)

RoutingAgree ==
    /\ faults \in Nat
    /\ rtEditor = None \/ rtDialog = None
    /\ ~raced /\ faults = 0 =>
          /\ One(flight)
          /\ \A r \in flight : RowWaits(r)
          /\ flight = {} => rtList = RowsShown
          /\ RowsHarmless

LEMMA RowsStay ==
    rtDb' = rtDb => /\ RowsShown' = RowsShown
                    /\ \A row : Present(row)' = Present(row) /\ Harmless(row)' = Harmless(row)
BY DEF RowsShown, Present, Harmless, Without, Stripped

LEMMA ShownPresent == \A row \in RowsShown : Present(row)
<1> SUFFICES ASSUME NEW q \in rtDb PROVE Present(AsShown(q))
  BY DEF RowsShown
<1>1. SameRow(q, AsShown(q))
  BY DEF AsShown, SameRow
<1>2. QED
  BY <1>1 DEF Present

\* Deleted once more, a row takes nothing along.
LEMMA WithoutTwice ==
    ASSUME rtDb \subseteq RoutingRow, NEW row, NEW again,
           rtDb' = Without(row), SameRow(again, row)
    PROVE  Without(again)' = rtDb'
<1>0. again.name = row.name /\ again.kind = row.kind
  BY DEF SameRow
<1>1. \A q \in rtDb' : ~SameRow(q, row)
  BY DEF Without
<1>2. SUFFICES (row.kind = "provider") => Stripped(row.name)' = rtDb'
  <2>1. Without(again)' = {q \in (IF row.kind = "provider" THEN Stripped(row.name)' ELSE rtDb') : ~SameRow(q, row)}
    BY <1>0 DEF Without, Stripped, SameRow
  <2>2. (IF row.kind = "provider" THEN Stripped(row.name)' ELSE rtDb') = rtDb'
    BY <1>2
  <2>3. QED
    BY <1>1, <2>1, <2>2
<1> SUFFICES ASSUME row.kind = "provider" PROVE Stripped(row.name)' = rtDb'
  OBVIOUS
<1>3. CASE \E q \in rtDb : q.kind = "route" /\ q.val = {row.name}
  <2>1. PICK q \in rtDb : q.kind = "route" /\ q.val = {row.name}
    BY <1>3
  <2>2. q \in rtDb'
    BY <1>3, <2>1 DEF Without, Stripped, SameRow
  <2>3. QED
    BY <2>1, <2>2 DEF Stripped
<1>4. CASE ~\E q \in rtDb : q.kind = "route" /\ q.val = {row.name}
  <2> DEFINE Cut(q) == IF q.kind = "route" THEN [q EXCEPT !.val = @ \ {row.name}] ELSE q
  <2>1. rtDb' \subseteq {Cut(q) : q \in rtDb}
    BY <1>4 DEF Without, Stripped
  <2>2. ASSUME NEW p \in rtDb' PROVE Cut(p) = p
    <3>1. PICK q \in rtDb : p = Cut(q)
      BY <2>1
    <3>2. CASE q.kind = "route"
      <4>1. PICK n \in Names, v \in SUBSET Names : q = [kind |-> "route", name |-> n, val |-> v]
        BY <3>2 DEF RoutingRow, RowNamed
      <4>2. p = [kind |-> "route", name |-> n, val |-> v \ {row.name}]
        BY <3>1, <4>1
      <4>3. Cut(p) = [kind |-> "route", name |-> n, val |-> (v \ {row.name}) \ {row.name}]
        BY <4>2
      <4>4. (v \ {row.name}) \ {row.name} = v \ {row.name}
        OBVIOUS
      <4>5. QED
        BY <4>2, <4>3, <4>4
    <3>3. CASE q.kind # "route"
      BY <3>1, <3>3
    <3>4. QED
      BY <3>2, <3>3
  <2>3. {Cut(p) : p \in rtDb'} = rtDb'
    BY <2>2
  <2>4. Stripped(row.name)' = rtDb' \/ Stripped(row.name)' = {Cut(p) : p \in rtDb'}
    BY DEF Stripped
  <2>5. QED
    BY <2>3, <2>4
<1>5. QED
  BY <1>3, <1>4

LEMMA RoutingAgreeInit == RoutingInit => RoutingAgree
<1> SUFFICES ASSUME RoutingInit PROVE RoutingAgree
  OBVIOUS
<1>1. PICK a : flight = {a} /\ Is(a, "list", None, "sent", {}, TRUE)
  BY AskIs DEF RoutingInit, PageInit
<1>2. faults = 0 /\ rtEditor = None /\ RowsHarmless
  BY DEF RoutingInit, PageInit, RowsHarmless
<1>3. RowWaits(a)
  BY <1>1 DEF RowWaits, Is
<1>4. QED
  BY <1>1, <1>2, <1>3 DEF RoutingAgree, One

LEMMA RoutingAgreeServer ==
    ASSUME RoutingTyped, RoutingAgree, RoutingServer
    PROVE  RoutingAgree'
<1>1. PICK r \in flight :
        /\ r.st = "sent"
        /\ ServeRouting(r) \/ ServeUpsert(r) \/ ServeDeleteRow(r)
        /\ UNCHANGED <<rtUI, rtPast>>
  BY DEF RoutingServer
<1>2. Shaped(r) /\ rtList' = rtList /\ rtDialog' = rtDialog /\ rtEditor' = rtEditor
  BY <1>1 DEF RoutingTyped, RoutingRequest, rtUI
<1>3. faults' = faults /\ raced' = raced
  BY <1>1 DEF ServeRouting, ServeUpsert, ServeDeleteRow, Answer
<1> SUFFICES ASSUME ~raced, faults = 0
             PROVE  One(flight') /\ (\A q \in flight' : RowWaits(q)') /\ flight' # {} /\ RowsHarmless'
  BY <1>2, <1>3 DEF RoutingAgree
<1>4. One(flight) /\ RowWaits(r) /\ RowsHarmless
  BY DEF RoutingAgree
<1>5. ASSUME NEW st, NEW row, NEW rows, Answer(r, st, row, rows), st # "sent",
             r.kind \in {"list", "relist"} => st = "ok" /\ rows = RowsShown',
             r.kind \in {"save", "delete"} /\ st # "ok" => rtList = RowsShown'
      PROVE  One(flight') /\ (\A q \in flight' : RowWaits(q)') /\ flight' # {}
  <2>1. PICK a : Becomes(r, a, st, row, rows) /\ flight' = {a}
    BY <1>2, <1>4, <1>5, AnswerBy, AnsweredAlone
  <2>2. RowWaits(a)'
    BY <1>2, <1>4, <1>5, <2>1 DEF RowWaits, Becomes, Is
  <2>3. QED
    BY <2>1, <2>2 DEF One
<1>6. CASE ServeRouting(r)
  <2>1. Answer(r, "ok", r.row, RowsShown) /\ rtDb' = rtDb /\ r.kind \in {"list", "relist"}
    BY <1>6 DEF ServeRouting, RoutingLoads, RowsShown
  <2>2. RowsHarmless'
    BY <1>2, <1>4, <2>1, RowsStay DEF RowsHarmless
  <2>3. QED
    BY <1>5, <2>1, <2>2, RowsStay
<1>7. CASE ServeUpsert(r)
  <2>1. /\ r.kind = "save" /\ Answer(r, "ok", r.row, {})
        /\ rtDb' = {row \in rtDb : ~SameRow(row, r.row)} \cup {AsStored(r.row)}
    BY <1>7 DEF ServeUpsert
  <2>2. SameRow(AsStored(r.row), r.row)
    BY <2>1, AsStoredTyped DEF RoutingTyped, RoutingRequest
  <2>3. ASSUME NEW row, Present(row) PROVE Present(row)'
    BY <2>1, <2>2, <2>3 DEF Present, SameRow
  <2>4. \A row \in rtList : Present(row)
    BY <1>1, <1>4, <2>1, ShownPresent DEF RowWaits
  <2>5. rtDialog # None => Present(rtDialog)
    BY <1>1, <1>4, <2>1 DEF RowWaits
  <2>6. RowsHarmless'
    BY <1>2, <2>3, <2>4, <2>5 DEF RowsHarmless, Harmless
  <2>7. QED
    BY <1>5, <2>1, <2>6
<1>8. CASE ServeDeleteRow(r)
  <2>1. PICK st : /\ st = (IF \E q \in rtDb : SameRow(q, r.row) THEN "ok" ELSE "failed")
                  /\ Answer(r, st, r.row, {}) /\ rtDb' = Without(r.row) /\ r.kind = "delete"
    BY <1>8 DEF ServeDeleteRow
  <2>2. /\ rtList = RowsShown /\ Harmless(r.row)
        /\ rtDialog = None \/ Present(rtDialog) \/ SameRow(rtDialog, r.row)
    BY <1>1, <1>4, <2>1 DEF RowWaits
  <2>3. st # "ok" => rtDb' = rtDb
    BY <2>1, <2>2 DEF Harmless, Present
  <2>4. ASSUME NEW row, Present(row) \/ SameRow(row, r.row) PROVE Harmless(row)'
    <3>1. CASE SameRow(row, r.row)
      <4>1. Without(row)' = rtDb'
        BY <2>1, <3>1, WithoutTwice DEF RoutingTyped
      <4>2. QED
        BY <4>1 DEF Harmless
    <3>2. CASE Present(row) /\ ~SameRow(row, r.row)
      <4>1. PICK p \in rtDb : SameRow(p, row)
        BY <3>2 DEF Present
      <4>a. ~SameRow(p, r.row)
        BY <3>2, <4>1 DEF SameRow
      <4>2. \E q \in rtDb' : SameRow(q, p)
        <5>1. \E q \in Without(r.row) : SameRow(q, p)
          BY <4>1, <4>a, WithoutTyped DEF RoutingTyped
        <5>2. QED
          BY <2>1, <5>1
      <4>3. QED
        BY <4>1, <4>2 DEF Harmless, Present, SameRow
    <3>3. QED
      BY <2>4, <3>1, <3>2
  <2>5. RowsHarmless'
    BY <1>2, <2>2, <2>4, ShownPresent DEF RowsHarmless
  <2>6. st # "ok" => rtList = RowsShown'
    BY <2>2, <2>3, RowsStay
  <2>7. st # "sent"
    BY <2>1
  <2>8. QED
    BY <1>5, <2>1, <2>5, <2>6, <2>7
<1>9. QED
  BY <1>1, <1>6, <1>7, <1>8

LEMMA RoutingAgreeOperator ==
    ASSUME RoutingAgree, RoutingOperator
    PROVE  RoutingAgree'
<1>0. rtEditor = None \/ rtDialog = None
  BY DEF RoutingAgree
<1>1. rtDb' = rtDb /\ faults' = faults /\ RowsShown' = RowsShown
  BY RowsStay DEF RoutingOperator, FillEditor, pageVars
<1>2. CASE FillEditor \/ OpenEditor \/ CloseEditor \/ CancelDeleteRow
  <2>1. UNCHANGED <<flight, raced, rtList>> /\ (rtDialog' = rtDialog \/ rtDialog' = None)
    BY <1>2 DEF FillEditor, OpenEditor, CloseEditor, CancelDeleteRow, pageVars
  <2>2. rtEditor' = None \/ rtDialog' = None
    BY <1>0, <1>2 DEF FillEditor, OpenEditor, CloseEditor, CancelDeleteRow, RoutingUncovered
  <2>3. RowsHarmless => RowsHarmless'
    BY <1>1, <2>1, RowsStay DEF RowsHarmless
  <2>4. ASSUME NEW r, RowWaits(r) PROVE RowWaits(r)'
    BY <1>1, <2>1, <2>4, RowsStay DEF RowWaits
  <2>5. QED
    BY <1>1, <2>1, <2>2, <2>3, <2>4 DEF RoutingAgree
<1>a. CASE AskDeleteRow
  <2>1. UNCHANGED <<flight, raced, rtList>> /\ rtDialog' \in rtList /\ rtEditor' = None
    BY <1>a DEF AskDeleteRow, RoutingUncovered
  <2>2. RowsHarmless => RowsHarmless'
    BY <1>1, <2>1, RowsStay DEF RowsHarmless
  <2>3. ASSUME NEW r, RowWaits(r) PROVE RowWaits(r)'
    <3>1. rtList = RowsShown => Present(rtDialog')
      BY <2>1, ShownPresent
    <3>2. Present(rtDialog') => Present(rtDialog)'
      BY <1>1 DEF Present
    <3>3. QED
      BY <1>1, <2>1, <2>3, <3>1, <3>2, RowsStay DEF RowWaits
  <2>4. QED
    BY <1>1, <2>1, <2>2, <2>3 DEF RoutingAgree
<1>3. CASE SaveEditor \/ ConfirmDeleteRow
  <2>1. PICK kind, row : /\ Send({}, kind, row)
                         /\ \/ kind = "save" /\ rtDialog = None /\ rtDialog' = None
                            \/ kind = "delete" /\ row = rtDialog /\ rtDialog # None /\ UNCHANGED <<rtDialog, rtEditor>>
    BY <1>0, <1>3 DEF SaveEditor, ConfirmDeleteRow
  <2>2. rtList' = rtList /\ rtDialog' = rtDialog
    BY <1>3 DEF SaveEditor, ConfirmDeleteRow
  <2>a. rtEditor' = None \/ rtDialog' = None
    BY <1>0, <2>1
  <2>3. SUFFICES ASSUME ~raced', faults = 0
                 PROVE  One(flight') /\ (\A q \in flight' : RowWaits(q)') /\ flight' # {} /\ RowsHarmless'
    BY <1>1, <2>a DEF RoutingAgree
  <2>0. /\ ~raced /\ flight \subseteq {}
        /\ \E a : Is(a, kind, row, "sent", {}, TRUE) /\ flight' = {a}
    BY <2>1, <2>3, SentAlone
  <2>4. PICK a : ~raced /\ flight = {} /\ Is(a, kind, row, "sent", {}, TRUE) /\ flight' = {a}
    BY <2>0
  <2>5. rtList' = RowsShown' /\ RowsHarmless
    BY <1>1, <2>2, <2>3, <2>4 DEF RoutingAgree
  <2>b. RowsHarmless'
    BY <1>1, <2>2, <2>5, RowsStay DEF RowsHarmless
  <2>6. RowWaits(a)'
    <3>1. CASE kind = "save"
      BY <2>1, <2>4, <2>5, <3>1 DEF RowWaits, Is
    <3>2. CASE kind = "delete"
      <4>1. a.row = rtDialog' /\ a.kind = "delete" /\ a.st = "sent" /\ a.mine
        BY <2>1, <2>2, <2>4, <3>2 DEF Is
      <4>2. Harmless(rtDialog)'
        BY <2>b, <2>1, <2>2, <3>2 DEF RowsHarmless
      <4>3. QED
        BY <2>5, <4>1, <4>2 DEF RowWaits, SameRow
    <3>3. QED
      BY <2>1, <3>1, <3>2
  <2>7. QED
    BY <2>4, <2>6, <2>b DEF One
<1>4. CASE RevisitRouting
  <2>0. rtEditor' = None /\ RowsHarmless'
    BY <1>4 DEF RevisitRouting, RoutingMounted, RowsHarmless
  <2>1. SUFFICES ASSUME ~raced'
                 PROVE  One(flight') /\ (\A q \in flight' : RowWaits(q)') /\ flight' # {}
    BY <1>1, <2>0 DEF RoutingAgree
  <2>2. PICK a : Is(a, "list", None, "sent", {}, TRUE) /\ flight' = {a}
    BY <1>4, <2>1, LeftAlone DEF RevisitRouting
  <2>3. RowWaits(a)'
    BY <2>2 DEF RowWaits, Is
  <2>4. QED
    BY <2>2, <2>3 DEF One
<1>5. QED
  BY <1>2, <1>a, <1>3, <1>4 DEF RoutingOperator

LEMMA RoutingAgreeArrived ==
    ASSUME RoutingAgree, RoutingAnswered
    PROVE  RoutingAgree'
<1>1. PICK r \in flight :
        /\ r.st # "sent"
        /\ IF r.mine
           THEN RoutingLoaded(r) \/ RowSaved(r) \/ RowDeleted(r)
           ELSE Finish(r) /\ UNCHANGED rtUI
        /\ faults' = faults /\ rtDb' = rtDb
  BY DEF RoutingAnswered
<1>0. (rtEditor' = rtEditor \/ rtEditor' = None) /\ (rtDialog' = rtDialog \/ rtDialog' = None)
  BY <1>1 DEF RoutingLoaded, RowSaved, RowDeleted, rtUI
<1> SUFFICES ASSUME ~raced', faults = 0
             PROVE  /\ One(flight') /\ (\A q \in flight' : RowWaits(q)')
                    /\ flight' = {} => rtList' = RowsShown
                    /\ RowsHarmless'
  BY <1>0, <1>1, RowsStay DEF RoutingAgree
<1>2. ~raced
  BY <1>1 DEF RoutingLoaded, RowSaved, RowDeleted, Finish, Send
<1>3. One(flight) /\ RowWaits(r) /\ r.mine /\ RowsHarmless
  BY <1>2 DEF RoutingAgree, RowWaits
<1>4. CASE RoutingLoaded(r)
  <2>1. flight' = {}
    BY <1>3, <1>4, FinishedAlone DEF RoutingLoaded
  <2>2. r.kind \in {"list", "relist"} /\ (r.st = "ok" => rtList' = r.rows)
    BY <1>4 DEF RoutingLoaded, RoutingLoads
  <2>3. rtList' = RowsShown
    BY <1>1, <1>3, <2>2 DEF RowWaits
  <2>4. \A row \in rtList' : Harmless(row)'
    BY <1>1, <2>3, ShownPresent, RowsStay DEF Harmless
  <2>5. RowsHarmless'
    BY <1>0, <1>1, <1>3, <2>4, RowsStay DEF RowsHarmless
  <2>6. QED
    BY <2>1, <2>3, <2>5 DEF One
<1>5. CASE RowSaved(r) \/ RowDeleted(r)
  <2>1. /\ r.kind \in {"save", "delete"} /\ rtList' = rtList
        /\ \/ r.st # "ok" /\ Finish(r)
           \/ \E kind \in {"list", "relist"} : Send({r}, kind, None)
    BY <1>5 DEF RowSaved, RowDeleted
  <2>h. RowsHarmless'
    BY <1>0, <1>1, <1>3, <2>1, RowsStay DEF RowsHarmless
  <2>2. CASE r.st # "ok" /\ Finish(r)
    <3>1. flight' = {}
      BY <1>3, <2>2, FinishedAlone
    <3>2. rtList' = RowsShown
      BY <1>3, <2>1, <2>2 DEF RowWaits
    <3>3. QED
      BY <2>h, <3>1, <3>2 DEF One
  <2>3. CASE \E kind \in {"list", "relist"} : Send({r}, kind, None)
    <3>1. PICK kind \in {"list", "relist"} : Send({r}, kind, None)
      BY <2>3
    <3>2. PICK a : Is(a, kind, None, "sent", {}, TRUE) /\ flight' = {a}
      BY <3>1, SentAlone
    <3>3. RowWaits(a)'
      BY <3>1, <3>2 DEF RowWaits, Is
    <3>4. QED
      BY <2>h, <3>2, <3>3 DEF One
  <2>4. QED
    BY <2>1, <2>2, <2>3
<1>6. QED
  BY <1>1, <1>3, <1>4, <1>5

LEMMA RoutingAgreeLost == ASSUME RoutingAgree, NEW r, Lose(r), UNCHANGED rtVars PROVE RoutingAgree'
<1>1. faults' \in Nat /\ faults' # 0 /\ rtEditor' = rtEditor /\ rtDialog' = rtDialog
  BY DEF RoutingAgree, Lose, rtVars, rtUI
<1>2. QED
  BY <1>1 DEF RoutingAgree
-----------------------------------------------------------------------------
(***************************************************************************)
(* Masked keys: those of the open editor, and of the save under way, have  *)
(* each a stored key at its place, and what is stored has none, while      *)
(* nothing was opened too early, put under another name, overtaken or lost.*)
(***************************************************************************)
IsMask(row, i) == i \in DOMAIN row.val /\ row.val[i] = "masked"

\* Every masked key of row has a key at its place in `other`, of that name.
Covers(other, row) == SameRow(other, row) /\ \A i : IsMask(row, i) => i \in DOMAIN other.val
Backed(row) == HasMask(row) => \E q \in rtDb : Covers(q, row)

MaskWaits(r) ==
    /\ r.kind = "save" /\ r.st = "sent" => Backed(r.row)
    /\ rtEditor # None /\ HasMask(rtEditor.row) /\ r.st = "sent" =>
          r.kind # "delete" /\ (r.kind = "save" => Covers(r.row, rtEditor.row))

NoMasks == \A row \in rtDb : ~HasMask(row)

RoutingMasks ==
    ~rtGuess /\ ~raced /\ faults = 0 =>
        /\ NoMasks
        /\ \A r \in flight : MaskWaits(r)
        /\ rtEditor # None => Backed(rtEditor.row)

LEMMA RoutingMasksInit == RoutingInit => RoutingMasks
<1> SUFFICES ASSUME RoutingInit PROVE RoutingMasks
  OBVIOUS
<1>1. PICK a : flight = {a} /\ Is(a, "list", None, "sent", {}, TRUE)
  BY AskIs DEF RoutingInit, PageInit
<1>2. rtEditor = None /\ NoMasks
  BY DEF RoutingInit, NoMasks, HasMask
<1>3. MaskWaits(a)
  BY <1>1, <1>2 DEF MaskWaits, Is
<1>4. QED
  BY <1>1, <1>2, <1>3 DEF RoutingMasks

\* The keys that are put back cover every masked one.
LEMMA StoredUnmasked ==
    ASSUME rtDb \subseteq RoutingRow, OneOfAName(rtDb), NoMasks,
           NEW row \in RoutingRow, Backed(row)
    PROVE  /\ ~HasMask(AsStored(row))
           /\ \A other : Covers(row, other) /\ row.kind = "provider" => Covers(AsStored(row), other)
<1>1. CASE row.kind = "provider"
  <2>1. row.val \in Secrets /\ row \in [kind : {"provider"}, name : Names, val : Secrets]
    BY <1>1 DEF RoutingRow, RowNamed
  <2>2. PICK old : old = Previous(row)
    OBVIOUS
  <2>3. PICK keys : keys = Preserved(row.val, old.val)
    OBVIOUS
  <2>4. AsStored(row) = [row EXCEPT !.val = keys] /\ AsStored(row).val = keys
    BY <1>1, <2>1, <2>2, <2>3 DEF AsStored
  <2>5. DOMAIN keys = DOMAIN row.val
    BY <2>3 DEF Preserved
  <2>6. ASSUME NEW i \in DOMAIN keys PROVE keys[i] # "masked"
    <3>1. CASE row.val[i] # "masked"
      BY <2>3, <2>5, <2>6, <3>1 DEF Preserved
    <3>2. CASE row.val[i] = "masked"
      <4>1. HasMask(row) /\ IsMask(row, i)
        BY <1>1, <2>5, <3>2 DEF HasMask, IsMask
      <4>2. PICK q \in rtDb : SameRow(q, row) /\ i \in DOMAIN q.val
        BY <4>1 DEF Backed, Covers
      <4>3. old = q
        BY <2>2, <4>2 DEF Previous, OneOfAName, SameRow
      <4>4. q.val \in Secrets
        BY <1>1, <4>2 DEF RoutingRow, RowNamed, SameRow
      <4>5. i <= Len(q.val)
        BY <4>2, <4>4 DEF Secrets
      <4>6. keys[i] = q.val[i]
        BY <2>3, <2>5, <2>6, <3>2, <4>3, <4>5 DEF Preserved
      <4>7. q.val[i] # "masked"
        BY <1>1, <4>2 DEF NoMasks, HasMask, SameRow
      <4>8. QED
        BY <4>6, <4>7
    <3>3. QED
      BY <3>1, <3>2
  <2>7. ~HasMask(AsStored(row))
    BY <2>4, <2>6 DEF HasMask
  <2>8. \A other : Covers(row, other) => Covers(AsStored(row), other)
    BY <2>1, <2>4, <2>5 DEF Covers, SameRow
  <2>9. QED
    BY <2>7, <2>8
<1>2. CASE row.kind # "provider"
  BY <1>2 DEF AsStored, HasMask
<1>3. QED
  BY <1>1, <1>2

LEMMA RoutingMasksServer ==
    ASSUME RoutingTyped, RoutingAgree, RoutingMasks, RoutingServer
    PROVE  RoutingMasks'
<1>1. PICK r \in flight :
        /\ r.st = "sent"
        /\ ServeRouting(r) \/ ServeUpsert(r) \/ ServeDeleteRow(r)
        /\ UNCHANGED <<rtUI, rtPast>>
  BY DEF RoutingServer
<1>2. Shaped(r) /\ rtEditor' = rtEditor /\ rtGuess' = rtGuess
  BY <1>1 DEF RoutingTyped, RoutingRequest, rtUI, rtPast
<1>3. faults' = faults /\ raced' = raced
  BY <1>1 DEF ServeRouting, ServeUpsert, ServeDeleteRow, Answer
<1> SUFFICES ASSUME ~rtGuess, ~raced, faults = 0
             PROVE  /\ NoMasks' /\ (\A q \in flight' : MaskWaits(q)')
                    /\ rtEditor # None => Backed(rtEditor.row)'
  BY <1>2, <1>3 DEF RoutingMasks
<1>4. /\ One(flight) /\ NoMasks /\ MaskWaits(r)
      /\ rtEditor # None => Backed(rtEditor.row)
  BY DEF RoutingAgree, RoutingMasks
<1>5. \A q \in flight' : MaskWaits(q)'
  <2>1. \E st, rows : st # "sent" /\ Answer(r, st, r.row, rows)
    BY <1>1 DEF ServeRouting, ServeUpsert, ServeDeleteRow
  <2>2. PICK a, st, rows : st # "sent" /\ Becomes(r, a, st, r.row, rows) /\ flight' = {a}
    BY <1>2, <1>4, <2>1, AnswerBy, AnsweredAlone
  <2>3. a.st # "sent"
    BY <2>2 DEF Becomes, Is
  <2>4. MaskWaits(a)'
    BY <2>3 DEF MaskWaits
  <2>5. QED
    BY <2>2, <2>4
<1>6. CASE ServeRouting(r)
  <2>1. rtDb' = rtDb
    BY <1>6 DEF ServeRouting
  <2>2. QED
    BY <1>2, <1>4, <1>5, <2>1 DEF NoMasks, Backed
<1>7. CASE ServeUpsert(r)
  <2>1. /\ r.kind = "save" /\ r.row \in RoutingRow
        /\ rtDb' = {row \in rtDb : ~SameRow(row, r.row)} \cup {AsStored(r.row)}
    BY <1>7 DEF ServeUpsert, RoutingTyped, RoutingRequest
  <2>2. rtDb \subseteq RoutingRow /\ OneOfAName(rtDb) /\ Backed(r.row)
    BY <1>1, <1>4, <2>1 DEF RoutingTyped, MaskWaits
  <2>3. /\ ~HasMask(AsStored(r.row))
        /\ \A other : Covers(r.row, other) /\ r.row.kind = "provider" => Covers(AsStored(r.row), other)
    BY <1>4, <2>1, <2>2, StoredUnmasked
  <2>4. NoMasks'
    BY <1>4, <2>1, <2>3 DEF NoMasks
  <2>5. ASSUME rtEditor # None, HasMask(rtEditor.row) PROVE \E q \in rtDb' : Covers(q, rtEditor.row)
    <3>1. Covers(r.row, rtEditor.row)
      BY <1>1, <1>4, <2>1, <2>5 DEF MaskWaits
    <3>2. r.row.kind = "provider"
      BY <2>5, <3>1 DEF Covers, SameRow, HasMask
    <3>3. QED
      BY <2>1, <2>3, <3>1, <3>2
  <2>6. QED
    BY <1>2, <1>5, <2>4, <2>5 DEF Backed
<1>8. CASE ServeDeleteRow(r)
  <2>1. r.kind = "delete" /\ rtDb' = Without(r.row)
    BY <1>8 DEF ServeDeleteRow
  <2>2. rtEditor # None => ~HasMask(rtEditor.row)
    BY <1>1, <1>4, <2>1 DEF MaskWaits
  <2>3. ASSUME NEW q \in rtDb' PROVE ~HasMask(q)
    <3> DEFINE Cut(p) == IF p.kind = "route" THEN [p EXCEPT !.val = @ \ {r.row.name}] ELSE p
    <3>1. q \in rtDb \/ \E p \in rtDb : q = Cut(p)
      BY <2>1 DEF Without, Stripped
    <3>2. ASSUME NEW p \in rtDb, q = Cut(p) PROVE ~HasMask(q)
      <4>1. CASE p.kind = "route"
        <5>1. p \in [kind : {"route"}, name : Names, val : SUBSET Names]
          BY <4>1 DEF RoutingTyped, RoutingRow, RowNamed
        <5>2. q.kind = "route"
          BY <3>2, <4>1, <5>1
        <5>3. QED
          BY <5>2 DEF HasMask
      <4>2. CASE p.kind # "route"
        BY <1>4, <3>2, <4>2 DEF NoMasks
      <4>3. QED
        BY <4>1, <4>2
    <3>3. QED
      BY <1>4, <3>1, <3>2 DEF NoMasks
  <2>4. QED
    BY <1>2, <1>5, <2>2, <2>3 DEF NoMasks, Backed
<1>9. QED
  BY <1>1, <1>6, <1>7, <1>8

\* Typing takes masked keys away and adds none.
LEMMA MasksShrink ==
    ASSUME NEW keys \in Secrets, NEW v \in Retyped(keys), NEW i \in DOMAIN v, v[i] = "masked"
    PROVE  i \in DOMAIN keys /\ keys[i] = "masked"
<1>0. keys \in Seq({"used", "typed", "masked"})
  BY DEF Secrets
<1>1. CASE v = <<"typed">>
  BY <1>1
<1>2. CASE \E j \in DOMAIN keys : v = [keys EXCEPT ![j] = "typed"]
  BY <1>0, <1>2
<1>3. CASE v = Append(keys, "typed")
  BY <1>0, <1>3
<1>4. QED
  BY <1>1, <1>2, <1>3 DEF Retyped

LEMMA FilledMasks ==
    ASSUME rtEditor \in Editor, FillEditor, ~rtGuess', HasMask(rtEditor'.row)
    PROVE  HasMask(rtEditor.row) /\ \A other : Covers(other, rtEditor.row) => Covers(other, rtEditor'.row)
<1>1. PICK row \in RowNamed(Names \cup {None}), sent \in BOOLEAN : rtEditor = [row |-> row, sent |-> sent]
  BY DEF Editor
<1>2. CASE \E n \in Names :
             /\ rtEditor' = [rtEditor EXCEPT !.row.name = n]
             /\ rtGuess' = (rtGuess \/ (HasMask(rtEditor.row) /\ n # rtEditor.row.name))
  <2>1. PICK n \in Names :
             /\ rtEditor' = [rtEditor EXCEPT !.row.name = n]
             /\ ~(HasMask(rtEditor.row) /\ n # rtEditor.row.name)
    BY <1>2
  <2>2. rtEditor' = [row |-> [row EXCEPT !.name = n], sent |-> sent]
    BY <1>1, <2>1
  <2>3. rtEditor'.row = [row EXCEPT !.name = n]
    BY <2>2
  <2>4. HasMask(row)
    BY <2>3 DEF HasMask, RowNamed
  <2>5. n = row.name
    BY <1>1, <2>1, <2>4
  <2>6. rtEditor'.row = row
    BY <2>3, <2>5 DEF RowNamed
  <2>7. QED
    BY <1>1, <2>4, <2>6
<1>3. CASE \E v \in Values(rtEditor.row) : rtEditor' = [rtEditor EXCEPT !.row.val = v]
  <2>1. PICK v \in Values(row) : rtEditor' = [rtEditor EXCEPT !.row.val = v]
    BY <1>1, <1>3
  <2>2. rtEditor' = [row |-> [row EXCEPT !.val = v], sent |-> sent]
    BY <1>1, <2>1
  <2>3. rtEditor'.row = [row EXCEPT !.val = v]
    BY <2>2
  <2>4. /\ rtEditor'.row.kind = row.kind /\ rtEditor'.row.name = row.name /\ rtEditor'.row.val = v
        /\ row.kind = "provider"
    BY <2>3 DEF HasMask, RowNamed
  <2>5. v \in Retyped(row.val) /\ row.val \in Secrets
    BY <2>1, <2>4 DEF Values, RowNamed
  <2>6. \A i : IsMask(rtEditor'.row, i) => IsMask(row, i)
    BY <2>4, <2>5, MasksShrink DEF IsMask
  <2>7. HasMask(row)
    BY <2>4, <2>6 DEF HasMask, IsMask
  <2>8. QED
    BY <1>1, <2>4, <2>6, <2>7 DEF Covers, SameRow
<1>4. QED
  BY <1>2, <1>3 DEF FillEditor

LEMMA RoutingMasksOperator ==
    ASSUME RoutingTyped, RoutingAgree, RoutingMasks, RoutingOperator
    PROVE  RoutingMasks'
<1>0. RoutingFields /\ (rtEditor = None \/ rtDialog = None)
  BY DEF RoutingTyped, RoutingAgree
<1>1. rtDb' = rtDb /\ faults' = faults
  BY DEF RoutingOperator, FillEditor, pageVars
<1>2. NoMasks' = NoMasks /\ \A row : Backed(row)' = Backed(row)
  BY <1>1 DEF NoMasks, Backed
<1>3. CASE FillEditor
  <2>g. rtGuess => rtGuess'
    BY <1>3, Zenon DEF FillEditor
  <2>1. /\ UNCHANGED <<flight, raced>> /\ rtEditor # None /\ (rtGuess => rtGuess')
    BY <1>3, <2>g DEF FillEditor, pageVars
  <2>2. SUFFICES ASSUME ~rtGuess', ~raced, faults = 0
                 PROVE  (\A r \in flight : MaskWaits(r)') /\ Backed(rtEditor'.row)
    BY <1>1, <1>2, <2>1 DEF RoutingMasks
  <2>3. (\A r \in flight : MaskWaits(r)) /\ Backed(rtEditor.row)
    BY <2>1, <2>2 DEF RoutingMasks
  <2>4. HasMask(rtEditor'.row) =>
          HasMask(rtEditor.row) /\ \A other : Covers(other, rtEditor.row) => Covers(other, rtEditor'.row)
    BY <1>0, <1>3, <2>1, <2>2, FilledMasks DEF RoutingFields
  <2>5. Backed(rtEditor'.row)
    BY <2>3, <2>4 DEF Backed
  <2>6. ASSUME NEW r \in flight PROVE MaskWaits(r)'
    <3>1. MaskWaits(r)
      BY <2>3
    <3>2. r.kind = "save" /\ r.st = "sent" => Backed(r.row)'
      BY <1>2, <3>1 DEF MaskWaits
    <3>3. HasMask(rtEditor'.row) /\ r.st = "sent" =>
            r.kind # "delete" /\ (r.kind = "save" => Covers(r.row, rtEditor'.row))
      BY <2>1, <2>4, <3>1 DEF MaskWaits
    <3>4. QED
      BY <3>2, <3>3 DEF MaskWaits
  <2>7. QED
    BY <2>5, <2>6
<1>4. CASE OpenEditor
  <2>1. PICK row \in rtList \cup {NewProvider} :
          /\ rtEditor' = [row |-> row, sent |-> FALSE]
          /\ rtGuess' = (rtGuess \/ (HasMask(row) /\ flight # {}))
    BY <1>4 DEF OpenEditor
  <2>2. UNCHANGED <<flight, raced, rtList>> /\ rtEditor'.row = row
    BY <1>4, <2>1 DEF OpenEditor
  <2>3. SUFFICES ASSUME ~rtGuess', ~raced, faults = 0
                 PROVE  (\A r \in flight : MaskWaits(r)') /\ Backed(row)
    BY <1>1, <1>2, <2>1, <2>2 DEF RoutingMasks
  <2>4. ~rtGuess /\ (HasMask(row) => flight = {})
    BY <2>1, <2>3
  <2>5. ASSUME HasMask(row) PROVE Backed(row)
    <3>1. row \in RowsShown
      <4>1. row # NewProvider
        BY <2>5 DEF HasMask, NewProvider
      <4>2. rtList = RowsShown
        BY <2>3, <2>4, <2>5 DEF RoutingAgree
      <4>3. QED
        BY <2>1, <4>1, <4>2
    <3>2. PICK q \in rtDb : row = AsShown(q)
      BY <3>1 DEF RowsShown
    <3>3. q \in RoutingRow /\ q.kind = "provider"
      BY <2>5, <3>2 DEF RoutingTyped, AsShown, HasMask
    <3>4. q \in [kind : {"provider"}, name : Names, val : Secrets]
      BY <3>3 DEF RoutingRow, RowNamed
    <3>5. row = [q EXCEPT !.val = [i \in DOMAIN q.val |-> "masked"]]
      BY <3>2, <3>3 DEF AsShown
    <3>6. SameRow(q, row) /\ DOMAIN row.val = DOMAIN q.val
      BY <3>4, <3>5 DEF SameRow
    <3>7. QED
      BY <3>6 DEF Backed, Covers, IsMask
  <2>6. Backed(row)
    BY <2>5 DEF Backed
  <2>7. ASSUME NEW r \in flight PROVE MaskWaits(r)'
    <3>1. MaskWaits(r)
      BY <2>3, <2>4 DEF RoutingMasks
    <3>2. ~HasMask(rtEditor'.row)
      BY <2>2, <2>4, <2>7
    <3>3. QED
      BY <1>2, <3>1, <3>2 DEF MaskWaits
  <2>8. QED
    BY <2>6, <2>7
<1>5. CASE CloseEditor \/ AskDeleteRow \/ CancelDeleteRow
  <2>1. UNCHANGED <<flight, raced, rtGuess>> /\ (rtEditor' = rtEditor \/ rtEditor' = None)
    BY <1>5 DEF CloseEditor, AskDeleteRow, CancelDeleteRow, rtPast
  <2>2. SUFFICES ASSUME ~rtGuess, ~raced, faults = 0
                 PROVE  \A r \in flight : MaskWaits(r)'
    BY <1>1, <1>2, <2>1 DEF RoutingMasks
  <2>3. \A r \in flight : MaskWaits(r)
    BY <2>2 DEF RoutingMasks
  <2>4. QED
    BY <1>2, <2>1, <2>3 DEF MaskWaits
<1>6. CASE SaveEditor \/ ConfirmDeleteRow
  <2>1. PICK kind, row :
          /\ Send({}, kind, row) /\ rtGuess' = rtGuess
          /\ \/ kind = "save" /\ rtEditor # None /\ row = rtEditor.row /\ rtEditor' = [rtEditor EXCEPT !.sent = TRUE]
             \/ kind = "delete" /\ rtDialog # None /\ rtEditor' = rtEditor
    BY <1>6 DEF SaveEditor, ConfirmDeleteRow, rtPast
  <2>2. SUFFICES ASSUME ~rtGuess, ~raced', faults = 0
                 PROVE  /\ ~raced /\ \A r \in flight' : MaskWaits(r)'
                        /\ rtEditor' # None => Backed(rtEditor'.row)
    BY <1>1, <1>2, <2>1 DEF RoutingMasks
  <2>0. /\ ~raced /\ flight \subseteq {}
        /\ \E a : Is(a, kind, row, "sent", {}, TRUE) /\ flight' = {a}
    BY <2>1, <2>2, SentAlone
  <2>3. PICK a : ~raced /\ flight = {} /\ Is(a, kind, row, "sent", {}, TRUE) /\ flight' = {a}
    BY <2>0
  <2>4. rtEditor # None => Backed(rtEditor.row)
    BY <2>2, <2>3 DEF RoutingMasks
  <2>5. CASE kind = "save"
    <3>1. a.row = rtEditor.row /\ a.kind = "save" /\ rtEditor # None
      BY <2>1, <2>3, <2>5 DEF Is
    <3>2. rtEditor'.row = rtEditor.row
      BY <1>0, <2>1, <2>5, <3>1 DEF RoutingFields, Editor
    <3>3. Covers(a.row, rtEditor'.row)
      BY <3>1, <3>2 DEF Covers, SameRow, IsMask
    <3>4. Backed(a.row)'
      BY <1>2, <2>4, <3>1
    <3>5. MaskWaits(a)'
      BY <3>1, <3>3, <3>4 DEF MaskWaits
    <3>6. QED
      BY <2>3, <2>4, <3>1, <3>2, <3>5
  <2>6. CASE kind = "delete"
    <3>1. rtEditor' = None /\ a.kind = "delete"
      BY <1>0, <2>1, <2>3, <2>6 DEF Is
    <3>2. MaskWaits(a)'
      BY <3>1 DEF MaskWaits
    <3>3. QED
      BY <2>3, <3>1, <3>2
  <2>7. QED
    BY <2>1, <2>5, <2>6
<1>7. CASE RevisitRouting
  <2>1. rtEditor' = None /\ rtGuess' = rtGuess
    BY <1>7 DEF RevisitRouting, RoutingMounted, rtPast
  <2>2. SUFFICES ASSUME ~rtGuess, ~raced', faults = 0 PROVE ~raced /\ \A r \in flight' : MaskWaits(r)'
    BY <1>1, <1>2, <2>1 DEF RoutingMasks
  <2>3. PICK a : ~raced /\ Is(a, "list", None, "sent", {}, TRUE) /\ flight' = {a}
    BY <1>7, <2>2, LeftAlone DEF RevisitRouting
  <2>4. MaskWaits(a)'
    BY <2>1, <2>3 DEF MaskWaits, Is
  <2>5. QED
    BY <2>3, <2>4
<1>8. QED
  BY <1>3, <1>4, <1>5, <1>6, <1>7 DEF RoutingOperator

LEMMA RoutingMasksArrived ==
    ASSUME RoutingAgree, RoutingMasks, RoutingAnswered
    PROVE  RoutingMasks'
<1>1. PICK r \in flight :
        /\ r.st # "sent"
        /\ IF r.mine
           THEN RoutingLoaded(r) \/ RowSaved(r) \/ RowDeleted(r)
           ELSE Finish(r) /\ UNCHANGED rtUI
        /\ faults' = faults /\ rtDb' = rtDb /\ rtGuess' = rtGuess
  BY DEF RoutingAnswered, rtPast
<1>2. rtEditor' = rtEditor \/ rtEditor' = None
  BY <1>1 DEF RoutingLoaded, RowSaved, RowDeleted, rtUI
<1>3. Finish(r) \/ \E kind \in {"list", "relist"} : Send({r}, kind, None)
  BY <1>1 DEF RoutingLoaded, RowSaved, RowDeleted
<1>4. NoMasks' = NoMasks /\ \A row : Backed(row)' = Backed(row)
  BY <1>1 DEF NoMasks, Backed
<1> SUFFICES ASSUME ~rtGuess, ~raced', faults = 0 PROVE ~raced /\ \A q \in flight' : MaskWaits(q)'
  BY <1>1, <1>2, <1>4 DEF RoutingMasks
<1>5. ~raced
  BY <1>3 DEF Finish, Send
<1>6. One(flight)
  BY <1>5 DEF RoutingAgree
<1>7. CASE Finish(r)
  BY <1>5, <1>6, <1>7, FinishedAlone
<1>8. CASE \E kind \in {"list", "relist"} : Send({r}, kind, None)
  <2>1. PICK kind \in {"list", "relist"} : Send({r}, kind, None)
    BY <1>8
  <2>2. PICK a : Is(a, kind, None, "sent", {}, TRUE) /\ flight' = {a}
    BY <2>1, SentAlone
  <2>3. MaskWaits(a)'
    BY <2>1, <2>2 DEF MaskWaits, Is
  <2>4. QED
    BY <1>5, <2>2, <2>3
<1>9. QED
  BY <1>3, <1>7, <1>8
-----------------------------------------------------------------------------
(***************************************************************************)
(* The editor: what was sent from the one that is open, unless it was      *)
(* opened while a save was under way, is all that could close it.          *)
(***************************************************************************)
RoutingEditor ==
    /\ clicks \in Nat
    /\ ~rtEarly /\ rtEditor # None => Mine({"save"}) = {} \/ rtEditor.sent

LEMMA RoutingEditorServer ==
    ASSUME Shapes, RoutingEditor, RoutingServer \/ \E r \in flight : Lose(r) /\ UNCHANGED rtVars
    PROVE  RoutingEditor' /\ rtEditor' = rtEditor
<1>1. \E r \in flight : Lose(r) \/ \E st, rows : Answer(r, st, r.row, rows)
  BY DEF RoutingServer, ServeRouting, ServeUpsert, ServeDeleteRow
<1>2. PICK r, a, st, rows : r \in flight /\ Becomes(r, a, st, r.row, rows) /\ clicks' = clicks
  BY <1>1, AnswerBy, LoseBy DEF Shapes
<1>3. Mine({"save"})' = {} <=> Mine({"save"}) = {}
  BY <1>2, MineWhenAnswered
<1>4. rtEditor' = rtEditor /\ rtEarly' = rtEarly
  BY DEF RoutingServer, rtVars, rtUI, rtPast
<1>5. QED
  BY <1>2, <1>3, <1>4 DEF RoutingEditor

\* Besides, an open editor closes only by a click.
LEMMA RoutingEditorOperator ==
    ASSUME RoutingTyped, RoutingEditor, RoutingOperator
    PROVE  RoutingEditor' /\ (rtEditor # None /\ rtEditor' = None => clicks' # clicks)
<1>0. /\ Shapes /\ RoutingFields /\ clicks \in Nat
      /\ ~rtEarly /\ rtEditor # None => Mine({"save"}) = {} \/ rtEditor.sent
  BY DEF RoutingTyped, RoutingRequest, Shapes, RoutingEditor
<1>1. CASE FillEditor
  <2>1. rtEditor' \in Editor /\ rtEditor'.sent = rtEditor.sent
    BY <1>0, <1>1, EditorFilled DEF RoutingFields, FillEditor
  <2>2. /\ flight' = flight /\ clicks' = clicks /\ rtEarly' = rtEarly /\ rtEditor # None
    BY <1>1 DEF FillEditor, pageVars
  <2>3. Mine({"save"})' = Mine({"save"})
    BY <2>2 DEF Mine
  <2>4. rtEditor' # None
    BY <2>1, EditorAssumption
  <2>5. QED
    BY <1>0, <2>1, <2>2, <2>3, <2>4 DEF RoutingEditor
<1>2. CASE ~FillEditor
  <2>0. clicks' \in Nat /\ clicks' # clicks
    BY <1>0, <1>2 DEF RoutingOperator, Click
  <2>1. CASE OpenEditor
    <3>1. rtEarly' = (rtEarly \/ \E r \in flight : r.kind = "save" /\ r.mine) /\ flight' = flight
      BY <2>1 DEF OpenEditor
    <3>2. ~rtEarly' => Mine({"save"})' = {}
      BY <3>1 DEF Mine
    <3>3. QED
      BY <2>0, <3>2 DEF RoutingEditor
  <2>2. CASE SaveEditor
    <3>1. rtEditor'.sent = TRUE
      BY <1>0, <2>2, EditorSaved DEF RoutingFields, SaveEditor
    <3>2. QED
      BY <2>0, <3>1 DEF RoutingEditor
  <2>3. CASE CloseEditor \/ RevisitRouting
    BY <2>0, <2>3 DEF CloseEditor, RevisitRouting, RoutingMounted, RoutingEditor, rtPast
  <2>4. CASE AskDeleteRow \/ CancelDeleteRow
    <3>1. UNCHANGED <<flight, rtEditor, rtEarly>>
      BY <2>4 DEF AskDeleteRow, CancelDeleteRow, rtPast
    <3>2. QED
      BY <1>0, <2>0, <3>1 DEF RoutingEditor, Mine
  <2>5. CASE ConfirmDeleteRow
    <3>1. Send({}, "delete", rtDialog) /\ UNCHANGED <<rtEditor, rtEarly>>
      BY <2>5 DEF ConfirmDeleteRow, rtPast
    <3>2. PICK a : Sends({}, a, "delete", rtDialog)
      BY <3>1, SendBy
    <3>3. Mine({"save"})' = Mine({"save"})
      BY <1>0, <3>2, MineWhenAdded
    <3>4. QED
      BY <1>0, <2>0, <3>1, <3>3 DEF RoutingEditor
  <2>6. QED
    BY <1>2, <2>0, <2>1, <2>2, <2>3, <2>4, <2>5 DEF RoutingOperator
<1>3. QED
  BY <1>1, <1>2

LEMMA RoutingEditorArrived ==
    ASSUME Shapes, RoutingEditor, RoutingAnswered
    PROVE  /\ RoutingEditor'
           /\ rtEditor # None /\ rtEditor' = None => rtEditor.sent \/ rtEarly
<1>1. PICK r \in flight :
        /\ r.st # "sent"
        /\ IF r.mine
           THEN RoutingLoaded(r) \/ RowSaved(r) \/ RowDeleted(r)
           ELSE Finish(r) /\ UNCHANGED rtUI
        /\ clicks' = clicks /\ rtEarly' = rtEarly
  BY DEF RoutingAnswered, rtPast
<1>2. CASE r.mine /\ RowSaved(r) /\ r.st = "ok"
  <2>1. rtEditor' = None /\ r \in Mine({"save"})
    BY <1>2 DEF RowSaved, Mine
  <2>2. QED
    BY <1>1, <2>1 DEF RoutingEditor
<1>3. CASE ~(r.mine /\ RowSaved(r) /\ r.st = "ok")
  <2>1. rtEditor' = rtEditor
    BY <1>1, <1>3 DEF RoutingLoaded, RowSaved, RowDeleted, rtUI
  <2>2. Finish(r) \/ \E kind \in {"list", "relist"} : Send({r}, kind, None)
    BY <1>1, <1>3 DEF RoutingLoaded, RowSaved, RowDeleted
  <2>3. Mine({"save"})' = Mine({"save"}) \ {r}
    <3>1. CASE Finish(r)
      BY <3>1, MineWhenFinished DEF Finish
    <3>2. CASE \E kind \in {"list", "relist"} : Send({r}, kind, None)
      <4>1. PICK kind, a : kind \in {"list", "relist"} /\ Sends({r}, a, kind, None)
        BY <3>2, SendBy
      <4>2. QED
        BY <4>1, MineWhenSent
    <3>3. QED
      BY <2>2, <3>1, <3>2
  <2>4. QED
    BY <1>1, <2>1, <2>3 DEF RoutingEditor
<1>4. QED
  BY <1>2, <1>3

\* What the page of the routing configuration keeps, in all.
RoutingInv == RoutingTyped /\ RoutingAgree /\ RoutingMasks /\ RoutingEditor

LEMMA RoutingInvInit == RoutingInit => RoutingInv
<1> SUFFICES ASSUME RoutingInit PROVE RoutingInv
  OBVIOUS
<1>1. RoutingEditor
  BY DEF RoutingInit, PageInit, RoutingEditor
<1>2. QED
  BY <1>1, RoutingTypedInit, RoutingAgreeInit, RoutingMasksInit DEF RoutingInv

LEMMA RoutingInvNext == RoutingInv /\ [RoutingNext]_<<pageVars, rtVars>> => RoutingInv'
<1> SUFFICES ASSUME RoutingInv, [RoutingNext]_<<pageVars, rtVars>> PROVE RoutingInv'
  OBVIOUS
<1>0. RoutingTyped /\ RoutingAgree /\ RoutingMasks /\ RoutingEditor /\ Shapes
  BY DEF RoutingInv, RoutingTyped, RoutingRequest, Shapes
<1>1. RoutingTyped'
  BY <1>0, RoutingTypedNext
<1>2. RoutingAgree' /\ RoutingMasks' /\ RoutingEditor'
  <2>1. CASE RoutingServer
    BY <1>0, <2>1, RoutingAgreeServer, RoutingMasksServer, RoutingEditorServer
  <2>2. CASE RoutingOperator
    BY <1>0, <2>2, RoutingAgreeOperator, RoutingMasksOperator, RoutingEditorOperator
  <2>3. CASE RoutingAnswered
    BY <1>0, <2>3, RoutingAgreeArrived, RoutingMasksArrived, RoutingEditorArrived
  <2>4. CASE \E r \in flight : Lose(r) /\ UNCHANGED rtVars
    <3>1. faults' # 0
      BY <1>0, <2>4 DEF Lose, RoutingAgree
    <3>2. RoutingMasks'
      BY <3>1 DEF RoutingMasks
    <3>3. QED
      BY <1>0, <2>4, <3>2, RoutingAgreeLost, RoutingEditorServer
  <2>5. CASE UNCHANGED <<pageVars, rtVars>>
    <3>1. UNCHANGED <<flight, clicks, faults, raced, rtDb, rtList, rtEditor, rtDialog, rtEarly, rtGuess>>
      BY <2>5 DEF pageVars, rtVars, rtUI, rtPast
    <3>2. ASSUME NEW r, RowWaits(r) PROVE RowWaits(r)'
      BY <3>1, <3>2, RowsStay DEF RowWaits
    <3>3. RowsHarmless => RowsHarmless'
      BY <3>1, RowsStay DEF RowsHarmless
    <3>4. RoutingAgree'
      BY <1>0, <3>1, <3>2, <3>3, RowsStay DEF RoutingAgree
    <3>5. RoutingEditor'
      BY <1>0, <3>1 DEF RoutingEditor, Mine
    <3>6. RoutingMasks'
      BY <1>0, <3>1 DEF RoutingMasks, MaskWaits, NoMasks, Backed
    <3>7. QED
      BY <3>4, <3>5, <3>6
  <2>6. QED
    BY <2>1, <2>2, <2>3, <2>4, <2>5 DEF RoutingNext
<1>3. QED
  BY <1>1, <1>2 DEF RoutingInv

LEMMA EditorClosedBy ==
    ASSUME RoutingInv, [RoutingNext]_<<pageVars, rtVars>>, rtEditor # None, rtEditor' = None
    PROVE  clicks' # clicks \/ rtEditor.sent \/ rtEarly
<1>0. RoutingTyped /\ RoutingEditor /\ Shapes
  BY DEF RoutingInv, RoutingTyped, RoutingRequest, Shapes
<1>1. ~UNCHANGED <<pageVars, rtVars>>
  BY DEF rtVars, rtUI
<1>2. QED
  BY <1>0, <1>1, RoutingEditorServer, RoutingEditorOperator, RoutingEditorArrived DEF RoutingNext

\* The secret on the screen goes when the operator is done with it, only.
LEMMA SecretGoneBy ==
    ASSUME KeysFlags, [KeysNext]_<<pageVars, keyVars>>, keyReveal # None, keyReveal' # keyReveal
    PROVE  (keyReveal' = None /\ clicks' # clicks) \/ keyTwice
<1>1. CASE KeysOperator
  <2>1. keyReveal' = None
    BY <1>1 DEF KeysOperator, OpenDrawer, CloseDrawer, SubmitKey, DoneWithSecret, ToggleKey, AskRevoke,
                CancelRevoke, ConfirmRevoke, RevisitKeys, KeysMounted, keyUI
  <2>2. clicks' # clicks
    BY <1>1 DEF KeysOperator, Click, KeysFlags
  <2>3. QED
    BY <2>1, <2>2
<1>2. CASE KeysAnswered
  <2>1. PICK r \in flight :
          IF r.mine
          THEN KeysLoaded(r) \/ KeyCreated(r) \/ KeyToggled(r) \/ KeyRevoked(r)
          ELSE Finish(r) /\ UNCHANGED keyUI
    BY <1>2 DEF KeysAnswered
  <2>2. r.mine /\ r.kind = "create"
    BY <2>1 DEF KeysLoaded, KeyCreated, KeyToggled, KeyRevoked, keyUI
  <2>3. r \in Mine({"create"})
    BY <2>2 DEF Mine
  <2>4. QED
    BY <2>3 DEF KeysFlags
<1>3. ~KeysServer /\ ~UNCHANGED <<pageVars, keyVars>> /\ ~UNCHANGED keyVars
  BY DEF KeysServer, keyVars, keyUI
<1>4. QED
  BY <1>1, <1>2, <1>3 DEF KeysNext
-----------------------------------------------------------------------------
(***************************************************************************)
(* The pages about tenants: what the server does with their requests.      *)
(***************************************************************************)
Table == [Slugs -> TenantRow \cup {None}]

LEMMA RowWritten ==
    ASSUME tenDb \in Table, NEW s \in Slugs, NEW row \in TenantRow \cup {None},
           tenDb' = [tenDb EXCEPT ![s] = row]
    PROVE  tenDb' \in Table /\ tenDb'[s] = row /\ \A t \in Slugs \ {s} : tenDb'[t] = tenDb[t]
BY DEF Table

\* How the rows change when r is answered with this status and these rows.
Stored(r, st, rows) ==
    LET s == r.row.slug
    IN  /\ tenDb' \in Table
        /\ \A t \in Slugs \ {s} : tenDb'[t] = tenDb[t]
        /\ r.kind \notin {"put", "post", "apply", "remove"} =>
             /\ tenDb' = tenDb
             /\ st = Found(s)
             /\ rows = IF r.kind \in {"tenant", "refresh", "edit"} THEN {tenDb[s]} \ {None} ELSE {}
        /\ r.kind = "put" =>
             /\ tenDb[s] = None => tenDb' = tenDb
             /\ tenDb[s] # None => tenDb'[s] \in TenantRow /\ tenDb'[s].of = r.row.data.of
        /\ r.kind = "post" => tenDb' = tenDb \/ tenDb'[s] = r.row.data
        /\ r.kind = "apply" =>
             /\ st = Found(s)
             /\ tenDb[s] = None => tenDb' = tenDb
             /\ tenDb[s] # None => tenDb'[s] \in TenantRow /\ tenDb'[s].of = tenDb[s].of
        /\ r.kind = "remove" => tenDb'[s] = None

LEMMA TableServed ==
    ASSUME Shapes, tenDb \in Table, TableServer,
           \A r \in flight : /\ r.row.slug \in Slugs
                             /\ r.kind \in {"put", "post"} => r.row.data \in TenantRow
    PROVE  \E r \in flight : \E a, st, rows :
             /\ r.st = "sent" /\ Becomes(r, a, st, r.row, rows) /\ Stored(r, st, rows)
             /\ UNCHANGED <<clicks, faults, raced>>
<1>1. PICK r \in flight :
        /\ r.st = "sent"
        /\ CASE r.kind = "put" -> ServePut(r)
             [] r.kind = "post" -> ServePost(r)
             [] r.kind = "apply" -> ServeApply(r)
             [] r.kind = "remove" -> ServeDelete(r)
             [] OTHER -> ServeGet(r)
  BY DEF TableServer
<1> DEFINE s == r.row.slug
<1>2. s \in Slugs /\ (r.kind \in {"put", "post"} => r.row.data \in TenantRow) /\ Shaped(r)
  BY DEF Shapes
<1>3. tenDb[s] \in TenantRow \cup {None}
  BY <1>2 DEF Table
<1>4. ASSUME NEW st, NEW rows, Answer(r, st, r.row, rows), Stored(r, st, rows)
      PROVE  \E a : /\ Becomes(r, a, st, r.row, rows) /\ Stored(r, st, rows)
                    /\ UNCHANGED <<clicks, faults, raced>>
  BY <1>2, <1>4, AnswerBy
<1>5. CASE r.kind = "put"
  <2>1. ServePut(r)
    BY <1>1, <1>5
  <2>2. CASE tenDb[s] = None
    <3>1. tenDb' = tenDb /\ Answer(r, Found(s), r.row, {})
      BY <2>1, <2>2 DEF ServePut
    <3>2. Stored(r, Found(s), {})
      BY <1>5, <2>2, <3>1 DEF Stored
    <3>3. QED
      BY <1>1, <1>4, <3>1, <3>2
  <2>3. CASE tenDb[s] # None
    <3>1. PICK row : row = [of |-> r.row.data.of,
                            keep |-> IF r.row.data.keep = "" THEN tenDb[s].keep ELSE r.row.data.keep]
      OBVIOUS
    <3>2. tenDb' = [tenDb EXCEPT ![s] = row] /\ Answer(r, Found(s), r.row, {})
      BY <2>1, <2>3, <3>1 DEF ServePut
    <3>3. row \in TenantRow /\ row.of = r.row.data.of
      BY <1>2, <1>3, <1>5, <2>3, <3>1 DEF TenantRow
    <3>4. tenDb' \in Table /\ tenDb'[s] = row /\ \A t \in Slugs \ {s} : tenDb'[t] = tenDb[t]
      BY <1>2, <3>2, <3>3, RowWritten
    <3>5. Stored(r, Found(s), {})
      BY <1>5, <2>3, <3>3, <3>4 DEF Stored
    <3>6. QED
      BY <1>1, <1>4, <3>2, <3>5
  <2>4. QED
    BY <2>2, <2>3
<1>6. CASE r.kind = "post"
  <2>1. ServePost(r)
    BY <1>1, <1>6
  <2>2. PICK st : st = (IF tenDb[s] = None THEN "ok" ELSE "failed") /\ Answer(r, st, r.row, {})
    BY <2>1 DEF ServePost
  <2>3. CASE tenDb[s] = None
    <3>1. tenDb' = [tenDb EXCEPT ![s] = r.row.data]
      BY <2>1, <2>3 DEF ServePost
    <3>2. tenDb' \in Table /\ tenDb'[s] = r.row.data /\ \A t \in Slugs \ {s} : tenDb'[t] = tenDb[t]
      BY <1>2, <1>6, <3>1, RowWritten
    <3>3. Stored(r, st, {})
      BY <1>6, <3>2 DEF Stored
    <3>4. QED
      BY <1>1, <1>4, <2>2, <3>3
  <2>4. CASE tenDb[s] # None
    <3>1. tenDb' = tenDb
      BY <2>1, <2>4 DEF ServePost
    <3>2. Stored(r, st, {})
      BY <1>6, <3>1 DEF Stored
    <3>3. QED
      BY <1>1, <1>4, <2>2, <3>2
  <2>5. QED
    BY <2>3, <2>4
<1>7. CASE r.kind = "apply"
  <2>1. ServeApply(r)
    BY <1>1, <1>7
  <2>2. CASE tenDb[s] = None
    <3>1. tenDb' = tenDb /\ Answer(r, Found(s), r.row, {})
      BY <2>1, <2>2 DEF ServeApply
    <3>2. Stored(r, Found(s), {})
      BY <1>7, <2>2, <3>1 DEF Stored
    <3>3. QED
      BY <1>1, <1>4, <3>1, <3>2
  <2>3. CASE tenDb[s] # None
    <3>1. PICK row : row = [tenDb[s] EXCEPT !.keep = ""]
      OBVIOUS
    <3>2. tenDb' = [tenDb EXCEPT ![s] = row] /\ Answer(r, Found(s), r.row, {})
      BY <2>1, <2>3, <3>1 DEF ServeApply
    <3>3. row \in TenantRow /\ row.of = tenDb[s].of
      BY <1>3, <2>3, <3>1 DEF TenantRow
    <3>4. tenDb' \in Table /\ tenDb'[s] = row /\ \A t \in Slugs \ {s} : tenDb'[t] = tenDb[t]
      BY <1>2, <3>2, <3>3, RowWritten
    <3>5. Stored(r, Found(s), {})
      BY <1>7, <2>3, <3>3, <3>4 DEF Stored
    <3>6. QED
      BY <1>1, <1>4, <3>2, <3>5
  <2>4. QED
    BY <2>2, <2>3
<1>8. CASE r.kind = "remove"
  <2>1. tenDb' = [tenDb EXCEPT ![s] = None] /\ Answer(r, "failed", r.row, {})
    BY <1>1, <1>8 DEF ServeDelete
  <2>2. tenDb' \in Table /\ tenDb'[s] = None /\ \A t \in Slugs \ {s} : tenDb'[t] = tenDb[t]
    BY <1>2, <2>1, RowWritten
  <2>3. Stored(r, "failed", {})
    BY <1>8, <2>2 DEF Stored
  <2>4. QED
    BY <1>1, <1>4, <2>1, <2>3
<1>9. CASE r.kind \notin {"put", "post", "apply", "remove"}
  <2>1. ServeGet(r)
    BY <1>1, <1>9
  <2>2. PICK rows : /\ rows = IF r.kind \in {"tenant", "refresh", "edit"} THEN {tenDb[s]} \ {None} ELSE {}
                    /\ Answer(r, Found(s), r.row, rows)
    BY <2>1 DEF ServeGet
  <2>3. tenDb' = tenDb
    BY <2>1 DEF ServeGet
  <2>4. Stored(r, Found(s), rows)
    BY <1>9, <2>2, <2>3 DEF Stored
  <2>5. QED
    BY <1>1, <1>4, <2>2, <2>4
<1>10. QED
  BY <1>5, <1>6, <1>7, <1>8, <1>9
-----------------------------------------------------------------------------
(***************************************************************************)
(* The pages about tenants: types.                                         *)
(***************************************************************************)
Keeps == {"full", "none", ""}
OnPage == [slug : Slugs, keep : Keeps]
Form == [slug : Slugs \cup {None}, of : Slugs \cup {None}, keep : Keeps]

TenantAsked(kind, row) ==
    /\ kind \in {"tenant", "apply", "refresh", "applied", "report", "remove", "edit", "put", "post"}
    /\ row.slug \in Slugs
    /\ kind \in {"refresh", "applied", "report"} => row \in Reports
    /\ kind = "apply" => row.pack \in Packs
    /\ kind \in {"put", "post"} => row.data \in TenantRow

TenantRequest(r) ==
    /\ Shaped(r) /\ TenantAsked(r.kind, r.row)
    /\ r.kind \in {"tenant", "refresh", "edit"} => r.rows \subseteq TenantRow /\ (r.st = "ok" => r.rows # {})

PageFields ==
    /\ tpSlug \in Slugs \cup {None} /\ tpTenant \in OnPage \cup {None}
    /\ tpLoading \in BOOLEAN /\ tpMissing \in BOOLEAN /\ tpConfirm \in BOOLEAN /\ tpDeleting \in BOOLEAN
    /\ tpApplying \in Packs \cup {None} /\ tpPack \in Packs \cup {None}
    /\ tpReport \in Reports \cup {None}

FormFields ==
    /\ teSlug \in Slugs \cup {None} /\ teForm \in Form
    /\ teLoading \in BOOLEAN /\ teSubmitting \in BOOLEAN /\ teOpen \in BOOLEAN /\ teHasty \in BOOLEAN

Asked == \A r \in flight : TenantRequest(r)

TenantsTyped ==
    /\ tenDb \in Table /\ Asked
    /\ PageFields /\ FormFields
    /\ tcAt \in {"list", "tenant", "form"} /\ (teOpen <=> tcAt = "form")
    /\ tcAt = "tenant" => tpSlug \in Slugs

LEMMA TenantsTypedIsTypeOK == TenantsTyped => TenantTypeOK /\ EditorTypeOK
<1> SUFFICES ASSUME TenantsTyped PROVE TenantTypeOK /\ EditorTypeOK
  OBVIOUS
<1>1. TenantTypeOK
  BY DEF TenantsTyped, PageFields, TenantTypeOK, Table, OnPage, Keeps
<1>2. EditorTypeOK
  BY DEF TenantsTyped, FormFields, EditorTypeOK, Form, Keeps
<1>3. QED
  BY <1>1, <1>2

LEMMA AskedShapes == Asked => Shapes
BY DEF Asked, Shapes, TenantRequest

LEMMA AskedWhenSent ==
    ASSUME Asked, NEW done, NEW kind, NEW row, Send(done, kind, row), TenantAsked(kind, row)
    PROVE  Asked'
<1>1. PICK a : Sends(done, a, kind, row)
  BY SendBy
<1>2. TenantRequest(a)
  BY <1>1 DEF Sends, Is, TenantRequest
<1>3. QED
  BY <1>1, <1>2 DEF Sends, Asked

LEMMA AskedWhenFinished == ASSUME Asked, NEW r, Finish(r) PROVE Asked'
BY DEF Finish, Asked

LEMMA LeftBehindBy ==
    ASSUME Shapes, NEW done, NEW q \in LeftBehind(done)
    PROVE  \E r \in flight : r.kind \notin TenantLoads /\ Orphaned(q, r)
BY OrphanBy DEF LeftBehind

LEMMA AskedWhenLeft ==
    ASSUME Asked, NEW done, NEW S, flight' = LeftBehind(done) \cup S, \A q \in S : TenantRequest(q)
    PROVE  Asked'
<1>1. ASSUME NEW q \in LeftBehind(done) PROVE TenantRequest(q)
  <2>1. PICK r \in flight : r.kind \notin TenantLoads /\ Orphaned(q, r)
    BY <1>1, AskedShapes, LeftBehindBy
  <2>2. TenantRequest(r)
    BY DEF Asked
  <2>3. QED
    BY <2>1, <2>2 DEF Orphaned, Is, TenantRequest
<1>2. QED
  BY <1>1 DEF Asked

LEMMA TenantVisited ==
    ASSUME NEW s, NEW done, VisitTenant(s, done)
    PROVE  \E a : /\ Is(a, "tenant", [slug |-> s], "sent", {}, TRUE)
                  /\ flight' = LeftBehind(done) \cup {a}
BY AskIs DEF VisitTenant

LEMMA FormVisited ==
    ASSUME NEW s, VisitForm(s)
    PROVE  \E S : /\ flight' = LeftBehind({}) \cup S
                  /\ s = None => S = {}
                  /\ s # None => \E a : S = {a} /\ Is(a, "edit", [slug |-> s], "sent", {}, TRUE)
BY AskIs DEF VisitForm

\* Whatever page is gone to, types are kept.
LEMMA TypedWhenListVisited ==
    ASSUME TenantsTyped, NEW done, VisitList(done), tenDb' = tenDb PROVE TenantsTyped'
<1>0. PICK S : S = {}
  OBVIOUS
<1>n. flight' = LeftBehind(done) /\ Asked
  BY DEF VisitList, TenantsTyped
<1>m. flight' = LeftBehind(done) \cup S /\ \A q \in S : TenantRequest(q)
  BY <1>0, <1>n
<1>1. Asked'
  BY <1>n, <1>m, AskedWhenLeft
<1>2. /\ tcAt' = "list" /\ teOpen' = FALSE
      /\ UNCHANGED <<tpVars, teSlug, teForm, teLoading, teSubmitting, teHasty>>
  BY DEF VisitList
<1>3. PageFields' /\ FormFields'
  <2>1. PageFields'
    BY <1>2 DEF TenantsTyped, PageFields, tpVars, tpUI
  <2>2. FormFields'
    BY <1>2 DEF TenantsTyped, FormFields
  <2>3. QED
    BY <2>1, <2>2
<1>4. QED
  BY <1>1, <1>2, <1>3 DEF TenantsTyped

LEMMA TypedWhenTenantVisited ==
    ASSUME TenantsTyped, NEW s \in Slugs, NEW done, VisitTenant(s, done), tenDb' = tenDb PROVE TenantsTyped'
<1>1. PICK a : /\ Is(a, "tenant", [slug |-> s], "sent", {}, TRUE)
               /\ flight' = LeftBehind(done) \cup {a}
  BY TenantVisited
<1>2. TenantRequest(a)
  BY <1>1 DEF Is, TenantRequest, TenantAsked
<1>3. Asked'
  BY <1>1, <1>2, AskedWhenLeft DEF TenantsTyped
<1>4. /\ tcAt' = "tenant" /\ teOpen' = FALSE /\ TenantMounted(s)
      /\ UNCHANGED <<teSlug, teForm, teLoading, teSubmitting, teHasty>>
  BY DEF VisitTenant
<1>5. PageFields' /\ FormFields' /\ tpSlug' \in Slugs
  BY <1>4 DEF TenantsTyped, PageFields, FormFields, TenantMounted
<1>6. QED
  BY <1>3, <1>4, <1>5 DEF TenantsTyped

LEMMA TypedWhenFormVisited ==
    ASSUME TenantsTyped, NEW s \in Slugs \cup {None}, VisitForm(s), tenDb' = tenDb PROVE TenantsTyped'
<1>1. PICK S : /\ flight' = LeftBehind({}) \cup S
               /\ s = None => S = {}
               /\ s # None => \E a : S = {a} /\ Is(a, "edit", [slug |-> s], "sent", {}, TRUE)
  BY FormVisited
<1>2. \A a \in S : TenantRequest(a)
  BY <1>1 DEF Is, TenantRequest, TenantAsked
<1>3. Asked'
  BY <1>1, <1>2, AskedWhenLeft DEF TenantsTyped
<1>4. tcAt' = "form" /\ EditorMounted(s) /\ UNCHANGED <<teHasty, tpVars>>
  BY DEF VisitForm
<1>5. Blank \in Form /\ (s # None) \in BOOLEAN
  BY DEF Blank, Form, Keeps
<1>6. PageFields' /\ FormFields' /\ teOpen' = TRUE
  <2>1. PageFields'
    BY <1>4 DEF TenantsTyped, PageFields, tpVars, tpUI
  <2>2. FormFields' /\ teOpen' = TRUE
    BY <1>4, <1>5 DEF TenantsTyped, FormFields, EditorMounted
  <2>3. QED
    BY <2>1, <2>2
<1>7. QED
  BY <1>3, <1>4, <1>6 DEF TenantsTyped

LEMMA TypedWhenTurned ==
    ASSUME TenantsTyped, NEW s \in Slugs, NEW done, TurnTo(s, done),
           UNCHANGED <<tenDb, teVars, tcAt>>
    PROVE  TenantsTyped'
<1>0. Asked /\ TenantAsked("tenant", [slug |-> s]) /\ Send(done, "tenant", [slug |-> s])
  BY DEF TurnTo, TenantAsked, TenantsTyped
<1>1. Asked'
  BY <1>0, AskedWhenSent
<1>2. /\ tpSlug' = s /\ tpLoading' = TRUE
      /\ UNCHANGED <<tpTenant, tpMissing, tpConfirm, tpDeleting, tpApplying, tpPack, tpReport>>
  BY DEF TurnTo
<1>3. PageFields' /\ FormFields'
  BY <1>2 DEF TenantsTyped, PageFields, FormFields, teVars
<1>4. QED
  BY <1>1, <1>2, <1>3 DEF TenantsTyped, teVars

LEMMA TypedOperator ==
    ASSUME TenantsTyped, tcAt = "tenant", TenantOperator, UNCHANGED <<teVars, tcAt>>
    PROVE  TenantsTyped'
<1>0. /\ Asked /\ PageFields /\ FormFields /\ tpSlug \in Slugs /\ tenDb' = tenDb /\ tenDb \in Table
      /\ FormFields' /\ teOpen' = teOpen /\ tcAt' = tcAt
  BY DEF TenantsTyped, TenantOperator, FormFields, teVars
<1>1. CASE GoToTenant
  BY <1>0, <1>1, TypedWhenTurned DEF GoToTenant
<1>2. CASE ~GoToTenant
  <2>1. tpSlug' = tpSlug /\ PageFields' /\ Asked'
    <3>1. CASE AskDeleteTenant \/ CancelDeleteTenant
      BY <1>0, <3>1 DEF AskDeleteTenant, CancelDeleteTenant, PageFields, Asked
    <3>2. CASE ConfirmDeleteTenant
      <4>1. Send({}, "remove", [slug |-> tpSlug, named |-> tpTenant.slug]) /\ tpDeleting' = TRUE
        BY <3>2 DEF ConfirmDeleteTenant
      <4>2. Asked'
        BY <1>0, <4>1, AskedWhenSent DEF TenantAsked
      <4>3. UNCHANGED <<tpSlug, tpTenant, tpLoading, tpMissing, tpConfirm, tpApplying, tpPack, tpReport>>
        BY <3>2 DEF ConfirmDeleteTenant
      <4>4. QED
        BY <1>0, <4>1, <4>2, <4>3 DEF PageFields
    <3>3. CASE ApplyPack
      <4>1. PICK p \in Packs : tpApplying' = p /\ Send({}, "apply", [slug |-> tpSlug, pack |-> p, named |-> tpTenant.slug])
        BY <3>3 DEF ApplyPack
      <4>2. Asked'
        BY <1>0, <4>1, AskedWhenSent DEF TenantAsked
      <4>3. UNCHANGED <<tpSlug, tpTenant, tpLoading, tpMissing, tpConfirm, tpDeleting, tpPack, tpReport>>
        BY <3>3 DEF ApplyPack
      <4>4. QED
        BY <1>0, <4>1, <4>2, <4>3 DEF PageFields
    <3>4. CASE ShowReport
      <4>1. PICK p \in Packs : tpPack' = p /\ Send({}, "report", [slug |-> tpSlug, pack |-> p])
        BY <3>4 DEF ShowReport
      <4>2. [slug |-> tpSlug, pack |-> p] \in Reports
        BY <1>0 DEF Reports
      <4>3. Asked'
        BY <1>0, <4>1, <4>2, AskedWhenSent DEF TenantAsked
      <4>4. tpReport' = None /\ UNCHANGED <<tpSlug, tpTenant, tpLoading, tpMissing, tpConfirm, tpDeleting, tpApplying>>
        BY <3>4 DEF ShowReport
      <4>5. QED
        BY <1>0, <4>1, <4>3, <4>4 DEF PageFields
    <3>5. QED
      BY <1>2, <3>1, <3>2, <3>3, <3>4 DEF TenantOperator
  <2>2. QED
    BY <1>0, <2>1 DEF TenantsTyped
<1>3. QED
  BY <1>1, <1>2

\* What a load has found fits the page.
LEMMA ShownTyped ==
    ASSUME NEW r, TenantRequest(r), r.kind \in {"tenant", "refresh"}, r.st = "ok"
    PROVE  /\ Shown(r) \in OnPage /\ Shown(r).slug = r.row.slug
           /\ \E row \in r.rows : Shown(r).keep = row.keep
<1>1. PICK row \in r.rows : row = CHOOSE x \in r.rows : TRUE
  BY DEF TenantRequest
<1>2. row \in TenantRow /\ r.row.slug \in Slugs
  BY DEF TenantRequest, TenantAsked
<1>3. Shown(r) = [slug |-> r.row.slug, keep |-> row.keep]
  BY <1>1 DEF Shown
<1>4. row.keep \in Keeps
  BY <1>2 DEF TenantRow, Keeps
<1>5. Shown(r) \in OnPage
  BY <1>2, <1>3, <1>4 DEF OnPage
<1>6. Shown(r).slug = r.row.slug /\ Shown(r).keep = row.keep
  BY <1>3
<1>7. QED
  BY <1>1, <1>5, <1>6

LEMMA TypedArrived ==
    ASSUME TenantsTyped, TenantAnswered, UNCHANGED <<teVars, tcAt>>
    PROVE  TenantsTyped'
<1>1. PICK r \in flight :
        /\ r.st # "sent" /\ r.mine
        /\ TenantLoaded(r) \/ DeleteAnswered(r) \/ PackStep(r) \/ ReportLoaded(r)
  BY DEF TenantAnswered
<1>0. /\ Asked /\ PageFields /\ TenantRequest(r)
      /\ tpSlug' = tpSlug /\ tenDb' = tenDb /\ tenDb \in Table
      /\ FormFields' /\ teOpen' = teOpen /\ tcAt' = tcAt
  BY DEF TenantsTyped, TenantAnswered, FormFields, teVars, Asked
<1>2. Asked' /\ PageFields'
  <2>1. CASE TenantLoaded(r)
    <3>1. tpTenant' \in OnPage \cup {None}
      BY <1>0, <2>1, ShownTyped DEF TenantLoaded, PageFields
    <3>2. /\ tpMissing' = (tpMissing \/ r.st = "absent") /\ tpLoading' = FALSE /\ Finish(r)
          /\ UNCHANGED <<tpConfirm, tpDeleting, tpApplying, tpPack, tpReport>>
      BY <2>1 DEF TenantLoaded
    <3>3. tpMissing' \in BOOLEAN
      BY <1>0, <3>2, Zenon DEF PageFields
    <3>4. QED
      BY <1>0, <3>1, <3>2, <3>3, AskedWhenFinished DEF PageFields
  <2>2. CASE DeleteAnswered(r)
    <3>1. /\ tpDeleting' = FALSE /\ tpConfirm' = FALSE /\ Finish(r)
          /\ UNCHANGED <<tpTenant, tpLoading, tpMissing, tpApplying, tpPack, tpReport>>
      BY <2>2 DEF DeleteAnswered
    <3>2. QED
      BY <1>0, <3>1, AskedWhenFinished DEF PageFields
  <2>3. CASE ReportLoaded(r)
    <3>1. tpReport' \in Reports \cup {None}
      BY <1>0, <2>3 DEF ReportLoaded, TenantRequest, TenantAsked, PageFields
    <3>2. Finish(r) /\ UNCHANGED <<tpTenant, tpLoading, tpMissing, tpConfirm, tpDeleting, tpApplying, tpPack>>
      BY <2>3 DEF ReportLoaded
    <3>3. QED
      BY <1>0, <3>1, <3>2, AskedWhenFinished DEF PageFields
  <2>4. CASE PackStep(r)
    <3>0. PICK row : row = [slug |-> r.row.slug, pack |-> r.row.pack]
      OBVIOUS
    <3>1. r.kind \in {"apply", "refresh", "applied"} /\ UNCHANGED <<tpLoading, tpMissing, tpConfirm, tpDeleting>>
      BY <2>4 DEF PackStep
    <3>2. row \in Reports
      BY <1>0, <3>0, <3>1 DEF TenantRequest, TenantAsked, Reports
    <3>3. row.slug \in Slugs /\ row.pack \in Packs
      BY <3>2 DEF Reports
    <3>4. CASE r.st # "ok"
      <4>1. tpApplying' = None /\ Finish(r) /\ UNCHANGED <<tpTenant, tpPack, tpReport>>
        BY <2>4, <3>4 DEF PackStep
      <4>2. QED
        BY <1>0, <3>1, <4>1, AskedWhenFinished DEF PageFields
    <3>5. CASE r.st = "ok" /\ r.kind = "apply"
      <4>1. tpPack' = row.pack /\ Send({r}, "refresh", row) /\ UNCHANGED <<tpTenant, tpApplying, tpReport>>
        BY <2>4, <3>0, <3>5 DEF PackStep
      <4>2. Asked'
        BY <1>0, <3>2, <3>3, <4>1, AskedWhenSent DEF TenantAsked
      <4>3. QED
        BY <1>0, <3>1, <3>3, <4>1, <4>2 DEF PageFields
    <3>6. CASE r.st = "ok" /\ r.kind = "refresh"
      <4>1. tpTenant' = Shown(r) /\ Send({r}, "applied", row) /\ UNCHANGED <<tpApplying, tpPack, tpReport>>
        BY <2>4, <3>0, <3>6 DEF PackStep
      <4>2. Asked'
        BY <1>0, <3>2, <3>3, <4>1, AskedWhenSent DEF TenantAsked
      <4>3. Shown(r) \in OnPage
        BY <1>0, <3>6, ShownTyped
      <4>4. QED
        BY <1>0, <3>1, <4>1, <4>2, <4>3 DEF PageFields
    <3>7. CASE r.st = "ok" /\ r.kind = "applied"
      <4>1. tpReport' = row /\ tpApplying' = None /\ Finish(r) /\ UNCHANGED <<tpTenant, tpPack>>
        BY <2>4, <3>0, <3>7 DEF PackStep
      <4>2. QED
        BY <1>0, <3>1, <3>2, <4>1, AskedWhenFinished DEF PageFields
    <3>8. QED
      BY <3>1, <3>4, <3>5, <3>6, <3>7
  <2>5. QED
    BY <1>1, <2>1, <2>2, <2>3, <2>4
<1>3. QED
  BY <1>0, <1>2 DEF TenantsTyped

LEMMA TypedForm ==
    ASSUME TenantsTyped, OnForm
    PROVE  TenantsTyped'
<1>0. /\ Asked /\ FormFields /\ tenDb' = tenDb /\ tenDb \in Table
      /\ tpSlug' = tpSlug /\ tcAt' = tcAt /\ PageFields'
  BY DEF TenantsTyped, OnForm, EditorOperator, EditorAnswered, PageFields, tpVars, tpUI
<1>1. Asked' /\ FormFields' /\ teOpen' = teOpen
  <2>1. CASE FillForm
    <3>1. UNCHANGED <<flight, teSlug, teLoading, teSubmitting, teOpen, teHasty>>
      BY <2>1 DEF FillForm
    <3>2. teForm' \in Form
      <4>1. PICK slug \in Slugs \cup {None}, of \in Slugs \cup {None}, keep \in Keeps :
              teForm = [slug |-> slug, of |-> of, keep |-> keep]
        BY <1>0 DEF FormFields, Form
      <4>2. \/ \E k \in {"full", "none"} : teForm' = [slug |-> slug, of |-> of, keep |-> k]
            \/ \E s \in Slugs : teForm' = [slug |-> s, of |-> of, keep |-> keep]
        BY <2>1, <4>1 DEF FillForm
      <4>3. \A k \in {"full", "none"} : [slug |-> slug, of |-> of, keep |-> k] \in Form
        BY DEF Form, Keeps
      <4>4. \A s \in Slugs : [slug |-> s, of |-> of, keep |-> keep] \in Form
        BY DEF Form
      <4>5. QED
        BY <4>2, <4>3, <4>4
    <3>3. QED
      BY <1>0, <3>1, <3>2 DEF FormFields, Asked
  <2>2. CASE GoToForm
    <3>1. PICK s \in Slugs \cup {None} :
            /\ teSlug' = s
            /\ IF s = None THEN UNCHANGED <<flight, raced, teLoading>>
               ELSE Send({}, "edit", [slug |-> s]) /\ teLoading' = TRUE
            /\ teHasty' = (teHasty \/ flight # {} \/ (s = None /\ teForm # Blank))
      BY <2>2 DEF GoToForm
    <3>2. teHasty' \in BOOLEAN
      BY <1>0, <3>1, Zenon DEF FormFields
    <3>3. Asked' /\ teLoading' \in BOOLEAN
      <4>1. CASE s = None
        BY <1>0, <3>1, <4>1 DEF Asked, FormFields
      <4>2. CASE s # None
        <5>1. Send({}, "edit", [slug |-> s]) /\ teLoading' = TRUE /\ TenantAsked("edit", [slug |-> s])
          BY <3>1, <4>2 DEF TenantAsked
        <5>2. QED
          BY <1>0, <5>1, AskedWhenSent
      <4>3. QED
        BY <4>1, <4>2
    <3>4. UNCHANGED <<teForm, teSubmitting, teOpen>>
      BY <2>2 DEF GoToForm
    <3>5. QED
      BY <1>0, <3>1, <3>2, <3>3, <3>4 DEF FormFields
  <2>3. CASE SubmitForm
    <3>a. PICK slug : slug = IF teSlug = None THEN teForm.slug ELSE teSlug
      OBVIOUS
    <3>b. PICK kind : kind = IF teSlug = None THEN "post" ELSE "put"
      OBVIOUS
    <3>c. PICK data : data = [of |-> IF teForm.of = None THEN slug ELSE teForm.of, keep |-> teForm.keep]
      OBVIOUS
    <3>1. slug # None /\ teSubmitting' = TRUE /\ Send({}, kind, [slug |-> slug, data |-> data])
      BY <2>3, <3>a, <3>b, <3>c DEF SubmitForm
    <3>2. /\ teForm.slug \in Slugs \cup {None} /\ teForm.of \in Slugs \cup {None} /\ teForm.keep \in Keeps
          /\ teSlug \in Slugs \cup {None}
      BY <1>0 DEF FormFields, Form
    <3>3. slug \in Slugs /\ data \in TenantRow
      BY <3>a, <3>c, <3>1, <3>2 DEF TenantRow, Keeps
    <3>4. TenantAsked(kind, [slug |-> slug, data |-> data])
      BY <3>b, <3>3 DEF TenantAsked
    <3>5. Asked'
      BY <1>0, <3>1, <3>4, AskedWhenSent
    <3>6. UNCHANGED <<teSlug, teForm, teLoading, teOpen, teHasty>>
      BY <2>3 DEF SubmitForm
    <3>7. QED
      BY <1>0, <3>1, <3>5, <3>6 DEF FormFields
  <2>4. CASE EditorAnswered
    <3>1. PICK r \in flight : r.st # "sent" /\ r.mine /\ (FormLoaded(r) \/ SaveRefused(r))
      BY <2>4 DEF EditorAnswered
    <3>2. CASE FormLoaded(r)
      <4>1. /\ r.kind = "edit" /\ teLoading' = FALSE /\ Finish(r)
            /\ UNCHANGED <<teSlug, teSubmitting, teOpen, teHasty>>
        BY <3>2 DEF FormLoaded
      <4>2. PICK row \in r.rows : teForm' = [slug |-> r.row.slug, of |-> row.of, keep |-> row.keep]
        BY <3>2 DEF FormLoaded
      <4>3. r.row.slug \in Slugs /\ row \in TenantRow
        BY <1>0, <4>1 DEF Asked, TenantRequest, TenantAsked
      <4>4. teForm' \in Form
        BY <4>2, <4>3 DEF Form, TenantRow, Keeps
      <4>5. QED
        BY <1>0, <4>1, <4>4, AskedWhenFinished DEF FormFields
    <3>3. CASE SaveRefused(r)
      <4>1. teSubmitting' = FALSE /\ Finish(r) /\ UNCHANGED <<teSlug, teForm, teLoading, teOpen, teHasty>>
        BY <3>3 DEF SaveRefused
      <4>2. QED
        BY <1>0, <4>1, AskedWhenFinished DEF FormFields
    <3>4. QED
      BY <3>1, <3>2, <3>3
  <2>5. QED
    BY <2>1, <2>2, <2>3, <2>4 DEF OnForm, EditorOperator
<1>2. QED
  BY <1>0, <1>1 DEF TenantsTyped

LEMMA TypedFollowLink == TenantsTyped /\ FollowLink => TenantsTyped'
<1> SUFFICES ASSUME TenantsTyped, FollowLink PROVE TenantsTyped'
  OBVIOUS
<1>0. tenDb' = tenDb
  BY DEF FollowLink
<1>1. CASE \E s \in Slugs : VisitTenant(s, {})
  BY <1>0, <1>1, TypedWhenTenantVisited
<1>2. CASE VisitForm(None)
  BY <1>0, <1>2, TypedWhenFormVisited
<1>3. CASE TenantShown /\ VisitForm(tpTenant.slug)
  <2>1. tpTenant.slug \in Slugs
    BY <1>3 DEF TenantShown, TenantsTyped, PageFields, OnPage
  <2>2. QED
    BY <1>0, <1>3, <2>1, TypedWhenFormVisited
<1>4. CASE VisitList({})
  BY <1>0, <1>4, TypedWhenListVisited
<1>5. QED
  BY <1>1, <1>2, <1>3, <1>4 DEF FollowLink

LEMMA TypedSaveLands == TenantsTyped /\ SaveLands => TenantsTyped'
<1> SUFFICES ASSUME TenantsTyped, SaveLands PROVE TenantsTyped'
  OBVIOUS
<1>0. tenDb' = tenDb
  BY DEF SaveLands
<1>1. PICK r \in flight :
        \/ VisitTenant(r.row.slug, {r})
        \/ TurnTo(r.row.slug, {r}) /\ UNCHANGED <<teVars, tcAt>>
        \/ Finish(r) /\ UNCHANGED tpVars /\ UNCHANGED <<teVars, tcAt>>
  BY DEF SaveLands
<1>2. r.row.slug \in Slugs
  BY DEF TenantsTyped, Asked, TenantRequest, TenantAsked
<1>3. CASE VisitTenant(r.row.slug, {r})
  BY <1>0, <1>2, <1>3, TypedWhenTenantVisited
<1>4. CASE TurnTo(r.row.slug, {r}) /\ UNCHANGED <<teVars, tcAt>>
  BY <1>0, <1>2, <1>4, TypedWhenTurned
<1>5. CASE Finish(r) /\ UNCHANGED tpVars /\ UNCHANGED <<teVars, tcAt>>
  BY <1>0, <1>5, AskedWhenFinished DEF TenantsTyped, PageFields, FormFields, tpVars, tpUI, teVars
<1>6. QED
  BY <1>1, <1>3, <1>4, <1>5

LEMMA TypedAnswered ==
    ASSUME TenantsTyped, TableServer \/ \E r \in flight : Lose(r) /\ tenDb' = tenDb,
           UNCHANGED <<tpVars, teVars, tcAt>>
    PROVE  TenantsTyped'
<1>1. Asked /\ tenDb \in Table /\ Shapes
  BY AskedShapes DEF TenantsTyped
<1>2. tenDb' \in Table /\ Asked'
  <2>1. CASE TableServer
    <3>1. PICK r, a, st, rows :
            r \in flight /\ r.st = "sent" /\ Becomes(r, a, st, r.row, rows) /\ Stored(r, st, rows)
      BY <1>1, <2>1, TableServed DEF Asked, TenantRequest, TenantAsked
    <3>2. TenantRequest(r) /\ tenDb[r.row.slug] \in TenantRow \cup {None}
      BY <1>1, <3>1 DEF Asked, TenantRequest, TenantAsked, Table
    <3>3. r.kind \in {"tenant", "refresh", "edit"} => rows \subseteq TenantRow /\ (st = "ok" => rows # {})
      BY <3>1, <3>2 DEF Stored, Found
    <3>4. TenantRequest(a)
      BY <3>1, <3>2, <3>3 DEF TenantRequest, Becomes, Is
    <3>5. QED
      BY <1>1, <3>1, <3>4 DEF Asked, Becomes, Stored
  <2>2. CASE \E r \in flight : Lose(r) /\ tenDb' = tenDb
    <3>1. PICK r \in flight : Lose(r) /\ tenDb' = tenDb
      BY <2>2
    <3>2. TenantRequest(r) /\ Shaped(r)
      BY <1>1 DEF Asked, TenantRequest
    <3>3. PICK a : Becomes(r, a, "failed", r.row, r.rows)
      BY <3>1, <3>2, LoseBy
    <3>4. TenantRequest(a)
      BY <3>2, <3>3 DEF TenantRequest, Becomes, Is
    <3>5. QED
      BY <1>1, <3>1, <3>3, <3>4 DEF Asked, Becomes
  <2>3. QED
    BY <2>1, <2>2
<1>3. QED
  BY <1>2 DEF TenantsTyped, PageFields, FormFields, tpVars, tpUI, teVars

LEMMA TenantsTypedNext == TenantsTyped /\ [ConsoleNext]_tenantVars => TenantsTyped'
<1> SUFFICES ASSUME TenantsTyped, [ConsoleNext]_tenantVars PROVE TenantsTyped'
  OBVIOUS
<1>1. CASE TableServer /\ UNCHANGED <<tpVars, teVars, tcAt>>
  BY <1>1, TypedAnswered
<1>2. CASE \E r \in flight : Lose(r) /\ UNCHANGED <<tenDb, tpVars, teVars, tcAt>>
  BY <1>2, TypedAnswered
<1>3. CASE OnTenantPage
  BY <1>3, TypedOperator, TypedArrived DEF OnTenantPage
<1>4. CASE LoadFails
  BY <1>4, TypedWhenListVisited DEF LoadFails
<1>5. CASE TooLate
  <2>1. PICK r : Finish(r)
    BY <1>5 DEF TooLate
  <2>2. UNCHANGED <<tenDb, tpVars, teVars, tcAt>>
    BY <1>5 DEF TooLate
  <2>3. QED
    BY <2>1, <2>2, AskedWhenFinished DEF TenantsTyped, PageFields, FormFields, tpVars, tpUI, teVars
<1>6. CASE UNCHANGED tenantVars
  BY <1>6 DEF TenantsTyped, PageFields, FormFields, Asked, tenantVars, pageVars, tpVars, tpUI, teVars
<1>7. QED
  BY <1>1, <1>2, <1>3, <1>4, <1>5, <1>6, TypedForm, TypedFollowLink, TypedSaveLands DEF ConsoleNext

LEMMA TenantsTypedInit == ConsoleInit => TenantsTyped
<1> SUFFICES ASSUME ConsoleInit PROVE TenantsTyped
  OBVIOUS
<1>1. tenDb \in Table
  <2>1. PICK there \in SUBSET Slugs :
          tenDb = [s \in Slugs |-> IF s \in there THEN [of |-> s, keep |-> ""] ELSE None]
    BY DEF ConsoleInit, TableInit
  <2>2. \A s \in Slugs : [of |-> s, keep |-> ""] \in TenantRow
    BY DEF TenantRow
  <2>3. QED
    BY <2>1, <2>2 DEF Table
<1>2. Asked
  BY DEF ConsoleInit, PageInit, Asked
<1>3. PageFields
  BY DEF ConsoleInit, PageFields
<1>4. FormFields
  BY DEF ConsoleInit, FormFields, Blank, Form, Keeps
<1>5. QED
  BY <1>1, <1>2, <1>3, <1>4 DEF ConsoleInit, TenantsTyped
-----------------------------------------------------------------------------
(***************************************************************************)
(* Which requests a step of the tenants' pages adds: what a page leaves    *)
(* behind is orphaned, and a page asks for its own kinds of things only.   *)
(***************************************************************************)
PageKinds == {"tenant", "remove", "apply", "refresh", "applied", "report"}

\* No request of these kinds is under way that was not before.
NoneNew(kinds) == \A q \in flight' : q \in flight \/ q.kind \notin kinds

LEMMA NoneNewWhenSent ==
    ASSUME NEW done, NEW kind, NEW row, Send(done, kind, row), NEW kinds, kind \notin kinds
    PROVE  NoneNew(kinds)
<1>1. PICK a : Sends(done, a, kind, row)
  BY SendBy
<1>2. a.kind \notin kinds /\ flight' = (flight \ done) \cup {a}
  BY <1>1 DEF Sends, Is
<1>3. QED
  BY <1>2 DEF NoneNew

LEMMA MineWhenNoneNew == ASSUME NEW kinds, NoneNew(kinds) PROVE Mine(kinds)' \subseteq Mine(kinds)
BY DEF NoneNew, Mine

LEMMA PageSends ==
    ASSUME TenantOperator \/ TenantAnswered, NEW kinds, kinds \cap PageKinds = {}
    PROVE  NoneNew(kinds)
<1>0. {"tenant", "remove", "apply", "refresh", "applied", "report"} \cap kinds = {}
  BY DEF PageKinds
<1>1. ASSUME flight' = flight \/ \E r : Finish(r) PROVE NoneNew(kinds)
  BY <1>1 DEF Finish, NoneNew
<1>2. CASE GoToTenant
  <2>1. PICK s : Send({}, "tenant", [slug |-> s])
    BY <1>2 DEF GoToTenant, TurnTo
  <2>2. QED
    BY <1>0, <2>1, NoneNewWhenSent
<1>3. CASE ConfirmDeleteTenant
  <2>1. Send({}, "remove", [slug |-> tpSlug, named |-> tpTenant.slug])
    BY <1>3 DEF ConfirmDeleteTenant
  <2>2. QED
    BY <1>0, <2>1, NoneNewWhenSent
<1>4. CASE ApplyPack
  <2>1. PICK p : Send({}, "apply", [slug |-> tpSlug, pack |-> p, named |-> tpTenant.slug])
    BY <1>4 DEF ApplyPack
  <2>2. QED
    BY <1>0, <2>1, NoneNewWhenSent
<1>5. CASE ShowReport
  <2>1. PICK p : Send({}, "report", [slug |-> tpSlug, pack |-> p])
    BY <1>5 DEF ShowReport
  <2>2. QED
    BY <1>0, <2>1, NoneNewWhenSent
<1>6. CASE AskDeleteTenant \/ CancelDeleteTenant
  BY <1>1, <1>6 DEF AskDeleteTenant, CancelDeleteTenant
<1>7. CASE TenantAnswered
  <2>1. PICK r \in flight : TenantLoaded(r) \/ DeleteAnswered(r) \/ PackStep(r) \/ ReportLoaded(r)
    BY <1>7 DEF TenantAnswered
  <2>2. CASE TenantLoaded(r) \/ DeleteAnswered(r) \/ ReportLoaded(r)
    <3>1. Finish(r)
      BY <2>2 DEF TenantLoaded, DeleteAnswered, ReportLoaded
    <3>2. QED
      BY <1>1, <3>1
  <2>3. CASE PackStep(r)
    <3>1. PICK row : row = [slug |-> r.row.slug, pack |-> r.row.pack]
      OBVIOUS
    <3>2. Finish(r) \/ Send({r}, "refresh", row) \/ Send({r}, "applied", row)
      BY <2>3, <3>1 DEF PackStep
    <3>3. CASE Finish(r)
      BY <1>1, <3>3
    <3>4. CASE Send({r}, "refresh", row)
      BY <1>0, <3>4, NoneNewWhenSent
    <3>5. CASE Send({r}, "applied", row)
      BY <1>0, <3>5, NoneNewWhenSent
    <3>6. QED
      BY <3>2, <3>3, <3>4, <3>5
  <2>4. QED
    BY <2>1, <2>2, <2>3
<1>8. QED
  BY <1>2, <1>3, <1>4, <1>5, <1>6, <1>7 DEF TenantOperator

\* What is under way when a page was left: S was asked for, the rest is orphaned.
LeftWith(S) ==
    /\ \A q \in S : Shaped(q)
    /\ \E done : flight' = LeftBehind(done) \cup S

LEMMA MineLeftWith ==
    ASSUME Shapes, NEW S, LeftWith(S), NEW kinds
    PROVE  Mine(kinds)' = {q \in S : q.mine /\ q.kind \in kinds}
<1>1. PICK done : flight' = LeftBehind(done) \cup S
  BY DEF LeftWith
<1>2. LeftBehind(done) \subseteq Orphan(TenantLoads)
  BY DEF LeftBehind
<1>3. PICK D : D = LeftBehind(done)
  OBVIOUS
<1>4. QED
  BY <1>1, <1>2, <1>3, MineWhenLeft DEF LeftWith

\* What was left is a request of a kind that goes on, no longer the page's own.
LEMMA LeftWithBy ==
    ASSUME Shapes, NEW S, LeftWith(S), NEW q \in flight'
    PROVE  q \in S \/ \E r \in flight : r.kind \notin TenantLoads /\ Orphaned(q, r)
BY LeftBehindBy DEF LeftWith

LEMMA ListLeft ==
    ASSUME NEW done, VisitList(done) PROVE \E S : S = {} /\ LeftWith(S)
<1>1. PICK S : S = {}
  OBVIOUS
<1>2. flight' = LeftBehind(done)
  BY DEF VisitList
<1>3. flight' = LeftBehind(done) \cup S
  BY <1>1, <1>2
<1>4. QED
  BY <1>1, <1>3 DEF LeftWith

LEMMA TenantLeft ==
    ASSUME NEW s, NEW done, VisitTenant(s, done)
    PROVE  \E a : Is(a, "tenant", [slug |-> s], "sent", {}, TRUE) /\ LeftWith({a})
<1>1. PICK a : /\ Is(a, "tenant", [slug |-> s], "sent", {}, TRUE)
               /\ flight' = LeftBehind(done) \cup {a}
  BY TenantVisited
<1>2. \A q \in {a} : Shaped(q)
  BY <1>1 DEF Is
<1>3. LeftWith({a})
  BY <1>1, <1>2 DEF LeftWith
<1>4. QED
  BY <1>1, <1>3

LEMMA FormLeft ==
    ASSUME NEW s, VisitForm(s)
    PROVE  \E S : /\ LeftWith(S)
                  /\ \A a \in S : s # None /\ Is(a, "edit", [slug |-> s], "sent", {}, TRUE)
<1>1. PICK S : /\ flight' = LeftBehind({}) \cup S
               /\ s = None => S = {}
               /\ s # None => \E a : S = {a} /\ Is(a, "edit", [slug |-> s], "sent", {}, TRUE)
  BY FormVisited
<1>2. \A a \in S : s # None /\ Is(a, "edit", [slug |-> s], "sent", {}, TRUE)
  BY <1>1
<1>3. LeftWith(S)
  BY <1>1, <1>2 DEF LeftWith, Is
<1>4. QED
  BY <1>2, <1>3
-----------------------------------------------------------------------------
(***************************************************************************)
(* The form has one save under way at most, and is submitting while it is. *)
(***************************************************************************)
FormKinds == {"put", "post"}

SaveFlags ==
    /\ Mine(FormKinds) # {} => teOpen /\ teSubmitting
    /\ teOpen /\ teSubmitting => Mine(FormKinds) # {}
    /\ One(Mine(FormKinds))

LEMMA SaveFlagsCounted == SaveFlags /\ FormFields => OneSaveAtATime
<1> SUFFICES ASSUME SaveFlags, FormFields PROVE OneSaveAtATime
  OBVIOUS
<1>1. Saves = Mine(FormKinds)
  BY DEF Saves, Mine, FormKinds
<1>2. Cardinality(Saves) <= 1
  BY <1>1, OneCounted DEF SaveFlags
<1>3. QED
  BY <1>1, <1>2 DEF SaveFlags, FormFields, OneSaveAtATime

\* Nothing is saved on a page that is not the form, nor when one is left.
LEMMA SaveFlagsOff ==
    ASSUME SaveFlags, teOpen = FALSE \/ teSubmitting = FALSE,
           NoneNew(FormKinds), UNCHANGED <<teOpen, teSubmitting>>
    PROVE  SaveFlags'
<1>1. Mine(FormKinds)' = {}
  BY MineWhenNoneNew DEF SaveFlags
<1>2. QED
  BY <1>1 DEF SaveFlags, One

LEMMA SaveFlagsLeft ==
    ASSUME Shapes, NEW S, LeftWith(S), \A a \in S : a.kind \notin FormKinds,
           teOpen' = FALSE \/ teSubmitting' = FALSE
    PROVE  SaveFlags'
<1>1. Mine(FormKinds)' = {}
  BY MineLeftWith
<1>2. QED
  BY <1>1 DEF SaveFlags, One

LEMMA SaveFlagsForm == TenantsTyped /\ SaveFlags /\ OnForm => SaveFlags'
<1> SUFFICES ASSUME TenantsTyped, SaveFlags, OnForm PROVE SaveFlags'
  OBVIOUS
<1>0. Shapes /\ FormFields
  BY AskedShapes DEF TenantsTyped
<1>1. CASE FillForm \/ GoToForm
  <2>1. UNCHANGED <<teOpen, teSubmitting>>
    BY <1>1 DEF FillForm, GoToForm
  <2>2. flight' = flight \/ \E row : Send({}, "edit", row)
    BY <1>1 DEF FillForm, GoToForm
  <2>3. Mine(FormKinds)' = Mine(FormKinds)
    <3>1. CASE flight' = flight
      BY <3>1 DEF Mine
    <3>2. CASE \E row : Send({}, "edit", row)
      <4>1. PICK row, a : Sends({}, a, "edit", row)
        BY <3>2, SendBy
      <4>2. QED
        BY <1>0, <4>1, MineWhenAdded DEF FormKinds
    <3>3. QED
      BY <2>2, <3>1, <3>2
  <2>4. QED
    BY <2>1, <2>3 DEF SaveFlags
<1>2. CASE teOpen /\ SubmitForm
  <2>1. PICK kind, row : kind \in FormKinds /\ Send({}, kind, row)
    BY <1>2 DEF SubmitForm, FormKinds
  <2>2. PICK a : Sends({}, a, kind, row)
    BY <2>1, SendBy
  <2>3. Mine(FormKinds)' = Mine(FormKinds) \cup {a}
    BY <1>0, <2>1, <2>2, MineWhenAdded
  <2>4. Mine(FormKinds) = {} /\ teSubmitting' = TRUE /\ teOpen' = teOpen
    BY <1>0, <1>2 DEF SubmitForm, SaveFlags, FormFields
  <2>5. QED
    BY <1>2, <2>3, <2>4 DEF SaveFlags, One
<1>3. CASE EditorAnswered
  <2>1. PICK r \in flight : r.mine /\ (FormLoaded(r) \/ SaveRefused(r))
    BY <1>3 DEF EditorAnswered
  <2>2. Finish(r) => Mine(FormKinds)' = Mine(FormKinds) \ {r}
    BY <1>0, MineWhenFinished DEF Finish
  <2>3. CASE FormLoaded(r)
    <3>1. Mine(FormKinds)' = Mine(FormKinds) /\ UNCHANGED <<teOpen, teSubmitting>>
      BY <2>2, <2>3 DEF FormLoaded, Mine, FormKinds
    <3>2. QED
      BY <3>1 DEF SaveFlags
  <2>4. CASE SaveRefused(r)
    <3>1. r \in Mine(FormKinds) /\ teSubmitting' = FALSE /\ Mine(FormKinds)' = Mine(FormKinds) \ {r}
      BY <2>1, <2>2, <2>4 DEF SaveRefused, Mine, FormKinds
    <3>2. Mine(FormKinds)' = {}
      BY <3>1 DEF SaveFlags, One
    <3>3. QED
      BY <3>1, <3>2 DEF SaveFlags, One
  <2>5. QED
    BY <2>1, <2>3, <2>4
<1>4. QED
  BY <1>1, <1>2, <1>3 DEF OnForm, EditorOperator

LEMMA SaveFlagsNext == TenantsTyped /\ SaveFlags /\ [ConsoleNext]_tenantVars => SaveFlags'
<1> SUFFICES ASSUME TenantsTyped, SaveFlags, [ConsoleNext]_tenantVars PROVE SaveFlags'
  OBVIOUS
<1>0. /\ Shapes /\ Asked /\ tenDb \in Table /\ (teOpen <=> tcAt = "form")
      /\ teOpen \in BOOLEAN /\ teSubmitting \in BOOLEAN
  BY AskedShapes DEF TenantsTyped, FormFields
<1>1. CASE \/ TableServer /\ UNCHANGED <<tpVars, teVars, tcAt>>
           \/ \E r \in flight : Lose(r) /\ UNCHANGED <<tenDb, tpVars, teVars, tcAt>>
  <2>1. PICK r, a, st, rows : r \in flight /\ Becomes(r, a, st, r.row, rows)
    <3>1. CASE TableServer
      BY <1>0, <3>1, TableServed DEF Asked, TenantRequest, TenantAsked
    <3>2. CASE \E r \in flight : Lose(r)
      BY <1>0, <3>2, LoseBy DEF Shapes
    <3>3. QED
      BY <1>1, <3>1, <3>2
  <2>2. /\ Mine(FormKinds)' = {} <=> Mine(FormKinds) = {}
        /\ One(Mine(FormKinds)) => One(Mine(FormKinds)')
    BY <1>0, <2>1, MineWhenAnswered
  <2>3. UNCHANGED <<teOpen, teSubmitting>>
    BY <1>1 DEF teVars
  <2>4. QED
    BY <2>2, <2>3 DEF SaveFlags
<1>2. ASSUME NEW done, VisitList(done) PROVE SaveFlags'
  <2>1. PICK S : S = {} /\ LeftWith(S)
    BY <1>2, ListLeft
  <2>2. teOpen' = FALSE
    BY <1>2 DEF VisitList
  <2>3. QED
    BY <1>0, <2>1, <2>2, SaveFlagsLeft
<1>3. ASSUME NEW s, NEW done, VisitTenant(s, done) PROVE SaveFlags'
  <2>1. PICK a : Is(a, "tenant", [slug |-> s], "sent", {}, TRUE) /\ LeftWith({a})
    BY <1>3, TenantLeft
  <2>2. teOpen' = FALSE /\ a.kind = "tenant"
    BY <1>3, <2>1 DEF VisitTenant, Is
  <2>3. QED
    BY <1>0, <2>1, <2>2, SaveFlagsLeft DEF FormKinds
<1>4. ASSUME NEW s, VisitForm(s) PROVE SaveFlags'
  <2>1. PICK S : LeftWith(S) /\ \A a \in S : Is(a, "edit", [slug |-> s], "sent", {}, TRUE)
    BY <1>4, FormLeft
  <2>2. teSubmitting' = FALSE /\ \A a \in S : a.kind = "edit"
    BY <1>4, <2>1 DEF VisitForm, EditorMounted, Is
  <2>3. QED
    BY <1>0, <2>1, <2>2, SaveFlagsLeft DEF FormKinds
<1>5. CASE OnTenantPage
  <2>1. NoneNew(FormKinds)
    BY <1>5, PageSends DEF OnTenantPage, FormKinds, PageKinds
  <2>2. teOpen = FALSE /\ UNCHANGED <<teOpen, teSubmitting>>
    BY <1>0, <1>5 DEF OnTenantPage, teVars
  <2>3. QED
    BY <2>1, <2>2, SaveFlagsOff
<1>6. CASE SaveLands
  <2>1. PICK r \in flight :
          \/ VisitTenant(r.row.slug, {r})
          \/ /\ tcAt = "tenant" /\ UNCHANGED teVars
             /\ Finish(r) \/ Send({r}, "tenant", [slug |-> r.row.slug])
    BY <1>6 DEF SaveLands, TurnTo
  <2>2. CASE VisitTenant(r.row.slug, {r})
    BY <1>3, <2>2
  <2>3. CASE /\ tcAt = "tenant" /\ UNCHANGED teVars
             /\ Finish(r) \/ Send({r}, "tenant", [slug |-> r.row.slug])
    <3>1. NoneNew(FormKinds)
      <4>1. CASE Finish(r)
        BY <4>1 DEF Finish, NoneNew
      <4>2. CASE Send({r}, "tenant", [slug |-> r.row.slug])
        BY <4>2, NoneNewWhenSent DEF FormKinds
      <4>3. QED
        BY <2>3, <4>1, <4>2
    <3>2. teOpen = FALSE /\ UNCHANGED <<teOpen, teSubmitting>>
      BY <1>0, <2>3 DEF teVars
    <3>3. QED
      BY <3>1, <3>2, SaveFlagsOff
  <2>4. QED
    BY <2>1, <2>2, <2>3
<1>7. CASE TooLate
  <2>1. PICK r \in flight : ~r.mine /\ Finish(r)
    BY <1>7 DEF TooLate
  <2>2. Mine(FormKinds)' = Mine(FormKinds)
    BY <2>1 DEF Finish, Mine
  <2>3. UNCHANGED <<teOpen, teSubmitting>>
    BY <1>7 DEF TooLate, teVars
  <2>4. QED
    BY <2>2, <2>3 DEF SaveFlags
<1>8. CASE UNCHANGED tenantVars
  BY <1>8 DEF tenantVars, pageVars, teVars, SaveFlags, Mine
<1>9. CASE FollowLink \/ LoadFails
  BY <1>2, <1>3, <1>4, <1>9 DEF FollowLink, LoadFails
<1>10. QED
  BY <1>1, <1>5, <1>6, <1>7, <1>8, <1>9, SaveFlagsForm DEF ConsoleNext

LEMMA SaveFlagsInit == ConsoleInit => SaveFlags
<1> SUFFICES ASSUME ConsoleInit PROVE SaveFlags
  OBVIOUS
<1>1. flight = {} /\ teOpen = FALSE
  BY DEF ConsoleInit, PageInit
<1>2. QED
  BY <1>1 DEF SaveFlags, Mine, One
-----------------------------------------------------------------------------
(***************************************************************************)
(* The form holds its tenant's own data, and so does every row and every   *)
(* save, until the URL changes before the form has settled.                *)
(***************************************************************************)
EditKinds == {"put", "post", "edit"}

OwnData(r) ==
    /\ r.kind \in {"put", "post"} => r.row.data.of = r.row.slug
    /\ r.kind = "edit" => \A row \in r.rows : row.of = r.row.slug
    /\ r.kind = "edit" /\ r.mine => r.row.slug = teSlug /\ teSlug # None

OwnForm ==
    /\ ~teLoading => teForm.of \in {None, teSlug}
    /\ teSlug = None => teForm.of = None

Loaded ==
    ~teHasty =>
      /\ \A s \in Slugs : tenDb[s] # None => tenDb[s].of = s
      /\ \A r \in flight : OwnData(r)
      /\ OwnForm

LEMMA LoadedIsSaved == Loaded => SavesWhatItLoaded
BY DEF Loaded, OwnData, SavesWhatItLoaded

LEMMA LoadedInit == ConsoleInit => Loaded
<1> SUFFICES ASSUME ConsoleInit PROVE Loaded
  OBVIOUS
<1>1. \A s \in Slugs : tenDb[s] # None => tenDb[s].of = s
  <2>1. PICK there \in SUBSET Slugs :
          tenDb = [s \in Slugs |-> IF s \in there THEN [of |-> s, keep |-> ""] ELSE None]
    BY DEF ConsoleInit, TableInit
  <2>2. QED
    BY <2>1
<1>2. flight = {} /\ teForm = Blank
  BY DEF ConsoleInit, PageInit
<1>3. QED
  BY <1>1, <1>2 DEF Loaded, OwnForm, Blank

LEMMA LoadedKept ==
    ASSUME Loaded, NoneNew(EditKinds), UNCHANGED <<tenDb, teSlug, teForm, teLoading, teHasty>>
    PROVE  Loaded'
BY DEF Loaded, OwnData, OwnForm, NoneNew, EditKinds

LEMMA LoadedAnswered ==
    ASSUME TenantsTyped, Loaded, TableServer \/ \E r \in flight : Lose(r) /\ tenDb' = tenDb, UNCHANGED teVars
    PROVE  Loaded'
<1> SUFFICES ASSUME ~teHasty' PROVE Loaded'
  BY DEF Loaded
<1>0. /\ \A s \in Slugs : tenDb[s] # None => tenDb[s].of = s
      /\ \A r \in flight : OwnData(r)
      /\ OwnForm /\ UNCHANGED <<teHasty, teSlug, teForm, teLoading>>
  BY DEF Loaded, teVars
<1>1. Asked /\ tenDb \in Table /\ Shapes
  BY AskedShapes DEF TenantsTyped
<1>2. CASE TableServer
  <2>1. PICK r, a, st, rows :
          r \in flight /\ r.st = "sent" /\ Becomes(r, a, st, r.row, rows) /\ Stored(r, st, rows)
    BY <1>1, <1>2, TableServed DEF Asked, TenantRequest, TenantAsked
  <2>2. OwnData(r) /\ r.row.slug \in Slugs
    BY <1>0, <1>1, <2>1 DEF Asked, TenantRequest, TenantAsked
  <2>3. \A s \in Slugs : tenDb'[s] # None => tenDb'[s].of = s
    BY <1>0, <2>1, <2>2 DEF Stored, OwnData
  <2>4. OwnData(a)
    <3>1. a.kind = r.kind /\ a.row = r.row /\ a.mine = r.mine /\ a.rows = rows
      BY <2>1 DEF Becomes, Is
    <3>2. r.kind = "edit" => \A row \in rows : row.of = r.row.slug
      BY <1>0, <2>1, <2>2 DEF Stored
    <3>3. QED
      BY <2>2, <3>1, <3>2 DEF OwnData
  <2>5. \A q \in flight' : OwnData(q)'
    BY <1>0, <2>1, <2>4 DEF Becomes, OwnData
  <2>6. QED
    BY <1>0, <2>3, <2>5 DEF Loaded, OwnForm
<1>3. CASE \E r \in flight : Lose(r) /\ tenDb' = tenDb
  <2>1. PICK r \in flight : Lose(r) /\ tenDb' = tenDb
    BY <1>3
  <2>2. PICK a : Becomes(r, a, "failed", r.row, r.rows)
    BY <1>1, <2>1, LoseBy DEF Shapes
  <2>3. OwnData(a)
    BY <1>0, <2>2 DEF Becomes, Is, OwnData
  <2>4. \A q \in flight' : OwnData(q)'
    BY <1>0, <2>2, <2>3 DEF Becomes, OwnData
  <2>5. QED
    BY <1>0, <2>1, <2>4 DEF Loaded, OwnForm
<1>4. QED
  BY <1>2, <1>3

\* A page is left: what it saved goes on, what it loaded is nobody's own.
LEMMA LoadedLeft ==
    ASSUME Shapes, Loaded, NEW S, LeftWith(S), UNCHANGED <<tenDb, teHasty>>,
           \A a \in S : OwnData(a)', OwnForm'
    PROVE  Loaded'
<1> SUFFICES ASSUME ~teHasty PROVE Loaded'
  BY DEF Loaded
<1>1. ASSUME NEW q \in flight' PROVE OwnData(q)'
  <2>1. CASE q \in S
    BY <2>1
  <2>2. ASSUME NEW r \in flight, Orphaned(q, r) PROVE OwnData(q)'
    BY <2>2 DEF Loaded, Orphaned, Is, OwnData
  <2>3. QED
    BY <1>1, <2>1, <2>2, LeftWithBy
<1>2. QED
  BY <1>1 DEF Loaded

LEMMA LoadedWhenListVisited ==
    ASSUME TenantsTyped, Loaded, NEW done, VisitList(done), tenDb' = tenDb PROVE Loaded'
<1>1. PICK S : S = {} /\ LeftWith(S)
  BY ListLeft
<1>2. UNCHANGED <<teSlug, teForm, teLoading, teHasty>>
  BY DEF VisitList
<1>3. CASE teHasty
  BY <1>2, <1>3 DEF Loaded
<1>4. CASE ~teHasty
  <2>1. OwnForm'
    BY <1>2, <1>4 DEF Loaded, OwnForm
  <2>2. Shapes
    BY AskedShapes DEF TenantsTyped
  <2>3. \A a \in S : OwnData(a)'
    BY <1>1
  <2>4. QED
    BY <1>1, <1>2, <2>1, <2>2, <2>3, LoadedLeft
<1>5. QED
  BY <1>2, <1>3, <1>4 DEF TenantsTyped, FormFields

LEMMA LoadedWhenTenantVisited ==
    ASSUME TenantsTyped, Loaded, NEW s, NEW done, VisitTenant(s, done), tenDb' = tenDb PROVE Loaded'
<1>1. PICK a : Is(a, "tenant", [slug |-> s], "sent", {}, TRUE) /\ LeftWith({a})
  BY TenantLeft
<1>2. UNCHANGED <<teSlug, teForm, teLoading, teHasty>>
  BY DEF VisitTenant
<1>3. CASE teHasty
  BY <1>2, <1>3 DEF Loaded
<1>4. CASE ~teHasty
  <2>1. OwnForm'
    BY <1>2, <1>4 DEF Loaded, OwnForm
  <2>2. Shapes
    BY AskedShapes DEF TenantsTyped
  <2>3. \A b \in {a} : OwnData(b)'
    BY <1>1 DEF Is, OwnData
  <2>4. QED
    BY <1>1, <1>2, <2>1, <2>2, <2>3, LoadedLeft
<1>5. QED
  BY <1>2, <1>3, <1>4 DEF TenantsTyped, FormFields

LEMMA LoadedWhenFormVisited ==
    ASSUME TenantsTyped, Loaded, NEW s, VisitForm(s), tenDb' = tenDb PROVE Loaded'
<1>1. PICK S : LeftWith(S) /\ \A a \in S : s # None /\ Is(a, "edit", [slug |-> s], "sent", {}, TRUE)
  BY FormLeft
<1>2. teSlug' = s /\ teForm' = Blank /\ teHasty' = teHasty
  BY DEF VisitForm, EditorMounted
<1>3. OwnForm'
  BY <1>2 DEF OwnForm, Blank
<1>4. \A a \in S : OwnData(a)'
  BY <1>1, <1>2 DEF Is, OwnData
<1>5. Shapes
  BY AskedShapes DEF TenantsTyped
<1>6. QED
  BY <1>1, <1>2, <1>3, <1>4, <1>5, LoadedLeft

LEMMA LoadedForm == TenantsTyped /\ Loaded /\ OnForm => Loaded'
<1> SUFFICES ASSUME TenantsTyped, Loaded, OnForm, ~teHasty, ~teHasty' PROVE Loaded'
  <2>1. CASE GoToForm
    <3>1. PICK b : b = (flight # {} \/ (teSlug' = None /\ teForm # Blank))
      OBVIOUS
    <3>2. teHasty' = (teHasty \/ b)
      BY <2>1, <3>1 DEF GoToForm
    <3>3. QED
      BY <3>2 DEF Loaded
  <2>2. CASE FillForm \/ SubmitForm \/ EditorAnswered
    <3>1. teHasty' = teHasty
      BY <2>2 DEF FillForm, SubmitForm, EditorAnswered, FormLoaded, SaveRefused
    <3>2. QED
      BY <3>1 DEF Loaded
  <2>3. QED
    BY <2>1, <2>2 DEF OnForm, EditorOperator
<1>0. /\ Shapes /\ Asked /\ teForm \in Form /\ teSlug \in Slugs \cup {None}
      /\ \A s \in Slugs : tenDb[s] # None => tenDb[s].of = s
      /\ \A r \in flight : OwnData(r)
      /\ OwnForm /\ tenDb' = tenDb
  BY AskedShapes DEF TenantsTyped, FormFields, Loaded, OnForm, EditorOperator, EditorAnswered
<1>1. CASE FillForm
  <2>1. teForm'.of = teForm.of /\ UNCHANGED <<flight, teSlug, teLoading>>
    BY <1>0, <1>1 DEF FillForm, Form
  <2>2. QED
    BY <1>0, <2>1 DEF Loaded, OwnForm, OwnData
<1>2. CASE GoToForm
  <2>1. PICK s \in (Slugs \cup {None}) \ {teSlug} :
          /\ teSlug' = s
          /\ IF s = None THEN UNCHANGED <<flight, raced, teLoading>>
             ELSE Send({}, "edit", [slug |-> s]) /\ teLoading' = TRUE
          /\ teHasty' = (teHasty \/ flight # {} \/ (s = None /\ teForm # Blank))
    BY <1>2 DEF GoToForm
  <2>2. flight = {} /\ teForm' = teForm /\ (s = None => teForm = Blank)
    BY <1>2, <2>1 DEF GoToForm
  <2>3. CASE s = None
    BY <1>0, <2>1, <2>2, <2>3 DEF Loaded, OwnForm, Blank
  <2>4. CASE s # None
    <3>1. PICK a : Sends({}, a, "edit", [slug |-> s])
      BY <2>1, <2>4, SendBy
    <3>2. flight' = {a} /\ OwnData(a)'
      BY <2>1, <2>2, <2>4, <3>1 DEF Sends, Is, OwnData
    <3>3. OwnForm'
      BY <2>1, <2>4 DEF OwnForm
    <3>4. QED
      BY <1>0, <3>2, <3>3 DEF Loaded
  <2>5. QED
    BY <2>3, <2>4
<1>3. CASE SubmitForm
  <2>1. PICK slug : slug = IF teSlug = None THEN teForm.slug ELSE teSlug
    OBVIOUS
  <2>2. PICK of : of = IF teForm.of = None THEN slug ELSE teForm.of
    OBVIOUS
  <2>3. PICK row : row = [slug |-> slug, data |-> [of |-> of, keep |-> teForm.keep]]
    OBVIOUS
  <2>4. of = slug
    BY <1>0, <1>3, <2>1, <2>2 DEF SubmitForm, OwnForm
  <2>5. PICK kind \in {"put", "post"} : Send({}, kind, row)
    BY <1>3, <2>1, <2>2, <2>3 DEF SubmitForm
  <2>6. PICK a : Sends({}, a, kind, row)
    BY <2>5, SendBy
  <2>7. OwnData(a)'
    BY <2>3, <2>4, <2>5, <2>6 DEF Sends, Is, OwnData
  <2>8. UNCHANGED <<teSlug, teForm, teLoading>>
    BY <1>3 DEF SubmitForm
  <2>9. \A q \in flight' : OwnData(q)'
    BY <1>0, <2>6, <2>7, <2>8 DEF Sends, OwnData
  <2>10. QED
    BY <1>0, <2>8, <2>9 DEF Loaded, OwnForm
<1>4. CASE EditorAnswered
  <2>1. PICK r \in flight : r.mine /\ (FormLoaded(r) \/ SaveRefused(r))
    BY <1>4 DEF EditorAnswered
  <2>2. Finish(r) /\ teSlug' = teSlug
    BY <2>1 DEF FormLoaded, SaveRefused
  <2>3. \A q \in flight' : OwnData(q)'
    BY <1>0, <2>2 DEF Finish, OwnData
  <2>4. OwnForm'
    <3>1. CASE SaveRefused(r)
      BY <1>0, <3>1 DEF SaveRefused, OwnForm
    <3>2. CASE FormLoaded(r)
      <4>1. PICK row \in r.rows : teForm' = [slug |-> r.row.slug, of |-> row.of, keep |-> row.keep]
        BY <3>2 DEF FormLoaded
      <4>2. row.of = r.row.slug /\ r.row.slug = teSlug /\ teSlug # None
        BY <1>0, <2>1, <3>2 DEF FormLoaded, OwnData
      <4>3. teForm'.of = teSlug
        BY <4>1, <4>2
      <4>4. QED
        BY <2>2, <4>2, <4>3 DEF OwnForm
    <3>3. QED
      BY <2>1, <3>1, <3>2
  <2>5. QED
    BY <1>0, <2>3, <2>4 DEF Loaded
<1>5. QED
  BY <1>1, <1>2, <1>3, <1>4 DEF OnForm, EditorOperator

LEMMA LoadedNext == TenantsTyped /\ Loaded /\ [ConsoleNext]_tenantVars => Loaded'
<1> SUFFICES ASSUME TenantsTyped, Loaded, [ConsoleNext]_tenantVars PROVE Loaded'
  OBVIOUS
<1>1. CASE \/ TableServer /\ UNCHANGED <<tpVars, teVars, tcAt>>
           \/ \E r \in flight : Lose(r) /\ UNCHANGED <<tenDb, tpVars, teVars, tcAt>>
  BY <1>1, LoadedAnswered
<1>2. CASE OnTenantPage
  <2>1. NoneNew(EditKinds)
    BY <1>2, PageSends DEF OnTenantPage, EditKinds, PageKinds
  <2>2. UNCHANGED <<tenDb, teSlug, teForm, teLoading, teHasty>>
    BY <1>2 DEF OnTenantPage, TenantOperator, TenantAnswered, teVars
  <2>3. QED
    BY <2>1, <2>2, LoadedKept
<1>3. CASE SaveLands
  <2>0. tenDb' = tenDb
    BY <1>3 DEF SaveLands
  <2>1. PICK r \in flight :
          \/ VisitTenant(r.row.slug, {r})
          \/ UNCHANGED teVars /\ (Finish(r) \/ Send({r}, "tenant", [slug |-> r.row.slug]))
    BY <1>3 DEF SaveLands, TurnTo
  <2>2. CASE VisitTenant(r.row.slug, {r})
    BY <2>0, <2>2, LoadedWhenTenantVisited
  <2>3. CASE UNCHANGED teVars /\ (Finish(r) \/ Send({r}, "tenant", [slug |-> r.row.slug]))
    <3>1. NoneNew(EditKinds)
      <4>1. CASE Finish(r)
        BY <4>1 DEF Finish, NoneNew
      <4>2. CASE Send({r}, "tenant", [slug |-> r.row.slug])
        BY <4>2, NoneNewWhenSent DEF EditKinds
      <4>3. QED
        BY <2>3, <4>1, <4>2
    <3>2. QED
      BY <2>0, <2>3, <3>1, LoadedKept DEF teVars
  <2>4. QED
    BY <2>1, <2>2, <2>3
<1>4. CASE TooLate
  <2>1. NoneNew(EditKinds)
    BY <1>4 DEF TooLate, Finish, NoneNew
  <2>2. QED
    BY <1>4, <2>1, LoadedKept DEF TooLate, teVars
<1>5. CASE UNCHANGED tenantVars
  <2>1. NoneNew(EditKinds)
    BY <1>5 DEF tenantVars, pageVars, NoneNew
  <2>2. QED
    BY <1>5, <2>1, LoadedKept DEF tenantVars, teVars
<1>6. CASE FollowLink
  <2>1. tenDb' = tenDb
    BY <1>6 DEF FollowLink
  <2>2. QED
    BY <1>6, <2>1, LoadedWhenListVisited, LoadedWhenTenantVisited, LoadedWhenFormVisited DEF FollowLink
<1>7. CASE LoadFails
  BY <1>7, LoadedWhenListVisited DEF LoadFails
<1>8. QED
  BY <1>1, <1>2, <1>3, <1>4, <1>5, <1>6, <1>7, LoadedForm DEF ConsoleNext
-----------------------------------------------------------------------------
(***************************************************************************)
(* The page of a tenant deletes, and gives packs to, the tenant it shows,  *)
(* until the URL changes while something is under way.                     *)
(***************************************************************************)
NamedKinds == {"tenant", "apply", "refresh", "remove"}

NamedRequest(r) ==
    /\ r.kind \in {"remove", "apply"} => r.row.named = r.row.slug
    /\ r.kind \in {"tenant", "apply", "refresh"} /\ r.mine => r.row.slug = tpSlug
    /\ r.kind = "tenant" => r.st \in {"sent", "ok", "absent"}

Settled == "move" \notin tpHasty /\ faults = 0

Named ==
    /\ faults \in Nat
    /\ Settled => /\ \A r \in flight : NamedRequest(r)
                  /\ TenantShown => tpTenant.slug = tpSlug

LEMMA NamedIsActed == Named => ActsOnWhatItNames
BY DEF Named, Settled, NamedRequest, ActsOnWhatItNames

LEMMA NamedInit == ConsoleInit => Named
BY DEF ConsoleInit, PageInit, Named, TenantShown

LEMMA ServedBy ==
    ASSUME TenantsTyped, TableServer
    PROVE  \E r \in flight : \E a, st, rows :
             /\ r.st = "sent" /\ Becomes(r, a, st, r.row, rows) /\ Stored(r, st, rows)
             /\ UNCHANGED <<clicks, faults, raced>>
BY AskedShapes, TableServed DEF TenantsTyped, Asked, TenantRequest, TenantAsked

\* Who loses something has a failure to blame.
LEMMA LostBy == ASSUME NEW r, Lose(r), faults \in Nat PROVE faults' \in Nat /\ faults' # 0
BY DEF Lose

LEMMA NamedKept ==
    ASSUME Named, NoneNew(NamedKinds), tpSlug' = tpSlug, tpHasty \subseteq tpHasty', faults' = faults,
           TenantShown' => TenantShown /\ tpTenant' = tpTenant
    PROVE  Named'
BY DEF Named, Settled, NamedRequest, NoneNew, NamedKinds

LEMMA NamedAnswered ==
    ASSUME TenantsTyped, Named, TableServer \/ \E r \in flight : Lose(r), UNCHANGED tpVars
    PROVE  Named'
<1>0. UNCHANGED <<tpSlug, tpHasty>> /\ TenantShown' = TenantShown /\ tpTenant' = tpTenant
  BY DEF tpVars, tpUI, TenantShown
<1>1. CASE TableServer
  <2>1. PICK r, a, st, rows :
          /\ r \in flight /\ r.st = "sent" /\ Becomes(r, a, st, r.row, rows) /\ Stored(r, st, rows)
          /\ UNCHANGED <<clicks, faults, raced>>
    BY <1>1, ServedBy
  <2>2. r.kind = "tenant" => st \in {"ok", "absent"}
    BY <2>1 DEF Stored, Found
  <2>3. NamedRequest(r) => NamedRequest(a)
    BY <2>1, <2>2 DEF NamedRequest, Becomes, Is
  <2>4. (\A q \in flight : NamedRequest(q)) => \A q \in flight' : NamedRequest(q)'
    BY <1>0, <2>1, <2>3 DEF Becomes, NamedRequest
  <2>5. QED
    BY <1>0, <2>1, <2>4 DEF Named, Settled
<1>2. CASE \E r \in flight : Lose(r)
  BY <1>2, LostBy DEF Named, Settled
<1>3. QED
  BY <1>1, <1>2

LEMMA NamedLeft ==
    ASSUME Shapes, Named, NEW S, LeftWith(S), UNCHANGED <<tpHasty, faults>>,
           \A a \in S : NamedRequest(a)',
           Settled /\ TenantShown' => tpTenant'.slug = tpSlug'
    PROVE  Named'
<1> SUFFICES ASSUME Settled PROVE \A q \in flight' : NamedRequest(q)'
  BY DEF Named, Settled
<1>1. ASSUME NEW q \in flight' PROVE NamedRequest(q)'
  <2>1. CASE q \in S
    BY <2>1
  <2>2. ASSUME NEW r \in flight, r.kind \notin TenantLoads, Orphaned(q, r) PROVE NamedRequest(q)'
    BY <2>2 DEF Named, Orphaned, Is, NamedRequest, TenantLoads
  <2>3. QED
    BY <1>1, <2>1, <2>2, LeftWithBy
<1>2. QED
  BY <1>1

LEMMA NamedWhenListVisited ==
    ASSUME Shapes, Named, NEW done, VisitList(done), faults' = faults PROVE Named'
<1>1. PICK S : S = {} /\ LeftWith(S)
  BY ListLeft
<1>2. UNCHANGED tpVars
  BY DEF VisitList
<1>3. UNCHANGED <<tpHasty, faults>> /\ (Settled /\ TenantShown' => tpTenant'.slug = tpSlug')
  BY <1>2 DEF tpVars, tpUI, Named, TenantShown
<1>4. \A a \in S : NamedRequest(a)'
  BY <1>1
<1>5. QED
  BY <1>1, <1>3, <1>4, NamedLeft

LEMMA NamedWhenTenantVisited ==
    ASSUME Shapes, Named, NEW s, NEW done, VisitTenant(s, done), faults' = faults PROVE Named'
<1>1. PICK a : Is(a, "tenant", [slug |-> s], "sent", {}, TRUE) /\ LeftWith({a})
  BY TenantLeft
<1>2. tpSlug' = s /\ tpTenant' = None /\ tpHasty' = tpHasty
  BY DEF VisitTenant, TenantMounted
<1>3. UNCHANGED <<tpHasty, faults>> /\ (Settled /\ TenantShown' => tpTenant'.slug = tpSlug')
  BY <1>2 DEF TenantShown
<1>4. \A b \in {a} : NamedRequest(b)'
  BY <1>1, <1>2 DEF Is, NamedRequest
<1>5. QED
  BY <1>1, <1>3, <1>4, NamedLeft

LEMMA NamedWhenFormVisited ==
    ASSUME Shapes, Named, NEW s, VisitForm(s), faults' = faults PROVE Named'
<1>1. PICK S : LeftWith(S) /\ \A a \in S : Is(a, "edit", [slug |-> s], "sent", {}, TRUE)
  BY FormLeft
<1>2. UNCHANGED tpVars
  BY DEF VisitForm
<1>3. UNCHANGED <<tpHasty, faults>> /\ (Settled /\ TenantShown' => tpTenant'.slug = tpSlug')
  BY <1>2 DEF tpVars, tpUI, Named, TenantShown
<1>4. \A a \in S : NamedRequest(a)'
  BY <1>1 DEF Is, NamedRequest
<1>5. QED
  BY <1>1, <1>3, <1>4, NamedLeft

\* The URL changes with nothing under way, or the page has moved.
LEMMA TurnedBy ==
    ASSUME NEW s, NEW done, TurnTo(s, done)
    PROVE  /\ tpSlug' = s /\ tpLoading' = TRUE /\ tpHasty \subseteq tpHasty'
           /\ UNCHANGED <<tpTenant, tpMissing, tpConfirm, tpDeleting, tpApplying, tpPack, tpReport>>
           /\ tpReport # None => "report" \in tpHasty'
           /\ "move" \in tpHasty' => "move" \in tpHasty \/ "report" \in tpHasty'
           /\ \/ {"move", "report"} \subseteq tpHasty'
              \/ \E a : flight' = {a} /\ Is(a, "tenant", [slug |-> s], "sent", {}, TRUE)
<1>1. /\ tpSlug' = s /\ tpLoading' = TRUE
      /\ UNCHANGED <<tpTenant, tpMissing, tpConfirm, tpDeleting, tpApplying, tpPack, tpReport>>
  BY DEF TurnTo
<1>2. tpHasty' = tpHasty \cup (IF flight \ done # {} THEN {"move", "report"}
                               ELSE IF tpReport # None THEN {"report"} ELSE {})
  BY DEF TurnTo
<1>3. PICK a : Sends(done, a, "tenant", [slug |-> s])
  BY SendBy DEF TurnTo
<1>4. flight \ done = {} => flight' = {a} /\ Is(a, "tenant", [slug |-> s], "sent", {}, TRUE)
  BY <1>3 DEF Sends
<1>5. QED
  BY <1>1, <1>2, <1>4

LEMMA NamedWhenTurned ==
    ASSUME Named, NEW s, NEW done, TurnTo(s, done), faults' = faults PROVE Named'
<1>1. CASE "move" \in tpHasty'
  BY <1>1 DEF Named, Settled
<1>2. ASSUME NEW a, flight' = {a}, Is(a, "tenant", [slug |-> s], "sent", {}, TRUE) PROVE Named'
  <2>1. tpSlug' = s /\ tpLoading' = TRUE /\ tpHasty \subseteq tpHasty'
    BY TurnedBy
  <2>2. \A q \in flight' : NamedRequest(q)'
    BY <1>2, <2>1 DEF Is, NamedRequest
  <2>3. QED
    BY <2>1, <2>2 DEF Named, TenantShown
<1>3. QED
  BY <1>1, <1>2, TurnedBy

LEMMA NamedSent ==
    ASSUME Named, NEW kind, NEW row, Send({}, kind, row), UNCHANGED <<tpSlug, faults>>,
           tpHasty \subseteq tpHasty', TenantShown' => TenantShown /\ tpTenant' = tpTenant,
           kind # "tenant", kind \in {"remove", "apply"} => TenantShown /\ row.named = tpTenant.slug,
           row.slug = tpSlug
    PROVE  Named'
<1> SUFFICES ASSUME Settled', Settled PROVE \A q \in flight' : NamedRequest(q)'
  BY DEF Named, Settled
<1>1. PICK a : Sends({}, a, kind, row)
  BY SendBy
<1>2. NamedRequest(a)'
  BY <1>1 DEF Named, NamedRequest, Sends, Is
<1>3. QED
  BY <1>1, <1>2 DEF Sends, Named, NamedRequest

LEMMA NamedOperator == TenantsTyped /\ Named /\ TenantOperator => Named'
<1> SUFFICES ASSUME TenantsTyped, Named, TenantOperator PROVE Named'
  OBVIOUS
<1>0. faults' = faults
  BY DEF TenantOperator
<1>1. CASE GoToTenant
  BY <1>0, <1>1, NamedWhenTurned DEF GoToTenant
<1>2. CASE AskDeleteTenant \/ CancelDeleteTenant
  <2>1. UNCHANGED <<flight, tpSlug, tpTenant, tpLoading, tpMissing, tpHasty>>
    BY <1>2 DEF AskDeleteTenant, CancelDeleteTenant
  <2>2. NoneNew(NamedKinds)
    BY <2>1 DEF NoneNew
  <2>3. QED
    BY <1>0, <2>1, <2>2, NamedKept DEF TenantShown
<1>3. CASE ConfirmDeleteTenant
  <2>1. PICK row : row = [slug |-> tpSlug, named |-> tpTenant.slug]
    OBVIOUS
  <2>2. /\ Send({}, "remove", row) /\ tpHasty \subseteq tpHasty' /\ TenantShown
        /\ UNCHANGED <<tpSlug, tpTenant, tpLoading, tpMissing>>
    BY <1>3, <2>1 DEF ConfirmDeleteTenant
  <2>3. QED
    BY <1>0, <2>1, <2>2, NamedSent DEF TenantShown
<1>4. CASE ApplyPack
  <2>0. PICK p : Send({}, "apply", [slug |-> tpSlug, pack |-> p, named |-> tpTenant.slug])
    BY <1>4 DEF ApplyPack
  <2>1. PICK row : row = [slug |-> tpSlug, pack |-> p, named |-> tpTenant.slug]
    OBVIOUS
  <2>2. /\ Send({}, "apply", row) /\ tpHasty \subseteq tpHasty' /\ TenantShown
        /\ UNCHANGED <<tpSlug, tpTenant, tpLoading, tpMissing>>
    BY <1>4, <2>0, <2>1 DEF ApplyPack
  <2>3. QED
    BY <1>0, <2>1, <2>2, NamedSent DEF TenantShown
<1>5. CASE ShowReport
  <2>0. PICK p : Send({}, "report", [slug |-> tpSlug, pack |-> p])
    BY <1>5 DEF ShowReport
  <2>1. PICK row : row = [slug |-> tpSlug, pack |-> p]
    OBVIOUS
  <2>2. /\ Send({}, "report", row) /\ tpHasty \subseteq tpHasty' /\ TenantShown
        /\ UNCHANGED <<tpSlug, tpTenant, tpLoading, tpMissing>>
    BY <1>5, <2>0, <2>1 DEF ShowReport
  <2>3. QED
    BY <1>0, <2>1, <2>2, NamedSent DEF TenantShown
<1>6. QED
  BY <1>1, <1>2, <1>3, <1>4, <1>5 DEF TenantOperator

LEMMA NamedArrived == TenantsTyped /\ Named /\ TenantAnswered => Named'
<1> SUFFICES ASSUME TenantsTyped, Named, TenantAnswered PROVE Named'
  OBVIOUS
<1>0. UNCHANGED <<tpSlug, tpHasty, faults>>
  BY DEF TenantAnswered
<1>1. PICK r \in flight :
        r.st # "sent" /\ r.mine /\ (TenantLoaded(r) \/ DeleteAnswered(r) \/ PackStep(r) \/ ReportLoaded(r))
  BY DEF TenantAnswered
<1>n. Finish(r) => NoneNew(NamedKinds)
  BY DEF Finish, NoneNew
<1>2. CASE DeleteAnswered(r) \/ ReportLoaded(r)
  <2>1. Finish(r) /\ UNCHANGED <<tpTenant, tpLoading, tpMissing>>
    BY <1>2 DEF DeleteAnswered, ReportLoaded
  <2>2. QED
    BY <1>0, <1>n, <2>1, NamedKept DEF TenantShown
<1>3. CASE TenantLoaded(r)
  <2>1. /\ r.kind = "tenant" /\ Finish(r)
        /\ r.st = "ok" => tpTenant' = Shown(r)
        /\ tpMissing' = (tpMissing \/ r.st = "absent")
    BY <1>3 DEF TenantLoaded
  <2>a. r.st = "absent" => tpMissing'
    BY <2>1, Zenon
  <2>2. Settled => r.row.slug = tpSlug /\ r.st \in {"ok", "absent"}
    BY <1>1, <2>1 DEF Named, NamedRequest
  <2>b. Settled /\ TenantShown' => r.st = "ok" /\ r.row.slug = tpSlug
    BY <2>2, <2>a DEF TenantShown
  <2>3. Settled /\ TenantShown' => tpTenant'.slug = tpSlug
    BY <2>1, <2>b DEF Shown
  <2>4. Settled => \A q \in flight' : NamedRequest(q)'
    BY <1>0, <2>1 DEF Finish, Named, NamedRequest
  <2>5. QED
    BY <1>0, <2>3, <2>4 DEF Named, Settled
<1>4. CASE PackStep(r)
  <2>1. PICK row : row = [slug |-> r.row.slug, pack |-> r.row.pack]
    OBVIOUS
  <2>2. UNCHANGED <<tpLoading, tpMissing>> /\ r.kind \in {"apply", "refresh", "applied"}
    BY <1>4 DEF PackStep
  <2>3. CASE tpTenant' = tpTenant /\ Finish(r)
    BY <1>0, <1>n, <2>2, <2>3, NamedKept DEF TenantShown
  <2>4. CASE r.kind = "apply" /\ tpTenant' = tpTenant /\ Send({r}, "refresh", row)
    <3>1. PICK a : Sends({r}, a, "refresh", row)
      BY <2>4, SendBy
    <3>2. Settled => r.row.slug = tpSlug
      BY <1>1, <2>4 DEF Named, NamedRequest
    <3>3. Settled => NamedRequest(a)'
      BY <1>0, <2>1, <3>1, <3>2 DEF NamedRequest, Sends, Is
    <3>4. Settled => \A q \in flight' : NamedRequest(q)'
      BY <1>0, <3>1, <3>3 DEF Sends, Named, NamedRequest
    <3>5. QED
      BY <1>0, <2>2, <2>4, <3>4 DEF Named, Settled, TenantShown
  <2>5. CASE r.kind = "refresh" /\ tpTenant' = Shown(r) /\ Send({r}, "applied", row)
    <3>1. PICK a : Sends({r}, a, "applied", row)
      BY <2>5, SendBy
    <3>2. Settled => r.row.slug = tpSlug
      BY <1>1, <2>5 DEF Named, NamedRequest
    <3>3. NamedRequest(a)'
      BY <3>1 DEF NamedRequest, Sends, Is
    <3>4. Settled => \A q \in flight' : NamedRequest(q)'
      BY <1>0, <3>1, <3>3 DEF Sends, Named, NamedRequest
    <3>5. QED
      BY <1>0, <2>2, <2>5, <3>2, <3>4 DEF Named, Settled, TenantShown, Shown
  <2>6. QED
    BY <1>4, <2>1, <2>2, <2>3, <2>4, <2>5 DEF PackStep
<1>5. QED
  BY <1>1, <1>2, <1>3, <1>4

\* The form asks for nothing of the page's.
LEMMA FormSends ==
    ASSUME OnForm, NEW kinds, kinds \cap {"put", "post", "edit"} = {}
    PROVE  NoneNew(kinds)
<1>1. ASSUME flight' = flight \/ \E r : Finish(r) PROVE NoneNew(kinds)
  BY <1>1 DEF Finish, NoneNew
<1>2. CASE FillForm
  BY <1>1, <1>2 DEF FillForm
<1>3. CASE GoToForm
  <2>1. flight' = flight \/ \E s : Send({}, "edit", [slug |-> s])
    BY <1>3 DEF GoToForm
  <2>2. QED
    BY <1>1, <2>1, NoneNewWhenSent
<1>4. CASE SubmitForm
  <2>1. PICK kind, row : kind \in {"put", "post"} /\ Send({}, kind, row)
    BY <1>4 DEF SubmitForm
  <2>2. QED
    BY <2>1, NoneNewWhenSent
<1>5. CASE EditorAnswered
  <2>1. PICK r : FormLoaded(r) \/ SaveRefused(r)
    BY <1>5 DEF EditorAnswered
  <2>2. Finish(r)
    BY <2>1 DEF FormLoaded, SaveRefused
  <2>3. QED
    BY <1>1, <2>2
<1>6. QED
  BY <1>2, <1>3, <1>4, <1>5 DEF OnForm, EditorOperator

LEMMA NamedNext == TenantsTyped /\ Named /\ [ConsoleNext]_tenantVars => Named'
<1> SUFFICES ASSUME TenantsTyped, Named, [ConsoleNext]_tenantVars PROVE Named'
  OBVIOUS
<1>0. Shapes
  BY AskedShapes DEF TenantsTyped
<1>k. ASSUME NoneNew(NamedKinds), UNCHANGED tpVars, faults' = faults PROVE Named'
  <2>1. UNCHANGED <<tpSlug, tpHasty>> /\ (TenantShown' => TenantShown /\ tpTenant' = tpTenant)
    BY <1>k DEF tpVars, tpUI, TenantShown
  <2>2. QED
    BY <1>k, <2>1, NamedKept
<1>1. CASE \/ TableServer /\ UNCHANGED <<tpVars, teVars, tcAt>>
           \/ \E r \in flight : Lose(r) /\ UNCHANGED <<tenDb, tpVars, teVars, tcAt>>
  BY <1>1, NamedAnswered
<1>2. CASE OnTenantPage
  BY <1>2, NamedOperator, NamedArrived DEF OnTenantPage
<1>3. CASE OnForm
  <2>1. NoneNew(NamedKinds)
    BY <1>3, FormSends DEF NamedKinds
  <2>2. UNCHANGED tpVars /\ faults' = faults
    BY <1>3 DEF OnForm, EditorOperator, EditorAnswered
  <2>3. QED
    BY <1>k, <2>1, <2>2
<1>4. CASE SaveLands
  <2>1. faults' = faults
    BY <1>4 DEF SaveLands
  <2>2. PICK r \in flight :
          \/ VisitTenant(r.row.slug, {r})
          \/ Finish(r) /\ UNCHANGED tpVars
          \/ TurnTo(r.row.slug, {r})
    BY <1>4 DEF SaveLands
  <2>3. Finish(r) => NoneNew(NamedKinds)
    BY DEF Finish, NoneNew
  <2>4. QED
    BY <1>0, <1>k, <2>1, <2>2, <2>3, NamedWhenTenantVisited, NamedWhenTurned
<1>5. CASE TooLate
  <2>1. NoneNew(NamedKinds)
    BY <1>5 DEF TooLate, Finish, NoneNew
  <2>2. QED
    BY <1>5, <1>k, <2>1 DEF TooLate
<1>6. CASE UNCHANGED tenantVars
  <2>1. NoneNew(NamedKinds)
    BY <1>6 DEF tenantVars, pageVars, NoneNew
  <2>2. QED
    BY <1>6, <1>k, <2>1 DEF tenantVars, pageVars
<1>7. CASE FollowLink
  <2>1. faults' = faults
    BY <1>7 DEF FollowLink
  <2>2. QED
    BY <1>0, <1>7, <2>1, NamedWhenListVisited, NamedWhenTenantVisited, NamedWhenFormVisited DEF FollowLink
<1>8. CASE LoadFails
  BY <1>0, <1>8, NamedWhenListVisited DEF LoadFails
<1>9. QED
  BY <1>1, <1>2, <1>3, <1>4, <1>5, <1>6, <1>7, <1>8 DEF ConsoleNext
-----------------------------------------------------------------------------
(***************************************************************************)
(* The report on a tenant's page is of the tenant and pack named above it, *)
(* until something is asked for in a hurry, deleted or lost.               *)
(***************************************************************************)
Unhurried == {"report", "gone"} \cap tpHasty = {} /\ faults = 0

\* The page's own request for a pack or report is answered as it was meant.
PackRequest(r) ==
    /\ r.row.slug = tpSlug /\ tenDb[tpSlug] # None /\ r.st \in {"sent", "ok"}
    /\ r.kind \in {"apply", "refresh", "applied"} => tpApplying = r.row.pack
    /\ r.kind \in {"refresh", "applied", "report"} => tpPack = r.row.pack

ReportRequest(r) ==
    /\ r.kind # "remove"
    /\ r.mine /\ r.kind = "tenant" /\ r.st = "ok" => tenDb[r.row.slug] # None
    /\ r.mine /\ r.kind \in ReportKinds => PackRequest(r)

ReportTrue ==
    tpReport # None /\ tpApplying = None => tpReport = [slug |-> tpSlug, pack |-> tpPack]

ReportParts ==
    /\ \A r \in flight : ReportRequest(r)
    /\ One(Mine(ReportKinds))
    /\ TenantShown => tenDb[tpSlug] # None
    /\ ReportTrue

Report ==
    /\ "move" \in tpHasty => "report" \in tpHasty
    /\ Unhurried => ReportParts

LEMMA ReportIsTrue == Report /\ faults \in Nat => ReportIsOfPack
BY DEF Report, ReportParts, ReportTrue, Unhurried, ReportIsOfPack

LEMMA ReportInit == ConsoleInit => Report
<1> SUFFICES ASSUME ConsoleInit PROVE Report
  OBVIOUS
<1>1. flight = {} /\ tpHasty = {} /\ tpReport = None /\ ~TenantShown
  BY DEF ConsoleInit, PageInit, TenantShown
<1>2. One(Mine(ReportKinds))
  BY <1>1 DEF One, Mine
<1>3. QED
  BY <1>1, <1>2 DEF Report, ReportParts, ReportTrue

\* Nothing about packs and reports changes but what is finished.
LEMMA ReportKept ==
    ASSUME Report, NoneNew(PageKinds), UNCHANGED <<tenDb, tpSlug, tpApplying, tpPack, tpReport, tpHasty, faults>>,
           Unhurried /\ TenantShown' => tenDb[tpSlug] # None
    PROVE  Report'
<1> SUFFICES ASSUME Unhurried PROVE ReportParts'
  BY DEF Report, Unhurried
<1>0. ReportParts
  BY DEF Report
<1>1. ASSUME NEW q \in flight' PROVE ReportRequest(q)'
  <2>1. q \in flight \/ q.kind \notin PageKinds
    BY <1>1 DEF NoneNew
  <2>2. QED
    BY <1>0, <2>1 DEF ReportParts, ReportRequest, PackRequest, PageKinds, ReportKinds
<1>2. One(Mine(ReportKinds))'
  <2>1. Mine(ReportKinds)' \subseteq Mine(ReportKinds)
    BY DEF NoneNew, Mine, PageKinds, ReportKinds
  <2>2. QED
    BY <1>0, <2>1 DEF ReportParts, One
<1>3. QED
  BY <1>0, <1>1, <1>2 DEF ReportParts, ReportTrue

\* While nothing is deleted no tenant goes.
LEMMA NobodyGoes ==
    ASSUME NEW r, NEW st, NEW rows, TenantRequest(r), tenDb \in Table, Stored(r, st, rows), r.kind # "remove"
    PROVE  \A s \in Slugs : tenDb[s] # None => tenDb'[s] # None
<1>1. r.row.slug \in Slugs
  BY DEF TenantRequest, TenantAsked
<1>2. r.kind = "post" => r.row.data \in TenantRow
  BY DEF TenantRequest, TenantAsked
<1>3. tenDb[r.row.slug] # None => tenDb'[r.row.slug] # None
  BY <1>1, <1>2, TableAssumption DEF Stored, TenantRequest, TenantAsked
<1>4. QED
  BY <1>1, <1>3 DEF Stored

LEMMA ReportAnswered ==
    ASSUME TenantsTyped, Named, Report, TableServer \/ \E r \in flight : Lose(r), UNCHANGED tpVars
    PROVE  Report'
<1>0. /\ UNCHANGED <<tpSlug, tpApplying, tpPack, tpReport, tpHasty>> /\ TenantShown' = TenantShown
      /\ Shapes /\ Asked /\ tenDb \in Table
  BY AskedShapes DEF tpVars, tpUI, TenantShown, TenantsTyped
<1>1. CASE TableServer
  <2>1. PICK r, a, st, rows :
          /\ r \in flight /\ r.st = "sent" /\ Becomes(r, a, st, r.row, rows) /\ Stored(r, st, rows)
          /\ UNCHANGED <<clicks, faults, raced>>
    BY <1>1, ServedBy
  <2> SUFFICES ASSUME Unhurried PROVE ReportParts'
    BY <1>0, <2>1 DEF Report, Unhurried
  <2>2. ReportParts /\ ReportRequest(r) /\ TenantRequest(r)
    BY <1>0, <2>1 DEF Report, ReportParts, Asked
  <2>3. \A s \in Slugs : tenDb[s] # None => tenDb'[s] # None
    BY <1>0, <2>1, <2>2, NobodyGoes DEF ReportRequest
  <2>4. /\ a.kind = r.kind /\ a.mine = r.mine /\ a.row = r.row /\ a.st = st
        /\ r.row.slug \in Slugs
    BY <2>1, <2>2 DEF Becomes, Is, TenantRequest, TenantAsked
  <2>5. r.kind \in ReportKinds \cup {"tenant"} => st = Found(r.row.slug)
    BY <2>1 DEF Stored, ReportKinds
  <2>6. ReportRequest(a)'
    <3>1. a.mine /\ a.kind = "tenant" /\ a.st = "ok" => tenDb[a.row.slug] # None
      BY <2>4, <2>5 DEF Found
    <3>2. a.mine /\ a.kind \in ReportKinds => PackRequest(a)
      BY <2>2, <2>4, <2>5 DEF ReportRequest, PackRequest, Found
    <3>3. a.mine /\ a.kind \in ReportKinds => PackRequest(a)'
      BY <1>0, <2>3, <2>4, <3>2 DEF PackRequest
    <3>4. QED
      BY <2>2, <2>3, <2>4, <3>1, <3>3 DEF ReportRequest
  <2>7. ASSUME NEW q \in flight' PROVE ReportRequest(q)'
    <3>1. CASE q = a
      BY <2>6, <3>1
    <3>2. CASE q \in flight
      <4>1. ReportRequest(q) /\ q.row.slug \in Slugs
        BY <1>0, <2>2, <3>2 DEF ReportParts, Asked, TenantRequest, TenantAsked
      <4>2. QED
        BY <1>0, <2>3, <4>1 DEF ReportRequest, PackRequest
    <3>3. QED
      BY <2>1, <2>7, <3>1, <3>2 DEF Becomes
  <2>8. One(Mine(ReportKinds))'
    BY <1>0, <2>1, <2>2, MineWhenAnswered DEF ReportParts
  <2>9. TenantShown' => tenDb'[tpSlug'] # None
    <3>1. TenantShown => tpSlug \in Slugs
      BY DEF Report, Unhurried, Named, Settled, TenantShown, TenantsTyped, PageFields, OnPage
    <3>2. QED
      BY <1>0, <2>2, <2>3, <3>1 DEF ReportParts
  <2>10. QED
    BY <1>0, <2>2, <2>7, <2>8, <2>9 DEF ReportParts, ReportTrue
<1>2. CASE \E r \in flight : Lose(r)
  BY <1>0, <1>2, LostBy DEF Report, Unhurried, Named
<1>3. QED
  BY <1>1, <1>2

\* A page is left, and nothing is under way any more that it waits for.
LEMMA ReportLeft ==
    ASSUME Shapes, Report, NEW S, LeftWith(S), UNCHANGED <<tpHasty, faults>>,
           \A a \in S : a.kind \in {"tenant", "edit"} /\ a.st = "sent",
           Unhurried => (TenantShown' => tenDb'[tpSlug'] # None) /\ ReportTrue'
    PROVE  Report'
<1> SUFFICES ASSUME Unhurried PROVE ReportParts'
  BY DEF Report, Unhurried
<1>1. ASSUME NEW q \in flight' PROVE ReportRequest(q)'
  <2>1. CASE q \in S
    BY <2>1 DEF ReportRequest, ReportKinds
  <2>2. ASSUME NEW r \in flight, Orphaned(q, r) PROVE ReportRequest(q)'
    <3>1. q.mine = FALSE /\ q.kind = r.kind /\ ReportRequest(r)
      BY <2>2 DEF Orphaned, Is, Report, ReportParts
    <3>2. QED
      BY <3>1 DEF ReportRequest
  <2>3. QED
    BY <1>1, <2>1, <2>2, LeftWithBy
<1>2. Mine(ReportKinds)' = {}
  BY MineLeftWith DEF ReportKinds
<1>3. QED
  BY <1>1, <1>2 DEF ReportParts, One

LEMMA ReportWhenListVisited ==
    ASSUME Shapes, Report, NEW done, VisitList(done), UNCHANGED <<tenDb, faults>> PROVE Report'
<1>1. PICK S : S = {} /\ LeftWith(S)
  BY ListLeft
<1>2. UNCHANGED tpVars
  BY DEF VisitList
<1>3. /\ UNCHANGED <<tpHasty, faults>>
      /\ Unhurried => (TenantShown' => tenDb'[tpSlug'] # None) /\ ReportTrue'
  BY <1>2 DEF tpVars, tpUI, Report, ReportParts, ReportTrue, TenantShown
<1>4. \A a \in S : a.kind \in {"tenant", "edit"} /\ a.st = "sent"
  BY <1>1
<1>5. QED
  BY <1>1, <1>3, <1>4, ReportLeft

LEMMA ReportWhenTenantVisited ==
    ASSUME Shapes, Report, NEW s, NEW done, VisitTenant(s, done), UNCHANGED <<tenDb, faults>> PROVE Report'
<1>1. PICK a : Is(a, "tenant", [slug |-> s], "sent", {}, TRUE) /\ LeftWith({a})
  BY TenantLeft
<1>2. tpTenant' = None /\ tpReport' = None /\ tpHasty' = tpHasty
  BY DEF VisitTenant, TenantMounted
<1>3. /\ UNCHANGED <<tpHasty, faults>>
      /\ Unhurried => (TenantShown' => tenDb'[tpSlug'] # None) /\ ReportTrue'
  BY <1>2 DEF ReportTrue, TenantShown
<1>4. \A b \in {a} : b.kind \in {"tenant", "edit"} /\ b.st = "sent"
  BY <1>1 DEF Is
<1>5. QED
  BY <1>1, <1>3, <1>4, ReportLeft

LEMMA ReportWhenFormVisited ==
    ASSUME Shapes, Report, NEW s, VisitForm(s), UNCHANGED <<tenDb, faults>> PROVE Report'
<1>1. PICK S : LeftWith(S) /\ \A a \in S : Is(a, "edit", [slug |-> s], "sent", {}, TRUE)
  BY FormLeft
<1>2. UNCHANGED tpVars
  BY DEF VisitForm
<1>3. /\ UNCHANGED <<tpHasty, faults>>
      /\ Unhurried => (TenantShown' => tenDb'[tpSlug'] # None) /\ ReportTrue'
  BY <1>2 DEF tpVars, tpUI, Report, ReportParts, ReportTrue, TenantShown
<1>4. \A a \in S : a.kind \in {"tenant", "edit"} /\ a.st = "sent"
  BY <1>1 DEF Is
<1>5. QED
  BY <1>1, <1>3, <1>4, ReportLeft

LEMMA ReportWhenTurned ==
    ASSUME Report, NEW s, NEW done, TurnTo(s, done), UNCHANGED <<tenDb, faults>> PROVE Report'
<1>1. /\ tpLoading' = TRUE /\ tpHasty \subseteq tpHasty'
      /\ UNCHANGED <<tpApplying, tpPack, tpReport>>
      /\ tpReport # None => "report" \in tpHasty'
      /\ "move" \in tpHasty' => "move" \in tpHasty \/ "report" \in tpHasty'
  BY TurnedBy
<1>2. CASE "report" \in tpHasty'
  BY <1>2 DEF Report, Unhurried
<1>3. CASE "report" \notin tpHasty'
  <2>1. PICK a : flight' = {a} /\ Is(a, "tenant", [slug |-> s], "sent", {}, TRUE)
    BY <1>3, TurnedBy
  <2>2. tpReport' = None /\ ~TenantShown'
    BY <1>1, <1>3 DEF TenantShown
  <2>3. Mine(ReportKinds)' = {} /\ \A q \in flight' : ReportRequest(q)'
    BY <2>1 DEF Mine, Is, ReportRequest, ReportKinds
  <2>4. ReportParts'
    BY <2>2, <2>3 DEF ReportParts, ReportTrue, One
  <2>5. QED
    BY <1>1, <2>4 DEF Report
<1>4. QED
  BY <1>2, <1>3

\* The next request for a pack or report of the tenant, when no other is under way.
LEMMA ReportSent ==
    ASSUME Shapes, ReportParts, NEW done, NEW kind \in ReportKinds, NEW row, Send(done, kind, row),
           Mine(ReportKinds) \ done = {}, UNCHANGED <<tenDb, tpSlug>>,
           row.slug = tpSlug, tenDb[tpSlug] # None,
           kind \in {"apply", "refresh", "applied"} => tpApplying' = row.pack,
           kind \in {"refresh", "applied", "report"} => tpPack' = row.pack,
           ReportTrue'
    PROVE  ReportParts'
<1>1. PICK a : Sends(done, a, kind, row)
  BY SendBy
<1>2. /\ a.kind = kind /\ a.row = row /\ a.st = "sent" /\ a.mine
      /\ flight' = (flight \ done) \cup {a}
  BY <1>1 DEF Sends, Is
<1>3. ReportRequest(a)'
  BY <1>2 DEF ReportRequest, PackRequest, ReportKinds
<1>4. ASSUME NEW q \in flight \ done PROVE ReportRequest(q)'
  <2>1. ReportRequest(q) /\ q \notin Mine(ReportKinds)
    BY <1>4 DEF ReportParts
  <2>2. ~(q.mine /\ q.kind \in ReportKinds)
    BY <1>4, <2>1 DEF Mine
  <2>3. QED
    BY <2>1, <2>2 DEF ReportRequest
<1>5. Mine(ReportKinds)' = {a}
  BY <1>1, <1>2, MineWhenSent
<1>6. QED
  BY <1>2, <1>3, <1>4, <1>5 DEF ReportParts, One

LEMMA ReportOperator == TenantsTyped /\ Report /\ TenantOperator => Report'
<1> SUFFICES ASSUME TenantsTyped, Report, TenantOperator PROVE Report'
  OBVIOUS
<1>0. UNCHANGED <<tenDb, faults>> /\ Shapes
  BY AskedShapes DEF TenantOperator, TenantsTyped
<1>1. CASE GoToTenant
  BY <1>0, <1>1, ReportWhenTurned DEF GoToTenant
<1>2. CASE AskDeleteTenant \/ CancelDeleteTenant
  <2>1. /\ TenantShown
        /\ UNCHANGED <<flight, tpSlug, tpApplying, tpPack, tpReport, tpHasty>>
    BY <1>2 DEF AskDeleteTenant, CancelDeleteTenant
  <2>2. NoneNew(PageKinds) /\ (Unhurried => tenDb[tpSlug] # None)
    BY <2>1 DEF NoneNew, Report, ReportParts
  <2>3. QED
    BY <1>0, <2>1, <2>2, ReportKept
<1>3. CASE ConfirmDeleteTenant
  <2>1. tpHasty' = tpHasty \cup {"gone"}
    BY <1>3 DEF ConfirmDeleteTenant
  <2>2. QED
    BY <2>1 DEF Report, Unhurried
<1>h. ASSUME tpHasty' = tpHasty \cup Hurried(ReportKinds), Unhurried'
      PROVE  Unhurried /\ Mine(ReportKinds) = {}
  BY <1>0, <1>h DEF Unhurried, Hurried, Mine
<1>m. ASSUME tpHasty' = tpHasty \cup Hurried(ReportKinds), Unhurried' => ReportParts' PROVE Report'
  BY <1>m DEF Report, Hurried
<1>4. CASE ApplyPack
  <2>0. PICK p \in Packs \ {tpApplying} :
          tpApplying' = p /\ Send({}, "apply", [slug |-> tpSlug, pack |-> p, named |-> tpTenant.slug])
    BY <1>4 DEF ApplyPack
  <2>1. PICK row : row = [slug |-> tpSlug, pack |-> p, named |-> tpTenant.slug]
    OBVIOUS
  <2>2. /\ Send({}, "apply", row) /\ TenantShown /\ tpSlug' = tpSlug
        /\ tpHasty' = tpHasty \cup Hurried(ReportKinds)
    BY <1>4, <2>0, <2>1 DEF ApplyPack
  <2>3. ReportTrue'
    BY <2>0, PackAssumption DEF ReportTrue
  <2>4. ASSUME Unhurried' PROVE ReportParts'
    <3>1. Mine(ReportKinds) \ {} = {} /\ ReportParts
      BY <1>h, <2>2, <2>4 DEF Report
    <3>2. tenDb[tpSlug] # None /\ row.slug = tpSlug /\ row.pack = p /\ "apply" \in ReportKinds
      BY <2>1, <2>2, <3>1 DEF ReportParts, ReportKinds
    <3>3. QED
      BY <1>0, <2>0, <2>2, <2>3, <3>1, <3>2, ReportSent
  <2>5. QED
    BY <1>m, <2>2, <2>4
<1>5. CASE ShowReport
  <2>0. PICK p \in Packs : tpPack' = p /\ Send({}, "report", [slug |-> tpSlug, pack |-> p])
    BY <1>5 DEF ShowReport
  <2>1. PICK row : row = [slug |-> tpSlug, pack |-> p]
    OBVIOUS
  <2>2. /\ Send({}, "report", row) /\ TenantShown /\ tpSlug' = tpSlug /\ tpReport' = None
        /\ tpHasty' = tpHasty \cup Hurried(ReportKinds)
    BY <1>5, <2>0, <2>1 DEF ShowReport
  <2>3. ReportTrue'
    BY <2>2 DEF ReportTrue
  <2>4. ASSUME Unhurried' PROVE ReportParts'
    <3>1. Mine(ReportKinds) \ {} = {} /\ ReportParts
      BY <1>h, <2>2, <2>4 DEF Report
    <3>2. tenDb[tpSlug] # None /\ row.slug = tpSlug /\ row.pack = p /\ "report" \in ReportKinds
      BY <2>1, <2>2, <3>1 DEF ReportParts, ReportKinds
    <3>3. QED
      BY <1>0, <2>0, <2>2, <2>3, <3>1, <3>2, ReportSent
  <2>5. QED
    BY <1>m, <2>2, <2>4
<1>6. QED
  BY <1>1, <1>2, <1>3, <1>4, <1>5 DEF TenantOperator

LEMMA ReportArrived == TenantsTyped /\ Named /\ Report /\ TenantAnswered => Report'
<1> SUFFICES ASSUME TenantsTyped, Named, Report, TenantAnswered PROVE Report'
  OBVIOUS
<1>0. UNCHANGED <<tpSlug, tpHasty, faults, tenDb>> /\ Shapes /\ Asked
  BY AskedShapes DEF TenantAnswered, TenantsTyped
<1> SUFFICES ASSUME Unhurried PROVE ReportParts'
  BY <1>0 DEF Report, Unhurried
<1>1. PICK r \in flight :
        r.st # "sent" /\ r.mine /\ (TenantLoaded(r) \/ DeleteAnswered(r) \/ PackStep(r) \/ ReportLoaded(r))
  BY DEF TenantAnswered
<1>2. ReportParts /\ ReportRequest(r) /\ TenantRequest(r) /\ Settled
  BY <1>0, <1>1 DEF Report, ReportParts, Asked, Unhurried, Settled
<1>3. Finish(r) => /\ \A q \in flight' : q \in flight
                   /\ Mine(ReportKinds)' = Mine(ReportKinds) \ {r}
  BY <1>0, MineWhenFinished DEF Finish
<1>4. r.kind \in ReportKinds => /\ Mine(ReportKinds) \ {r} = {}
                                /\ PackRequest(r) /\ r.st = "ok"
  <2>1. r.kind \in ReportKinds => r \in Mine(ReportKinds)
    BY <1>1 DEF Mine
  <2>2. QED
    BY <1>1, <1>2, <2>1 DEF ReportParts, One, ReportRequest, PackRequest
<1>5. CASE TenantLoaded(r)
  <2>1. /\ r.kind = "tenant" /\ Finish(r) /\ UNCHANGED <<tpApplying, tpPack, tpReport>>
        /\ tpMissing' = (tpMissing \/ r.st = "absent")
    BY <1>5 DEF TenantLoaded
  <2>2. r.st = "absent" => tpMissing'
    BY <2>1, Zenon
  <2>3. NamedRequest(r)
    BY <1>1, <1>2 DEF Named
  <2>4. TenantShown' => r.st = "ok"
    BY <1>1, <2>1, <2>2, <2>3 DEF TenantShown, NamedRequest
  <2>5. TenantShown' => tenDb'[tpSlug'] # None
    BY <1>0, <1>1, <1>2, <2>1, <2>3, <2>4 DEF ReportRequest, NamedRequest
  <2>6. \A q \in flight' : ReportRequest(q)'
    BY <1>0, <1>2, <1>3, <2>1 DEF ReportParts, ReportRequest, PackRequest
  <2>7. QED
    BY <1>0, <1>2, <1>3, <2>1, <2>5, <2>6 DEF ReportParts, ReportTrue, One
<1>6. CASE DeleteAnswered(r)
  BY <1>2, <1>6 DEF DeleteAnswered, ReportRequest
<1>7. CASE PackStep(r)
  <2>1. PICK row : row = [slug |-> r.row.slug, pack |-> r.row.pack]
    OBVIOUS
  <2>2. r.kind \in ReportKinds /\ r.kind \in {"apply", "refresh", "applied"}
    BY <1>7 DEF PackStep, ReportKinds
  <2>3. /\ row.slug = tpSlug /\ tenDb[tpSlug] # None /\ tpApplying = row.pack
        /\ row.pack \in Packs
    BY <1>2, <1>4, <2>1, <2>2 DEF PackRequest, TenantRequest, TenantAsked, Reports
  <2>4. tpApplying # None
    BY <2>3, PackAssumption
  <2>5. CASE r.kind = "apply"
    <3>1. Send({r}, "refresh", row) /\ tpPack' = row.pack /\ UNCHANGED <<tpApplying, tpReport>>
      BY <1>4, <1>7, <2>1, <2>2, <2>5 DEF PackStep
    <3>2. ReportTrue' /\ "refresh" \in ReportKinds
      BY <2>4, <3>1 DEF ReportTrue, ReportKinds
    <3>3. QED
      BY <1>0, <1>2, <1>4, <2>2, <2>3, <3>1, <3>2, ReportSent
  <2>6. CASE r.kind = "refresh"
    <3>1. Send({r}, "applied", row) /\ UNCHANGED <<tpApplying, tpPack, tpReport>>
      BY <1>4, <1>7, <2>1, <2>2, <2>6 DEF PackStep
    <3>2. ReportTrue' /\ "applied" \in ReportKinds /\ tpPack = row.pack
      BY <1>4, <2>1, <2>2, <2>4, <2>6, <3>1 DEF ReportTrue, ReportKinds, PackRequest
    <3>3. QED
      BY <1>0, <1>2, <1>4, <2>2, <2>3, <3>1, <3>2, ReportSent
  <2>7. CASE r.kind = "applied"
    <3>1. Finish(r) /\ tpReport' = row /\ tpPack' = tpPack
      BY <1>4, <1>7, <2>1, <2>2, <2>7 DEF PackStep
    <3>2. ReportTrue'
      BY <1>0, <1>4, <2>1, <2>2, <2>7, <3>1 DEF ReportTrue, PackRequest
    <3>3. Mine(ReportKinds)' = {} /\ \A q \in flight' : ~(q.mine /\ q.kind \in ReportKinds)
      BY <1>3, <1>4, <2>2, <3>1 DEF Mine
    <3>4. \A q \in flight' : ReportRequest(q)'
      BY <1>0, <1>2, <1>3, <3>1, <3>3 DEF ReportParts, ReportRequest
    <3>5. QED
      BY <1>0, <2>3, <3>2, <3>3, <3>4 DEF ReportParts, One
  <2>8. QED
    BY <2>2, <2>5, <2>6, <2>7
<1>8. CASE ReportLoaded(r)
  <2>1. r.kind = "report" /\ r.kind \in ReportKinds
    BY <1>8 DEF ReportLoaded, ReportKinds
  <2>2. Finish(r) /\ tpReport' = r.row /\ UNCHANGED <<tpTenant, tpLoading, tpMissing, tpApplying, tpPack>>
    BY <1>4, <1>8, <2>1 DEF ReportLoaded
  <2>3. r.row \in Reports
    BY <1>2, <2>1 DEF TenantRequest, TenantAsked
  <2>4. r.row = [slug |-> tpSlug, pack |-> tpPack]
    BY <1>4, <2>1, <2>3 DEF PackRequest, Reports
  <2>5. Mine(ReportKinds)' = {} /\ \A q \in flight' : ~(q.mine /\ q.kind \in ReportKinds)
    BY <1>3, <1>4, <2>1, <2>2 DEF Mine
  <2>6. \A q \in flight' : ReportRequest(q)'
    BY <1>0, <1>2, <1>3, <2>2, <2>5 DEF ReportParts, ReportRequest
  <2>7. QED
    BY <1>0, <1>4, <2>1, <2>2, <2>4, <2>5, <2>6 DEF ReportParts, ReportTrue, One, PackRequest
<1>9. QED
  BY <1>1, <1>5, <1>6, <1>7, <1>8

LEMMA ReportNext == TenantsTyped /\ Named /\ Report /\ [ConsoleNext]_tenantVars => Report'
<1> SUFFICES ASSUME TenantsTyped, Named, Report, [ConsoleNext]_tenantVars PROVE Report'
  OBVIOUS
<1>0. Shapes
  BY AskedShapes DEF TenantsTyped
<1>k. ASSUME NoneNew(PageKinds), UNCHANGED <<tpVars, tenDb, faults>> PROVE Report'
  <2>1. /\ UNCHANGED <<tpSlug, tpApplying, tpPack, tpReport, tpHasty>>
        /\ Unhurried /\ TenantShown' => tenDb[tpSlug] # None
    BY <1>k DEF tpVars, tpUI, TenantShown, Report, ReportParts
  <2>2. QED
    BY <1>k, <2>1, ReportKept
<1>1. CASE \/ TableServer /\ UNCHANGED <<tpVars, teVars, tcAt>>
           \/ \E r \in flight : Lose(r) /\ UNCHANGED <<tenDb, tpVars, teVars, tcAt>>
  BY <1>1, ReportAnswered
<1>2. CASE OnTenantPage
  BY <1>2, ReportOperator, ReportArrived DEF OnTenantPage
<1>3. CASE OnForm
  <2>1. NoneNew(PageKinds)
    BY <1>3, FormSends DEF PageKinds
  <2>2. UNCHANGED <<tpVars, tenDb, faults>>
    BY <1>3 DEF OnForm, EditorOperator, EditorAnswered
  <2>3. QED
    BY <1>k, <2>1, <2>2
<1>4. CASE SaveLands
  <2>1. UNCHANGED <<tenDb, faults>>
    BY <1>4 DEF SaveLands
  <2>2. PICK r \in flight :
          \/ VisitTenant(r.row.slug, {r})
          \/ Finish(r) /\ UNCHANGED tpVars
          \/ TurnTo(r.row.slug, {r})
    BY <1>4 DEF SaveLands
  <2>3. Finish(r) => NoneNew(PageKinds)
    BY DEF Finish, NoneNew
  <2>4. QED
    BY <1>0, <1>k, <2>1, <2>2, <2>3, ReportWhenTenantVisited, ReportWhenTurned
<1>5. CASE TooLate
  <2>1. NoneNew(PageKinds)
    BY <1>5 DEF TooLate, Finish, NoneNew
  <2>2. QED
    BY <1>5, <1>k, <2>1 DEF TooLate
<1>6. CASE UNCHANGED tenantVars
  <2>1. NoneNew(PageKinds)
    BY <1>6 DEF tenantVars, pageVars, NoneNew
  <2>2. QED
    BY <1>6, <1>k, <2>1 DEF tenantVars, pageVars
<1>7. CASE FollowLink
  <2>1. UNCHANGED <<tenDb, faults>>
    BY <1>7 DEF FollowLink
  <2>2. QED
    BY <1>0, <1>7, <2>1, ReportWhenListVisited, ReportWhenTenantVisited, ReportWhenFormVisited DEF FollowLink
<1>8. CASE LoadFails
  BY <1>0, <1>8, ReportWhenListVisited DEF LoadFails
<1>9. QED
  BY <1>1, <1>2, <1>3, <1>4, <1>5, <1>6, <1>7, <1>8 DEF ConsoleNext
-----------------------------------------------------------------------------
(***************************************************************************)
(* The page of a tenant shows its retention mode as stored, while the      *)
(* operator waits for every answer and none is lost.                       *)
(***************************************************************************)
ModeAgrees ==
    \/ tpTenant = None
    \/ tenDb[tpTenant.slug] = None
    \/ tpTenant.keep = tenDb[tpTenant.slug].keep

PageWaits(r) ==
    /\ r.mine /\ r.kind \in PageKinds
    /\ r.kind \in {"tenant", "remove", "applied", "report"} => ModeAgrees
    /\ r.kind = "apply" => IF r.st = "ok" THEN tenDb[r.row.slug] # None ELSE ModeAgrees
    /\ r.kind = "refresh" => tenDb[r.row.slug] # None /\ r.st \in {"sent", "ok"}
    /\ r.kind \in {"tenant", "refresh"} /\ r.st = "ok" => r.rows = {tenDb[r.row.slug]}

Unraced == ~raced /\ faults = 0

ModeParts ==
    /\ One(flight)
    /\ tcAt = "tenant" => /\ \A r \in flight : PageWaits(r)
                          /\ flight = {} => ModeAgrees

ModeAgree == Unraced => ModeParts

LEMMA ModeIsStored == ModeAgree => ModeShownIsStored
BY DEF ModeAgree, Unraced, ModeParts, ModeAgrees, Quiet, ModeShownIsStored

LEMMA ModeInit == ConsoleInit => ModeAgree
BY DEF ConsoleInit, PageInit, ModeAgree, ModeParts, One

\* All that is under way is r, and then a.
LEMMA ModeWhenAlone ==
    ASSUME NEW a, flight' = {a}, tcAt' = "tenant" => PageWaits(a)' PROVE ModeAgree'
BY DEF ModeAgree, ModeParts, One

LEMMA ModeWhenNothing ==
    ASSUME flight' = {}, tcAt' = "tenant" => ModeAgrees' PROVE ModeAgree'
BY DEF ModeAgree, ModeParts, One

LEMMA ModeServed ==
    ASSUME TenantsTyped, NEW r, TenantRequest(r), PageWaits(r), NEW a, NEW st, NEW rows,
           r.st = "sent", Becomes(r, a, st, r.row, rows), Stored(r, st, rows), UNCHANGED tpVars
    PROVE  PageWaits(a)'
<1>1. /\ a.kind = r.kind /\ a.mine = r.mine /\ a.row = r.row /\ a.st = st /\ a.rows = rows
      /\ r.row.slug \in Slugs /\ tpTenant' = tpTenant
      /\ r.mine /\ r.kind \in PageKinds
  BY DEF Becomes, Is, TenantRequest, TenantAsked, tpVars, tpUI, PageWaits
<1>2. ASSUME tenDb' = tenDb, ModeAgrees PROVE ModeAgrees'
  BY <1>1, <1>2 DEF ModeAgrees
<1>3. CASE r.kind \in {"tenant", "applied", "report"}
  <2>1. /\ tenDb' = tenDb /\ ModeAgrees /\ st = Found(r.row.slug)
        /\ r.kind = "tenant" => rows = {tenDb[r.row.slug]} \ {None}
    BY <1>3 DEF Stored, PageWaits
  <2>2. r.kind = "tenant" /\ st = "ok" => rows = {tenDb[r.row.slug]}
    BY <2>1 DEF Found
  <2>3. QED
    BY <1>1, <1>2, <1>3, <2>1, <2>2 DEF PageWaits
<1>4. CASE r.kind = "remove"
  <2>1. tenDb'[r.row.slug] = None /\ \A t \in Slugs \ {r.row.slug} : tenDb'[t] = tenDb[t]
    BY <1>4 DEF Stored
  <2>2. tpTenant = None \/ tpTenant.slug \in Slugs
    BY DEF TenantsTyped, PageFields, OnPage
  <2>3. ModeAgrees'
    BY <1>1, <1>4, <2>1, <2>2 DEF PageWaits, ModeAgrees
  <2>4. QED
    BY <1>1, <1>4, <2>3 DEF PageWaits
<1>5. CASE r.kind = "apply"
  <2>1. CASE tenDb[r.row.slug] = None
    <3>1. tenDb' = tenDb /\ st # "ok" /\ ModeAgrees
      BY <1>5, <2>1 DEF Stored, Found, PageWaits
    <3>2. QED
      BY <1>1, <1>2, <1>5, <3>1 DEF PageWaits
  <2>2. CASE tenDb[r.row.slug] # None
    <3>1. tenDb'[r.row.slug] # None /\ st = "ok"
      BY <1>5, <2>2, TableAssumption DEF Stored, Found
    <3>2. QED
      BY <1>1, <1>5, <3>1 DEF PageWaits
  <2>3. QED
    BY <2>1, <2>2
<1>6. CASE r.kind = "refresh"
  <2>1. /\ tenDb' = tenDb /\ tenDb[r.row.slug] # None /\ st = Found(r.row.slug)
        /\ rows = {tenDb[r.row.slug]} \ {None}
    BY <1>6 DEF Stored, PageWaits
  <2>2. rows = {tenDb[r.row.slug]} /\ st = "ok"
    BY <2>1 DEF Found
  <2>3. QED
    BY <1>1, <1>6, <2>1, <2>2 DEF PageWaits
<1>7. QED
  BY <1>1, <1>3, <1>4, <1>5, <1>6 DEF PageKinds

LEMMA ModeAnswered ==
    ASSUME TenantsTyped, faults \in Nat, ModeAgree, TableServer \/ \E r \in flight : Lose(r),
           UNCHANGED <<tpVars, tcAt>>
    PROVE  ModeAgree'
<1>1. CASE TableServer
  <2>1. PICK r, a, st, rows :
          /\ r \in flight /\ r.st = "sent" /\ Becomes(r, a, st, r.row, rows) /\ Stored(r, st, rows)
          /\ UNCHANGED <<clicks, faults, raced>>
    BY <1>1, ServedBy
  <2>2. CASE ~Unraced
    BY <2>1, <2>2 DEF ModeAgree, Unraced
  <2>3. CASE Unraced
    <3>1. One(flight) /\ (tcAt = "tenant" => PageWaits(r)) /\ TenantRequest(r)
      BY <2>1, <2>3 DEF ModeAgree, ModeParts, TenantsTyped, Asked
    <3>2. flight' = {a}
      BY <2>1, <3>1, AnsweredAlone
    <3>3. tcAt' = "tenant" => PageWaits(a)'
      BY <2>1, <3>1, ModeServed
    <3>4. QED
      BY <3>2, <3>3, ModeWhenAlone
  <2>4. QED
    BY <2>2, <2>3
<1>2. CASE \E r \in flight : Lose(r)
  BY <1>2, LostBy DEF ModeAgree, Unraced
<1>3. QED
  BY <1>1, <1>2

LEMMA ModeWhenListVisited ==
    ASSUME ModeAgree, NEW done, VisitList(done), faults' = faults PROVE ModeAgree'
<1>1. raced' = raced /\ tcAt' = "list" /\ flight' = LeftBehind(done)
  BY DEF VisitList
<1>2. One(flight) => One(LeftBehind(done))
  BY DEF One, LeftBehind, Orphan
<1>3. QED
  BY <1>1, <1>2 DEF ModeAgree, ModeParts, Unraced, One

LEMMA ModeWhenTenantVisited ==
    ASSUME NEW s, NEW done, VisitTenant(s, done) PROVE ModeAgree'
<1>1. PICK a : /\ Is(a, "tenant", [slug |-> s], "sent", {}, TRUE)
               /\ flight' = LeftBehind(done) \cup {a}
  BY TenantVisited
<1>2. tpTenant' = None
  BY DEF VisitTenant, TenantMounted
<1>3. ~raced' => LeftBehind(done) = {}
  BY DEF VisitTenant
<1>4. PageWaits(a)'
  BY <1>1, <1>2 DEF PageWaits, ModeAgrees, Is, PageKinds
<1>5. CASE raced'
  BY <1>5 DEF ModeAgree, Unraced
<1>6. CASE ~raced'
  <2>1. flight' = {a}
    BY <1>1, <1>3, <1>6
  <2>2. QED
    BY <1>4, <2>1, ModeWhenAlone
<1>7. QED
  BY <1>5, <1>6

LEMMA ModeWhenFormVisited ==
    ASSUME NEW s, VisitForm(s) PROVE ModeAgree'
<1>1. PICK S : /\ flight' = LeftBehind({}) \cup S
               /\ s = None => S = {}
               /\ s # None => \E a : S = {a} /\ Is(a, "edit", [slug |-> s], "sent", {}, TRUE)
  BY FormVisited
<1>2. tcAt' = "form" /\ (~raced' => LeftBehind({}) = {})
  BY DEF VisitForm
<1>3. One(S)
  BY <1>1 DEF One
<1>4. ~raced' => flight' = S
  BY <1>1, <1>2
<1>5. QED
  BY <1>2, <1>3, <1>4 DEF ModeAgree, ModeParts, Unraced, One

\* A request that the page sends when it waits for nothing else.
LEMMA ModeSent ==
    ASSUME NEW done, NEW kind \in PageKinds, NEW row, Send(done, kind, row),
           ~raced' => \/ ModeAgrees' /\ kind # "refresh"
                      \/ kind = "refresh" /\ tenDb'[row.slug] # None
    PROVE  ModeAgree'
<1>1. CASE raced'
  BY <1>1 DEF ModeAgree, Unraced
<1>2. CASE ~raced'
  <2>1. PICK a : Is(a, kind, row, "sent", {}, TRUE) /\ flight' = {a}
    BY <1>2, SentAlone
  <2>2. PageWaits(a)'
    BY <1>2, <2>1 DEF PageWaits, Is
  <2>3. QED
    BY <2>1, <2>2, ModeWhenAlone
<1>3. QED
  BY <1>1, <1>2

\* With nothing under way the page agrees; so it does after what changes neither.
LEMMA ModeWhenQuiet ==
    ASSUME ModeAgree, tcAt = "tenant", NEW kind, NEW row, Send({}, kind, row), faults' = 0, faults' = faults,
           UNCHANGED <<tenDb, tpTenant>>
    PROVE  ~raced' => ModeAgrees'
<1>1. ASSUME ~raced' PROVE ModeAgrees
  <2>1. ~raced /\ flight \ {} = {}
    BY <1>1 DEF Send
  <2>2. QED
    BY <2>1 DEF ModeAgree, ModeParts, Unraced
<1>2. QED
  BY <1>1 DEF ModeAgrees

LEMMA ModeOperator == TenantsTyped /\ ModeAgree /\ tcAt = "tenant" /\ TenantOperator => ModeAgree'
<1> SUFFICES ASSUME TenantsTyped, ModeAgree, tcAt = "tenant", TenantOperator, faults' = 0 PROVE ModeAgree'
  BY DEF ModeAgree, Unraced
<1>0. UNCHANGED <<tenDb, faults>>
  BY DEF TenantOperator
<1>s. ASSUME NEW kind \in PageKinds \ {"refresh"}, NEW row, Send({}, kind, row), tpTenant' = tpTenant
      PROVE  ModeAgree'
  <2>1. ~raced' => ModeAgrees'
    BY <1>0, <1>s, ModeWhenQuiet
  <2>2. QED
    BY <1>s, <2>1, ModeSent
<1>1. CASE GoToTenant
  <2>1. PICK s : Send({}, "tenant", [slug |-> s]) /\ tpTenant' = tpTenant
    BY <1>1 DEF GoToTenant, TurnTo
  <2>2. "tenant" \in PageKinds \ {"refresh"}
    BY DEF PageKinds
  <2>3. QED
    BY <1>s, <2>1, <2>2
<1>2. CASE AskDeleteTenant \/ CancelDeleteTenant
  <2>1. UNCHANGED <<flight, raced, tpTenant>>
    BY <1>2 DEF AskDeleteTenant, CancelDeleteTenant
  <2>2. Unraced' => Unraced /\ ModeParts
    BY <1>0, <2>1 DEF Unraced, ModeAgree
  <2>3. ModeAgrees' <=> ModeAgrees
    BY <1>0, <2>1 DEF ModeAgrees
  <2>4. \A r \in flight : PageWaits(r) => PageWaits(r)'
    BY <1>0, <2>3 DEF PageWaits
  <2>5. QED
    BY <2>1, <2>2, <2>3, <2>4 DEF ModeAgree, ModeParts
<1>3. CASE ConfirmDeleteTenant
  <2>1. Send({}, "remove", [slug |-> tpSlug, named |-> tpTenant.slug]) /\ tpTenant' = tpTenant
    BY <1>3 DEF ConfirmDeleteTenant
  <2>2. "remove" \in PageKinds \ {"refresh"}
    BY DEF PageKinds
  <2>3. QED
    BY <1>s, <2>1, <2>2
<1>4. CASE ApplyPack
  <2>1. PICK p : Send({}, "apply", [slug |-> tpSlug, pack |-> p, named |-> tpTenant.slug]) /\ tpTenant' = tpTenant
    BY <1>4 DEF ApplyPack
  <2>2. "apply" \in PageKinds \ {"refresh"}
    BY DEF PageKinds
  <2>3. QED
    BY <1>s, <2>1, <2>2
<1>5. CASE ShowReport
  <2>1. PICK p : Send({}, "report", [slug |-> tpSlug, pack |-> p]) /\ tpTenant' = tpTenant
    BY <1>5 DEF ShowReport
  <2>2. "report" \in PageKinds \ {"refresh"}
    BY DEF PageKinds
  <2>3. QED
    BY <1>s, <2>1, <2>2
<1>6. QED
  BY <1>1, <1>2, <1>3, <1>4, <1>5 DEF TenantOperator

\* What the load found is shown.
LEMMA ShownAgrees ==
    ASSUME NEW r, r.rows = {tenDb[r.row.slug]}, tpTenant' = Shown(r), tenDb' = tenDb PROVE ModeAgrees'
<1>1. (CHOOSE row \in r.rows : TRUE) = tenDb[r.row.slug]
  OBVIOUS
<1>2. tpTenant'.slug = r.row.slug /\ tpTenant'.keep = tenDb[r.row.slug].keep
  BY <1>1 DEF Shown
<1>3. QED
  BY <1>2 DEF ModeAgrees

LEMMA ModeArrived == TenantsTyped /\ ModeAgree /\ tcAt = "tenant" /\ TenantAnswered => ModeAgree'
<1> SUFFICES ASSUME TenantsTyped, ModeAgree, tcAt = "tenant", TenantAnswered PROVE ModeAgree'
  OBVIOUS
<1>0. UNCHANGED <<tenDb, faults>>
  BY DEF TenantAnswered
<1>1. PICK r \in flight :
        r.st # "sent" /\ r.mine /\ (TenantLoaded(r) \/ DeleteAnswered(r) \/ PackStep(r) \/ ReportLoaded(r))
  BY DEF TenantAnswered
<1>u. (raced => raced') /\ (~raced' => ~raced)
  <2>1. Finish(r) => raced' = raced
    BY DEF Finish
  <2>2. ASSUME NEW kind, NEW row, Send({r}, kind, row), ~raced' PROVE ~raced
    BY <2>2, SentAlone
  <2>3. PICK row : row = [slug |-> r.row.slug, pack |-> r.row.pack]
    OBVIOUS
  <2>4. Finish(r) \/ Send({r}, "refresh", row) \/ Send({r}, "applied", row)
    BY <1>1, <2>3 DEF TenantLoaded, DeleteAnswered, PackStep, ReportLoaded
  <2>5. QED
    BY <2>1, <2>2, <2>4
<1> SUFFICES ASSUME Unraced PROVE ModeAgree'
  BY <1>0, <1>u DEF ModeAgree, Unraced
<1>2. One(flight) /\ PageWaits(r)
  BY <1>1 DEF ModeAgree, ModeParts
<1>3. Finish(r) => flight' = {}
  BY <1>1, <1>2, FinishedAlone
<1>4. tpTenant' = tpTenant /\ ModeAgrees => ModeAgrees'
  BY <1>0 DEF ModeAgrees
<1>5. CASE TenantLoaded(r)
  <2>1. r.kind = "tenant" /\ Finish(r) /\ tpTenant' = IF r.st = "ok" THEN Shown(r) ELSE tpTenant
    BY <1>5 DEF TenantLoaded
  <2>2. ModeAgrees'
    BY <1>0, <1>2, <1>4, <2>1, ShownAgrees DEF PageWaits
  <2>3. QED
    BY <1>3, <2>1, <2>2, ModeWhenNothing
<1>6. CASE DeleteAnswered(r) \/ ReportLoaded(r)
  <2>1. Finish(r) /\ tpTenant' = tpTenant /\ r.kind \in {"remove", "report"}
    BY <1>6 DEF DeleteAnswered, ReportLoaded
  <2>2. ModeAgrees'
    BY <1>2, <1>4, <2>1 DEF PageWaits
  <2>3. QED
    BY <1>3, <2>1, <2>2, ModeWhenNothing
<1>7. CASE PackStep(r)
  <2>1. PICK row : row = [slug |-> r.row.slug, pack |-> r.row.pack]
    OBVIOUS
  <2>2. r.kind \in {"apply", "refresh", "applied"} /\ row.slug = r.row.slug
    BY <1>7, <2>1 DEF PackStep
  <2>3. CASE r.st # "ok" \/ r.kind = "applied"
    <3>1. Finish(r) /\ tpTenant' = tpTenant
      BY <1>7, <2>2, <2>3 DEF PackStep
    <3>2. ModeAgrees'
      BY <1>1, <1>2, <1>4, <2>2, <2>3, <3>1 DEF PageWaits
    <3>3. QED
      BY <1>3, <3>1, <3>2, ModeWhenNothing
  <2>4. CASE r.st = "ok" /\ r.kind = "apply"
    <3>1. Send({r}, "refresh", row)
      BY <1>7, <2>1, <2>4 DEF PackStep
    <3>2. "refresh" \in PageKinds /\ tenDb'[row.slug] # None
      BY <1>0, <1>2, <2>2, <2>4 DEF PageKinds, PageWaits
    <3>3. QED
      BY <3>1, <3>2, ModeSent
  <2>5. CASE r.st = "ok" /\ r.kind = "refresh"
    <3>1. Send({r}, "applied", row) /\ tpTenant' = Shown(r)
      BY <1>7, <2>1, <2>5 DEF PackStep
    <3>2. ModeAgrees' /\ "applied" \in PageKinds
      BY <1>0, <1>2, <2>5, <3>1, ShownAgrees DEF PageWaits, PageKinds
    <3>3. QED
      BY <3>1, <3>2, ModeSent
  <2>6. QED
    BY <2>2, <2>3, <2>4, <2>5
<1>8. QED
  BY <1>1, <1>5, <1>6, <1>7

LEMMA ModeForm == ModeAgree /\ tcAt # "tenant" /\ OnForm => ModeAgree'
<1> SUFFICES ASSUME ModeAgree, tcAt # "tenant", OnForm PROVE ModeAgree'
  OBVIOUS
<1>0. tcAt' = tcAt /\ faults' = faults
  BY DEF OnForm, EditorOperator, EditorAnswered
<1>1. ASSUME UNCHANGED <<flight, raced>> \/ \E r : Finish(r) PROVE ModeAgree'
  BY <1>0, <1>1 DEF Finish, ModeAgree, ModeParts, Unraced, One
<1>2. ASSUME NEW kind, NEW row, Send({}, kind, row) PROVE ModeAgree'
  <2>1. CASE raced'
    BY <2>1 DEF ModeAgree, Unraced
  <2>2. CASE ~raced'
    <3>1. PICK a : flight' = {a}
      BY <1>2, <2>2, SentAlone
    <3>2. QED
      BY <1>0, <3>1, ModeWhenAlone
  <2>3. QED
    BY <2>1, <2>2
<1>3. CASE FillForm
  BY <1>1, <1>3 DEF FillForm
<1>4. CASE GoToForm
  <2>1. UNCHANGED <<flight, raced>> \/ \E s : Send({}, "edit", [slug |-> s])
    BY <1>4 DEF GoToForm
  <2>2. QED
    BY <1>1, <1>2, <2>1
<1>5. CASE SubmitForm
  <2>1. PICK kind, row : Send({}, kind, row)
    BY <1>5 DEF SubmitForm
  <2>2. QED
    BY <1>2, <2>1
<1>6. CASE EditorAnswered
  <2>1. PICK r : FormLoaded(r) \/ SaveRefused(r)
    BY <1>6 DEF EditorAnswered
  <2>2. Finish(r)
    BY <2>1 DEF FormLoaded, SaveRefused
  <2>3. QED
    BY <1>1, <2>2
<1>7. QED
  BY <1>3, <1>4, <1>5, <1>6 DEF OnForm, EditorOperator

LEMMA ModeSaveLands == TenantsTyped /\ ModeAgree /\ SaveLands => ModeAgree'
<1> SUFFICES ASSUME TenantsTyped, ModeAgree, SaveLands PROVE ModeAgree'
  OBVIOUS
<1>0. faults' = faults
  BY DEF SaveLands
<1>1. PICK r \in flight :
        /\ r.kind \in {"put", "post"}
        /\ \/ VisitTenant(r.row.slug, {r})
           \/ tcAt = "tenant" /\ (Finish(r) \/ TurnTo(r.row.slug, {r}))
  BY DEF SaveLands
<1>2. CASE VisitTenant(r.row.slug, {r})
  BY <1>2, ModeWhenTenantVisited
<1>3. CASE tcAt = "tenant" /\ (Finish(r) \/ TurnTo(r.row.slug, {r}))
  <2>1. ~Unraced
    BY <1>1, <1>3 DEF ModeAgree, ModeParts, PageWaits, PageKinds
  <2>2. CASE Finish(r)
    BY <1>0, <2>1, <2>2 DEF Finish, ModeAgree, Unraced
  <2>3. CASE TurnTo(r.row.slug, {r})
    <3>1. ~raced' => ~raced
      BY <2>3, SentAlone DEF TurnTo
    <3>2. QED
      BY <1>0, <2>1, <3>1 DEF ModeAgree, Unraced
  <2>4. QED
    BY <1>3, <2>2, <2>3
<1>4. QED
  BY <1>1, <1>2, <1>3

LEMMA ModeNext ==
    ASSUME TenantsTyped, faults \in Nat, ModeAgree, [ConsoleNext]_tenantVars PROVE ModeAgree'
<1>1. CASE \/ TableServer /\ UNCHANGED <<tpVars, teVars, tcAt>>
           \/ \E r \in flight : Lose(r) /\ UNCHANGED <<tenDb, tpVars, teVars, tcAt>>
  BY <1>1, ModeAnswered
<1>2. CASE OnTenantPage
  BY <1>2, ModeOperator, ModeArrived DEF OnTenantPage
<1>3. CASE OnForm
  <2>1. tcAt # "tenant"
    BY <1>3 DEF OnForm, EditorOperator, EditorAnswered, TenantsTyped
  <2>2. QED
    BY <1>3, <2>1, ModeForm
<1>4. CASE SaveLands
  BY <1>4, ModeSaveLands
<1>5. CASE TooLate
  <2>1. PICK r \in flight : ~r.mine /\ Finish(r)
    BY <1>5 DEF TooLate
  <2>2. UNCHANGED <<faults, tcAt>>
    BY <1>5 DEF TooLate
  <2>3. tcAt = "tenant" => ~Unraced
    BY <2>1 DEF ModeAgree, ModeParts, PageWaits
  <2>4. QED
    BY <2>1, <2>2, <2>3 DEF ModeAgree, ModeParts, Unraced, Finish, One
<1>6. CASE UNCHANGED tenantVars
  <2>1. UNCHANGED <<flight, faults, raced, tenDb, tpTenant, tcAt>>
    BY <1>6 DEF tenantVars, pageVars, tpVars, tpUI
  <2>2. ModeAgrees' <=> ModeAgrees
    BY <2>1 DEF ModeAgrees
  <2>3. \A r \in flight : PageWaits(r) => PageWaits(r)'
    BY <2>1, <2>2 DEF PageWaits
  <2>4. QED
    BY <2>1, <2>2, <2>3 DEF ModeAgree, ModeParts, Unraced
<1>7. CASE FollowLink
  <2>1. faults' = faults
    BY <1>7 DEF FollowLink
  <2>2. QED
    BY <1>7, <2>1, ModeWhenListVisited, ModeWhenTenantVisited, ModeWhenFormVisited DEF FollowLink
<1>8. CASE LoadFails
  BY <1>8, ModeWhenListVisited DEF LoadFails
<1>9. QED
  BY <1>1, <1>2, <1>3, <1>4, <1>5, <1>6, <1>7, <1>8 DEF ConsoleNext

\* What the pages about tenants keep, in all.
TenantsInv == TenantsTyped /\ SaveFlags /\ Loaded /\ Named /\ Report /\ ModeAgree

LEMMA TenantsInvInit == ConsoleInit => TenantsInv
BY TenantsTypedInit, SaveFlagsInit, LoadedInit, NamedInit, ReportInit, ModeInit DEF TenantsInv

LEMMA TenantsInvNext == TenantsInv /\ [ConsoleNext]_tenantVars => TenantsInv'
<1> SUFFICES ASSUME TenantsInv, [ConsoleNext]_tenantVars PROVE TenantsInv'
  OBVIOUS
<1>1. /\ TenantsTyped /\ SaveFlags /\ Loaded /\ Named /\ Report /\ ModeAgree
      /\ faults \in Nat
  BY DEF TenantsInv, Named
<1>2. TenantsTyped' /\ SaveFlags' /\ Loaded'
  BY <1>1, TenantsTypedNext, SaveFlagsNext, LoadedNext
<1>3. Named' /\ Report' /\ ModeAgree'
  BY <1>1, NamedNext, ReportNext, ModeNext
<1>4. QED
  BY <1>2, <1>3 DEF TenantsInv
-----------------------------------------------------------------------------
(***************************************************************************)
(* The pages together.  On each of them its own invariant holds, and the   *)
(* others are as they were at first.                                       *)
(***************************************************************************)
MCInv ==
    \/ page = "keys" /\ KeysInv /\ BudgetsOff /\ RoutingOff /\ TenantsOff
    \/ page = "budgets" /\ BudgetsInv /\ KeysOff /\ RoutingOff /\ TenantsOff
    \/ page = "routing" /\ RoutingInv /\ KeysOff /\ BudgetsOff /\ TenantsOff
    \/ page = "tenants" /\ TenantsInv /\ KeysOff /\ BudgetsOff /\ RoutingOff

LEMMA MCInvInit == MCInit => MCInv
BY KeysInvInit, BudgetsInvInit, RoutingInvInit, TenantsInvInit DEF MCInit, MCInv

LEMMA OffKept ==
    /\ KeysOff /\ UNCHANGED keyVars => KeysOff'
    /\ BudgetsOff /\ UNCHANGED budVars => BudgetsOff'
    /\ RoutingOff /\ UNCHANGED rtVars => RoutingOff'
    /\ TenantsOff /\ UNCHANGED <<tenDb, tpVars, teVars, tcAt>> => TenantsOff'
<1>1. KeysOff /\ UNCHANGED keyVars => KeysOff'
  BY DEF KeysOff, keyVars, keyUI
<1>2. BudgetsOff /\ UNCHANGED budVars => BudgetsOff'
  BY DEF BudgetsOff, budVars, budUI
<1>3. RoutingOff /\ UNCHANGED rtVars => RoutingOff'
  BY DEF RoutingOff, rtVars, rtUI, rtPast
<1>4. TenantsOff /\ UNCHANGED <<tenDb, tpVars, teVars, tcAt>> => TenantsOff'
  BY DEF TenantsOff, tpVars, tpUI, teVars, Blank
<1>5. QED
  BY <1>1, <1>2, <1>3, <1>4

\* A step of one page, or none, leaves the others alone.
LEMMA PageSteps ==
    ASSUME [MCNext]_allVars
    PROVE  /\ page' = page
           /\ page = "keys" => /\ [KeysNext]_<<pageVars, keyVars>>
                               /\ UNCHANGED budVars /\ UNCHANGED rtVars
                               /\ UNCHANGED <<tenDb, tpVars, teVars, tcAt>>
           /\ page = "budgets" => /\ [BudgetsNext]_<<pageVars, budVars>>
                                  /\ UNCHANGED keyVars /\ UNCHANGED rtVars
                                  /\ UNCHANGED <<tenDb, tpVars, teVars, tcAt>>
           /\ page = "routing" => /\ [RoutingNext]_<<pageVars, rtVars>>
                                  /\ UNCHANGED keyVars /\ UNCHANGED budVars
                                  /\ UNCHANGED <<tenDb, tpVars, teVars, tcAt>>
           /\ page = "tenants" => /\ [ConsoleNext]_tenantVars
                                  /\ UNCHANGED keyVars /\ UNCHANGED budVars /\ UNCHANGED rtVars
<1>1. CASE UNCHANGED allVars
  BY <1>1 DEF allVars, tenantVars
<1>2. CASE MCNext
  BY <1>2 DEF MCNext
<1>3. QED
  BY <1>1, <1>2

LEMMA MCInvNext == MCInv /\ [MCNext]_allVars => MCInv'
<1> SUFFICES ASSUME MCInv, [MCNext]_allVars PROVE MCInv'
  OBVIOUS
<1>1. CASE page = "keys" /\ KeysInv /\ BudgetsOff /\ RoutingOff /\ TenantsOff
  BY <1>1, PageSteps, OffKept, KeysInvNext DEF MCInv
<1>2. CASE page = "budgets" /\ BudgetsInv /\ KeysOff /\ RoutingOff /\ TenantsOff
  BY <1>2, PageSteps, OffKept, BudgetsInvNext DEF MCInv
<1>3. CASE page = "routing" /\ RoutingInv /\ KeysOff /\ BudgetsOff /\ TenantsOff
  BY <1>3, PageSteps, OffKept, RoutingInvNext DEF MCInv
<1>4. CASE page = "tenants" /\ TenantsInv /\ KeysOff /\ BudgetsOff /\ RoutingOff
  BY <1>4, PageSteps, OffKept, TenantsInvNext DEF MCInv
<1>5. QED
  BY <1>1, <1>2, <1>3, <1>4 DEF MCInv

LEMMA MCSpecInv == MCSpec => []MCInv
BY MCInvInit, MCInvNext, PTL DEF MCSpec

\* Only the keys page revokes and reloads, only the tenants' pages put, post, remove and apply.
LEMMA WhoAsks ==
    /\ KeysInv => \A r \in flight : r.kind \notin {"put", "post", "remove", "apply"}
    /\ BudgetsInv \/ RoutingInv =>
         \A r \in flight : r.kind \notin {"put", "post", "remove", "apply", "revoke", "reload"}
    /\ TenantsInv => \A r \in flight : r.kind \notin {"revoke", "reload"}
<1>1. KeysInv => \A r \in flight : r.kind \notin {"put", "post", "remove", "apply"}
  BY DEF KeysInv, KeysTyped, KeyRequest
<1>2. BudgetsInv => \A r \in flight : r.kind \notin {"put", "post", "remove", "apply", "revoke", "reload"}
  BY DEF BudgetsInv, BudgetsTyped, BudgetRequest
<1>3. RoutingInv => \A r \in flight : r.kind \notin {"put", "post", "remove", "apply", "revoke", "reload"}
  BY DEF RoutingInv, RoutingTyped, RoutingRequest
<1>4. TenantsInv => \A r \in flight : r.kind \notin {"revoke", "reload"}
  BY DEF TenantsInv, TenantsTyped, Asked, TenantRequest, TenantAsked
<1>5. QED
  BY <1>1, <1>2, <1>3, <1>4

\* What the invariant of each page says of it.
LEMMA KeysInvSays == KeysInv => KeysTypeOK /\ KeysListTrue /\ KeysBusyTrue
<1> SUFFICES ASSUME KeysInv PROVE KeysTypeOK /\ KeysListTrue /\ KeysBusyTrue
  OBVIOUS
<1>1. KeysTypeOK
  BY KeysTypedIsTypeOK DEF KeysInv
<1>2. KeysListTrue
  BY DEF KeysInv, KeysAgree, Agreed, Switches, KeysListTrue, Quiet
<1>3. KeysBusyTrue
  <2>1. \A kinds : OwnKeyRequests(kinds) = Mine(kinds)
    BY DEF OwnKeyRequests, Mine
  <2>2. Cardinality(OwnKeyRequests({"revoke", "reload"})) <= 1
    BY <2>1, OneCounted DEF KeysInv, KeysFlags
  <2>3. QED
    BY <2>1, <2>2 DEF KeysInv, KeysFlags, KeysBusyTrue
<1>4. QED
  BY <1>1, <1>2, <1>3

LEMMA BudgetsInvSays == BudgetsInv => BudgetsTypeOK /\ BudgetsListTrue /\ KeyOfItsTenant /\ HistoryIsOfTitle
BY DEF BudgetsInv, BudgetsTyped, BudgetHistory, BudgetsAgree, BudgetsListTrue, Quiet

LEMMA RoutingInvSays == RoutingInv => RoutingTypeOK /\ RoutingListTrue /\ MasksAreNeverStored
<1> SUFFICES ASSUME RoutingInv PROVE RoutingTypeOK /\ RoutingListTrue /\ MasksAreNeverStored
  OBVIOUS
<1>1. RoutingTypeOK /\ RoutingListTrue
  BY RoutingTypedIsTypeOK DEF RoutingInv, RoutingAgree, RowsShown, RoutingListTrue, Quiet
<1>2. MasksAreNeverStored
  BY DEF RoutingInv, RoutingMasks, NoMasks, MasksAreNeverStored
<1>3. QED
  BY <1>1, <1>2

LEMMA TenantsInvSays ==
    TenantsInv => /\ TenantTypeOK /\ EditorTypeOK /\ ModeShownIsStored /\ OneSaveAtATime
                  /\ ActsOnWhatItNames /\ SavesWhatItLoaded /\ ReportIsOfPack
BY TenantsTypedIsTypeOK, ModeIsStored, SaveFlagsCounted, NamedIsActed, LoadedIsSaved, ReportIsTrue
DEF TenantsInv, TenantsTyped, Named

\* A page that is not on the screen says nothing wrong.
LEMMA KeysOffSays ==
    ASSUME KeysOff, \A r \in flight : r.kind \notin {"revoke", "reload"}
    PROVE  KeysTypeOK /\ KeysListTrue /\ KeysBusyTrue
<1>1. KeysTypeOK
  <2>1. IdsOf({}) = {}
    BY DEF IdsOf
  <2>2. QED
    BY <2>1 DEF KeysOff, KeysTypeOK
<1>2. KeysListTrue
  BY DEF KeysOff, KeysListTrue
<1>3. KeysBusyTrue
  <2>1. OwnKeyRequests({"revoke", "reload"}) = {}
    BY DEF OwnKeyRequests
  <2>2. Cardinality(OwnKeyRequests({"revoke", "reload"})) <= 1
    BY <2>1, FS_EmptySet
  <2>3. QED
    BY <2>1, <2>2 DEF KeysOff, KeysBusyTrue
<1>4. QED
  BY <1>1, <1>2, <1>3

LEMMA BudgetsOffSays == BudgetsOff => BudgetsTypeOK /\ BudgetsListTrue /\ KeyOfItsTenant /\ HistoryIsOfTitle
BY DEF BudgetsOff, BudgetsTypeOK, BudgetsListTrue, KeyOfItsTenant, HistoryIsOfTitle

LEMMA RoutingOffSays == RoutingOff => RoutingTypeOK /\ RoutingListTrue /\ MasksAreNeverStored
BY DEF RoutingOff, RoutingTypeOK, RoutingListTrue, MasksAreNeverStored

LEMMA TenantsOffSays ==
    TenantsOff => /\ TenantTypeOK /\ EditorTypeOK /\ ModeShownIsStored /\ OneSaveAtATime /\ ReportIsOfPack
                  /\ (\A r \in flight : r.kind \notin {"put", "post", "remove", "apply"})
                       => ActsOnWhatItNames /\ SavesWhatItLoaded
<1> SUFFICES ASSUME TenantsOff
             PROVE  /\ TenantTypeOK /\ EditorTypeOK /\ ModeShownIsStored /\ OneSaveAtATime /\ ReportIsOfPack
                    /\ (\A r \in flight : r.kind \notin {"put", "post", "remove", "apply"})
                         => ActsOnWhatItNames /\ SavesWhatItLoaded
  OBVIOUS
<1>1. TenantTypeOK
  BY DEF TenantsOff, TenantTypeOK
<1>2. EditorTypeOK
  BY DEF TenantsOff, EditorTypeOK, Blank
<1>3. ModeShownIsStored /\ OneSaveAtATime /\ ReportIsOfPack
  BY DEF TenantsOff, ModeShownIsStored, OneSaveAtATime, ReportIsOfPack
<1>4. (\A r \in flight : r.kind \notin {"put", "post", "remove", "apply"}) => ActsOnWhatItNames /\ SavesWhatItLoaded
  BY DEF ActsOnWhatItNames, SavesWhatItLoaded
<1>5. QED
  BY <1>1, <1>2, <1>3, <1>4

LEMMA MCInvSays ==
    MCInv => /\ EditTypeOK /\ ListsMatchServer /\ EditFlagsTrue
             /\ ActsOnWhatIsSeen /\ ShownUnderItsTitle /\ MasksAreNeverStored
<1> SUFFICES ASSUME MCInv
             PROVE  /\ KeysTypeOK /\ KeysListTrue /\ KeysBusyTrue
                    /\ BudgetsTypeOK /\ BudgetsListTrue /\ KeyOfItsTenant /\ HistoryIsOfTitle
                    /\ RoutingTypeOK /\ RoutingListTrue /\ MasksAreNeverStored
                    /\ TenantTypeOK /\ EditorTypeOK /\ ModeShownIsStored /\ OneSaveAtATime
                    /\ ActsOnWhatItNames /\ SavesWhatItLoaded /\ ReportIsOfPack
  BY DEF EditTypeOK, ListsMatchServer, EditFlagsTrue, ActsOnWhatIsSeen, ShownUnderItsTitle
<1>1. CASE page = "keys" /\ KeysInv /\ BudgetsOff /\ RoutingOff /\ TenantsOff
  BY <1>1, WhoAsks, KeysInvSays, BudgetsOffSays, RoutingOffSays, TenantsOffSays
<1>2. CASE page = "budgets" /\ BudgetsInv /\ KeysOff /\ RoutingOff /\ TenantsOff
  BY <1>2, WhoAsks, BudgetsInvSays, KeysOffSays, RoutingOffSays, TenantsOffSays
<1>3. CASE page = "routing" /\ RoutingInv /\ KeysOff /\ BudgetsOff /\ TenantsOff
  BY <1>3, WhoAsks, RoutingInvSays, KeysOffSays, BudgetsOffSays, TenantsOffSays
<1>4. CASE page = "tenants" /\ TenantsInv /\ KeysOff /\ BudgetsOff /\ RoutingOff
  BY <1>4, WhoAsks, TenantsInvSays, KeysOffSays, BudgetsOffSays, RoutingOffSays
<1>5. QED
  BY <1>1, <1>2, <1>3, <1>4 DEF MCInv
-----------------------------------------------------------------------------
(* The pages are of their types, and no two keys of the server share an id *)
(* (Keys.tsx, Budgets.tsx, Routing.tsx, TenantDetail.tsx, TenantForm.tsx). *)
THEOREM PagesTyped == MCSpec => []EditTypeOK
BY MCSpecInv, MCInvSays, PTL

(* Each page shows what the server has once nothing is under way, unless   *)
(* requests overlapped or failed: toggle and doDelete of Keys.tsx, the     *)
(* loads after every change of Budgets.tsx and Routing.tsx, and applying a *)
(* pack in TenantDetail.tsx.                                               *)
THEOREM ListsAgree == MCSpec => []ListsMatchServer
BY MCSpecInv, MCInvSays, PTL

(* No API key is stored in its masked form by an editor of Routing.tsx     *)
(* that was opened on what the server had and kept its name: UpsertProvider*)
(* and preserveMaskedSecrets put back the stored keys by their places.     *)
THEOREM KeysStayUnmasked == MCSpec => []MasksAreNeverStored
BY MCSpecInv, MCInvSays, PTL

(* busy of Keys.tsx and submitting of TenantForm.tsx are set exactly while *)
(* the dialog's or form's own request is under way, of which there is one  *)
(* at most, however requests overlap and fail.                             *)
THEOREM FlagsTrue == MCSpec => []EditFlagsTrue
BY MCSpecInv, MCInvSays, PTL

(* Deletions and packs go to the tenant on the screen, saves carry the     *)
(* data that was loaded for their tenant, and a budget's key is of its     *)
(* tenant, but for the races that TenantDetail.tsx and TenantForm.tsx      *)
(* leave open when the URL changes.                                        *)
THEOREM SeenIsActedOn == MCSpec => []ActsOnWhatIsSeen
BY MCSpecInv, MCInvSays, PTL

(* The history of Budgets.tsx is of the budget in its title, the report of *)
(* TenantDetail.tsx of the tenant and pack above it, unless another was    *)
(* asked for before it arrived.                                            *)
THEOREM TitlesTrue == MCSpec => []ShownUnderItsTitle
BY MCSpecInv, MCInvSays, PTL

(* No answer closes the dialog with a new secret of Keys.tsx, nor the      *)
(* editor of Routing.tsx over changes that were not sent: the operator     *)
(* does, or the late answer to an earlier request of the same kind.        *)
THEOREM OperatorCloses == MCSpec => OnlyTheOperatorCloses
<1>1. MCInv /\ [MCNext]_allVars =>
        [keyReveal # None /\ keyReveal' # keyReveal =>
           (keyReveal' = None /\ clicks' # clicks) \/ keyTwice]_<<keyReveal, clicks, keyTwice>>
  <2> SUFFICES ASSUME MCInv, [MCNext]_allVars, keyReveal # None, keyReveal' # keyReveal
               PROVE  (keyReveal' = None /\ clicks' # clicks) \/ keyTwice
    OBVIOUS
  <2>1. page = "keys" /\ KeysFlags
    BY DEF MCInv, KeysOff, KeysInv
  <2>2. QED
    BY <2>1, PageSteps, SecretGoneBy
<1>2. MCInv /\ [MCNext]_allVars =>
        [rtEditor # None /\ rtEditor' = None =>
           clicks' # clicks \/ rtEditor.sent \/ rtEarly]_<<rtEditor, clicks, rtEarly>>
  <2> SUFFICES ASSUME MCInv, [MCNext]_allVars, rtEditor # None, rtEditor' = None
               PROVE  clicks' # clicks \/ rtEditor.sent \/ rtEarly
    OBVIOUS
  <2>1. page = "routing" /\ RoutingInv
    BY DEF MCInv, RoutingOff
  <2>2. QED
    BY <2>1, PageSteps, EditorClosedBy
<1>3. QED
  BY <1>1, <1>2, MCSpecInv, PTL DEF MCSpec, OnlyTheOperatorCloses, SecretStays, EditorStays
===============================================================================
