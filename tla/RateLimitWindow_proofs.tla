------------------------ MODULE RateLimitWindow_proofs ------------------------
(***************************************************************************)
(* Theorems about RateLimitWindow, for any number of goroutines, limit and *)
(* window.  A window is counted in two parts.  Until its last instant is   *)
(* over, what it admitted is still in Valkey, and the script that admits   *)
(* one more has counted it.  After that nobody takes a stamp in it any     *)
(* more, and each request that has one yet is admitted once at most.       *)
(***************************************************************************)
EXTENDS RateLimitWindow, FiniteSetTheorems, TLAPS

AdmittedIn(t) == Members(admitted, t - Window + 1, t)

\* The requests whose script is still to run, with a stamp of the window up to t.
PendingIn(t) == {r \in Requests : pc[r] = "evaluate" /\ t - Window + 1 <= stamp[r] /\ stamp[r] <= t}

Finite ==
    /\ IsFiniteSet(Members(stamps, 0, MaxTime))
    /\ \A t \in Times : IsFiniteSet(AdmittedIn(t))

\* No stamp is of the future, and the key outlives the window of every member
\* that was admitted.
InThePast ==
    /\ expireAt <= time + Window
    /\ \A r \in Requests : stamp[r] <= time
    /\ \A t \in Times : admitted[t] > 0 => t <= time /\ t + Window <= expireAt

WindowOpen(t) == time <= t => Cardinality(AdmittedIn(t)) <= Limit - 1

WindowOver(t) ==
    time > t =>
      Cardinality(AdmittedIn(t)) + Cardinality(PendingIn(t)) <= Limit - 1 + Cardinality(Requests)

Windows == \A t \in Times : WindowOpen(t) /\ WindowOver(t)

Inv == TypeOK /\ Finite /\ InThePast /\ NothingForgottenEarly /\ Windows
-------------------------------------------------------------------------------
\* What a bag's members are, and how they are counted.
LEMMA MemberIs ==
    ASSUME NEW bag, NEW first, NEW last, NEW x
    PROVE  x \in Members(bag, first, last) <=>
             \E t \in Times : first <= t /\ t <= last /\ \E k \in 1..bag[t] : x = <<t, k>>
<1>1. \A t, k : x = <<t, k>> <=> x \in {<<t, k>>}
  OBVIOUS
<1>2. \A t : x \in {t} \X (1..bag[t]) <=> \E k \in 1..bag[t] : x = <<t, k>>
  OBVIOUS
<1>3. x \in Members(bag, first, last) <=>
        \E t \in {u \in Times : first <= u /\ u <= last} : x \in {t} \X (1..bag[t])
  BY DEF Members
<1>4. QED
  BY <1>2, <1>3

LEMMA FewerMembers ==
    ASSUME NEW bag \in [Times -> Nat], NEW more \in [Times -> Nat],
           NEW first \in Int, NEW last \in Int, NEW from \in Int, NEW to \in Int,
           \A t \in Times : first <= t /\ t <= last => from <= t /\ t <= to /\ bag[t] <= more[t],
           IsFiniteSet(Members(more, from, to))
    PROVE  /\ IsFiniteSet(Members(bag, first, last))
           /\ Cardinality(Members(bag, first, last)) <= Cardinality(Members(more, from, to))
<1>1. Members(bag, first, last) \subseteq Members(more, from, to)
  <2> SUFFICES ASSUME NEW x \in Members(bag, first, last)
               PROVE  x \in Members(more, from, to)
    OBVIOUS
  <2>1. PICK t \in Times : first <= t /\ t <= last /\ \E k \in 1..bag[t] : x = <<t, k>>
    BY MemberIs
  <2>2. from <= t /\ t <= to /\ bag[t] <= more[t] /\ bag[t] \in Nat /\ more[t] \in Nat
    BY <2>1
  <2>3. \E k \in 1..more[t] : x = <<t, k>>
    BY <2>1, <2>2
  <2>4. QED
    BY <2>2, <2>3, MemberIs
<1>2. QED
  BY <1>1, FS_Subset

LEMMA OneMore ==
    ASSUME NEW bag \in [Times -> Nat], NEW now \in Times, NEW first \in Int, NEW last \in Int,
           first <= now, now <= last, IsFiniteSet(Members(bag, first, last)),
           NEW more \in [Times -> Nat],
           \A t \in Times : more[t] = IF t = now THEN bag[now] + 1 ELSE bag[t]
    PROVE  /\ IsFiniteSet(Members(more, first, last))
           /\ Cardinality(Members(more, first, last)) = Cardinality(Members(bag, first, last)) + 1
<1> DEFINE new == <<now, bag[now] + 1>>
<1>2. bag[now] \in Nat /\ \A k : k \in 1..(bag[now] + 1) <=> k \in 1..bag[now] \/ k = bag[now] + 1
  OBVIOUS
<1>3. \A x : x \in Members(more, first, last) <=> x \in Members(bag, first, last) \/ x = new
  <2> TAKE x
  <2>1. ASSUME NEW t \in Times
        PROVE  (\E k \in 1..more[t] : x = <<t, k>>) <=>
                 (\E k \in 1..bag[t] : x = <<t, k>>) \/ (t = now /\ x = new)
    BY <1>2
  <2>2. QED
    BY <2>1, MemberIs
<1>4. new \notin Members(bag, first, last)
  <2> SUFFICES ASSUME new \in Members(bag, first, last) PROVE FALSE
    OBVIOUS
  <2>1. PICK t \in Times : \E k \in 1..bag[t] : new = <<t, k>>
    BY MemberIs
  <2>2. QED
    BY <1>2, <2>1
<1>5. Members(more, first, last) = Members(bag, first, last) \cup {new}
  BY <1>3
<1>6. QED
  BY <1>4, <1>5, FS_AddElement

LEMMA NoMoreThere ==
    ASSUME NEW bag \in [Times -> Nat], NEW now \in Times, NEW first \in Int, NEW last \in Int,
           ~(first <= now /\ now <= last), NEW more \in [Times -> Nat],
           \A t \in Times : more[t] = IF t = now THEN bag[now] + 1 ELSE bag[t]
    PROVE  Members(more, first, last) = Members(bag, first, last)
<1>1. \A t \in Times : first <= t /\ t <= last => more[t] = bag[t]
  OBVIOUS
<1>2. \A x : x \in Members(more, first, last) <=> x \in Members(bag, first, last)
  BY <1>1, MemberIs
<1>3. QED
  BY <1>2

LEMMA CopiesCounted ==
    ASSUME NEW bag \in [Times -> Nat], NEW t \in Times, NEW first \in Int, NEW last \in Int,
           first <= t, t <= last, IsFiniteSet(Members(bag, first, last))
    PROVE  bag[t] <= Cardinality(Members(bag, first, last))
<1>1. {t} \X (1..bag[t]) \subseteq Members(bag, first, last)
  BY MemberIs
<1>2. bag[t] \in Nat /\ IsFiniteSet(1..bag[t]) /\ Cardinality(1..bag[t]) = bag[t]
  BY FS_Interval
<1>3. IsFiniteSet({t}) /\ Cardinality({t}) = 1
  BY FS_Singleton
<1>4. Cardinality({t} \X (1..bag[t])) = 1 * bag[t]
  BY <1>2, <1>3, FS_Product
<1>5. Cardinality({t} \X (1..bag[t])) <= Cardinality(Members(bag, first, last))
  BY <1>1, FS_Subset
<1>6. QED
  BY <1>2, <1>4, <1>5
-------------------------------------------------------------------------------
\* What the script leaves of the window before it counts: nothing of what it
\* removes was admitted in a window that is still open.
LEMMA KeptIs ==
    ASSUME Inv, NEW now \in Times, now <= time
    PROVE  /\ Kept(now) \in [Times -> Nat]
           /\ \A t \in Times : Kept(now)[t] <= stamps[t]
           /\ \A t \in Times : t > time - Window => admitted[t] <= Kept(now)[t]
<1>1. /\ stamps \in [Times -> Nat] /\ admitted \in [Times -> Nat] /\ time \in Nat /\ expireAt \in Nat
      /\ Window \in Nat /\ now \in Nat /\ \A t \in Times : t \in Nat
  BY WindowAssumption DEF Inv, TypeOK, Times
<1>2. \A t \in Times : Kept(now)[t] = IF t <= now - Window \/ time >= expireAt THEN 0 ELSE stamps[t]
  BY DEF Kept
<1>3. \A t \in Times : Kept(now)[t] \in Nat
  BY <1>1, <1>2
<1>4. Kept(now) \in [Times -> Nat]
  BY <1>3 DEF Kept
<1>5. \A t \in Times : Kept(now)[t] <= stamps[t]
  BY <1>1, <1>2
<1>6. ASSUME NEW t \in Times, t > time - Window
      PROVE  admitted[t] <= Kept(now)[t]
  <2>1. t \in Nat /\ ~(t <= now - Window)
    BY <1>1, <1>6
  <2>2. CASE time < expireAt
    <3>1. admitted[t] <= stamps[t]
      BY <1>6, <2>2 DEF Inv, NothingForgottenEarly, Seen
    <3>2. Kept(now)[t] = stamps[t]
      BY <1>1, <1>2, <2>1, <2>2
    <3>3. QED
      BY <3>1, <3>2
  <2>3. CASE time >= expireAt
    <3>1. ~(admitted[t] > 0)
      BY <1>1, <1>6, <2>1, <2>3 DEF Inv, InThePast
    <3>2. QED
      BY <1>1, <1>3, <3>1
  <2>4. QED
    BY <1>1, <2>2, <2>3
<1>7. QED
  BY <1>4, <1>5, <1>6

LEMMA KeptCounted ==
    ASSUME Inv, NEW now \in Times, now <= time
    PROVE  /\ IsFiniteSet(Members(Kept(now), 0, MaxTime)) /\ Count(now) \in Nat
           /\ Count(now) <= Limit
<1>1. /\ stamps \in [Times -> Nat] /\ 0 \in Int /\ MaxTime \in Int /\ Limit \in Nat
      /\ IsFiniteSet(Members(stamps, 0, MaxTime)) /\ Cardinality(Members(stamps, 0, MaxTime)) <= Limit
  BY WindowAssumption DEF Inv, TypeOK, Finite, CountIn
<1>2. Kept(now) \in [Times -> Nat] /\ \A t \in Times : Kept(now)[t] <= stamps[t]
  BY KeptIs
<1>3. /\ IsFiniteSet(Members(Kept(now), 0, MaxTime))
      /\ Cardinality(Members(Kept(now), 0, MaxTime)) <= Cardinality(Members(stamps, 0, MaxTime))
  BY <1>1, <1>2, FewerMembers DEF Times
<1>4. QED
  BY <1>1, <1>3, FS_CardinalityType DEF Count, CountIn

\* The script leaves the set within the limit, and in it what was admitted in
\* the windows that are open; what it stores is there beside that.
LEMMA StoreKeeps ==
    ASSUME Inv, NEW now \in Times, now <= time, Store(now)
    PROVE  /\ stamps' \in [Times -> 0..Limit] /\ IsFiniteSet(Members(stamps', 0, MaxTime))
           /\ CountIn(stamps', 0, MaxTime) <= Limit
           /\ expireAt' \in 0..MaxTime + Window /\ expireAt <= expireAt' /\ expireAt' <= time + Window
           /\ \A t \in Times : t > time - Window => admitted[t] <= stamps'[t]
           /\ Count(now) < Limit =>
                /\ expireAt' = time + Window
                /\ now > time - Window => admitted[now] + 1 <= stamps'[now]
<1>1. /\ time \in Nat /\ time <= MaxTime /\ expireAt \in Nat /\ MaxTime \in Nat /\ Window \in Nat
      /\ expireAt <= time + Window /\ Limit \in Nat /\ now \in Nat /\ now <= MaxTime
      /\ admitted \in [Times -> Nat] /\ expireAt <= MaxTime + Window
      /\ \A t \in Times : t \in Nat /\ 0 <= t /\ t <= MaxTime
  BY WindowAssumption DEF Inv, TypeOK, InThePast, Times
<1>2. /\ Kept(now) \in [Times -> Nat]
      /\ \A t \in Times : t > time - Window => admitted[t] <= Kept(now)[t]
  BY KeptIs
<1>3. IsFiniteSet(Members(Kept(now), 0, MaxTime)) /\ Count(now) \in Nat /\ Count(now) <= Limit
  BY KeptCounted
<1>4. PICK left \in [Times -> Nat] : left = Kept(now)
  BY <1>2
<1>5. ASSUME NEW bag \in [Times -> Nat], IsFiniteSet(Members(bag, 0, MaxTime)),
             Cardinality(Members(bag, 0, MaxTime)) <= Limit
      PROVE  bag \in [Times -> 0..Limit]
  <2>1. ASSUME NEW t \in Times PROVE bag[t] \in 0..Limit
    <3>1. bag[t] <= Cardinality(Members(bag, 0, MaxTime))
      BY <1>1, <1>5, CopiesCounted
    <3>2. Cardinality(Members(bag, 0, MaxTime)) \in Nat /\ bag[t] \in Nat
      BY <1>5, FS_CardinalityType
    <3>3. QED
      BY <1>1, <1>5, <3>1, <3>2
  <2>2. QED
    BY <2>1
<1>6. CASE Count(now) >= Limit
  <2>1. stamps' = left /\ expireAt' = expireAt
    BY <1>4, <1>6 DEF Store
  <2>2. Cardinality(Members(left, 0, MaxTime)) <= Limit /\ IsFiniteSet(Members(left, 0, MaxTime))
    BY <1>3, <1>4 DEF Count, CountIn
  <2>3. left \in [Times -> 0..Limit]
    BY <1>5, <2>2
  <2>4. ~(Count(now) < Limit)
    BY <1>1, <1>3, <1>6
  <2>5. \A t \in Times : t > time - Window => admitted[t] <= left[t]
    BY <1>2, <1>4
  <2>6. expireAt \in 0..MaxTime + Window
    BY <1>1
  <2>7. QED
    BY <1>1, <2>1, <2>2, <2>3, <2>4, <2>5, <2>6 DEF CountIn
<1>7. CASE ~(Count(now) >= Limit)
  <2> DEFINE more == [left EXCEPT ![now] = @ + 1]
  <2>1. stamps' = more /\ expireAt' = time + Window
    BY <1>4, <1>7 DEF Store
  <2>2. more \in [Times -> Nat] /\ \A t \in Times : more[t] = IF t = now THEN left[now] + 1 ELSE left[t]
    OBVIOUS
  <2> HIDE DEF more
  <2>3. /\ IsFiniteSet(Members(more, 0, MaxTime))
        /\ Cardinality(Members(more, 0, MaxTime)) = Cardinality(Members(left, 0, MaxTime)) + 1
    BY <1>1, <1>3, <1>4, <2>2, OneMore
  <2>4. Cardinality(Members(more, 0, MaxTime)) <= Limit
    BY <1>1, <1>3, <1>4, <1>7, <2>3 DEF Count, CountIn
  <2>5. more \in [Times -> 0..Limit]
    BY <1>5, <2>2, <2>3, <2>4
  <2>6. \A t \in Times : t > time - Window => admitted[t] <= more[t]
    BY <1>1, <1>2, <1>4, <2>2
  <2>7. now > time - Window => admitted[now] + 1 <= more[now]
    BY <1>1, <1>2, <1>4, <2>2
  <2>8. expireAt' \in 0..MaxTime + Window /\ expireAt <= expireAt' /\ expireAt' <= time + Window
    BY <1>1, <2>1
  <2>9. QED
    BY <2>1, <2>3, <2>4, <2>5, <2>6, <2>7, <2>8 DEF CountIn
<1>8. QED
  BY <1>6, <1>7

LEMMA Sizes ==
    ASSUME Inv, NEW t \in Times
    PROVE  /\ t \in Nat /\ t - Window + 1 \in Int /\ time \in Nat /\ Limit \in Nat /\ Limit >= 1
           /\ IsFiniteSet(AdmittedIn(t)) /\ Cardinality(AdmittedIn(t)) \in Nat
           /\ IsFiniteSet(PendingIn(t)) /\ Cardinality(PendingIn(t)) \in Nat
           /\ Cardinality(PendingIn(t)) <= Cardinality(Requests) /\ Cardinality(Requests) \in Nat
<1>1. PendingIn(t) \subseteq Requests /\ IsFiniteSet(Requests)
  BY WindowAssumption DEF PendingIn
<1>2. IsFiniteSet(AdmittedIn(t))
  BY DEF Inv, Finite
<1>3. t \in Nat /\ t - Window + 1 \in Int /\ time \in Nat /\ Limit \in Nat /\ Limit >= 1
  BY WindowAssumption DEF Inv, TypeOK, Times
<1>4. QED
  BY <1>1, <1>2, <1>3, FS_Subset, FS_CardinalityType

\* A request whose script ran, or failed, is not to be admitted again.
LEMMA NoLongerPending ==
    ASSUME Inv, NEW r \in Requests, pc[r] = "evaluate",
           NEW state \in {"passed", "refused"}, pc' = [pc EXCEPT ![r] = state],
           UNCHANGED stamp, NEW t \in Times
    PROVE  /\ PendingIn(t)' = PendingIn(t) \ {r}
           /\ Cardinality(PendingIn(t)') \in Nat
           /\ Cardinality(PendingIn(t)') <= Cardinality(PendingIn(t))
           /\ t - Window + 1 <= stamp[r] /\ stamp[r] <= t =>
                 Cardinality(PendingIn(t)') = Cardinality(PendingIn(t)) - 1
<1>1. \A q \in Requests : pc'[q] = IF q = r THEN state ELSE pc[q]
  BY DEF Inv, TypeOK
<1>2. PendingIn(t)' = PendingIn(t) \ {r}
  BY <1>1 DEF PendingIn
<1>3. t - Window + 1 <= stamp[r] /\ stamp[r] <= t => r \in PendingIn(t)
  BY DEF PendingIn
<1>4. IsFiniteSet(PendingIn(t)) /\ Cardinality(PendingIn(t)) \in Nat
  BY Sizes
<1>5. /\ IsFiniteSet(PendingIn(t) \ {r})
      /\ Cardinality(PendingIn(t) \ {r}) = IF r \in PendingIn(t) THEN Cardinality(PendingIn(t)) - 1
                                            ELSE Cardinality(PendingIn(t))
  BY <1>4, FS_RemoveElement
<1>6. Cardinality(PendingIn(t) \ {r}) \in Nat
  BY <1>5, FS_CardinalityType
<1>7. QED
  BY <1>2, <1>3, <1>4, <1>5, <1>6

\* What is admitted in a window that is open was counted by the script.
LEMMA CountedIfOpen ==
    ASSUME Inv, NEW now \in Times, now <= time, NEW t \in Times, time <= t
    PROVE  Cardinality(AdmittedIn(t)) <= Count(now)
<1>1. /\ Kept(now) \in [Times -> Nat]
      /\ \A u \in Times : u > time - Window => admitted[u] <= Kept(now)[u]
  BY KeptIs
<1>2. IsFiniteSet(Members(Kept(now), 0, MaxTime))
  BY KeptCounted
<1>3. /\ admitted \in [Times -> Nat] /\ t - Window + 1 \in Int /\ t \in Int /\ 0 \in Int /\ MaxTime \in Int
      /\ time \in Nat /\ Window \in Nat
  BY WindowAssumption DEF Inv, TypeOK, Times
<1>4. ASSUME NEW u \in Times, t - Window + 1 <= u, u <= t
      PROVE  0 <= u /\ u <= MaxTime /\ admitted[u] <= Kept(now)[u]
  <2>1. u \in Nat /\ 0 <= u /\ u <= MaxTime /\ u > time - Window
    BY <1>3, <1>4 DEF Times
  <2>2. QED
    BY <1>1, <2>1
<1>5. QED
  BY <1>1, <1>2, <1>3, <1>4, FewerMembers DEF AdmittedIn, Count, CountIn
-------------------------------------------------------------------------------
LEMMA InvInit == Init => Inv
<1> SUFFICES ASSUME Init PROVE Inv
  OBVIOUS
<1> USE WindowAssumption DEF Init, NoStamps
<1>1. \A first, last : Members(stamps, first, last) = {} /\ Members(admitted, first, last) = {}
  BY DEF Members
<1>2. TypeOK
  <2>1. stamps \in [Times -> 0..Limit] /\ admitted \in [Times -> Nat] /\ time \in Times
    BY DEF Times
  <2>2. CountIn(stamps, 0, MaxTime) <= Limit
    BY <1>1, FS_EmptySet DEF CountIn
  <2>3. QED
    BY <2>1, <2>2 DEF TypeOK, Times
<1>3. Finite
  BY <1>1, FS_EmptySet DEF Finite, AdmittedIn
<1>4. InThePast /\ NothingForgottenEarly
  BY DEF InThePast, NothingForgottenEarly, Seen, Times
<1>5. Windows
  <2>1. \A t \in Times : Cardinality(AdmittedIn(t)) = 0
    BY <1>1, FS_EmptySet DEF AdmittedIn
  <2>2. Limit - 1 >= 0 /\ time = 0 /\ \A t \in Times : t \in Nat
    BY DEF Times
  <2>3. QED
    BY <2>1, <2>2 DEF Windows, WindowOpen, WindowOver
<1>6. QED
  BY <1>2, <1>3, <1>4, <1>5 DEF Inv

\* The script of a request that is not admitted, or that failed.
LEMMA NotAdmitted ==
    ASSUME Inv, NEW r \in Requests, pc[r] = "evaluate",
           NEW state \in {"passed", "refused"}, pc' = [pc EXCEPT ![r] = state],
           Store(stamp[r]) \/ UNCHANGED <<stamps, expireAt>>,
           UNCHANGED <<time, stamp, admitted>>
    PROVE  Inv'
<1>1. PICK now \in Times : now = stamp[r] /\ now <= time
  BY DEF Inv, TypeOK, InThePast
<1>2. /\ stamps' \in [Times -> 0..Limit] /\ IsFiniteSet(Members(stamps', 0, MaxTime))
      /\ CountIn(stamps', 0, MaxTime) <= Limit
      /\ expireAt' \in 0..MaxTime + Window /\ expireAt <= expireAt' /\ expireAt' <= time + Window
      /\ \A t \in Times : t > time - Window /\ time < expireAt' => admitted[t] <= stamps'[t]
  <2>1. CASE Store(stamp[r])
    BY <1>1, <2>1, StoreKeeps
  <2>2. CASE UNCHANGED <<stamps, expireAt>>
    BY <2>2, WindowAssumption DEF Inv, TypeOK, Finite, InThePast, NothingForgottenEarly, Seen, CountIn
  <2>3. QED
    BY <2>1, <2>2
<1>3. time \in Nat /\ expireAt \in Nat /\ expireAt' \in Nat /\ Window \in Nat /\ \A t \in Times : t \in Nat
  BY <1>2, WindowAssumption DEF Inv, TypeOK, Times
<1>4. TypeOK'
  BY <1>2 DEF Inv, TypeOK, CountIn, Members
<1>5. Finite'
  BY <1>2 DEF Inv, Finite, AdmittedIn, Members
<1>6. InThePast'
  BY <1>2, <1>3 DEF Inv, InThePast
<1>7. NothingForgottenEarly'
  <2> SUFFICES ASSUME NEW t \in Times, t > time - Window PROVE admitted[t] <= Seen(t)'
    BY DEF NothingForgottenEarly
  <2>1. CASE time < expireAt'
    BY <1>2, <2>1 DEF Seen
  <2>2. CASE ~(time < expireAt')
    <3>1. ~(admitted[t] > 0) /\ admitted[t] \in Nat
      BY <1>2, <1>3, <2>2 DEF Inv, InThePast, TypeOK
    <3>2. QED
      BY <2>2, <3>1 DEF Seen
  <2>3. QED
    BY <2>1, <2>2
<1>8. Windows'
  <2> SUFFICES ASSUME NEW t \in Times PROVE WindowOpen(t)' /\ WindowOver(t)'
    BY DEF Windows
  <2>1. AdmittedIn(t)' = AdmittedIn(t)
    BY DEF AdmittedIn, Members
  <2>2. Cardinality(PendingIn(t)') \in Nat /\ Cardinality(PendingIn(t)') <= Cardinality(PendingIn(t))
    BY NoLongerPending
  <2>3. QED
    BY <2>1, <2>2, Sizes DEF Inv, Windows, WindowOpen, WindowOver
<1>9. QED
  BY <1>4, <1>5, <1>6, <1>7, <1>8 DEF Inv

LEMMA Admitted ==
    ASSUME Inv, NEW r \in Requests, pc[r] = "evaluate", pc' = [pc EXCEPT ![r] = "passed"],
           Store(stamp[r]), Allowed(stamp[r]),
           admitted' = [admitted EXCEPT ![stamp[r]] = @ + 1],
           UNCHANGED <<time, stamp>>
    PROVE  Inv'
<1>1. PICK now \in Times : now = stamp[r] /\ now <= time
  BY DEF Inv, TypeOK, InThePast
<1>2. Count(now) \in Nat /\ Count(now) + 1 < Limit /\ Limit \in Nat
  BY <1>1, KeptCounted, WindowAssumption DEF Allowed
<1>3. /\ stamps' \in [Times -> 0..Limit] /\ IsFiniteSet(Members(stamps', 0, MaxTime))
      /\ CountIn(stamps', 0, MaxTime) <= Limit
      /\ expireAt' \in 0..MaxTime + Window /\ expireAt <= expireAt' /\ expireAt' = time + Window
      /\ \A t \in Times : t > time - Window => admitted[t] <= stamps'[t]
      /\ now > time - Window => admitted[now] + 1 <= stamps'[now]
  BY <1>1, <1>2, StoreKeeps
<1>4. /\ time \in Nat /\ expireAt \in Nat /\ expireAt' \in Nat /\ Window \in Nat \ {0} /\ MaxTime \in Nat
      /\ \A t \in Times : t \in Nat /\ admitted[t] \in Nat
  BY <1>3, WindowAssumption DEF Inv, TypeOK, Times
<1>5. /\ admitted \in [Times -> Nat] /\ admitted' \in [Times -> Nat]
      /\ \A t \in Times : admitted'[t] = IF t = now THEN admitted[now] + 1 ELSE admitted[t]
  BY <1>1 DEF Inv, TypeOK
<1>6. TypeOK'
  BY <1>3, <1>5 DEF Inv, TypeOK, CountIn, Members
<1>7. ASSUME NEW t \in Times
      PROVE  /\ IsFiniteSet(AdmittedIn(t)')
             /\ Cardinality(AdmittedIn(t)') =
                  IF t - Window + 1 <= now /\ now <= t THEN Cardinality(AdmittedIn(t)) + 1
                  ELSE Cardinality(AdmittedIn(t))
  <2>1. t \in Int /\ t - Window + 1 \in Int /\ IsFiniteSet(AdmittedIn(t))
    BY <1>4, Sizes
  <2>2. PICK more \in [Times -> Nat] : more = admitted'
    BY <1>5
  <2>3. AdmittedIn(t)' = Members(more, t - Window + 1, t) /\ AdmittedIn(t) = Members(admitted, t - Window + 1, t)
    BY <2>2 DEF AdmittedIn, Members
  <2>a. \A u \in Times : more[u] = IF u = now THEN admitted[now] + 1 ELSE admitted[u]
    BY <1>5, <2>2
  <2>b. PICK first \in Int : first = t - Window + 1
    BY <2>1
  <2>4. CASE first <= now /\ now <= t
    <3>1. /\ IsFiniteSet(Members(more, first, t))
          /\ Cardinality(Members(more, first, t)) = Cardinality(Members(admitted, first, t)) + 1
      BY <1>5, <2>1, <2>3, <2>a, <2>b, <2>4, OneMore
    <3>2. QED
      BY <2>3, <2>b, <2>4, <3>1
  <2>5. CASE ~(first <= now /\ now <= t)
    <3>1. Members(more, first, t) = Members(admitted, first, t)
      BY <1>5, <2>1, <2>a, <2>5, NoMoreThere
    <3>2. QED
      BY <2>1, <2>3, <2>b, <2>5, <3>1
  <2>6. QED
    BY <2>4, <2>5
<1>8. Finite'
  BY <1>3, <1>7 DEF Finite, Members
<1>9. InThePast'
  BY <1>1, <1>3, <1>4, <1>5 DEF Inv, InThePast
<1>10. NothingForgottenEarly'
  <2> SUFFICES ASSUME NEW t \in Times, t > time - Window PROVE admitted'[t] <= Seen(t)'
    BY DEF NothingForgottenEarly
  <2>1. time < expireAt'
    BY <1>3, <1>4
  <2>2. QED
    BY <1>3, <1>5, <2>1 DEF Seen
<1>11. Windows'
  <2> SUFFICES ASSUME NEW t \in Times PROVE WindowOpen(t)' /\ WindowOver(t)'
    BY DEF Windows
  <2>1. /\ Cardinality(PendingIn(t)') \in Nat
        /\ Cardinality(PendingIn(t)') <= Cardinality(PendingIn(t))
        /\ t - Window + 1 <= now /\ now <= t =>
              Cardinality(PendingIn(t)') = Cardinality(PendingIn(t)) - 1
    BY <1>1, NoLongerPending
  <2>2. WindowOpen(t)'
    <3> SUFFICES ASSUME time <= t PROVE Cardinality(AdmittedIn(t)') <= Limit - 1
      BY DEF WindowOpen
    <3>1. Cardinality(AdmittedIn(t)) <= Count(now)
      BY <1>1, CountedIfOpen
    <3>2. QED
      BY <1>2, <1>7, <3>1, Sizes
  <2>3. WindowOver(t)'
    <3> SUFFICES ASSUME time > t
                 PROVE  Cardinality(AdmittedIn(t)') + Cardinality(PendingIn(t)') <= Limit - 1 + Cardinality(Requests)
      BY DEF WindowOver
    <3>1. Cardinality(AdmittedIn(t)) + Cardinality(PendingIn(t)) <= Limit - 1 + Cardinality(Requests)
      BY DEF Inv, Windows, WindowOver
    <3>2. QED
      BY <1>7, <2>1, <3>1, Sizes
  <2>4. QED
    BY <2>2, <2>3
<1>12. QED
  BY <1>6, <1>8, <1>9, <1>10, <1>11 DEF Inv

LEMMA TakeStampKeeps == ASSUME Inv, NEW r \in Requests, TakeStamp(r) PROVE Inv'
<1>1. /\ pc[r] # "evaluate" /\ pc' = [pc EXCEPT ![r] = "evaluate"] /\ stamp' = [stamp EXCEPT ![r] = time]
      /\ UNCHANGED <<time, stamps, expireAt, admitted>>
  BY DEF TakeStamp
<1>2. /\ \A q \in Requests : pc'[q] = IF q = r THEN "evaluate" ELSE pc[q]
      /\ \A q \in Requests : stamp'[q] = IF q = r THEN time ELSE stamp[q]
      /\ time \in Nat
  BY <1>1 DEF Inv, TypeOK, Times
<1>3. TypeOK'
  BY <1>1 DEF Inv, TypeOK, CountIn, Members
<1>4. Finite' /\ InThePast' /\ NothingForgottenEarly'
  BY <1>1, <1>2 DEF Inv, Finite, AdmittedIn, Members, InThePast, NothingForgottenEarly, Seen
<1>5. Windows'
  <2> SUFFICES ASSUME NEW t \in Times PROVE WindowOpen(t)' /\ WindowOver(t)'
    BY DEF Windows
  <2>1. AdmittedIn(t)' = AdmittedIn(t)
    BY <1>1 DEF AdmittedIn, Members
  <2>2. time > t => PendingIn(t)' = PendingIn(t)
    <3> SUFFICES ASSUME time > t PROVE PendingIn(t)' = PendingIn(t)
      OBVIOUS
    <3>1. ~(time <= t)
      BY <1>2, Sizes
    <3>2. QED
      BY <1>1, <1>2, <3>1 DEF PendingIn
  <2>3. QED
    BY <1>1, <2>1, <2>2 DEF Inv, Windows, WindowOpen, WindowOver
<1>6. QED
  BY <1>3, <1>4, <1>5 DEF Inv

LEMMA TickKeeps == Inv /\ Tick => Inv'
<1> SUFFICES ASSUME Inv, Tick PROVE Inv'
  OBVIOUS
<1>1. time < MaxTime /\ time' = time + 1 /\ UNCHANGED <<stamps, expireAt, pc, stamp, admitted>>
  BY DEF Tick
<1>2. /\ time \in Nat /\ time' \in Times /\ Window \in Nat /\ expireAt \in Nat
      /\ \A t \in Times : t \in Nat /\ admitted[t] \in Nat
  BY <1>1, WindowAssumption DEF Inv, TypeOK, Times
<1>3. TypeOK'
  BY <1>1, <1>2 DEF Inv, TypeOK, CountIn, Members
<1>4. Finite'
  BY <1>1 DEF Inv, Finite, AdmittedIn, Members
<1>5. InThePast'
  <2>1. \A r \in Requests : stamp[r] \in Nat /\ stamp[r] <= time
    BY DEF Inv, TypeOK, InThePast, Times
  <2>2. QED
    BY <1>1, <1>2, <2>1 DEF Inv, InThePast
<1>6. NothingForgottenEarly'
  <2> SUFFICES ASSUME NEW t \in Times, t > time' - Window PROVE admitted[t] <= Seen(t)'
    BY <1>1 DEF NothingForgottenEarly
  <2>1. CASE admitted[t] = 0
    <3>1. Seen(t)' \in Nat
      BY <1>1 DEF Inv, TypeOK, Seen
    <3>2. QED
      BY <2>1, <3>1
  <2>2. CASE admitted[t] > 0
    <3>1. t + Window <= expireAt
      BY <2>2 DEF Inv, InThePast
    <3>2. t > time - Window /\ time < expireAt /\ time' < expireAt
      BY <1>1, <1>2, <3>1
    <3>3. QED
      BY <1>1, <3>2 DEF Inv, NothingForgottenEarly, Seen
  <2>3. QED
    BY <1>2, <2>1, <2>2
<1>7. Windows'
  <2> SUFFICES ASSUME NEW t \in Times PROVE WindowOpen(t)' /\ WindowOver(t)'
    BY DEF Windows
  <2>1. AdmittedIn(t)' = AdmittedIn(t) /\ PendingIn(t)' = PendingIn(t)
    BY <1>1 DEF AdmittedIn, PendingIn, Members
  <2>2. WindowOpen(t)'
    BY <1>1, <1>2, <2>1 DEF Inv, Windows, WindowOpen
  <2>3. CASE time = t
    <3>1. Cardinality(AdmittedIn(t)) <= Limit - 1
      BY <1>2, <2>3 DEF Inv, Windows, WindowOpen
    <3>2. Cardinality(AdmittedIn(t)) + Cardinality(PendingIn(t)) <= Limit - 1 + Cardinality(Requests)
      BY <3>1, Sizes
    <3>3. QED
      BY <2>1, <2>2, <3>2 DEF WindowOver
  <2>4. CASE time # t
    BY <1>1, <1>2, <2>1, <2>2, <2>4 DEF Inv, Windows, WindowOver
  <2>5. QED
    BY <2>2, <2>3, <2>4
<1>8. QED
  BY <1>3, <1>4, <1>5, <1>6, <1>7 DEF Inv

LEMMA InvNext == Inv /\ [Next]_vars => Inv'
<1> SUFFICES ASSUME Inv, [Next]_vars PROVE Inv'
  OBVIOUS
<1>1. ASSUME NEW r \in Requests, TakeStamp(r) PROVE Inv'
  BY <1>1, TakeStampKeeps
<1>2. ASSUME NEW r \in Requests, Evaluate(r) PROVE Inv'
  <2>1. CASE Allowed(stamp[r])
    BY <1>2, <2>1, Admitted DEF Evaluate
  <2>2. CASE ~Allowed(stamp[r])
    BY <1>2, <2>2, NotAdmitted DEF Evaluate
  <2>3. QED
    BY <2>1, <2>2
<1>3. ASSUME NEW r \in Requests, EvaluateFails(r) PROVE Inv'
  BY <1>3, NotAdmitted DEF EvaluateFails
<1>4. CASE Tick
  BY <1>4, TickKeeps
<1>5. CASE UNCHANGED vars
  BY <1>5 DEF vars, Inv, TypeOK, Finite, InThePast, NothingForgottenEarly, Windows, WindowOpen, WindowOver,
              AdmittedIn, PendingIn, Members, CountIn, Seen
<1>6. QED
  BY <1>1, <1>2, <1>3, <1>4, <1>5 DEF Next

LEMMA InvAlways == Spec => []Inv
BY InvInit, InvNext, PTL DEF Spec

\* The sorted set never holds more than the limit, for any number of gateways:
\* the script that counts it is the one that adds to it.
THEOREM WindowTyped == Spec => []TypeOK
<1>1. Inv => TypeOK
  BY DEF Inv
<1>2. QED
  BY <1>1, InvAlways, PTL

\* Neither a script with a newer stamp nor the key's expiry removes what was
\* admitted in a window that is still open.
THEOREM StampsOutliveWindow == Spec => []NothingForgottenEarly
<1>1. Inv => NothingForgottenEarly
  BY DEF Inv
<1>2. QED
  BY <1>1, InvAlways, PTL

\* A window admits at most RatePerWindow - 1 requests, and one more for each
\* goroutine that took its stamp in it and was late with its script.
THEOREM AdmissionBounded == Spec => []WindowBounded
<1>1. Inv => WindowBounded
  <2> SUFFICES ASSUME Inv, NEW t \in Times
               PROVE  Cardinality(AdmittedIn(t)) <= Limit - 1 + Cardinality(Requests)
    BY DEF WindowBounded, CountIn, AdmittedIn
  <2>1. CASE time <= t
    BY <2>1, Sizes DEF Inv, Windows, WindowOpen
  <2>2. CASE time > t
    BY <2>2, Sizes DEF Inv, Windows, WindowOver
  <2>3. QED
    BY <2>1, <2>2, Sizes
<1>2. QED
  BY <1>1, InvAlways, PTL
===============================================================================
