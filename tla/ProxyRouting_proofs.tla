-------------------------- MODULE ProxyRouting_proofs --------------------------
(***************************************************************************)
(* Theorems about RoutingTables and ProxyRouting, for any sequence of      *)
(* configurations, any set of requests and any ways of failing.            *)
(***************************************************************************)
EXTENDS ProxyRouting, SequenceTheorems, TLAPS

-----------------------------------------------------------------------------
(* The tables.                                                             *)

TablesInv == TablesTypeOK /\ TablesInStep /\ NoUnknownInTable

\* Reading a configuration: what the assumption says of one of them.
LEMMA ConfigParts ==
    /\ 1 \in Generations
    /\ Len(Configs) \in Nat /\ Generations = 1..Len(Configs)
    /\ \A g \in Generations :
          /\ Configs[g].providers \subseteq Providers
          /\ Configs[g].route # NoRoute => Configs[g].route \in Seq(Providers)
<1> DEFINE Config == [providers : SUBSET Providers, clients : SUBSET Providers,
                      probed : SUBSET Providers,
                      route : Seq(Providers) \union {NoRoute}]
<1>1. Configs \in Seq(Config) /\ Configs # <<>>
  BY ConfigsAssumption
<1>2. Len(Configs) \in Nat \ {0} /\ Generations = 1..Len(Configs)
  BY <1>1, EmptySeq, LenProperties DEF Generations
<1>3. \A g \in Generations : Configs[g] \in Config
  BY <1>1, <1>2, ElementOfSeq
<1>4. QED
  BY <1>2, <1>3

LEMMA InitTables == TablesInit => TablesInv
<1> SUFFICES ASSUME TablesInit PROVE TablesInv
  OBVIOUS
<1>1. TablesTypeOK
  BY ConfigParts DEF TablesInit, TablesTypeOK
<1>2. NoUnknownInTable
  BY ConfigParts DEF TablesInit, NoUnknownInTable, Objects, ObjectsOf
<1>3. QED
  BY <1>1, <1>2 DEF TablesInv, TablesInit, TablesInStep

LEMMA StepTables == TablesInv /\ [TablesNext]_tablesVars => TablesInv'
<1> SUFFICES ASSUME TablesInv, [TablesNext]_tablesVars PROVE TablesInv'
  OBVIOUS
<1> USE ConfigParts DEF TablesInv
<1>1. CASE StoreProviders
  <2>1. providersOf' \in Generations /\ rulesOf = providersOf /\ clientsOf = providersOf
    BY <1>1 DEF StoreProviders, TablesTypeOK, TablesInStep
  <2>2. TablesTypeOK'
    BY <1>1, <2>1 DEF StoreProviders, TablesTypeOK
  <2>3. TablesInStep'
    BY <1>1, <2>1 DEF StoreProviders, TablesTypeOK, TablesInStep
  <2>4. NoUnknownInTable'
    BY <1>1, <2>1 DEF StoreProviders, NoUnknownInTable, Objects, ObjectsOf
  <2>5. QED
    BY <2>2, <2>3, <2>4
<1>2. CASE StoreRules
  BY <1>2 DEF StoreRules, TablesTypeOK, TablesInStep, NoUnknownInTable
<1>3. CASE StoreClients
  BY <1>3 DEF StoreClients, TablesTypeOK, TablesInStep, NoUnknownInTable
<1>4. CASE StartRound
  <2>1. ObjectsOf(providersOf) \subseteq Objects /\ probe = NoProbe
    BY <1>4 DEF StartRound, TablesTypeOK, ObjectsOf, Objects
  <2>2. QED
    BY <1>4, <2>1 DEF StartRound, TablesTypeOK, TablesInStep, NoUnknownInTable
<1>5. ASSUME NEW o \in Objects, Probe(o) PROVE TablesInv'
  BY <1>5 DEF Probe, TablesTypeOK, TablesInStep, NoUnknownInTable
<1>6. CASE WriteStatus
  <2>1. probe[1] \in Objects /\ probe[2] \in {"healthy", "unhealthy"}
    BY <1>6 DEF WriteStatus, TablesTypeOK
  <2>2. TablesTypeOK' /\ TablesInStep'
    BY <1>6, <2>1 DEF WriteStatus, TablesTypeOK, TablesInStep, NoProbe
  <2>3. NoUnknownInTable'
    BY <1>6, <2>1 DEF WriteStatus, TablesTypeOK, NoUnknownInTable, Objects
  <2>4. QED
    BY <2>2, <2>3
<1>7. ASSUME NEW p \in Providers, Flip(p) PROVE TablesInv'
  BY <1>7 DEF Flip, TablesTypeOK, TablesInStep, NoUnknownInTable
<1>8. CASE UNCHANGED tablesVars
  BY <1>8 DEF tablesVars, TablesTypeOK, TablesInStep, NoUnknownInTable
<1>9. QED
  BY <1>1, <1>2, <1>3, <1>4, <1>5, <1>6, <1>7, <1>8 DEF TablesNext, Reload, Check

\* A request's steps leave the tables alone.
LEMMA HandleKeepsTables ==
    ASSUME NEW r \in Requests, Handle(r) PROVE UNCHANGED tablesVars
BY DEF Handle, RejectBody, SelectRoute, SelectProvider, NoneHealthy, LoadClients,
       Try, Exhausted

\* Wherever a reload has got to, and whatever the checker finds, the rules and
\* the clients are at most one configuration behind the providers, and only
\* between the stores of a reload; every object a request can look up has a
\* verdict.
THEOREM TablesAlwaysSound == Spec => []TablesSound
<1>1. Init => TablesInv
  BY InitTables DEF Init
<1>2. TablesInv /\ [Next]_vars => TablesInv'
  <2>1. [Next]_vars => [TablesNext]_tablesVars
    BY HandleKeepsTables DEF Next, vars
  <2>2. QED
    BY <2>1, StepTables
<1>3. TablesInv => TablesSound
  BY DEF TablesInv, TablesSound
<1>4. QED
  BY <1>1, <1>2, <1>3, PTL DEF Spec

-----------------------------------------------------------------------------
(* The requests.  The attempts of a request are at most one on its primary *)
(* alone (k of them), and then those on the route from its first name.     *)

OutcomeKinds == {"missing", "ok", "5xx", "network", "fatal", "open"}
Attempts == [to : Providers, out : OutcomeKinds]

\* How far the call that is running has come, by its loop variable.
Running(r, k) ==
    /\ pc[r] \in {"start", "select"} => tried[r] = <<>>
    /\ pc[r] \in {"primary", "tryPrimary"} =>
          /\ list[r] = <<first[r]>> /\ Occurs(first[r], route[r])
          /\ Len(tried[r]) = index[r] - 1 /\ index[r] <= 2
          /\ Len(tried[r]) = k
    /\ pc[r] \in {"chain", "tryChain"} =>
          /\ list[r] = route[r]
          /\ Len(tried[r]) = k + index[r] - 1
          /\ k = 1 => ~stream[r]

\* Only the attempt that is answered with was a success.
Successes(r) ==
    /\ (answer[r] = "none") <=> (pc[r] # "done")
    /\ answer[r] = "response" =>
          tried[r] # <<>> /\ tried[r][Len(tried[r])].out = "ok"
    /\ \A i \in DOMAIN tried[r] :
          tried[r][i].out = "ok" => i = Len(tried[r]) /\ answer[r] = "response"

RequestInv(r) ==
    /\ tried[r] \in Seq(Attempts)
    /\ \E k \in 0..1 : Along(r, k) /\ Running(r, k)
    /\ Successes(r)
    /\ answer[r] = "503" /\ ~stream[r] =>
            WholeRouteTried(r) \/ Last(r).out \in {"fatal", "open"}

Inv ==
    /\ TypeOK /\ TablesInv
    /\ tried \in [Requests -> Seq(Attempts)]
    /\ \A r \in Requests : RequestInv(r)
-----------------------------------------------------------------------------
LEMMA PositionsCount == 1 \in Positions /\ \A n \in Positions : n + 1 \in Positions
BY DEF Positions

\* What Go's HTTP outcome can be, whatever the faults of the instance.
LEMMA OutcomesTyped ==
    ASSUME NEW p, NEW g \in Generations PROVE Outcomes(p, g) \subseteq OutcomeKinds
BY FaultsAssumption DEF Outcomes, OutcomeKinds

\* A request whose own variables a step leaves alone keeps its invariant.
LEMMA Untouched ==
    ASSUME NEW q \in Requests, RequestInv(q),
           pc'[q] = pc[q], stream'[q] = stream[q], route'[q] = route[q],
           first'[q] = first[q], list'[q] = list[q], index'[q] = index[q],
           tried'[q] = tried[q], answer'[q] = answer[q]
    PROVE  RequestInv(q)'
<1>1. ASSUME NEW k \in 0..1, Along(q, k), Running(q, k)
      PROVE  Along(q, k)' /\ Running(q, k)'
  BY <1>1 DEF Along, Running
<1>2. Successes(q) => Successes(q)'
  BY DEF Successes
<1>3. Last(q)' = Last(q)
  BY DEF Last
<1>4. \E k \in 0..1 : Along(q, k)' /\ Running(q, k)'
  BY <1>1 DEF RequestInv
<1>5. WholeRouteTried(q)' <=> WholeRouteTried(q)
  BY DEF WholeRouteTried
<1>6. QED
  BY <1>2, <1>3, <1>4, <1>5 DEF RequestInv

LEMMA InitRequests == Init => Inv
<1> SUFFICES ASSUME Init PROVE Inv
  OBVIOUS
<1>1. TypeOK /\ TablesInv
  BY InitTables, ConfigParts, EmptySeq, PositionsCount DEF Init, TablesInv, TypeOK, Answers
<1>2. tried \in [Requests -> Seq(Attempts)]
  BY EmptySeq DEF Init
<1>3. ASSUME NEW r \in Requests PROVE RequestInv(r)
  <2>1. tried[r] = <<>> /\ pc[r] = "start" /\ answer[r] = "none"
    BY DEF Init
  <2>2. Along(r, 0) /\ Running(r, 0)
    BY <2>1 DEF Along, Running
  <2>3. QED
    BY <1>2, <2>1, <2>2 DEF RequestInv, Successes
<1>4. QED
  BY <1>1, <1>2, <1>3 DEF Inv

\* What a failed call does to the request, case by case.
LEMMA FailedCases ==
    ASSUME NEW r, NEW exhausted \in BOOLEAN, Failed(r, exhausted)
    PROVE  \/ /\ ~stream[r] /\ pc[r] = "tryPrimary" /\ route[r] # <<>>
              /\ pc' = [pc EXCEPT ![r] = "chain"]
              /\ list' = [list EXCEPT ![r] = route[r]]
              /\ index' = [index EXCEPT ![r] = 1]
              /\ answer' = answer
           \/ /\ stream[r] \/ pc[r] # "tryPrimary" \/ route[r] = <<>>
              /\ pc' = [pc EXCEPT ![r] = "done"]
              /\ \/ answer' = [answer EXCEPT ![r] = "503"]
                 \/ answer' = [answer EXCEPT ![r] = "error event"]
              /\ stream[r] \/ answer' = [answer EXCEPT ![r] = "503"]
              /\ list' = list /\ index' = index
<1>1. CASE stream[r]
  BY <1>1, Zenon DEF Failed, Finish
<1>2. CASE ~stream[r] /\ pc[r] = "tryPrimary"
  <2>1. StartChain(r)
    BY <1>2, Zenon DEF Failed
  <2>2. QED
    BY <1>2, <2>1 DEF StartChain, Finish
<1>3. CASE ~stream[r] /\ pc[r] # "tryPrimary"
  BY <1>3, Zenon DEF Failed, Finish
<1>4. QED
  BY <1>1, <1>2, <1>3, Zenon

\* The same of the request's own values.
LEMMA FailedHere ==
    ASSUME TypeOK, NEW r \in Requests, NEW exhausted \in BOOLEAN, Failed(r, exhausted)
    PROVE  \/ /\ ~stream[r] /\ pc[r] = "tryPrimary"
              /\ pc'[r] = "chain" /\ list'[r] = route[r] /\ index'[r] = 1
              /\ answer'[r] = answer[r]
           \/ /\ stream[r] \/ pc[r] # "tryPrimary" \/ route[r] = <<>>
              /\ pc'[r] = "done"
              /\ answer'[r] = "503" \/ (stream[r] /\ answer'[r] = "error event")
<1>0. \/ /\ ~stream[r] /\ pc[r] = "tryPrimary" /\ route[r] # <<>>
         /\ pc' = [pc EXCEPT ![r] = "chain"]
         /\ list' = [list EXCEPT ![r] = route[r]]
         /\ index' = [index EXCEPT ![r] = 1]
         /\ answer' = answer
      \/ /\ stream[r] \/ pc[r] # "tryPrimary" \/ route[r] = <<>>
         /\ pc' = [pc EXCEPT ![r] = "done"]
         /\ \/ answer' = [answer EXCEPT ![r] = "503"]
            \/ answer' = [answer EXCEPT ![r] = "error event"]
         /\ stream[r] \/ answer' = [answer EXCEPT ![r] = "503"]
         /\ list' = list /\ index' = index
  BY FailedCases
<1> USE DEF TypeOK
<1>1. CASE /\ ~stream[r] /\ pc[r] = "tryPrimary" /\ route[r] # <<>>
           /\ pc' = [pc EXCEPT ![r] = "chain"]
           /\ list' = [list EXCEPT ![r] = route[r]]
           /\ index' = [index EXCEPT ![r] = 1]
           /\ answer' = answer
  <2>1. pc'[r] = "chain" /\ list'[r] = route[r] /\ index'[r] = 1
    BY <1>1
  <2>2. QED
    BY <1>1, <2>1, Zenon
<1>2. CASE /\ stream[r] \/ pc[r] # "tryPrimary" \/ route[r] = <<>>
           /\ pc' = [pc EXCEPT ![r] = "done"]
           /\ \/ answer' = [answer EXCEPT ![r] = "503"]
              \/ answer' = [answer EXCEPT ![r] = "error event"]
           /\ stream[r] \/ answer' = [answer EXCEPT ![r] = "503"]
           /\ list' = list /\ index' = index
  <2>1. pc'[r] = "done"
    BY <1>2
  <2>2. CASE answer' = [answer EXCEPT ![r] = "503"]
    BY <1>2, <2>1, <2>2
  <2>3. CASE answer' = [answer EXCEPT ![r] = "error event"] /\ stream[r]
    BY <1>2, <2>1, <2>3
  <2>4. QED
    BY <1>2, <2>2, <2>3
<1>3. QED
  BY <1>0, <1>1, <1>2, Zenon

\* The variables of the requests stay typed.
LEMMA HandleTypeOK ==
    ASSUME Inv, NEW r \in Requests, Handle(r)
    PROVE  TypeOK' /\ tried' \in [Requests -> Seq(Attempts)]
<1>0. TypeOK /\ TablesTypeOK /\ tried \in [Requests -> Seq(Attempts)] /\ TablesTypeOK'
  <2>1. TypeOK /\ TablesTypeOK /\ tried \in [Requests -> Seq(Attempts)]
    BY DEF Inv, TypeOK
  <2>2. UNCHANGED tablesVars
    BY HandleKeepsTables
  <2>3. QED
    BY <2>1, <2>2 DEF tablesVars, TablesTypeOK
<1> USE PositionsCount DEF TypeOK, Answers
<1>1. CASE RejectBody(r)
  BY <1>0, <1>1 DEF RejectBody, Finish
<1>2. CASE SelectRoute(r)
  <2>1. Route # NoRoute => Route \in Seq(Providers)
    BY <1>0, ConfigParts DEF TablesTypeOK, Route
  <2>2. CASE Route = NoRoute
    BY <1>0, <1>2, <2>2 DEF SelectRoute, Finish
  <2>3. CASE Route # NoRoute
    <3>1. /\ pc' = [pc EXCEPT ![r] = "select"]
          /\ route' = [route EXCEPT ![r] = Route]
          /\ index' = [index EXCEPT ![r] = 1]
          /\ taken' = [taken EXCEPT ![r] = [config |-> rulesOf,
                                           stored |-> reload # "clients"]]
          /\ UNCHANGED <<answer, stream, first, list, clients, tried>>
      BY <1>2, <2>3 DEF SelectRoute
    <3>2. [config |-> rulesOf, stored |-> reload # "clients"]
             \in [config : Generations, stored : BOOLEAN]
      BY <1>0, Zenon DEF TablesTypeOK
    <3>3. taken' \in [Requests -> [config : Generations, stored : BOOLEAN]]
      BY <1>0, <3>1, <3>2, Zenon
    <3>4. QED
      BY <1>0, <2>1, <2>3, <3>1, <3>3
  <2>4. QED
    BY <2>2, <2>3
<1>3. CASE SelectProvider(r)
  <2> DEFINE p == route[r][index[r]]
  <2>1. p \in Providers
    <3>1. route[r] \in Seq(Providers) /\ index[r] \in DOMAIN route[r]
      BY <1>0, <1>3 DEF SelectProvider
    <3>2. QED
      BY <3>1, ElementOfSeq, LenProperties
  <2>0. <<p>> \in Seq(Providers)
    BY <2>1
  <2>2. CASE Healthy(p)
    <3>1. /\ pc' = [pc EXCEPT ![r] = "primary"] /\ first' = [first EXCEPT ![r] = p]
          /\ list' = [list EXCEPT ![r] = <<p>>] /\ index' = [index EXCEPT ![r] = 1]
          /\ UNCHANGED <<stream, route, clients, taken, tried, answer>>
      BY <1>3, <2>2 DEF SelectProvider
    <3>2. 1 \in Positions
      OBVIOUS
    <3>3. QED
      BY <1>0, <2>0, <2>1, <3>1, <3>2
  <2>3. CASE ~Healthy(p)
    <3>1. index[r] + 1 \in Positions
      BY <1>0
    <3>2. /\ index' = [index EXCEPT ![r] = index[r] + 1]
          /\ UNCHANGED <<pc, stream, route, first, list, clients, taken, tried, answer>>
      BY <1>3, <2>3 DEF SelectProvider
    <3>3. QED
      BY <1>0, <3>1, <3>2
  <2>4. QED
    BY <2>2, <2>3
<1>4. CASE NoneHealthy(r)
  <2>1. UNCHANGED <<stream, route, first, clients, taken, tried>>
    BY <1>4 DEF NoneHealthy
  <2>2. CASE route[r] = <<>>
    <3>1. /\ pc' = [pc EXCEPT ![r] = "done"] /\ answer' = [answer EXCEPT ![r] = "503"]
          /\ UNCHANGED <<list, index>>
      BY <1>4, <2>2 DEF NoneHealthy, StartChain, Finish
    <3>2. QED
      BY <1>0, <2>1, <3>1
  <2>3. CASE route[r] # <<>>
    <3>1. /\ pc' = [pc EXCEPT ![r] = "chain"] /\ list' = [list EXCEPT ![r] = route[r]]
          /\ index' = [index EXCEPT ![r] = 1] /\ UNCHANGED answer
      BY <1>4, <2>3 DEF NoneHealthy, StartChain
    <3>2. route[r] \in Seq(Providers) /\ 1 \in Positions
      BY <1>0
    <3>3. QED
      BY <1>0, <2>1, <3>1, <3>2
  <2>4. QED
    BY <2>2, <2>3
<1>5. CASE LoadClients(r)
  BY <1>0, <1>5 DEF LoadClients, TablesTypeOK
<1>6. CASE Try(r)
  <2> DEFINE p == list[r][index[r]]
  <2>1. p \in Providers
    <3>1. list[r] \in Seq(Providers) /\ index[r] \in DOMAIN list[r]
      BY <1>0, <1>6 DEF Try
    <3>2. QED
      BY <3>1, ElementOfSeq, LenProperties
  <2>2. PICK out \in Outcomes(p, clients[r]) :
          /\ tried' = [tried EXCEPT ![r] = Append(@, Attempt(p, out))]
          /\ \/ Finish(r, "response") /\ UNCHANGED <<list, index>>
             \/ index' = [index EXCEPT ![r] = @ + 1] /\ UNCHANGED <<pc, list, answer>>
             \/ Failed(r, FALSE)
    BY <1>6 DEF Try
  <2>3. Attempt(p, out) \in Attempts
    BY <1>0, <2>1, OutcomesTyped DEF Attempt, Attempts
  <2>4. tried' \in [Requests -> Seq(Attempts)]
    BY <1>0, <2>2, <2>3, AppendProperties
  <2>5. UNCHANGED <<stream, route, first, clients, taken>>
    BY <1>6 DEF Try
  <2>6. CASE Failed(r, FALSE)
    BY <1>0, <2>4, <2>5, <2>6, FailedCases
  <2>7. CASE index' = [index EXCEPT ![r] = @ + 1] /\ UNCHANGED <<pc, list, answer>>
    <3>1. index[r] + 1 \in Positions
      BY <1>0
    <3>2. QED
      BY <1>0, <2>4, <2>5, <2>7, <3>1
  <2>8. CASE Finish(r, "response") /\ UNCHANGED <<list, index>>
    BY <1>0, <2>4, <2>5, <2>8 DEF Finish
  <2>9. QED
    BY <2>2, <2>6, <2>7, <2>8
<1>7. CASE Exhausted(r)
  <2>1. Failed(r, TRUE) /\ UNCHANGED <<stream, route, first, clients, taken, tried>>
    BY <1>7 DEF Exhausted
  <2>2. QED
    BY <1>0, <2>1, FailedCases
<1>8. QED
  BY <1>1, <1>2, <1>3, <1>4, <1>5, <1>6, <1>7 DEF Handle

\* The sequences of a request and their domains.
SequencesOf(r) ==
    /\ tried[r] \in Seq(Attempts) /\ Len(tried[r]) \in Nat
    /\ DOMAIN tried[r] = 1..Len(tried[r])
    /\ route[r] \in Seq(Providers) /\ Len(route[r]) \in Nat
    /\ DOMAIN route[r] = 1..Len(route[r])
    /\ list[r] \in Seq(Providers) /\ Len(list[r]) \in Nat
    /\ DOMAIN list[r] = 1..Len(list[r])
    /\ index[r] \in Nat /\ index[r] >= 1

LEMMA RequestFacts ==
    ASSUME Inv, NEW r \in Requests
    PROVE  /\ TypeOK /\ tried \in [Requests -> Seq(Attempts)]
           /\ RequestInv(r) /\ SequencesOf(r)
<1>1. TypeOK /\ tried \in [Requests -> Seq(Attempts)] /\ RequestInv(r)
  BY DEF Inv
<1>2. /\ tried[r] \in Seq(Attempts) /\ route[r] \in Seq(Providers)
      /\ list[r] \in Seq(Providers) /\ index[r] \in Positions
  BY <1>1 DEF TypeOK
<1>3. QED
  BY <1>1, <1>2, LenProperties DEF Positions, SequencesOf

\* In its k-th state a call makes one more attempt, with this outcome.
Attempting(r, k, kk, out) ==
    /\ Along(r, k) /\ Running(r, k)
    /\ kk = IF pc[r] = "tryPrimary" THEN 1 ELSE k
    /\ pc[r] \in {"tryPrimary", "tryChain"} /\ index[r] \in DOMAIN list[r]
    /\ UNCHANGED <<stream, route, first>>
    /\ tried'[r] = Append(tried[r], Attempt(list[r][index[r]], out))

\* What was tried then is what was tried before, and that attempt.
Extended(r, kk, out) ==
    /\ Along(r, kk)'
    /\ Len(tried'[r]) = Len(tried[r]) + 1
    /\ DOMAIN tried'[r] = 1..Len(tried[r]) + 1
    /\ \A i \in 1..Len(tried[r]) : tried'[r][i] = tried[r][i]
    /\ tried'[r][Len(tried[r]) + 1].out = out

\* An attempt, made at the place the loop has come to, keeps to the pattern.
LEMMA OneMoreAttempt ==
    ASSUME Inv, NEW r \in Requests, NEW k \in 0..1, NEW kk \in 0..1,
           NEW out \in OutcomeKinds, Attempting(r, k, kk, out)
    PROVE  Extended(r, kk, out)
<1> USE DEF Attempting, Extended
<1> DEFINE p == list[r][index[r]]
<1>0. SequencesOf(r)
  BY RequestFacts
<1> USE <1>0 DEF SequencesOf
<1>1. Attempt(p, out) \in Attempts /\ Attempt(p, out).to = p /\ Attempt(p, out).out = out
  BY ElementOfSeq DEF Attempt, Attempts
<1>2. /\ tried'[r] \in Seq(Attempts)
      /\ Len(tried'[r]) = Len(tried[r]) + 1
      /\ \A i \in 1..Len(tried[r]) : tried'[r][i] = tried[r][i]
      /\ tried'[r][Len(tried[r]) + 1] = Attempt(p, out)
  BY <1>1, AppendProperties
<1>3. DOMAIN tried'[r] = 1..Len(tried[r]) + 1
  BY <1>2, LenProperties
<1>4. CASE pc[r] = "tryPrimary"
  <2>0. list[r] = <<first[r]>> /\ Len(tried[r]) = index[r] - 1
    BY <1>4, Zenon DEF Running
  <2>1. Len(list[r]) = 1 /\ list[r][1] = first[r]
    BY <2>0
  <2>2. index[r] = 1 /\ Len(tried[r]) = 0 /\ p = first[r]
    BY <2>0, <2>1
  <2>3. Along(r, kk)'
    BY <1>1, <1>2, <1>3, <1>4, <2>2 DEF Along, Running
  <2>4. QED
    BY <1>1, <1>2, <1>3, <1>4, <2>3
<1>5. CASE pc[r] = "tryChain"
  <2>1. /\ p = route[r][index[r]] /\ index[r] \in DOMAIN route[r]
        /\ Len(tried[r]) + 1 - k = index[r]
        /\ k = 1 => ~stream[r]
    <3>1. /\ list[r] = route[r] /\ Len(tried[r]) = k + index[r] - 1
          /\ k = 1 => ~stream[r]
      BY <1>5, Zenon DEF Running
    <3>2. QED
      BY <3>1
  <2>2. k = 1 => tried'[r][1].to = first[r] /\ Occurs(first[r], route[r]) /\ ~stream[r]
    BY <1>2, <2>1 DEF Along
  <2>3. ASSUME NEW i \in DOMAIN tried'[r], i > k
        PROVE  i - k \in DOMAIN route[r] /\ tried'[r][i].to = route[r][i - k]
    <3>1. CASE i \in 1..Len(tried[r])
      BY <1>2, <2>3, <3>1 DEF Along
    <3>2. CASE i = Len(tried[r]) + 1
      BY <1>1, <1>2, <2>1, <3>2
    <3>3. QED
      BY <1>3, <3>1, <3>2
  <2>4. Along(r, kk)'
    <3>1. kk = k
      BY <1>5
    <3>2. k <= Len(tried[r]) /\ Len(tried[r]) >= k + index[r] - 1
      BY <1>5 DEF Along, Running
    <3>3. QED
      BY <1>2, <2>2, <2>3, <3>1, <3>2 DEF Along
  <2>5. QED
    BY <1>1, <1>2, <1>3, <1>5, <2>4
<1>6. QED
  BY <1>4, <1>5

\* The call with the selected provider alone goes on.
LEMMA StillPrimary ==
    ASSUME NEW r, NEW k, pc'[r] = "tryPrimary",
           list'[r] = <<first'[r]>>, Occurs(first[r], route[r])',
           Len(tried'[r]) = index'[r] - 1, index'[r] <= 2, Len(tried'[r]) = k
    PROVE  Running(r, k)'
<1>1. ~(pc'[r] \in {"start", "select"}) /\ ~(pc'[r] \in {"chain", "tryChain"})
  OBVIOUS
<1>2. QED
  BY <1>1, Zenon DEF Running

\* Trying a provider.
LEMMA TryKeepsRequest ==
    ASSUME Inv, NEW r \in Requests, Try(r), tried' \in [Requests -> Seq(Attempts)]
    PROVE  RequestInv(r)'
<1>0. SequencesOf(r) /\ RequestInv(r) /\ TypeOK
  BY RequestFacts
<1> DEFINE p == list[r][index[r]]
           n == Len(tried[r])
<1>1. PICK k \in 0..1 : Along(r, k) /\ Running(r, k)
  BY <1>0 DEF RequestInv
<1>2. PICK out \in Outcomes(p, clients[r]) :
          /\ tried' = [tried EXCEPT ![r] = Append(@, Attempt(p, out))]
          /\ \/ out = "ok" /\ Finish(r, "response") /\ UNCHANGED <<list, index>>
             \/ /\ out # "ok" /\ GoesOn(r, out)
                /\ index' = [index EXCEPT ![r] = @ + 1] /\ UNCHANGED <<pc, list, answer>>
             \/ out # "ok" /\ ~GoesOn(r, out) /\ Failed(r, FALSE)
  BY DEF Try
<1>3. out \in OutcomeKinds
  BY <1>0, <1>2, OutcomesTyped DEF TypeOK
<1>4. /\ pc[r] \in {"tryPrimary", "tryChain"} /\ index[r] \in DOMAIN list[r]
      /\ UNCHANGED <<stream, route, first, clients>>
      /\ tried'[r] = Append(tried[r], Attempt(p, out))
  BY <1>0, <1>2 DEF Try, TypeOK
<1>k. PICK kk \in 0..1 : kk = IF pc[r] = "tryPrimary" THEN 1 ELSE k
  OBVIOUS
<1>5. /\ Along(r, kk)'
      /\ Len(tried'[r]) = n + 1 /\ DOMAIN tried'[r] = 1..n + 1
      /\ \A i \in 1..n : tried'[r][i] = tried[r][i]
      /\ tried'[r][n + 1].out = out
  <2>1. UNCHANGED <<stream, route, first>>
    BY <1>4
  <2>2. Attempting(r, k, kk, out)
    BY <1>1, <1>4, <1>k, <2>1 DEF Attempting
  <2>3. Extended(r, kk, out)
    BY <1>3, <2>2, OneMoreAttempt
  <2>4. QED
    BY <2>3 DEF Extended
<1> USE <1>0 DEF SequencesOf
<1>6. answer[r] = "none" /\ \A i \in 1..n : tried'[r][i].out # "ok"
  BY <1>4, <1>5 DEF RequestInv, Successes
<1>7. CASE out = "ok"
  <2>1. pc'[r] = "done" /\ answer'[r] = "response"
    <3>1. /\ pc' = [pc EXCEPT ![r] = "done"]
          /\ answer' = [answer EXCEPT ![r] = "response"]
      BY <1>2, <1>7 DEF Finish
    <3>2. QED
      BY <3>1 DEF TypeOK
  <2>2. Running(r, kk)'
    BY <2>1 DEF Running
  <2>3. Successes(r)'
    BY <1>5, <1>6, <1>7, <2>1 DEF Successes
  <2>4. QED
    BY <1>5, <2>1, <2>2, <2>3 DEF RequestInv
<1>8. CASE out # "ok" /\ GoesOn(r, out)
  <2>1. index'[r] = index[r] + 1 /\ pc'[r] = pc[r] /\ list'[r] = list[r] /\ answer'[r] = "none"
    <3>1. index' = [index EXCEPT ![r] = @ + 1] /\ UNCHANGED <<pc, list, answer>>
      BY <1>2, <1>8
    <3>2. QED
      BY <1>6, <3>1 DEF TypeOK
  <2>2. pc[r] = "tryPrimary" => index[r] = 1 /\ n = 0
    BY <1>1, <1>4 DEF Running
  <2>3. Running(r, kk)'
    <3>1. CASE pc[r] = "tryPrimary"
      <4>1. list'[r] = <<first'[r]>> /\ Occurs(first[r], route[r])'
        BY <1>1, <1>4, <2>1, <3>1, Zenon DEF Running
      <4>2. Len(tried'[r]) = index'[r] - 1 /\ index'[r] <= 2 /\ Len(tried'[r]) = kk
        BY <1>k, <1>5, <2>1, <2>2, <3>1
      <4>3. pc'[r] = "tryPrimary"
        BY <2>1, <3>1
      <4>4. QED
        BY <4>1, <4>2, <4>3, StillPrimary
    <3>2. CASE pc[r] = "tryChain"
      BY <1>1, <1>k, <1>4, <1>5, <2>1, <3>2 DEF Running
    <3>3. QED
      BY <1>4, <3>1, <3>2
  <2>4. Successes(r)'
    BY <1>4, <1>5, <1>6, <1>8, <2>1 DEF Successes
  <2>5. QED
    BY <1>5, <2>1, <2>3, <2>4 DEF RequestInv
<1>9. CASE out # "ok" /\ ~GoesOn(r, out)
  <2>1. Failed(r, FALSE)
    BY <1>2, <1>9
  <2>2. CASE /\ ~stream[r] /\ pc[r] = "tryPrimary"
             /\ pc'[r] = "chain" /\ list'[r] = route[r] /\ index'[r] = 1
             /\ answer'[r] = answer[r]
    <3>1. Running(r, kk)'
      BY <1>1, <1>k, <1>4, <1>5, <2>2 DEF Running
    <3>2. Successes(r)'
      BY <1>5, <1>6, <1>9, <2>2 DEF Successes
    <3>3. QED
      BY <1>5, <1>6, <2>2, <3>1, <3>2 DEF RequestInv
  <2>3. CASE /\ pc'[r] = "done"
             /\ answer'[r] = "503" \/ (stream[r] /\ answer'[r] = "error event")
    <3>1. Running(r, kk)'
      BY <2>3 DEF Running
    <3>2. Successes(r)'
      <4>1. answer'[r] \notin {"none", "response"}
        BY <2>3
      <4>2. \A i \in 1..n + 1 : tried'[r][i].out # "ok"
        BY <1>5, <1>6, <1>9
      <4>3. QED
        BY <1>5, <2>3, <4>1, <4>2 DEF Successes
    <3>3. ~stream[r] => out \in {"fatal", "open"}
      BY <1>3, <1>9 DEF GoesOn, OutcomeKinds
    <3>4. ~stream'[r] => Last(r)'.out \in {"fatal", "open"}
      BY <1>4, <1>5, <3>3 DEF Last
    <3>5. QED
      BY <1>5, <3>1, <3>2, <3>4 DEF RequestInv
  <2>4. QED
    <3>1. FALSE \in BOOLEAN
      OBVIOUS
    <3>2. QED
      BY <1>0, <2>1, <2>2, <2>3, <3>1, FailedHere, Zenon
<1>10. QED
  BY <1>7, <1>8, <1>9

\* The call has gone through its list.
LEMMA ExhaustedKeepsRequest ==
    ASSUME Inv, NEW r \in Requests, Exhausted(r) PROVE RequestInv(r)'
<1>0. SequencesOf(r) /\ RequestInv(r) /\ TypeOK
  BY RequestFacts
<1> USE <1>0 DEF SequencesOf
<1>1. PICK k \in 0..1 : Along(r, k) /\ Running(r, k)
  BY DEF RequestInv
<1>2. /\ pc[r] \in {"tryPrimary", "tryChain"} /\ index[r] \notin DOMAIN list[r]
      /\ Failed(r, TRUE) /\ UNCHANGED <<stream, route, first, tried>>
  BY DEF Exhausted
<1>3. Along(r, k)'
  BY <1>1, <1>2 DEF Along
<1>4. answer[r] = "none" /\ \A i \in DOMAIN tried[r] : tried[r][i].out # "ok"
  BY <1>2 DEF RequestInv, Successes
<1>5. CASE /\ ~stream[r] /\ pc[r] = "tryPrimary"
           /\ pc'[r] = "chain" /\ list'[r] = route[r] /\ index'[r] = 1
           /\ answer'[r] = answer[r]
  <2>1. list[r] = <<first[r]>> /\ Len(tried[r]) = k /\ Len(tried[r]) = index[r] - 1
    BY <1>1, <1>5, Zenon DEF Running
  <2>2. k = 1
    BY <1>2, <2>1
  <2>3. Running(r, k)'
    BY <1>2, <1>5, <2>1, <2>2 DEF Running
  <2>4. Successes(r)'
    BY <1>2, <1>4, <1>5 DEF Successes
  <2>5. QED
    BY <1>2, <1>3, <1>4, <1>5, <2>3, <2>4 DEF RequestInv
<1>6. CASE /\ stream[r] \/ pc[r] # "tryPrimary" \/ route[r] = <<>>
           /\ pc'[r] = "done"
           /\ answer'[r] = "503" \/ (stream[r] /\ answer'[r] = "error event")
  <2>1. Running(r, k)'
    BY <1>6 DEF Running
  <2>2. Successes(r)'
    BY <1>2, <1>4, <1>6 DEF Successes
  <2>3. ~stream[r] /\ pc[r] = "tryChain" => WholeRouteTried(r)
    <3> SUFFICES ASSUME ~stream[r], pc[r] = "tryChain",
                        NEW p \in Providers, NEW j \in DOMAIN route[r], route[r][j] = p
                 PROVE  \E i \in DOMAIN tried[r] : tried[r][i].to = p
      BY DEF Occurs, WholeRouteTried
    <3>1. list[r] = route[r] /\ Len(tried[r]) = k + index[r] - 1
      BY <1>1 DEF Running
    <3>2. j + k \in DOMAIN tried[r] /\ j + k > k
      BY <1>2, <3>1
    <3>3. tried[r][j + k].to = route[r][j]
      BY <1>1, <3>2 DEF Along
    <3>4. QED
      BY <3>2, <3>3
  <2>4. ~stream[r] /\ pc[r] = "tryPrimary" =>
          \A p \in Providers : ~Occurs(p, route[r])
    <3> SUFFICES ASSUME route[r] = <<>> PROVE \A p \in Providers : ~Occurs(p, route[r])
      BY <1>6
    <3>1. DOMAIN route[r] = {}
      OBVIOUS
    <3>2. QED
      BY <3>1 DEF Occurs
  <2>5. ~stream'[r] => WholeRouteTried(r)'
    BY <1>2, <2>3, <2>4 DEF WholeRouteTried
  <2>6. QED
    BY <1>2, <1>3, <2>1, <2>2, <2>5 DEF RequestInv
<1>7. QED
  <2>1. TRUE \in BOOLEAN
    OBVIOUS
  <2>2. QED
    BY <1>0, <1>2, <1>5, <1>6, <2>1, FailedHere, Zenon

\* The steps that make no attempt.
LEMMA HandleKeepsRequest ==
    ASSUME Inv, NEW r \in Requests, Handle(r), tried' \in [Requests -> Seq(Attempts)]
    PROVE  RequestInv(r)'
<1>0. SequencesOf(r) /\ RequestInv(r) /\ TypeOK
  BY RequestFacts
<1> USE <1>0 DEF SequencesOf
<1>1. PICK k \in 0..1 : Along(r, k) /\ Running(r, k)
  BY DEF RequestInv
<1>2. CASE RejectBody(r) \/ SelectRoute(r)
  <2>0. pc[r] = "start" /\ tried' = tried
    BY <1>2 DEF RejectBody, SelectRoute
  <2>1. tried[r] = <<>> /\ tried'[r] = <<>> /\ Len(tried'[r]) = 0 /\ DOMAIN tried'[r] = {}
    BY <1>1, <2>0 DEF Running
  <2>2. \/ pc'[r] = "done" /\ answer'[r] \in {"400 bad request", "400 no route"}
        \/ pc'[r] = "select" /\ answer'[r] = "none"
    BY <1>2 DEF RejectBody, SelectRoute, Finish, TypeOK, RequestInv, Successes
  <2>3. Along(r, 0)'
    BY <2>1 DEF Along
  <2>4. Running(r, 0)'
    BY <2>1, <2>2 DEF Running
  <2>5. Successes(r)'
    BY <2>1, <2>2 DEF Successes
  <2>6. answer'[r] # "503" /\ tried'[r] \in Seq(Attempts)
    BY <2>2
  <2>7. QED
    BY <2>3, <2>4, <2>5, <2>6 DEF RequestInv
<1>3. CASE SelectProvider(r)
  <2> DEFINE p == route[r][index[r]]
  <2>1. /\ tried[r] = <<>> /\ tried'[r] = <<>> /\ k = 0 /\ route' = route
        /\ answer'[r] = answer[r] /\ answer[r] = "none" /\ pc[r] = "select"
        /\ Occurs(p, route[r])
    BY <1>1, <1>3 DEF SelectProvider, Running, Along, RequestInv, Successes, Occurs
  <2>2. CASE Healthy(p)
    <3>1. pc'[r] = "primary" /\ first'[r] = p /\ list'[r] = <<p>> /\ index'[r] = 1
      BY <1>3, <2>2 DEF SelectProvider, TypeOK
    <3>2. Along(r, 0)' /\ Running(r, 0)'
      BY <2>1, <3>1 DEF Along, Running
    <3>3. QED
      BY <2>1, <3>1, <3>2 DEF RequestInv, Successes
  <2>3. CASE ~Healthy(p)
    <3>1. pc'[r] = "select"
      BY <1>3, <2>3 DEF SelectProvider, TypeOK
    <3>2. Along(r, 0)' /\ Running(r, 0)'
      BY <2>1, <3>1 DEF Along, Running
    <3>3. QED
      BY <2>1, <3>1, <3>2 DEF RequestInv, Successes
  <2>4. QED
    BY <2>2, <2>3
<1>4. CASE NoneHealthy(r)
  <2>1. /\ tried[r] = <<>> /\ tried'[r] = <<>> /\ k = 0 /\ route' = route
        /\ answer[r] = "none" /\ StartChain(r)
    BY <1>1, <1>4 DEF NoneHealthy, Running, Along, RequestInv, Successes
  <2>2. CASE route[r] = <<>>
    <3>1. pc'[r] = "done" /\ answer'[r] = "503" /\ \A p \in Providers : ~Occurs(p, route[r])
      BY <2>1, <2>2 DEF StartChain, Finish, TypeOK, Occurs
    <3>2. Along(r, 0)' /\ Running(r, 0)'
      BY <2>1, <3>1 DEF Along, Running
    <3>3. QED
      BY <2>1, <3>1, <3>2 DEF RequestInv, Successes, WholeRouteTried
  <2>3. CASE route[r] # <<>>
    <3>1. pc'[r] = "chain" /\ list'[r] = route[r] /\ index'[r] = 1 /\ answer'[r] = "none"
      BY <2>1, <2>3 DEF StartChain, TypeOK
    <3>2. Along(r, 0)' /\ Running(r, 0)'
      BY <2>1, <3>1 DEF Along, Running
    <3>3. QED
      BY <2>1, <3>1, <3>2 DEF RequestInv, Successes
  <2>4. QED
    BY <2>2, <2>3
<1>5. CASE LoadClients(r)
  <2>1. /\ UNCHANGED <<stream, route, first, list, index, tried, answer>>
        /\ \/ pc[r] = "primary" /\ pc'[r] = "tryPrimary"
           \/ pc[r] = "chain" /\ pc'[r] = "tryChain"
    BY <1>5 DEF LoadClients, TypeOK
  <2>2. Along(r, k)'
    BY <1>1, <2>1 DEF Along
  <2>3. Running(r, k)'
    BY <1>1, <2>1 DEF Running
  <2>4. Successes(r)' /\ answer[r] = "none"
    BY <2>1 DEF RequestInv, Successes
  <2>5. QED
    BY <2>1, <2>2, <2>3, <2>4 DEF RequestInv
<1>6. QED
  BY <1>2, <1>3, <1>4, <1>5, TryKeepsRequest, ExhaustedKeepsRequest DEF Handle

\* A handler's step touches the variables of no other request.
LEMMA OthersUntouched ==
    ASSUME TypeOK, tried \in [Requests -> Seq(Attempts)],
           NEW r \in Requests, Handle(r), NEW q \in Requests, q # r
    PROVE  /\ pc'[q] = pc[q] /\ stream'[q] = stream[q] /\ route'[q] = route[q]
           /\ first'[q] = first[q] /\ list'[q] = list[q] /\ index'[q] = index[q]
           /\ tried'[q] = tried[q] /\ answer'[q] = answer[q]
<1> USE DEF TypeOK, Finish
<1>1. CASE RejectBody(r)
  BY <1>1 DEF RejectBody
<1>2. CASE SelectRoute(r)
  BY <1>2 DEF SelectRoute
<1>3. CASE SelectProvider(r)
  BY <1>3 DEF SelectProvider
<1>4. CASE NoneHealthy(r)
  BY <1>4 DEF NoneHealthy, StartChain
<1>5. CASE LoadClients(r)
  BY <1>5 DEF LoadClients
<1>6. CASE Try(r)
  BY <1>6 DEF Try, Failed, StartChain
<1>7. CASE Exhausted(r)
  BY <1>7 DEF Exhausted, Failed, StartChain
<1>8. QED
  BY <1>1, <1>2, <1>3, <1>4, <1>5, <1>6, <1>7 DEF Handle

LEMMA StepRequests == Inv /\ [Next]_vars => Inv'
<1> SUFFICES ASSUME Inv, [Next]_vars PROVE Inv'
  OBVIOUS
<1>1. ASSUME NEW r \in Requests, Handle(r) PROVE Inv'
  <2>1. TypeOK' /\ tried' \in [Requests -> Seq(Attempts)]
    BY <1>1, HandleTypeOK
  <2>2. ASSUME NEW q \in Requests, q # r PROVE RequestInv(q)'
    <3>1. RequestInv(q) /\ TypeOK /\ tried \in [Requests -> Seq(Attempts)]
      BY DEF Inv
    <3>2. /\ pc'[q] = pc[q] /\ stream'[q] = stream[q] /\ route'[q] = route[q]
          /\ first'[q] = first[q] /\ list'[q] = list[q] /\ index'[q] = index[q]
          /\ tried'[q] = tried[q] /\ answer'[q] = answer[q]
      BY <1>1, <2>2, <3>1, OthersUntouched
    <3>3. QED
      BY <3>1, <3>2, Untouched
  <2>3. RequestInv(r)'
    BY <1>1, <2>1, HandleKeepsRequest
  <2>4. TablesInv'
    BY <1>1, HandleKeepsTables, StepTables DEF Inv
  <2>5. QED
    BY <2>1, <2>2, <2>3, <2>4 DEF Inv
<1>2. CASE [TablesNext]_tablesVars /\ UNCHANGED requestVars
  <2>1. TablesInv' /\ TablesTypeOK'
    BY <1>2, StepTables DEF Inv, TablesInv
  <2>2. TypeOK' /\ tried' \in [Requests -> Seq(Attempts)]
    BY <1>2, <2>1 DEF Inv, TypeOK, requestVars
  <2>3. ASSUME NEW q \in Requests PROVE RequestInv(q)'
    <3>1. RequestInv(q)
      BY DEF Inv
    <3>2. QED
      BY <1>2, <3>1, Untouched DEF requestVars
  <2>4. QED
    BY <2>1, <2>2, <2>3 DEF Inv
<1>3. QED
  BY <1>1, <1>2 DEF Next, vars

LEMMA RequestsInvariant == Spec => []Inv
<1> QED
  BY InitRequests, StepRequests, PTL DEF Spec

\* Every variable of tables and requests keeps its type, and a request's route
\* and the list of its running call are routes of some configuration's form.
THEOREM RoutingTypeOK == Spec => []TypeOK
<1>1. Inv => TypeOK
  BY DEF Inv
<1>2. QED
  BY <1>1, RequestsInvariant, PTL

\* Whatever is reloaded, marked or failed in between: a request that does not
\* stream is given up only when its whole route was tried, or at an error that
\* the chain does not go on after, a fatal one or an open breaker.
THEOREM NoEarlyGivingUp == Spec => []GivesUpOnlyAtTheEnd
<1>1. Inv => GivesUpOnlyAtTheEnd
  BY DEF Inv, RequestInv, GivesUpOnlyAtTheEnd
<1>2. QED
  BY <1>1, RequestsInvariant, PTL

\* A response is that of the last attempt, the only one that succeeded, and of
\* a provider on the route the request was given.
THEOREM ResponsesAreEarned == Spec => []ResponseIsLastAttempt
<1>1. Inv => ResponseIsLastAttempt
  <2> SUFFICES ASSUME Inv, NEW r \in Requests
               PROVE  /\ answer[r] = "response" <=> "ok" \in Outs(r)
                      /\ answer[r] = "response" =>
                            /\ Last(r).out = "ok"
                            /\ Occurs(Last(r).to, route[r])
                            /\ \A i \in 1..Len(tried[r]) - 1 : tried[r][i].out # "ok"
    BY DEF ResponseIsLastAttempt
  <2>0. SequencesOf(r) /\ RequestInv(r)
    BY RequestFacts
  <2> USE <2>0 DEF SequencesOf
  <2>1. answer[r] = "response" =>
          Len(tried[r]) \in DOMAIN tried[r] /\ Last(r).out = "ok"
    BY DEF RequestInv, Successes, Last
  <2>2. answer[r] = "response" <=> "ok" \in Outs(r)
    BY <2>1 DEF RequestInv, Successes, Outs, Last
  <2>3. ASSUME answer[r] = "response" PROVE Occurs(Last(r).to, route[r])
    <3>1. PICK k \in 0..1 : Along(r, k)
      BY DEF RequestInv
    <3>2. CASE Len(tried[r]) > k
      BY <2>1, <2>3, <3>1, <3>2 DEF Along, Last, Occurs
    <3>3. CASE Len(tried[r]) <= k
      <4>0. Len(tried[r]) \in Nat /\ Len(tried[r]) >= 1
        BY <2>1, <2>3
      <4>1. k = 1 /\ Len(tried[r]) = 1
        <5>1. \A n \in Nat : n >= 1 /\ n <= k => k = 1 /\ n = 1
          OBVIOUS
        <5>2. QED
          BY <3>3, <4>0, <5>1
      <4>2. QED
        BY <3>1, <4>1 DEF Along, Last
    <3>4. QED
      BY <3>2, <3>3
  <2>4. \A i \in 1..Len(tried[r]) - 1 : tried[r][i].out # "ok"
    <3>1. \A i \in DOMAIN tried[r] : tried[r][i].out = "ok" => i = Len(tried[r])
      BY Zenon DEF RequestInv, Successes
    <3>2. \A i \in 1..Len(tried[r]) - 1 : i \in DOMAIN tried[r] /\ i # Len(tried[r])
      OBVIOUS
    <3>3. QED
      BY <3>1, <3>2
  <2>5. QED
    BY <2>1, <2>2, <2>3, <2>4
<1>2. QED
  BY <1>1, RequestsInvariant, PTL

\* The attempts go along the route, each place in its turn, after at most one on
\* the primary alone; also for a route that names a provider twice, which
\* UpdateConfig takes as it is written.
THEOREM AttemptsFollowRoute == Spec => []FollowsRoute
<1>1. Inv => FollowsRoute
  <2> SUFFICES ASSUME Inv, NEW r \in Requests PROVE \E k \in 0..1 : Along(r, k)
    BY DEF FollowsRoute
  <2>1. \E k \in 0..1 : Along(r, k) /\ Running(r, k)
    BY DEF Inv, RequestInv
  <2>2. QED
    BY <2>1
<1>2. QED
  BY <1>1, RequestsInvariant, PTL

\* What a client of the proxy gets is justified by the attempts made for it.
THEOREM AnswersJustified == Spec => []AnswerIsJustified
<1>1. GivesUpOnlyAtTheEnd /\ ResponseIsLastAttempt /\ FollowsRoute
        => AnswerIsJustified
  BY DEF AnswerIsJustified
<1>2. QED
  BY <1>1, NoEarlyGivingUp, ResponsesAreEarned, AttemptsFollowRoute, PTL

-----------------------------------------------------------------------------
(* Which configurations a request mixes.                                   *)

\* The oldest clients a request may still be given, after it has its route.
Oldest(r) == IF taken[r].stored THEN taken[r].config ELSE taken[r].config - 1

\* The clients in use do not fall behind what a request may be given, and what
\* it was given was in use.
MixInv(r) ==
    /\ clientsOf >= Oldest(r)
    /\ Loaded(r) => clients[r] >= Oldest(r)

LEMMA ClientsNeverGoBack ==
    ASSUME TablesInv, [TablesNext]_tablesVars
    PROVE  clientsOf' \in Nat /\ clientsOf' >= clientsOf
<1>1. TablesInv'
  BY StepTables
<1>2. clientsOf \in Nat /\ clientsOf' \in Nat /\ providersOf \in Nat
  BY <1>1, ConfigParts DEF TablesInv, TablesTypeOK
<1>3. CASE StoreClients
  <2>1. clientsOf' = providersOf /\ clientsOf = providersOf - 1
    BY <1>3 DEF StoreClients, TablesInv, TablesInStep
  <2>2. QED
    BY <1>2, <2>1
<1>4. CASE ~StoreClients
  <2>1. clientsOf' = clientsOf
    BY <1>4 DEF TablesNext, Reload, Check, StoreProviders, StoreRules, StartRound,
                Probe, WriteStatus, Flip, tablesVars
  <2>2. QED
    BY <1>2, <2>1
<1>5. QED
  BY <1>3, <1>4

\* The clients in use at the moment a route is read.
LEMMA ClientsWithRoute ==
    ASSUME TablesInv
    PROVE  /\ rulesOf \in Nat /\ clientsOf \in Nat
           /\ reload # "clients" => clientsOf >= rulesOf
           /\ clientsOf >= rulesOf - 1
<1>1. /\ rulesOf \in Nat /\ clientsOf \in Nat /\ providersOf \in Nat
      /\ reload \in {"idle", "rules", "clients"}
      /\ rulesOf = IF reload = "rules" THEN providersOf - 1 ELSE providersOf
      /\ clientsOf = IF reload = "idle" THEN providersOf ELSE providersOf - 1
  BY ConfigParts DEF TablesInv, TablesTypeOK, TablesInStep
<1>2. QED
  BY <1>1

\* A step of some request's handler.
LEMMA HandleKeepsMix ==
    ASSUME Inv, NEW q \in Requests, Handle(q), NEW r \in Requests, MixInv(r)
    PROVE  MixInv(r)'
<1>0. TypeOK /\ TablesInv /\ clientsOf' = clientsOf /\ tried \in [Requests -> Seq(Attempts)]
  BY HandleKeepsTables DEF Inv, tablesVars
<1>1. CASE SelectRoute(q) /\ q = r /\ Route # NoRoute
  <2>1. /\ pc'[r] = "select" /\ tried'[r] = <<>>
        /\ taken'[r] = [config |-> rulesOf, stored |-> reload # "clients"]
    BY <1>0, <1>1 DEF SelectRoute, TypeOK, Inv, RequestInv, Running
  <2>2. CASE reload # "clients"
    <3>0. taken'[r].config = rulesOf /\ taken'[r].stored
      <4>1. taken'[r].stored = (reload # "clients") /\ taken'[r].config = rulesOf
        BY <2>1
      <4>2. QED
        BY <4>1, <2>2, Zenon
    <3>1. Oldest(r)' = rulesOf
      BY <3>0, Zenon DEF Oldest
    <3>2. QED
      BY <1>0, <2>1, <2>2, <3>1, ClientsWithRoute DEF MixInv, Loaded
  <2>3. CASE reload = "clients"
    <3>0. taken'[r].config = rulesOf /\ ~taken'[r].stored
      <4>1. taken'[r].stored = (reload # "clients") /\ taken'[r].config = rulesOf
        BY <2>1
      <4>2. QED
        BY <4>1, <2>3, Zenon
    <3>1. Oldest(r)' = rulesOf - 1
      BY <3>0, Zenon DEF Oldest
    <3>2. QED
      BY <1>0, <2>1, <2>3, <3>1, ClientsWithRoute DEF MixInv, Loaded
  <2>4. QED
    BY <2>2, <2>3
<1>2. CASE LoadClients(q)
  <2>1. /\ taken' = taken /\ tried' = tried
        /\ q = r => clients'[r] = clientsOf
        /\ q # r => clients'[r] = clients[r] /\ pc'[r] = pc[r]
    BY <1>0, <1>2 DEF LoadClients, TypeOK
  <2>2. QED
    BY <1>0, <2>1 DEF MixInv, Loaded, Oldest
<1>3. CASE ~LoadClients(q) /\ ~(SelectRoute(q) /\ q = r /\ Route # NoRoute)
  <2>1. taken'[r] = taken[r] /\ clients'[r] = clients[r]
    BY <1>0, <1>3 DEF Handle, RejectBody, SelectRoute, SelectProvider, NoneHealthy,
                      Try, Exhausted, TypeOK
  <2>2. Loaded(r)' => Loaded(r)
    <3>1. CASE q # r
      BY <1>0, <3>1, OthersUntouched DEF Loaded
    <3>2. CASE Try(r) \/ Exhausted(r)
      BY <3>2 DEF Try, Exhausted, Loaded
    <3>3. CASE RejectBody(r) \/ SelectRoute(r) \/ SelectProvider(r)
      <4>1. pc'[r] \in {"start", "select", "primary", "done"} /\ tried' = tried
        BY <1>0, <3>3 DEF RejectBody, SelectRoute, SelectProvider, Finish, TypeOK
      <4>2. QED
        BY <4>1 DEF Loaded
    <3>4. CASE NoneHealthy(r)
      <4>1. pc'[r] \in {"chain", "done"} /\ tried' = tried
        BY <1>0, <3>4 DEF NoneHealthy, StartChain, Finish, TypeOK
      <4>2. QED
        BY <4>1 DEF Loaded
    <3>5. QED
      BY <1>3, <3>1, <3>2, <3>3, <3>4 DEF Handle
  <2>3. QED
    BY <1>0, <2>1, <2>2 DEF MixInv, Oldest
<1>4. QED
  BY <1>1, <1>2, <1>3

\* A request's clients are never older than its route, however many reloads go
\* on meanwhile, unless the route was read between the stores of the rules and
\* of the clients, and then they are of the configuration just before.
THEOREM MixingIsBounded == Spec => []MixesOnlyMidReload
<1> DEFINE Mix == \A r \in Requests : MixInv(r)
<1>1. Init => Mix
  BY DEF Init, TablesInit, MixInv, Loaded, Oldest
<1>2. Inv /\ Mix /\ [Next]_vars => Mix'
  <2> SUFFICES ASSUME Inv, Mix, [Next]_vars, NEW r \in Requests PROVE MixInv(r)'
    OBVIOUS
  <2>1. CASE [TablesNext]_tablesVars /\ UNCHANGED requestVars
    <3>0. TypeOK /\ TablesInv /\ MixInv(r)
      BY DEF Inv
    <3>1. clientsOf' \in Nat /\ clientsOf \in Nat /\ clientsOf' >= clientsOf
      BY <2>1, <3>0, ClientsNeverGoBack, ClientsWithRoute
    <3>2. /\ Oldest(r)' = Oldest(r) /\ (Loaded(r)' <=> Loaded(r))
          /\ clients'[r] = clients[r]
      BY <2>1 DEF requestVars, Oldest, Loaded
    <3>3. Oldest(r) \in Int
      <4>1. taken[r].config \in Int
        BY <3>0, ConfigParts DEF TypeOK
      <4>2. QED
        BY <4>1 DEF Oldest
    <3>4. clientsOf >= Oldest(r) => clientsOf' >= Oldest(r)
      BY <3>1, <3>3
    <3>5. QED
      BY <3>0, <3>2, <3>4 DEF MixInv
  <2>2. ASSUME NEW q \in Requests, Handle(q) PROVE MixInv(r)'
    BY <2>2, HandleKeepsMix
  <2>3. QED
    BY <2>1, <2>2 DEF Next, vars
<1>3. Mix => MixesOnlyMidReload
  BY DEF MixInv, Oldest, MixesOnlyMidReload
<1>4. QED
  BY <1>1, <1>2, <1>3, RequestsInvariant, PTL DEF Spec

-----------------------------------------------------------------------------
(* What a request costs, and that it comes to an end.                      *)

AttemptsBounded ==
    \A r \in Requests :
        /\ Len(tried[r]) <= Len(route[r]) + 1
        /\ stream[r] => Len(tried[r]) <= Len(route[r])

\* However often the tables are reloaded, and even for a route that names a
\* provider twice: the fallback costs at most one call more than the route has
\* names, the one on the primary alone, and a streamed request not even that.
THEOREM AttemptsAreBounded == Spec => []AttemptsBounded
<1>1. Inv => AttemptsBounded
  <2> SUFFICES ASSUME Inv, NEW r \in Requests
               PROVE  /\ Len(tried[r]) <= Len(route[r]) + 1
                      /\ stream[r] => Len(tried[r]) <= Len(route[r])
    BY DEF AttemptsBounded
  <2>0. SequencesOf(r) /\ RequestInv(r)
    BY RequestFacts
  <2>1. PICK k \in 0..1 : Along(r, k)
    BY <2>0 DEF RequestInv
  <2>2. /\ Len(tried[r]) \in Nat /\ Len(route[r]) \in Nat
        /\ DOMAIN tried[r] = 1..Len(tried[r]) /\ DOMAIN route[r] = 1..Len(route[r])
    BY <2>0 DEF SequencesOf
  <2>3. Len(tried[r]) > k => Len(tried[r]) - k <= Len(route[r])
    <3>1. Len(tried[r]) > k => Len(tried[r]) - k \in DOMAIN route[r]
      BY <2>1, <2>2 DEF Along
    <3>2. QED
      BY <2>2, <3>1
  <2>4. k = 1 => Len(route[r]) >= 1
    <3>1. k = 1 => DOMAIN route[r] # {}
      BY <2>1 DEF Along, Occurs
    <3>2. QED
      BY <2>2, <3>1
  <2>5. k = 1 /\ Len(tried[r]) > 1 => ~stream[r]
    BY <2>1 DEF Along
  <2>6. Len(tried[r]) <= Len(route[r]) + 1
    BY <2>2, <2>3
  <2>7. stream[r] => Len(tried[r]) <= Len(route[r])
    BY <2>2, <2>3, <2>4, <2>5
  <2>8. QED
    BY <2>6, <2>7
<1>2. QED
  BY <1>1, RequestsInvariant, PTL

\* How many stages of the handler are still before a request, at most.
Stage(r) ==
    CASE pc[r] = "start" -> 6
      [] pc[r] = "select" -> 5
      [] pc[r] = "primary" -> 4
      [] pc[r] = "tryPrimary" -> 3
      [] pc[r] = "chain" -> 2
      [] pc[r] = "tryChain" -> 1
      [] pc[r] = "done" -> 0

\* How many names the loop it is in has still to go through.
Left(r) ==
    LET names == IF pc[r] = "select" THEN route[r] ELSE list[r]
    IN  IF index[r] \in DOMAIN names THEN Len(names) + 1 - index[r] ELSE 0

Closer(r) ==
    \/ Stage(r)' < Stage(r)
    \/ Stage(r)' = Stage(r) /\ Left(r)' < Left(r)

\* A step leaves a request where it is, or brings it closer to its answer.
ComesCloser(r) ==
    \/ /\ pc'[r] = pc[r] /\ stream'[r] = stream[r] /\ route'[r] = route[r]
       /\ first'[r] = first[r] /\ list'[r] = list[r] /\ index'[r] = index[r]
       /\ tried'[r] = tried[r] /\ answer'[r] = answer[r]
    \/ Closer(r)

\* A measure of natural numbers, which cannot fall for ever.
LEMMA MeasureOfNaturals ==
    ASSUME Inv, NEW r \in Requests PROVE Stage(r) \in 0..6 /\ Left(r) \in Nat
<1>1. SequencesOf(r)
  BY RequestFacts
<1>2. pc[r] \in {"start", "select", "primary", "chain", "tryPrimary", "tryChain", "done"}
  BY DEF Inv, TypeOK
<1>3. Stage(r) \in 0..6
  BY <1>2 DEF Stage
<1>4. Left(r) \in Nat
  BY <1>1 DEF Left, SequencesOf
<1>5. QED
  BY <1>3, <1>4

\* The step to a later stage.
LEMMA LaterStage ==
    ASSUME NEW r, << pc[r], pc'[r] >> \in
               {<<"start", "select">>, <<"start", "done">>, <<"select", "primary">>,
                <<"select", "chain">>, <<"select", "done">>,
                <<"primary", "tryPrimary">>, <<"tryPrimary", "chain">>,
                <<"tryPrimary", "done">>, <<"chain", "tryChain">>,
                <<"tryChain", "done">>}
    PROVE  Closer(r)
BY DEF Closer, Stage

\* The step to the next name, in the loop of Select or of a fallback call.
LEMMA NextName ==
    ASSUME Inv, NEW r \in Requests,
           pc'[r] = pc[r], route'[r] = route[r], list'[r] = list[r],
           index[r] \in DOMAIN (IF pc[r] = "select" THEN route[r] ELSE list[r]),
           index'[r] = index[r] + 1
    PROVE  Closer(r)
<1> DEFINE names == IF pc[r] = "select" THEN route[r] ELSE list[r]
<1>1. SequencesOf(r)
  BY RequestFacts
<1>2. /\ index[r] \in Nat /\ Len(names) \in Nat /\ DOMAIN names = 1..Len(names)
      /\ index[r] \in DOMAIN names
  BY <1>1 DEF SequencesOf
<1>3. Stage(r)' = Stage(r)
  BY DEF Stage
<1>4. Left(r) = Len(names) + 1 - index[r]
  BY <1>2 DEF Left
<1>5. Left(r)' = IF index[r] + 1 \in DOMAIN names THEN Len(names) - index[r] ELSE 0
  <2>1. Left(r)' = IF index[r] + 1 \in DOMAIN names
                   THEN Len(names) + 1 - (index[r] + 1) ELSE 0
    BY Zenon DEF Left
  <2> HIDE DEF names
  <2>2. QED
    BY <1>2, <2>1
<1>6. Left(r)' < Left(r)
  <2> HIDE DEF names
  <2> QED
    BY <1>2, <1>4, <1>5
<1>7. QED
  BY <1>3, <1>6 DEF Closer

\* A step of a request's own handler always brings it closer.
LEMMA HandleComesCloser ==
    ASSUME Inv, NEW r \in Requests, Handle(r) PROVE Closer(r)
<1>0. TypeOK /\ pc \in [Requests -> {"start", "select", "primary", "chain",
                                     "tryPrimary", "tryChain", "done"}]
      /\ index \in [Requests -> Positions]
  BY RequestFacts DEF TypeOK
<1>1. CASE RejectBody(r)
  <2>1. pc[r] = "start" /\ pc'[r] = "done"
    BY <1>0, <1>1 DEF RejectBody, Finish
  <2>2. QED
    BY <2>1, LaterStage
<1>2. CASE SelectRoute(r)
  <2>1. pc[r] = "start" /\ pc'[r] \in {"done", "select"}
    BY <1>0, <1>2 DEF SelectRoute, Finish
  <2>2. QED
    BY <2>1, LaterStage
<1>3. CASE SelectProvider(r)
  <2>1. pc[r] = "select" /\ index[r] \in DOMAIN route[r] /\ route'[r] = route[r]
    BY <1>3 DEF SelectProvider
  <2>2. \/ pc'[r] = "primary"
        \/ pc'[r] = pc[r] /\ list'[r] = list[r] /\ index'[r] = index[r] + 1
    BY <1>0, <1>3 DEF SelectProvider
  <2>3. QED
    BY <2>1, <2>2, LaterStage, NextName
<1>4. CASE NoneHealthy(r)
  <2>1. pc[r] = "select" /\ pc'[r] \in {"done", "chain"}
    BY <1>0, <1>4 DEF NoneHealthy, StartChain, Finish
  <2>2. QED
    BY <2>1, LaterStage
<1>5. CASE LoadClients(r)
  <2>1. \/ pc[r] = "primary" /\ pc'[r] = "tryPrimary"
        \/ pc[r] = "chain" /\ pc'[r] = "tryChain"
    BY <1>0, <1>5 DEF LoadClients
  <2>2. QED
    BY <2>1, LaterStage
<1>6. ASSUME NEW exhausted \in BOOLEAN, Failed(r, exhausted),
             pc[r] \in {"tryPrimary", "tryChain"}
      PROVE  Closer(r)
  <2>1. \/ pc[r] = "tryPrimary" /\ pc'[r] = "chain"
        \/ pc'[r] = "done"
    BY <1>0, <1>6, FailedHere
  <2>2. QED
    BY <1>6, <2>1, LaterStage
<1>7. CASE Try(r)
  <2>1. PICK out \in Outcomes(list[r][index[r]], clients[r]) :
          \/ Finish(r, "response")
          \/ index' = [index EXCEPT ![r] = @ + 1] /\ UNCHANGED <<pc, list, answer>>
          \/ Failed(r, FALSE)
    BY <1>7, Zenon DEF Try
  <2>2. /\ pc[r] \in {"tryPrimary", "tryChain"} /\ index[r] \in DOMAIN list[r]
        /\ route'[r] = route[r]
    BY <1>7 DEF Try
  <2>3. CASE Finish(r, "response")
    <3>1. pc'[r] = "done"
      BY <1>0, <2>3 DEF Finish
    <3>2. QED
      BY <2>2, <3>1, LaterStage
  <2>4. CASE index' = [index EXCEPT ![r] = @ + 1] /\ UNCHANGED <<pc, list, answer>>
    <3>1. index'[r] = index[r] + 1 /\ pc'[r] = pc[r] /\ list'[r] = list[r]
      BY <1>0, <2>4
    <3>2. QED
      BY <2>2, <3>1, NextName
  <2>5. CASE Failed(r, FALSE)
    <3>1. FALSE \in BOOLEAN
      OBVIOUS
    <3>2. QED
      BY <1>6, <2>2, <2>5, <3>1
  <2>6. QED
    BY <2>1, <2>3, <2>4, <2>5
<1>8. CASE Exhausted(r)
  <2>1. pc[r] \in {"tryPrimary", "tryChain"} /\ Failed(r, TRUE) /\ TRUE \in BOOLEAN
    BY <1>8 DEF Exhausted
  <2>2. QED
    BY <1>6, <2>1
<1>9. QED
  BY <1>1, <1>2, <1>3, <1>4, <1>5, <1>7, <1>8 DEF Handle

\* No request can go round for ever: whatever step is taken, of its own handler,
\* of another's, of a reload or of the health checker, the request is left as it
\* is or the pair of its stage and of the names left in its loop falls, and they
\* are natural numbers (MeasureOfNaturals).  This is the safety half of
\* EveryRequestAnswered; fairness gives the other, that it does take its steps.
THEOREM RequestsComeCloser == Spec => [][\A r \in Requests : ComesCloser(r)]_vars
<1>1. Inv /\ [Next]_vars => [\A r \in Requests : ComesCloser(r)]_vars
  <2> SUFFICES ASSUME Inv, Next, NEW q \in Requests PROVE ComesCloser(q)
    OBVIOUS
  <2>1. CASE UNCHANGED requestVars
    BY <2>1 DEF ComesCloser, requestVars
  <2>2. ASSUME NEW r \in Requests, Handle(r) PROVE ComesCloser(q)
    <3>1. CASE q = r
      BY <2>2, <3>1, HandleComesCloser DEF ComesCloser
    <3>2. CASE q # r
      <4>1. TypeOK /\ tried \in [Requests -> Seq(Attempts)]
        BY DEF Inv
      <4>2. QED
        BY <2>2, <3>2, <4>1, OthersUntouched DEF ComesCloser
    <3>3. QED
      BY <3>1, <3>2
  <2>3. QED
    BY <2>1, <2>2 DEF Next
<1>2. QED
  BY <1>1, RequestsInvariant, PTL DEF Spec
===============================================================================
