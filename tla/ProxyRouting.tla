----------------------------- MODULE ProxyRouting -----------------------------
(***************************************************************************)
(* Requests to RoutingProxyHandler.HandleChatCompletion, run against the   *)
(* tables of RoutingTables while these are reloaded and health-checked:    *)
(* the route selector reads rules and providers one pointer load at a      *)
(* time, the first healthy provider is tried alone, and for a request that *)
(* does not stream the whole route is tried after it (FallbackHandler).    *)
(*                                                                         *)
(* What a client's Call returns is one of                                  *)
(*   "ok"       any status below 500, client errors included               *)
(*   "5xx"      a server error that came back as a response                *)
(*   "network"  a net.Error, a refused connection or a timeout             *)
(*   "fatal"    any other error                                            *)
(*   "open"     ErrCircuitBreakerOpen                                      *)
(*   "missing"  no client of that name: no call is made                    *)
(* A provider that is called may also fail in the ways of Faults.          *)
(***************************************************************************)
EXTENDS RoutingTables

CONSTANTS Requests, Faults

ASSUME FaultsAssumption ==
    Faults \subseteq {"5xx", "network", "fatal", "open"}

VARIABLES pc,      \* where the request is
          stream,  \* its "stream" field
          route,   \* the route Select returned
          first,   \* the healthy provider Select returned, or NoProvider
          list,    \* the providers the running fallback call goes through
          index,   \* its loop variable
          clients, \* the client map it loaded, as a configuration number
          taken,   \* history: the configuration its route is of, and whether
                   \* the clients of that one were stored when it was read
          tried,   \* history: the attempts, in order
          answer   \* what the client of the proxy got

requestVars == <<pc, stream, route, first, list, index, clients, taken, tried, answer>>
vars == <<tablesVars, requestVars>>

NoProvider == ""
Attempt(p, out) == [to |-> p, out |-> out]
Occurs(p, s) == \E i \in DOMAIN s : s[i] = p

Init ==
    /\ TablesInit
    /\ pc = [r \in Requests |-> "start"]
    /\ stream \in [Requests -> BOOLEAN]
    /\ route = [r \in Requests |-> <<>>]
    /\ first = [r \in Requests |-> NoProvider]
    /\ list = [r \in Requests |-> <<>>]
    /\ index = [r \in Requests |-> 1]
    /\ clients = [r \in Requests |-> 1]
    /\ taken = [r \in Requests |-> [config |-> 1, stored |-> TRUE]]
    /\ tried = [r \in Requests |-> <<>>]
    /\ answer = [r \in Requests |-> "none"]

Finish(r, what) ==
    /\ pc' = [pc EXCEPT ![r] = "done"]
    /\ answer' = [answer EXCEPT ![r] = what]

(***************************************************************************)
(* Validation and Select.                                                  *)
(***************************************************************************)
RejectBody(r) ==
    /\ pc[r] = "start"
    /\ Finish(r, "400 bad request")
    /\ UNCHANGED <<tablesVars, stream, route, first, list, index, clients, taken, tried>>

SelectRoute(r) ==
    /\ pc[r] = "start"
    /\ \/ /\ Route = NoRoute
          /\ Finish(r, "400 no route")
          /\ UNCHANGED <<route, index, taken>>
       \/ /\ Route # NoRoute
          /\ pc' = [pc EXCEPT ![r] = "select"]
          /\ route' = [route EXCEPT ![r] = Route]
          /\ index' = [index EXCEPT ![r] = 1]
          /\ taken' = [taken EXCEPT ![r] = [config |-> rulesOf,
                                           stored |-> reload # "clients"]]
          /\ UNCHANGED answer
    /\ UNCHANGED <<tablesVars, stream, first, list, clients, tried>>

\* Mutant of SelectProvider: the loop does not go on to the next name.
SelectProviderStuck(r) ==
    LET p == route[r][index[r]] IN
    /\ pc[r] = "select"
    /\ index[r] \in DOMAIN route[r]
    /\ Healthy(p)
    /\ first' = [first EXCEPT ![r] = p]
    /\ list' = [list EXCEPT ![r] = <<p>>]
    /\ pc' = [pc EXCEPT ![r] = "primary"]
    /\ index' = [index EXCEPT ![r] = 1]
    /\ UNCHANGED <<tablesVars, stream, route, clients, taken, tried, answer>>

\* Mutant of SelectProvider: the call starts at a zero-based index.
SelectProviderFromZero(r) ==
    LET p == route[r][index[r]] IN
    /\ pc[r] = "select"
    /\ index[r] \in DOMAIN route[r]
    /\ IF Healthy(p)
       THEN /\ first' = [first EXCEPT ![r] = p]
            /\ list' = [list EXCEPT ![r] = <<p>>]
            /\ pc' = [pc EXCEPT ![r] = "primary"]
            /\ index' = [index EXCEPT ![r] = index[r] - 1]
       ELSE /\ index' = [index EXCEPT ![r] = @ + 1]
            /\ UNCHANGED <<first, list, pc>>
    /\ UNCHANGED <<tablesVars, stream, route, clients, taken, tried, answer>>

\* Select looks up the next name; it is skipped when unknown or not healthy.
SelectProvider(r) ==
    LET p == route[r][index[r]] IN
    /\ pc[r] = "select"
    /\ index[r] \in DOMAIN route[r]
    /\ IF Healthy(p)
       THEN /\ first' = [first EXCEPT ![r] = p]
            /\ list' = [list EXCEPT ![r] = <<p>>]
            /\ pc' = [pc EXCEPT ![r] = "primary"]
            /\ index' = [index EXCEPT ![r] = 1]
       ELSE /\ index' = [index EXCEPT ![r] = @ + 1]
            /\ UNCHANGED <<first, list, pc>>
    /\ UNCHANGED <<tablesVars, stream, route, clients, taken, tried, answer>>

\* Go through the whole route, from its first provider.
StartChain(r) ==
    IF route[r] = <<>>
    THEN Finish(r, "503") /\ UNCHANGED <<list, index>>
    ELSE /\ pc' = [pc EXCEPT ![r] = "chain"]
         /\ list' = [list EXCEPT ![r] = route[r]]
         /\ index' = [index EXCEPT ![r] = 1]
         /\ UNCHANGED answer

NoneHealthy(r) ==
    /\ pc[r] = "select"
    /\ index[r] \notin DOMAIN route[r]
    /\ StartChain(r)
    /\ UNCHANGED <<tablesVars, stream, route, first, clients, taken, tried>>

(***************************************************************************)
(* FallbackHandler.Call and Stream over `list`.  The client map is loaded  *)
(* once at the start of each.  "primary" is the call with the selected     *)
(* provider alone, "chain" the one with the whole route.                   *)
(***************************************************************************)
\* Mutant of LoadClients: the map the handler was built with is used for ever.
LoadFirstClients(r) ==
    /\ pc[r] \in {"primary", "chain"}
    /\ pc' = [pc EXCEPT ![r] = IF @ = "primary" THEN "tryPrimary" ELSE "tryChain"]
    /\ clients' = [clients EXCEPT ![r] = 1]
    /\ UNCHANGED <<tablesVars, stream, route, first, list, index, taken, tried, answer>>

LoadClients(r) ==
    /\ pc[r] \in {"primary", "chain"}
    /\ pc' = [pc EXCEPT ![r] = IF @ = "primary" THEN "tryPrimary" ELSE "tryChain"]
    /\ clients' = [clients EXCEPT ![r] = clientsOf]
    /\ UNCHANGED <<tablesVars, stream, route, first, list, index, taken, tried, answer>>

Outcomes(p, g) ==
    IF p \notin Configs[g].clients THEN {"missing"} ELSE {"ok"} \union Faults

\* Mutant of GoesOn: server errors are final.
GoesOnUnless5xx(r, out) == out \in {"missing", "network"}

\* Whether the loop goes on to the next provider.  Client.Stream makes an
\* error of a 5xx, and not one of those isRetriableError knows.
GoesOn(r, out) ==
    \/ out \in {"missing", "network"}
    \/ out = "5xx" /\ ~stream[r]

\* The call failed, with an error or with its list exhausted: the primary call
\* of a request that does not stream is followed by the chain.
Failed(r, exhausted) ==
    IF stream[r]
    THEN /\ Finish(r, IF exhausted THEN "error event" ELSE "503")
         /\ UNCHANGED <<list, index>>
    ELSE IF pc[r] = "tryPrimary" THEN StartChain(r)
    ELSE Finish(r, "503") /\ UNCHANGED <<list, index>>

Try(r) ==
    LET p == list[r][index[r]] IN
    /\ pc[r] \in {"tryPrimary", "tryChain"}
    /\ index[r] \in DOMAIN list[r]
    /\ \E out \in Outcomes(p, clients[r]) :
          /\ tried' = [tried EXCEPT ![r] = Append(@, Attempt(p, out))]
          /\ IF out = "ok"
             THEN Finish(r, "response") /\ UNCHANGED <<list, index>>
             ELSE IF GoesOn(r, out)
             THEN index' = [index EXCEPT ![r] = @ + 1] /\ UNCHANGED <<pc, list, answer>>
             ELSE Failed(r, FALSE)
    /\ UNCHANGED <<tablesVars, stream, route, first, clients, taken>>

Exhausted(r) ==
    /\ pc[r] \in {"tryPrimary", "tryChain"}
    /\ index[r] \notin DOMAIN list[r]
    /\ Failed(r, TRUE)
    /\ UNCHANGED <<tablesVars, stream, route, first, clients, taken, tried>>

Handle(r) ==
    \/ RejectBody(r) \/ SelectRoute(r) \/ SelectProvider(r) \/ NoneHealthy(r)
    \/ LoadClients(r) \/ Try(r) \/ Exhausted(r)

Next ==
    \/ TablesNext /\ UNCHANGED requestVars
    \/ \E r \in Requests : Handle(r)

Spec == Init /\ [][Next]_vars

\* A handler's goroutine keeps running: each call it makes has a timeout.
FairSpec == Spec /\ TablesFairness /\ \A r \in Requests : WF_vars(Handle(r))
-------------------------------------------------------------------------------
Answers == {"none", "response", "error event", "503", "400 no route",
            "400 bad request"}
Positions == Nat \ {0}

\* Type correctness of the requests; their route and list are routes.
TypeOK ==
    /\ TablesTypeOK
    /\ pc \in [Requests -> {"start", "select", "primary", "chain", "tryPrimary",
                            "tryChain", "done"}]
    /\ stream \in [Requests -> BOOLEAN]
    /\ route \in [Requests -> Seq(Providers)]
    /\ first \in [Requests -> Providers \union {NoProvider}]
    /\ list \in [Requests -> Seq(Providers)]
    /\ index \in [Requests -> Positions]
    /\ clients \in [Requests -> Generations]
    /\ taken \in [Requests -> [config : Generations, stored : BOOLEAN]]
    /\ answer \in [Requests -> Answers]

Outs(r) == {tried[r][i].out : i \in DOMAIN tried[r]}
Last(r) == tried[r][Len(tried[r])]

\* Every provider of the request's route has been tried.
WholeRouteTried(r) ==
    \A p \in Providers : Occurs(p, route[r]) =>
        \E i \in DOMAIN tried[r] : tried[r][i].to = p

\* When a request that does not stream is given up: every provider of its route
\* was tried without success, or the last attempt ended in an error that
\* isRetriableError does not know, and these are two, any "fatal" one and an
\* open breaker.  That the second ends the chain is not what the specification
\* of the breaker says: see OpenBreakersAreSkipped.
GivesUpOnlyAtTheEnd ==
    \A r \in Requests :
        answer[r] = "503" /\ ~stream[r] =>
            WholeRouteTried(r) \/ Last(r).out \in {"fatal", "open"}

\* What the specification says of a provider whose breaker is open: it is
\* skipped, and the fallback goes on down to the last live one.  The code does
\* otherwise: ErrCircuitBreakerOpen is final for the chain (fallback.go:62).
OpenBreakersAreSkipped ==
    \A r \in Requests :
        answer[r] = "503" /\ ~stream[r] =>
            WholeRouteTried(r) \/ Last(r).out = "fatal"

\* What a client gets comes from the route it was given: a response is that of
\* the last attempt, which was "ok" and the only one that was, to a provider of
\* the route, even when a reload replaces the tables in between.
ResponseIsLastAttempt ==
    \A r \in Requests :
        (answer[r] = "response" <=> "ok" \in Outs(r)) /\
        (answer[r] = "response" =>
            /\ Last(r).out = "ok"
            /\ Occurs(Last(r).to, route[r])
            /\ \A i \in 1..Len(tried[r]) - 1 : tried[r][i].out # "ok")

\* The attempts of r are k on its primary alone, which is then the only one of a
\* streamed request, and the others go along its route from the first name.
Along(r, k) ==
    /\ k <= Len(tried[r])
    /\ k = 1 => /\ tried[r][1].to = first[r]
                /\ Occurs(first[r], route[r])
                /\ Len(tried[r]) > 1 => ~stream[r]
    /\ \A i \in DOMAIN tried[r] : i > k =>
          i - k \in DOMAIN route[r] /\ tried[r][i].to = route[r][i - k]

\* No place of the route is tried twice, skipped or tried out of turn: at most
\* one attempt comes before them, on the primary alone, so the primary is the
\* one provider that is asked once more than the route names it.
FollowsRoute == \A r \in Requests : \E k \in 0..1 : Along(r, k)

\* The answer is justified by the attempts, whatever was reloaded, marked or
\* failed between them: given up only at the end of the route or at an error
\* that is final for the code, otherwise that of the last attempt, and the
\* attempts follow the route.
AnswerIsJustified == GivesUpOnlyAtTheEnd /\ ResponseIsLastAttempt /\ FollowsRoute

Loaded(r) == pc[r] \in {"tryPrimary", "tryChain"} \/ tried[r] # <<>>

\* Which configurations a request may mix: its clients are never older than its
\* route, however many reloads go on meanwhile, unless the route was read in the
\* window of a reload between the rules and the clients, and then they are of
\* the configuration just before.  In that window, and when a reload comes
\* between the two reads, a provider of the route may have no client.
MixesOnlyMidReload ==
    \A r \in Requests : Loaded(r) =>
        IF taken[r].stored THEN clients[r] >= taken[r].config
                           ELSE clients[r] >= taken[r].config - 1

\* Every request gets an answer.
EveryRequestAnswered == \A r \in Requests : <>(answer[r] # "none")
===============================================================================
