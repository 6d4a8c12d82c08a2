---------------------------- MODULE RoutingTables -----------------------------
(***************************************************************************)
(* The tables a request is routed by, and who writes them: the provider    *)
(* registry and its rules (domain/routing/service/registry.go), the client *)
(* map of the fallback handler, the health checker that marks providers,   *)
(* and the hot reload of the configuration that replaces all three tables  *)
(* one atomic pointer at a time.                                           *)
(*                                                                         *)
(* Configs[g] is the g-th configuration loaded: its providers, the subset  *)
(* a client could be built for, the subset with a health endpoint, and the *)
(* route of the one tenant and model the model follows.  A pointer is      *)
(* represented by the number of the configuration it was built from; a     *)
(* Provider object, made anew by each UpdateConfig, by its configuration   *)
(* and its name.                                                           *)
(***************************************************************************)
EXTENDS Naturals, Sequences

CONSTANTS Providers,  \* provider names
          Configs,    \* the configurations, in the order they are loaded
          NoRoute     \* no rule for the tenant and model

ASSUME ConfigsAssumption ==
    /\ NoRoute \notin Seq(Providers)
    /\ Configs # <<>>
    /\ Configs \in Seq([providers : SUBSET Providers, clients : SUBSET Providers,
                       probed : SUBSET Providers,
                       route : Seq(Providers) \union {NoRoute}])
    /\ \A g \in DOMAIN Configs :
          /\ Configs[g].clients \subseteq Configs[g].providers
          /\ Configs[g].probed \subseteq Configs[g].providers

VARIABLES up,          \* environment: providers whose health endpoint says 200
          providersOf, \* ProviderRegistry.providers
          rulesOf,     \* ProviderRegistry.rules
          clientsOf,   \* FallbackHandler.clients
          reload,      \* the store the reload callback will do next
          health,      \* Provider.healthStatus of every object made so far
          todo,        \* the objects checkAll has still to visit
          probe        \* the answer it has to the probe of one of them

tableVars == <<providersOf, rulesOf, clientsOf, reload>>
checkVars == <<todo, probe>>
tablesVars == <<up, providersOf, rulesOf, clientsOf, reload, health, todo, probe>>

Generations == DOMAIN Configs
Objects == Generations \X Providers
ObjectsOf(g) == {g} \X Configs[g].providers
NoProbe == <<>>

TablesInit ==
    /\ up \in SUBSET Providers
    /\ providersOf = 1 /\ rulesOf = 1 /\ clientsOf = 1
    /\ reload = "idle"
    /\ health = [o \in Objects |-> IF o \in ObjectsOf(1) THEN "healthy"
                                                         ELSE "unknown"]
    /\ todo = {}
    /\ probe = NoProbe

(***************************************************************************)
(* Reload: the watcher runs one callback at a time.  UpdateConfig stores   *)
(* the providers, all healthy, and then the rules; the callback stores the *)
(* clients last.                                                           *)
(***************************************************************************)
StoreProviders ==
    /\ reload = "idle"
    /\ providersOf < Len(Configs)
    /\ providersOf' = providersOf + 1
    /\ health' = [o \in Objects |-> IF o \in ObjectsOf(providersOf + 1)
                                    THEN "healthy" ELSE health[o]]
    /\ reload' = "rules"
    /\ UNCHANGED <<up, rulesOf, clientsOf, todo, probe>>

\* Mutant of StoreRules: the callback returns before the clients are stored.
StoreRulesAndReturn ==
    /\ reload = "rules"
    /\ rulesOf' = providersOf
    /\ reload' = "idle"
    /\ UNCHANGED <<up, providersOf, clientsOf, health, todo, probe>>

StoreRules ==
    /\ reload = "rules"
    /\ rulesOf' = providersOf
    /\ reload' = "clients"
    /\ UNCHANGED <<up, providersOf, clientsOf, health, todo, probe>>

StoreClients ==
    /\ reload = "clients"
    /\ clientsOf' = providersOf
    /\ reload' = "idle"
    /\ UNCHANGED <<up, providersOf, rulesOf, health, todo, probe>>

(***************************************************************************)
(* HealthChecker.checkAll walks the objects it found in the registry when  *)
(* it started, in any order.  A probe takes time: what it says is written  *)
(* afterwards, to that object.                                             *)
(***************************************************************************)
\* Mutant of StartRound: the list is taken once, when the checker is built.
StartRoundOfFirst ==
    /\ todo = {}
    /\ todo' = ObjectsOf(1)
    /\ UNCHANGED <<up, providersOf, rulesOf, clientsOf, reload, health, probe>>

StartRound ==
    /\ todo = {}
    /\ todo' = ObjectsOf(providersOf)
    /\ UNCHANGED <<up, providersOf, rulesOf, clientsOf, reload, health, probe>>

\* A provider without a health endpoint is always healthy.
Probe(o) ==
    /\ o \in todo
    /\ probe = NoProbe
    /\ probe' = <<o, IF o[2] \in up \/ o[2] \notin Configs[o[1]].probed
                     THEN "healthy" ELSE "unhealthy">>
    /\ UNCHANGED <<up, providersOf, rulesOf, clientsOf, reload, health, todo>>

WriteStatus ==
    /\ probe # NoProbe
    /\ health' = [health EXCEPT ![probe[1]] = probe[2]]
    /\ todo' = todo \ {probe[1]}
    /\ probe' = NoProbe
    /\ UNCHANGED <<up, providersOf, rulesOf, clientsOf, reload>>

\* A health endpoint starts or stops answering 200.
Flip(p) ==
    /\ up' = IF p \in up THEN up \ {p} ELSE up \union {p}
    /\ UNCHANGED <<providersOf, rulesOf, clientsOf, reload, health, todo, probe>>

Reload == StoreProviders \/ StoreRules \/ StoreClients
Check == StartRound \/ WriteStatus \/ \E o \in Objects : Probe(o)
TablesNext == Reload \/ Check \/ \E p \in Providers : Flip(p)

\* The checker's goroutine keeps going: the ticker starts round after round and
\* a probe ends (its client has a timeout of 10 s).  A reload, once begun, ends.
TablesFairness ==
    /\ WF_tablesVars(Check)
    /\ WF_tablesVars(StoreRules)
    /\ WF_tablesVars(StoreClients)

TablesSpec == TablesInit /\ [][TablesNext]_tablesVars
FairTablesSpec == TablesSpec /\ TablesFairness
-------------------------------------------------------------------------------
\* RouteSelector and ProviderRegistry.Get, as a request sees them now.
Known(p) == p \in Configs[providersOf].providers
Healthy(p) == Known(p) /\ health[<<providersOf, p>>] = "healthy"
Route == Configs[rulesOf].route

\* Type correctness of the tables.
TablesTypeOK ==
    /\ up \subseteq Providers
    /\ {providersOf, rulesOf, clientsOf} \subseteq Generations
    /\ reload \in {"idle", "rules", "clients"}
    /\ health \in [Objects -> {"unknown", "healthy", "unhealthy"}]
    /\ todo \subseteq Objects
    /\ probe = NoProbe \/ probe \in todo \X {"healthy", "unhealthy"}

\* The tables are never more than one configuration apart, and only while a
\* reload is between its stores: rules and clients never run ahead of the
\* providers they name.
TablesInStep ==
    /\ rulesOf = IF reload = "rules" THEN providersOf - 1 ELSE providersOf
    /\ clientsOf = IF reload = "idle" THEN providersOf ELSE providersOf - 1

\* Every object a request can find has a verdict: none is "unknown", not even
\* right after a reload, so a reload never makes a provider unselectable.
NoUnknownInTable ==
    \A p \in Configs[providersOf].providers : health[<<providersOf, p>>] # "unknown"

\* What a request reads fits together, wherever a reload has got to.
TablesSound == TablesInStep /\ NoUnknownInTable

\* A provider that stays down ends up marked unhealthy, and one that stays up
\* healthy, in the objects requests read: a round that started before a reload
\* writes to retired objects, but the next one reaches the new ones.
HealthConverges ==
    \A p \in Providers :
        /\ <>[](p \notin up) =>
              <>[](Known(p) /\ p \in Configs[providersOf].probed => ~Healthy(p))
        /\ <>[](p \in up) => <>[](Known(p) => Healthy(p))
===============================================================================
