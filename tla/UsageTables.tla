----------------------------- MODULE UsageTables -----------------------------
(***************************************************************************)
(* What the analytics page says of the traffic                             *)
(* (ui/src/pages/Analytics.tsx): the tiles show the totals of the answers, *)
(* the tables by model and by tenant add up their records.  The server     *)
(* (src/internal/api/handler/analytics) reads each answer when it is asked *)
(* for it, adds up all requests of the period and sends a page of them.    *)
(* Costs are added up as requests are, tokens in and tokens out alike.     *)
(***************************************************************************)
EXTENDS Naturals, Sequences, FiniteSets

CONSTANTS
    UsageTenants, \* the tenants that send requests
    Models,       \* the models they name; "": none is recorded
    PerPage,      \* defaultPerPage
    MaxTraffic    \* bound on the requests there are

ASSUME UsageAssumption == PerPage \in Nat \ {0} /\ MaxTraffic \in Nat

VARIABLES
    usLog,   \* usage_raw, in the order of recorded_at
    usWs,    \* workspace
    usRead,  \* the answers there are: the length of the log each was read from
    usShown  \* what is on the page: the workspace and length of log of each answer

usVars == <<usLog, usWs, usRead, usShown>>

Reports == {"tokens", "cost"}
NotRead == [a \in Reports |-> MaxTraffic + 1]    \* no answer yet

UsageInit ==
    /\ usLog = <<>> /\ usWs = ""
    /\ usRead = NotRead
    /\ usShown = [ws |-> "", read |-> [a \in Reports |-> 0]]
-----------------------------------------------------------------------------
(* HandleTokens and HandleCost for a workspace, with n requests recorded:  *)
(* the places in the log of those found.                                   *)
Matching(ws, n) == {i \in 1 .. n : ws \in {"", usLog[i].tenant}}

UpTo(s, i) == Cardinality({j \in s : j <= i})

(* Mutant of Paginate: the last of a full page is left out. *)
PaginateShort(s) == {i \in s : UpTo(s, i) < PerPage}

Paginate(s) == {i \in s : UpTo(s, i) <= PerPage}

Found(answer) == Matching(usShown.ws, usShown.read[answer])
Records(answer) == Paginate(Found(answer))
Total(answer) == Cardinality(Found(answer))

Named(m) == IF m = "" THEN "unknown" ELSE m
ModelOf(i) == Named(usLog[i].model)

(* A row for each model of either answer: the tokens are those of one, the *)
(* requests and their costs those of the other.                            *)
ModelRows ==
    LET of(answer, m) == {i \in Records(answer) : ModelOf(i) = m}
    IN  [m \in {ModelOf(i) : i \in Records("tokens") \cup Records("cost")} |->
           [tokens |-> Cardinality(of("tokens", m)), requests |-> Cardinality(of("cost", m))]]

TenantRows ==
    [t \in {usLog[i].tenant : i \in Records("cost")} |->
       Cardinality({i \in Records("cost") : usLog[i].tenant = t})]

(* What the amounts of a column add up to: the number of their units.      *)
Added(column) == Cardinality(UNION {{x} \X (1 .. column[x]) : x \in DOMAIN column})

(* The requests in the rows of a table.                                    *)
Tabulated(tab) ==
    Added(IF tab = "model" THEN [m \in DOMAIN ModelRows |-> ModelRows[m].requests] ELSE TenantRows)
-----------------------------------------------------------------------------
RecordUsage ==
    /\ Len(usLog) < MaxTraffic
    /\ \E t \in UsageTenants, m \in Models : usLog' = Append(usLog, [tenant |-> t, model |-> m])
    /\ UNCHANGED <<usWs, usRead, usShown>>

(* The answers to one load come in any order, and are shown together.      *)
ReadAnswer ==
    /\ \E a \in Reports :
         usRead[a] = NotRead[a] /\ usRead' = [usRead EXCEPT ![a] = Len(usLog)]
    /\ UNCHANGED <<usLog, usWs, usShown>>

ShowAnswers ==
    /\ \A a \in Reports : usRead[a] # NotRead[a]
    /\ usShown' = [ws |-> usWs, read |-> usRead]
    /\ UNCHANGED <<usLog, usWs, usRead>>

(* Another workspace, or another range; the answers before come to nothing *)
(* here (that they may still be shown is for OverviewPages).               *)
AskUsage ==
    /\ usShown.read = usRead
    /\ usWs' \in UsageTenants \cup {""}
    /\ usRead' = NotRead
    /\ UNCHANGED <<usLog, usShown>>

UsageNext == RecordUsage \/ ReadAnswer \/ ShowAnswers \/ AskUsage

UsageSpec == UsageInit /\ [][UsageNext]_usVars
-----------------------------------------------------------------------------
(* The tables by model and by tenant tell of the same requests, whatever   *)
(* was recorded between the two answers and whichever requests name no     *)
(* model, and of a model without a request only when the answers were read *)
(* at different times.                                                     *)
TablesAgree ==
    /\ Tabulated("model") = Tabulated("tenant")
    /\ usShown.read["tokens"] = usShown.read["cost"] =>
         \A m \in DOMAIN ModelRows : ModelRows[m].requests = ModelRows[m].tokens

(* They never tell of more requests than the tile, and of all of them as   *)
(* long as one page of the answer holds all.                               *)
TablesWithinTiles ==
    /\ Tabulated("tenant") <= Total("cost")
    /\ Total("cost") <= PerPage => Tabulated("tenant") = Total("cost")

(* Tables and tiles are two views of the same traffic.                     *)
TablesTrue == TablesAgree /\ TablesWithinTiles
=============================================================================
