----------------------------- MODULE VirtualKeys ------------------------------
(***************************************************************************)
(* Virtual keys: the rows of virtual_keys, the administrators and spend    *)
(* accounting that write them, and the requests that authenticate with     *)
(* them through the in-process VirtualKeyCache of each gateway.            *)
(*                                                                         *)
(* The admin handlers (handler/admin/virtual_key_handler.go) invalidate    *)
(* the cache of the process they run in: in cmd/all that is a gateway's,   *)
(* in cmd/admin there is none.  Every gateway refreshes its cache from the *)
(* database now and then.                                                  *)
(*                                                                         *)
(* Of a row the model keeps whether it is enabled, and the number of times *)
(* it was written, by which a copy can be told to be old.                  *)
(***************************************************************************)
EXTENDS Naturals

CONSTANTS Keys,      \* key ids, each with one secret
          Gateways,  \* processes that authenticate requests
          Elsewhere, \* a process of the admin API without a gateway
          Requests,  \* goroutines that authenticate
          Writers,   \* goroutines that write rows
          MaxWrites, \* how often a row is written at most
          Absent

ASSUME KeysAssumption == Elsewhere \notin Gateways /\ MaxWrites \in Nat \ {0}

VARIABLES row,     \* virtual_keys: key -> row, or Absent
          cache,   \* gateway -> key -> copy of the row, or Absent
          listing, \* gateway -> what Refresh has listed but not yet stored
          work,    \* writer -> what it is doing: [on, key, home, copy, asked]
          pc,      \* request -> where it is
          at,      \* request -> gateway
          key,     \* request -> key
          copy,    \* request -> the row it read
          answer,  \* request -> its last verdict
          written, \* history: gateway -> key -> version of the last write by
                   \* an admin handler of its process
          late,    \* history: the cached copy was already old when stored
          unnoticed,\* history: the cached copy has been there since before a
                   \* write that such a handler took for failed
          gone,    \* history: gateway -> key -> DELETE has returned in its
                   \* process and nothing has enabled the key since
          after    \* history: gone, when the request started

requestVars == <<pc, at, key, copy, answer, after>>
vars == <<row, cache, listing, work, requestVars, written, late, unnoticed,
          gone>>

Rows == [enabled : BOOLEAN, version : 1..MaxWrites]
Table == [Keys -> Rows \union {Absent}]
NoList == Absent

ASSUME AbsentAssumption == Absent \notin Rows /\ Absent \notin Table

Idle == [on |-> "idle"]
Processes == Gateways \union {Elsewhere}
Row(enabled, version) == [enabled |-> enabled, version |-> version]
Version(r) == IF r = Absent THEN 0 ELSE r.version
Enabled(r) == r # Absent /\ r.enabled

Init ==
    /\ row \in [Keys -> {Absent, Row(TRUE, 1)}]
    /\ cache = [g \in Gateways |-> [k \in Keys |-> Absent]]
    /\ listing = [g \in Gateways |-> NoList]
    /\ work = [w \in Writers |-> Idle]
    /\ pc = [r \in Requests |-> "idle"]
    /\ at \in [Requests -> Gateways]
    /\ key \in [Requests -> Keys]
    /\ copy = [r \in Requests |-> Absent]
    /\ answer = [r \in Requests |-> "none"]
    /\ written = [g \in Gateways |-> [k \in Keys |-> 0]]
    /\ late = [g \in Gateways |-> [k \in Keys |-> FALSE]]
    /\ unnoticed = [g \in Gateways |-> [k \in Keys |-> FALSE]]
    /\ gone = [g \in Gateways |-> [k \in Keys |-> FALSE]]
    /\ after = [r \in Requests |-> FALSE]

(***************************************************************************)
(* The writers.  Each database call is a step of its own.                  *)
(***************************************************************************)
Write(k, enabled) ==
    /\ Version(row[k]) < MaxWrites
    /\ row' = [row EXCEPT ![k] = Row(enabled, Version(@) + 1)]
    /\ gone' = [g \in Gateways |-> [gone[g] EXCEPT ![k] = @ /\ ~enabled]]

\* A write by a handler of the admin API in process p, which goes on to
\* invalidate the cache there, if there is one; unless the statement, executed
\* all the same, is reported to have failed.
AdminWrite(w, k, enabled, p, what) ==
    /\ Write(k, enabled)
    /\ IF p \in Gateways
       THEN /\ written' = [written EXCEPT ![p][k] = Version(row[k]) + 1]
            /\ \/ /\ work' = [work EXCEPT ![w] =
                                 [on |-> what, key |-> k, home |-> p]]
                  /\ UNCHANGED unnoticed
               \/ /\ work' = [work EXCEPT ![w] = Idle]
                  /\ unnoticed' = [unnoticed EXCEPT ![p][k] = TRUE]
       ELSE work' = [work EXCEPT ![w] = Idle] /\ UNCHANGED <<written, unnoticed>>

Create(w, k) ==
    /\ work[w] = Idle
    /\ row[k] = Absent
    /\ \E p \in Processes : AdminWrite(w, k, TRUE, p, "created")
    /\ UNCHANGED <<cache, listing, requestVars, late>>

\* A row that is disabled already is not found.
Delete(w, k) ==
    /\ work[w] = Idle
    /\ Enabled(row[k])
    /\ \E p \in Processes : AdminWrite(w, k, FALSE, p, "deleted")
    /\ UNCHANGED <<cache, listing, requestVars, late>>

\* Update, and the budget middleware's accumulateKeySpend, load the row, change
\* a copy of it and write all of it back.  A request to Update may ask for the
\* key to be enabled or disabled, or leave that as it is.  The budget middleware
\* knows of no cache, in whichever process it runs.
Load(w, k) ==
    /\ work[w] = Idle
    /\ row[k] # Absent
    /\ \E what \in {"update", "spend"}, asked \in {"keep", "enable", "disable"},
          p \in Processes :
          /\ what = "spend" => asked = "keep" /\ p = Elsewhere
          /\ work' = [work EXCEPT ![w] = [on |-> what, key |-> k, home |-> p,
                                         copy |-> row[k], asked |-> asked]]
    /\ UNCHANGED <<row, cache, listing, requestVars, written, late, unnoticed,
                   gone>>

Asked(w) ==
    \/ work[w].asked = "enable"
    \/ work[w].asked = "keep" /\ work[w].copy.enabled

\* Mutant of UpdateStore: Update returns without invalidating.
UpdateStoreOnly(w) ==
    LET k == work[w].key IN
    /\ work[w].on = "update"
    /\ Write(k, Asked(w))
    /\ written' = [g \in Gateways |-> IF g # work[w].home THEN written[g] ELSE
                       [written[g] EXCEPT ![k] = Version(row[k]) + 1]]
    /\ work' = [work EXCEPT ![w] = Idle]
    /\ UNCHANGED <<cache, listing, requestVars, late, unnoticed>>

UpdateStore(w) ==
    /\ work[w].on = "update"
    /\ AdminWrite(w, work[w].key, Asked(w), work[w].home, "updated")
    /\ UNCHANGED <<cache, listing, requestVars, late>>

SpendStore(w) ==
    /\ work[w].on = "spend"
    /\ Write(work[w].key, work[w].copy.enabled)
    /\ work' = [work EXCEPT ![w] = Idle]
    /\ UNCHANGED <<cache, listing, requestVars, written, late, unnoticed>>

\* The row cannot be written.
StoreFails(w) ==
    /\ work[w].on \in {"update", "spend"}
    /\ work' = [work EXCEPT ![w] = Idle]
    /\ UNCHANGED <<row, cache, listing, requestVars, written, late, unnoticed,
                   gone>>

\* InvalidateKey on the cache of the process, and the handler returns.
Invalidate(w) ==
    LET g == work[w].home
        k == work[w].key IN
    /\ work[w].on \in {"created", "updated", "deleted"}
    /\ cache' = [cache EXCEPT ![g][k] = Absent]
    /\ late' = [late EXCEPT ![g][k] = FALSE]
    /\ unnoticed' = [unnoticed EXCEPT ![g][k] = FALSE]
    /\ gone' = [gone EXCEPT ![g][k] =
                    @ \/ (work[w].on = "deleted" /\ ~row[k].enabled)]
    /\ work' = [work EXCEPT ![w] = Idle]
    /\ UNCHANGED <<row, listing, requestVars, written>>

(***************************************************************************)
(* VirtualKeyCache.Refresh: list without the lock, then replace the index. *)
(***************************************************************************)
List(g) ==
    /\ listing[g] = NoList
    /\ listing' = [listing EXCEPT ![g] = row]
    /\ UNCHANGED <<row, cache, work, requestVars, written, late, unnoticed,
                   gone>>

\* Mutant of Swap: entries that are there already are kept.
SwapKeeps(g) ==
    /\ listing[g] # NoList
    /\ cache' = [cache EXCEPT ![g] = [k \in Keys |->
                    IF cache[g][k] # Absent THEN cache[g][k] ELSE listing[g][k]]]
    /\ listing' = [listing EXCEPT ![g] = NoList]
    /\ UNCHANGED <<row, work, requestVars, written, late, unnoticed, gone>>

Swap(g) ==
    /\ listing[g] # NoList
    /\ cache' = [cache EXCEPT ![g] = listing[g]]
    /\ late' = [late EXCEPT ![g] =
                    [k \in Keys |-> Version(listing[g][k]) < written[g][k]]]
    /\ unnoticed' = [unnoticed EXCEPT ![g] = [k \in Keys |-> FALSE]]
    /\ listing' = [listing EXCEPT ![g] = NoList]
    /\ UNCHANGED <<row, work, requestVars, written, gone>>

(***************************************************************************)
(* lookupVirtualKey: the cache, else the database and then the cache.      *)
(***************************************************************************)
Verdict(r, enabled) ==
    answer' = [answer EXCEPT ![r] = IF enabled THEN "accepted" ELSE "rejected"]

Lookup(r) ==
    /\ pc[r] = "idle"
    /\ \E g \in Gateways, k \in Keys :
          /\ at' = [at EXCEPT ![r] = g]
          /\ key' = [key EXCEPT ![r] = k]
          /\ after' = [after EXCEPT ![r] = gone[g][k]]
          /\ \/ /\ cache[g][k] # Absent
                /\ Verdict(r, cache[g][k].enabled)
                /\ UNCHANGED pc
             \/ /\ cache[g][k] = Absent
                /\ answer' = [answer EXCEPT ![r] = "none"]
                /\ pc' = [pc EXCEPT ![r] = "query"]
    /\ UNCHANGED <<row, cache, listing, work, copy, written, late, unnoticed,
                   gone>>

\* Mutant of Query: rows that are not enabled are found as well.
QueryAny(r) ==
    /\ pc[r] = "query"
    /\ row[key[r]] # Absent
    /\ copy' = [copy EXCEPT ![r] = row[key[r]]]
    /\ pc' = [pc EXCEPT ![r] = "fill"]
    /\ UNCHANGED <<row, cache, listing, work, at, key, answer, after, written,
                   late, unnoticed, gone>>

\* FindByKeyHash finds enabled rows only; an error is a rejection as well.
Query(r) ==
    /\ pc[r] = "query"
    /\ \/ /\ Enabled(row[key[r]])
          /\ copy' = [copy EXCEPT ![r] = row[key[r]]]
          /\ pc' = [pc EXCEPT ![r] = "fill"]
          /\ UNCHANGED answer
       \/ /\ pc' = [pc EXCEPT ![r] = "idle"]
          /\ Verdict(r, FALSE)
          /\ UNCHANGED copy
    /\ UNCHANGED <<row, cache, listing, work, at, key, after, written, late,
                   unnoticed, gone>>

Fill(r) ==
    /\ pc[r] = "fill"
    /\ cache' = [cache EXCEPT ![at[r]][key[r]] = copy[r]]
    /\ late' = [late EXCEPT ![at[r]][key[r]] =
                    Version(copy[r]) < written[at[r]][key[r]]]
    /\ unnoticed' = [unnoticed EXCEPT ![at[r]][key[r]] = FALSE]
    /\ Verdict(r, copy[r].enabled)
    /\ copy' = [copy EXCEPT ![r] = Absent]
    /\ pc' = [pc EXCEPT ![r] = "idle"]
    /\ UNCHANGED <<row, listing, work, at, key, after, written, gone>>

Administer(w) ==
    \/ \E k \in Keys : Create(w, k) \/ Delete(w, k) \/ Load(w, k)
    \/ UpdateStore(w) \/ SpendStore(w) \/ StoreFails(w) \/ Invalidate(w)
Refresh(g) == List(g) \/ Swap(g)
Authenticate(r) == Lookup(r) \/ Query(r) \/ Fill(r)

Next ==
    \/ \E w \in Writers : Administer(w)
    \/ \E g \in Gateways : Refresh(g)
    \/ \E r \in Requests : Authenticate(r)

Spec == Init /\ [][Next]_vars

\* The ticker of each gateway refreshes again and again, and the database
\* answers now and then; a request that has read a row stores it.
Fairness ==
    /\ \A g \in Gateways : WF_vars(Refresh(g))
    /\ \A r \in Requests : WF_vars(Query(r) \/ Fill(r))

FairSpec == Spec /\ Fairness
-------------------------------------------------------------------------------
\* Type correctness; a request stores only rows it found enabled.
TypeOK ==
    /\ row \in Table
    /\ cache \in [Gateways -> Table]
    /\ listing \in [Gateways -> Table \union {NoList}]
    /\ work \in [Writers ->
           {Idle}
             \union [on : {"created", "updated", "deleted"}, key : Keys,
                     home : Gateways]
             \union [on : {"update", "spend"}, key : Keys, home : Processes,
                     copy : Rows, asked : {"keep", "enable", "disable"}]]
    /\ pc \in [Requests -> {"idle", "query", "fill"}]
    /\ at \in [Requests -> Gateways]
    /\ key \in [Requests -> Keys]
    /\ copy \in [Requests -> Rows \union {Absent}]
    /\ \A r \in Requests : pc[r] = "fill" => Enabled(copy[r])
    /\ answer \in [Requests -> {"none", "accepted", "rejected"}]
    /\ written \in [Gateways -> [Keys -> 0..MaxWrites]]
    /\ late \in [Gateways -> [Keys -> BOOLEAN]]
    /\ unnoticed \in [Gateways -> [Keys -> BOOLEAN]]

Invalidating(g, k) ==
    \E w \in Writers : /\ work[w].on \in {"created", "updated", "deleted"}
                       /\ work[w].key = k /\ work[w].home = g

\* In a gateway's cache a copy older than the last write by an admin handler of
\* the same process survives that handler only when it was stored after the
\* write, by a lookup or a refresh that had read the row before, or when the
\* handler took its write for failed and so invalidated nothing: invalidation
\* itself forgets nothing, whichever handlers run together.
StaleOnlyByRace ==
    \A g \in Gateways, k \in Keys :
        ~Invalidating(g, k) /\ cache[g][k] # Absent
                            /\ cache[g][k].version < written[g][k] =>
            late[g][k] \/ unnoticed[g][k]

\* Once a row is no longer written, every gateway ends up with that row or
\* without it in its cache, wherever it was written, late fills and overtaken
\* refreshes notwithstanding: a revoked key stops authenticating everywhere.
CacheConverges ==
    \A g \in Gateways, k \in Keys : <>[](cache[g][k] \in {Absent, row[k]})
-------------------------------------------------------------------------------
\* handler/admin/virtual_key_handler.go:24: the cache is invalidated so that
\* "revoked keys stop authenticating immediately in-process".
RevokedStopsInProcess ==
    \A r \in Requests : after[r] => answer[r] # "accepted"
===============================================================================
