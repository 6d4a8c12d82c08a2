----------------------------- MODULE SpendBudget ------------------------------
(***************************************************************************)
(* The budget middleware (api/middleware/budget.go): concurrent requests   *)
(* of one virtual key check every matching budget, are served, and then    *)
(* charge what they cost to each budget in turn: the Valkey counter of the *)
(* period, the spend history, the alerts, and, for a budget of scope       *)
(* "key", the spent column of the key's row, which an administrator may    *)
(* revoke meanwhile.                                                       *)
(*                                                                         *)
(* Money is counted in units.  Budgets are numbered in the order in which  *)
(* ListActiveForRequest returns them; all of them match every request and  *)
(* have a hard limit (one without is counted but never checked).           *)
(*                                                                         *)
(* The clock moves through instants: the odd ones stand for a period, the  *)
(* even ones for the last second of the period before them.                *)
(*                                                                         *)
(* Nothing in the schema or the admin API gives every budget a counter of  *)
(* its own: two budgets of one tenant, scope and period share theirs.      *)
(***************************************************************************)
EXTENDS Integers, FiniteSets

CONSTANTS Requests,    \* goroutines of the gateway
          NumBudgets,
          HardLimit,   \* budget -> hard limit
          NotifyAt,    \* budget -> set of percentages, valid or not
          KeyScoped,   \* budget -> its scope is "key"
          CounterKey,  \* budget -> counter key, without the period
          Instants,    \* the last instant that is modelled
          MaxCost,     \* the most one response costs
          Faults       \* whether calls to Valkey and Postgres may fail

Budgets == 1..NumBudgets
PeriodOf(i) == (i + 1) \div 2
LastSecond(i) == i % 2 = 0
Periods == PeriodOf(Instants)

ASSUME BudgetsAssumption ==
    /\ IsFiniteSet(Requests)
    /\ NumBudgets \in Nat \ {0}
    /\ HardLimit \in [Budgets -> Nat \ {0}]
    /\ NotifyAt \in [Budgets -> SUBSET Int]
    /\ KeyScoped \in [Budgets -> BOOLEAN]
    /\ DOMAIN CounterKey = Budgets
    /\ Instants \in Nat \ {0}
    /\ MaxCost \in Nat \ {0}
    /\ Faults \in BOOLEAN

Keys == {CounterKey[b] : b \in Budgets}

SharedBy(k) == {b \in Budgets : CounterKey[b] = k}

VARIABLES clock,    \* the instant the wall clock is in
          counter,  \* Valkey: period -> counter key -> units spent
          recorded, \* budget_spend: budget -> sum of its entries
          alerts,   \* <<budget, period, percentage>> handed to the notifier
          row,      \* the key's row: [enabled, spent]
          pc,       \* where each request is
          now,      \* the instant it started in
          at,       \* the budget its loop is at
          cost,     \* what its response cost
          prev,     \* the counter it read before it incremented
          new,      \* the counter after its increment
          loaded,   \* the copy of the row accumulateKeySpend works on
          revoked,  \* history: the key has been revoked and not re-enabled
          blind,    \* history: the budgets a request could not check
          forgotten,\* history: counter key -> what expired of it
          charged,  \* history: period -> budget -> what the requests that
                    \* began before the last second and did check it cost
          missed,   \* history: <<budget, period, percentage>> that a charge
                    \* crossed which reports nothing for that budget
          unrecorded\* history: counter key -> what was counted in silence

vars == <<clock, counter, recorded, alerts, row, pc, now, at, cost, prev, new,
          loaded, revoked, blind, forgotten, charged, missed, unrecorded>>
moneyVars == <<counter, forgotten, charged, missed>>
bookVars == <<recorded, unrecorded>>
rowVars == <<row, revoked>>

Rows == [enabled : BOOLEAN, spent : Nat]
Places == {"idle", "free", "check", "serving", "prev", "increment", "record",
           "notify", "load", "store"}

Init ==
    /\ clock = 1
    /\ counter = [q \in 1..Periods |-> [k \in Keys |-> 0]]
    /\ recorded = [b \in Budgets |-> 0]
    /\ alerts = {}
    /\ row = [enabled |-> TRUE, spent |-> 0]
    /\ pc = [r \in Requests |-> "idle"]
    /\ now = [r \in Requests |-> 1]
    /\ at = [r \in Requests |-> 1]
    /\ cost = [r \in Requests |-> 0]
    /\ prev = [r \in Requests |-> 0]
    /\ new = [r \in Requests |-> 0]
    /\ loaded = [r \in Requests |-> [enabled |-> TRUE, spent |-> 0]]
    /\ revoked = FALSE
    /\ blind = [r \in Requests |-> {}]
    /\ forgotten = [k \in Keys |-> 0]
    /\ charged = [q \in 1..Periods |-> [b \in Budgets |-> 0]]
    /\ missed = {}
    /\ unrecorded = [k \in Keys |-> 0]

Period(r) == PeriodOf(now[r])
Key(r) == CounterKey[at[r]]
Current(r) == counter[Period(r)][Key(r)]

\* Mutant of HardExceeded: a limit that is reached is not exceeded.
HardExceededBeyond(b, spent) == spent > HardLimit[b]
HardExceeded(b, spent) == spent >= HardLimit[b]

\* notify_at: spent has reached pct percent of the hard limit.
Reached(b, pct, spent) == 100 * spent >= HardLimit[b] * pct

\* Mutant of CrossedThresholds: only the highest threshold is reported.
CrossedHighest(b, before, after) ==
    {pct \in NotifyAt[b] \cap (0..100) :
        /\ ~Reached(b, pct, before) /\ Reached(b, pct, after)
        /\ \A p \in NotifyAt[b] : Reached(b, p, after) => p <= pct}

\* Percentages outside 0..100 are skipped.
CrossedThresholds(b, before, after) ==
    {pct \in NotifyAt[b] \cap (0..100) :
        ~Reached(b, pct, before) /\ Reached(b, pct, after)}

(***************************************************************************)
(* Before the request is served: every budget is checked.                  *)
(***************************************************************************)
\* The key was accepted by the auth middleware, from its cache: the row may
\* have been revoked since.  If the budgets cannot be listed, the request is
\* served without any check or charge.
Arrive(r) ==
    /\ pc[r] = "idle"
    /\ \E listed \in {TRUE, ~Faults} :
          pc' = [pc EXCEPT ![r] = IF listed THEN "check" ELSE "free"]
    /\ now' = [now EXCEPT ![r] = clock]
    /\ at' = [at EXCEPT ![r] = 1]
    /\ blind' = [blind EXCEPT ![r] = {}]
    /\ UNCHANGED <<clock, moneyVars, bookVars, alerts, cost, prev, new, loaded,
                   rowVars>>

\* A counter that cannot be read is not checked.
Check(r) ==
    /\ pc[r] = "check"
    /\ \E unread \in {FALSE, Faults} :
          /\ blind' = IF unread
                      THEN [blind EXCEPT ![r] = @ \union {at[r]}] ELSE blind
          /\ IF ~unread /\ HardExceeded(at[r], Current(r))
             THEN pc' = [pc EXCEPT ![r] = "idle"] /\ UNCHANGED at
             ELSE IF at[r] < NumBudgets
             THEN at' = [at EXCEPT ![r] = @ + 1] /\ UNCHANGED pc
             ELSE pc' = [pc EXCEPT ![r] = "serving"] /\ UNCHANGED at
    /\ UNCHANGED <<clock, moneyVars, bookVars, alerts, now, cost, prev, new,
                   loaded, rowVars>>

\* A streamed response, one that is not 200 and one without a cost are free.
ServeFree(r) ==
    /\ pc[r] \in {"serving", "free"}
    /\ pc' = [pc EXCEPT ![r] = "idle"]
    /\ UNCHANGED <<clock, moneyVars, bookVars, alerts, now, at, cost, prev,
                   new, loaded, rowVars, blind>>

Serve(r) ==
    /\ pc[r] = "serving"
    /\ \E c \in 1..MaxCost : cost' = [cost EXCEPT ![r] = c]
    /\ at' = [at EXCEPT ![r] = 1]
    /\ pc' = [pc EXCEPT ![r] = "prev"]
    /\ UNCHANGED <<clock, moneyVars, bookVars, alerts, now, prev, new, loaded,
                   rowVars, blind>>

(***************************************************************************)
(* After the response: every budget is charged.                            *)
(***************************************************************************)
NextBudget(r) ==
    IF at[r] < NumBudgets
    THEN at' = [at EXCEPT ![r] = @ + 1] /\ pc' = [pc EXCEPT ![r] = "prev"]
    ELSE pc' = [pc EXCEPT ![r] = "idle"] /\ UNCHANGED at

ReadPrev(r) ==
    /\ pc[r] = "prev"
    /\ \E unread \in {FALSE, Faults} :
          prev' = [prev EXCEPT ![r] = IF unread THEN 0 ELSE Current(r)]
    /\ pc' = [pc EXCEPT ![r] = "increment"]
    /\ UNCHANGED <<clock, moneyVars, bookVars, alerts, now, at, cost, new,
                   loaded, rowVars, blind>>

\* What a charge to the counter of request r adds to the account that is kept
\* for each budget sharing it: `reported` is the budget it reports for, if any.
Charge(r, reported) ==
    /\ charged' = [charged EXCEPT ![Period(r)] = [b \in Budgets |->
                       IF /\ CounterKey[b] = Key(r)
                          /\ ~LastSecond(now[r])
                          /\ b \notin blind[r]
                       THEN @[b] + cost[r] ELSE @[b]]]
    /\ LET total == Current(r) + cost[r] IN
       missed' = missed \union
           UNION {{<<b, Period(r), pct>> :
                      pct \in CrossedThresholds(b, Current(r), total)} :
                  b \in SharedBy(Key(r)) \ reported}

\* Mutant of Increment: the total is computed from the value read before.
IncrementFromPrev(r) ==
    LET total == prev[r] + cost[r] IN
    /\ pc[r] = "increment"
    /\ new' = [new EXCEPT ![r] = total]
    /\ counter' = [counter EXCEPT ![Period(r)][Key(r)] = total]
    /\ Charge(r, {at[r]})
    /\ pc' = [pc EXCEPT ![r] = "record"]
    /\ UNCHANGED <<clock, bookVars, alerts, now, at, cost, prev, loaded,
                   forgotten, rowVars, blind>>

\* INCRBYFLOAT is atomic and returns the total, however old `prev` is.  EXPIRE
\* follows, with what was left of the period when the request started, in
\* whole seconds: in the last second that is 0, which deletes the counter,
\* unless that call fails, which nobody notices.
Increment(r) ==
    LET total == Current(r) + cost[r] IN
    /\ pc[r] = "increment"
    /\ new' = [new EXCEPT ![r] = total]
    /\ \E expired \in {LastSecond(now[r]), LastSecond(now[r]) /\ ~Faults} :
          /\ counter' = [counter EXCEPT ![Period(r)][Key(r)] =
                             IF expired THEN 0 ELSE total]
          /\ forgotten' = [forgotten EXCEPT ![Key(r)] =
                               IF expired THEN @ + total ELSE @]
    /\ Charge(r, {at[r]})
    /\ pc' = [pc EXCEPT ![r] = "record"]
    /\ UNCHANGED <<clock, bookVars, alerts, now, at, cost, prev, loaded,
                   rowVars, blind>>

\* Mutant of IncrementFails: the spend is recorded all the same.
IncrementFailsOn(r) ==
    /\ Faults
    /\ pc[r] = "increment"
    /\ pc' = [pc EXCEPT ![r] = "record"]
    /\ UNCHANGED <<clock, moneyVars, bookVars, alerts, now, at, cost, prev,
                   new, loaded, rowVars, blind>>

\* An increment that fails may have been executed: the reply was lost.  It is
\* neither recorded nor reported.
IncrementFails(r) ==
    /\ Faults
    /\ pc[r] = "increment"
    /\ \/ UNCHANGED <<moneyVars, unrecorded>>
       \/ /\ counter' = [counter EXCEPT ![Period(r)][Key(r)] = @ + cost[r]]
          /\ Charge(r, {})
          /\ unrecorded' = [unrecorded EXCEPT ![Key(r)] = @ + cost[r]]
          /\ UNCHANGED forgotten
    /\ NextBudget(r)
    /\ UNCHANGED <<clock, recorded, alerts, now, cost, prev, new, loaded,
                   rowVars, blind>>

RecordSpend(r) ==
    /\ pc[r] = "record"
    /\ \/ /\ recorded' = [recorded EXCEPT ![at[r]] = @ + cost[r]]
          /\ UNCHANGED unrecorded
       \/ /\ Faults
          /\ unrecorded' = [unrecorded EXCEPT ![Key(r)] = @ + cost[r]]
          /\ UNCHANGED recorded
    /\ pc' = [pc EXCEPT ![r] = "notify"]
    /\ UNCHANGED <<clock, moneyVars, alerts, now, at, cost, prev, new, loaded,
                   rowVars, blind>>

Notify(r) ==
    /\ pc[r] = "notify"
    /\ alerts' = alerts \union
           {<<at[r], Period(r), pct>> :
                pct \in CrossedThresholds(at[r], prev[r], new[r])}
    /\ IF KeyScoped[at[r]]
       THEN pc' = [pc EXCEPT ![r] = "load"] /\ UNCHANGED at
       ELSE NextBudget(r)
    /\ UNCHANGED <<clock, moneyVars, bookVars, now, cost, prev, new, loaded,
                   rowVars, blind>>

(***************************************************************************)
(* accumulateKeySpend reads the row, adds to the copy and writes all of it *)
(* back; the admin API's Delete clears enabled.                            *)
(***************************************************************************)
LoadKey(r) ==
    /\ pc[r] = "load"
    /\ loaded' = [loaded EXCEPT ![r] = row]
    /\ pc' = [pc EXCEPT ![r] = "store"]
    /\ UNCHANGED <<clock, moneyVars, bookVars, alerts, row, now, at, cost,
                   prev, new, revoked, blind>>

LoadKeyFails(r) ==
    /\ Faults
    /\ pc[r] = "load"
    /\ NextBudget(r)
    /\ UNCHANGED <<clock, moneyVars, bookVars, alerts, now, cost, prev, new,
                   loaded, rowVars, blind>>

StoreKey(r) ==
    /\ pc[r] = "store"
    /\ \E lost \in {FALSE, Faults} :
          row' = IF lost THEN row ELSE
                 [loaded[r] EXCEPT !.spent = @ + cost[r]]
    /\ NextBudget(r)
    /\ UNCHANGED <<clock, moneyVars, bookVars, alerts, now, cost, prev, new,
                   loaded, revoked, blind>>

Revoke ==
    /\ row.enabled
    /\ row' = [row EXCEPT !.enabled = FALSE]
    /\ revoked' = TRUE
    /\ UNCHANGED <<clock, moneyVars, bookVars, alerts, pc, now, at, cost, prev,
                   new, loaded, blind>>

Tick ==
    /\ clock < Instants
    /\ clock' = clock + 1
    /\ UNCHANGED <<moneyVars, bookVars, alerts, pc, now, at, cost, prev, new,
                   loaded, rowVars, blind>>

\* EXPIRE counts whole seconds: a counter is gone when its period is over, or in
\* the last second of it.  A late increment makes it anew.
Expire(q, k) ==
    /\ 2 * q <= clock
    /\ counter[q][k] # 0
    /\ counter' = [counter EXCEPT ![q][k] = 0]
    /\ forgotten' = [forgotten EXCEPT ![k] = @ + counter[q][k]]
    /\ UNCHANGED <<clock, charged, missed, bookVars, alerts, pc, now, at, cost,
                   prev, new, loaded, rowVars, blind>>

Step(r) ==
    \/ Arrive(r) \/ Check(r) \/ ServeFree(r) \/ Serve(r) \/ ReadPrev(r)
    \/ Increment(r) \/ IncrementFails(r) \/ RecordSpend(r) \/ Notify(r)
    \/ LoadKey(r) \/ LoadKeyFails(r) \/ StoreKey(r)

Next ==
    \/ \E r \in Requests : Step(r)
    \/ Revoke
    \/ Tick
    \/ \E q \in 1..Periods, k \in Keys : Expire(q, k)

Spec == Init /\ [][Next]_vars
-------------------------------------------------------------------------------
\* Type correctness of the whole state.
TypeOK ==
    /\ clock \in 1..Instants
    /\ counter \in [1..Periods -> [Keys -> Nat]]
    /\ recorded \in [Budgets -> Nat]
    /\ alerts \subseteq Budgets \X (1..Periods) \X (0..100)
    /\ row \in Rows
    /\ pc \in [Requests -> Places]
    /\ now \in [Requests -> 1..Instants]
    /\ at \in [Requests -> Budgets]
    /\ cost \in [Requests -> 0..MaxCost]
    /\ prev \in [Requests -> Nat]
    /\ new \in [Requests -> Nat]
    /\ loaded \in [Requests -> Rows]
    /\ revoked \in BOOLEAN
    /\ blind \in [Requests -> SUBSET Budgets]
    /\ forgotten \in [Keys -> Nat]
    /\ charged \in [1..Periods -> [Budgets -> Nat]]
    /\ missed \subseteq Budgets \X (1..Periods) \X (0..100)
    /\ unrecorded \in [Keys -> Nat]

\* The most that all requests together charge to b's counter in one go: each
\* charges it once for every budget that shares it.
OneRound(b) ==
    MaxCost * (Cardinality(Requests) * Cardinality(SharedBy(CounterKey[b])))

\* The hard limit is checked before a request and charged after it, so it can
\* be overrun: by the requests that are under way when it is reached, and once
\* more by those that are when the counter expires, up to a second early.
\* Nothing else that began before the last second of a period and could read
\* the counter costs the period more, whether or not charges fail.  What this
\* leaves out has no bound in the code: requests whose check fails, and those
\* that begin in the last second, each of which deletes what it has counted
\* (valkey_spendcounter.go:34), though docs/ACCESS_AND_BUDGETS.md:34 says that
\* requests are blocked once the limit is reached.
OverrunBounded ==
    \A q \in 1..Periods, b \in Budgets :
        charged[q][b] <= HardLimit[b] - 1 + 2 * OneRound(b)

\* Request r has reached a threshold of budget b and will report it.
AboutToAlert(r, b, q, pct) ==
    /\ pc[r] \in {"record", "notify"}
    /\ at[r] = b
    /\ Period(r) = q
    /\ pct \in CrossedThresholds(b, prev[r], new[r])

\* However the reads and increments of concurrent requests interleave and
\* fail, a counter at or over a threshold of a budget has had its alert, or a
\* request is about to send it, unless the charge that crossed it was one that
\* reports nothing for the budget: its reply was lost, or it was made for
\* another budget with the same counter.  Alerts may be sent twice.
NoAlertMissed ==
    \A q \in 1..Periods, b \in Budgets : \A pct \in NotifyAt[b] \cap (1..100) :
        Reached(b, pct, counter[q][CounterKey[b]]) =>
            \/ <<b, q, pct>> \in alerts \union missed
            \/ \E r \in Requests : AboutToAlert(r, b, q, pct)

\* The units of each of several amounts; how many they are is the sum.
Units(amounts) == UNION {{x} \X (1..amounts[x]) : x \in DOMAIN amounts}
Sum(amounts) == Cardinality(Units(amounts))

\* What a counter ever counted, and what the history shows of it.
Counted(k) == Sum([q \in 1..Periods |-> counter[q][k]]) + forgotten[k]
Shown(k) == Sum([b \in SharedBy(k) |-> recorded[b]])

\* The counters that enforce the budgets and their spend history, kept in two
\* stores, account for the same money whenever no request is between the two,
\* but for what a lost reply of either store kept out of the history.
CounterMatchesHistory ==
    (\A r \in Requests : pc[r] # "record") =>
        \A k \in Keys : Counted(k) = Shown(k) + unrecorded[k]

\* When Valkey and Postgres fail, and a failed increment may have been executed
\* or not, the history still shows nothing that was not counted.
HistoryNeverAhead == \A k \in Keys : Shown(k) <= Counted(k)
-------------------------------------------------------------------------------
\* docs/ACCESS_AND_BUDGETS.md:109: DELETE /keys/:id revokes the key.  Nothing
\* enables it again but an administrator, who does not here.
RevokedStaysRevoked == revoked => ~row.enabled
===============================================================================
