---------------------------- MODULE MCSpendBudget -----------------------------
(* Small instances of SpendBudget for TLC.  The hard limits cut spending off *)
(* while the counters can be read; MaxSpent and MaxLost do when they cannot. *)
EXTENDS SpendBudget, TLC

\* No state is explored beyond these.
CONSTANTS MaxSpent,  \* period -> what its counters may reach
          MaxLost    \* what may be lost of the history of each counter

Interchangeable == Permutations(Requests)
Limits == <<1, 1>>
Thresholds == <<{50, 100}, {0, 150}>>
Scopes == <<FALSE, TRUE>>
OneCounter == <<"tenant:t", "tenant:t">>
FirstPeriod == <<5, 0>>   \* the second one until its first charge

OneLimit == <<2>>
OneThreshold == <<{50, 100}>>
KeyScope == <<TRUE>>
KeyCounter == <<"key:k">>
OnePeriod == <<8>>

\* What a request will still read of its local variables, and of a counter it
\* has read only which thresholds that is at.
Live(r) ==
    LET At(spent) ==
            {pct \in NotifyAt[at[r]] \cap (1..100) :
                Reached(at[r], pct, spent)}
    IN
    <<pc[r],
      IF pc[r] \in {"idle", "free"} THEN <<>> ELSE <<now[r], at[r]>>,
      IF pc[r] \in {"idle", "free"} \/ LastSecond(now[r]) THEN {} ELSE blind[r],
      IF pc[r] \in {"idle", "free", "check", "serving"} THEN 0 ELSE cost[r],
      IF pc[r] \in {"increment", "record", "notify"} THEN At(prev[r]) ELSE {},
      IF pc[r] \in {"record", "notify"} THEN At(new[r]) ELSE {}>>

\* Money is only ever added to the two accounts of a counter, so what is to come
\* depends on how far they are apart, which is all that the properties look at.
Balance(k) ==
    LET counts[q \in 0..Periods] ==
            IF q = 0 THEN forgotten[k] ELSE counts[q - 1] + counter[q][k]
        entries[b \in 0..NumBudgets] ==
            IF b = 0 THEN 0
            ELSE entries[b - 1] + IF CounterKey[b] = k THEN recorded[b] ELSE 0
    IN counts[Periods] - entries[NumBudgets]

\* States that agree in this behave alike as far as the properties of the runs
\* can tell, which say nothing of the key's row.
MoneyView ==
    <<clock, counter, charged, alerts \union missed,
      [k \in Keys |-> <<Balance(k), unrecorded[k]>>],
      [r \in Requests |-> Live(r)]>>

\* At most one request at a time could not check some budget.
Bounded ==
    /\ \A q \in 1..Periods, k \in Keys : counter[q][k] <= MaxSpent[q]
    /\ \A k \in Keys : unrecorded[k] <= MaxLost
    /\ Cardinality({r \in Requests : blind[r] # {}}) <= 1
===============================================================================
