--------------------------- MODULE VirtualKeys_proofs ---------------------------
(***************************************************************************)
(* Theorems about VirtualKeys, for any number of keys, gateways, requests  *)
(* and administrators.                                                     *)
(***************************************************************************)
EXTENDS VirtualKeys, TLAPS

\* A copy c of a row is one the row has been: never newer than the row as it is
\* now, and the same when it is as new.
OldOrSame(c, now) ==
    c # Absent =>
        /\ now # Absent
        /\ c.version <= now.version
        /\ c.version = now.version => c = now

\* Every copy that a cache holds or may still be given.
CopiesOld ==
    /\ \A g \in Gateways, k \in Keys : OldOrSame(cache[g][k], row[k])
    /\ \A g \in Gateways : listing[g] # NoList =>
          \A k \in Keys : OldOrSame(listing[g][k], row[k])
    /\ \A r \in Requests : OldOrSame(copy[r], row[key[r]])
    /\ \A r \in Requests : pc[r] # "fill" => copy[r] = Absent

\* The writes a gateway's process knows of have been made.
WritesKnown ==
    \A g \in Gateways, k \in Keys : written[g][k] <= Version(row[k])

Inv == TypeOK /\ StaleOnlyByRace /\ CopiesOld /\ WritesKnown

\* What an administrator wrote in the process of a gateway, and nobody has
\* written over elsewhere, is what the gateway sees or looks up, unless a lookup
\* or a refresh that had read the row before stored its copy after the write,
\* or the handler took its write for failed.
SeenUnlessOvertaken ==
    \A g \in Gateways, k \in Keys :
        ~Invalidating(g, k) /\ written[g][k] = Version(row[k])
                            /\ ~late[g][k] /\ ~unnoticed[g][k]
            => cache[g][k] \in {Absent, row[k]}
-----------------------------------------------------------------------------
(* Rows and versions.                                                      *)

MaybeRows == Rows \union {Absent}

LEMMA RowParts ==
    ASSUME NEW e \in BOOLEAN, NEW v \in 1..MaxWrites
    PROVE  /\ Row(e, v) \in Rows /\ Row(e, v) # Absent
           /\ Row(e, v).enabled = e /\ Row(e, v).version = v
<1>1. Row(e, v) \in Rows
  BY Zenon DEF Row, Rows
<1>2. QED
  BY <1>1, AbsentAssumption DEF Row

LEMMA Versions ==
    ASSUME NEW c \in MaybeRows
    PROVE  /\ Version(c) \in Nat /\ Version(c) <= MaxWrites
           /\ c # Absent => c \in Rows /\ c.version = Version(c) /\ Version(c) >= 1
           /\ c = Absent => Version(c) = 0
BY KeysAssumption DEF Version, Rows, MaybeRows

\* A row that is written is newer than every copy of it.
LEMMA NewerThanCopies ==
    ASSUME NEW c \in MaybeRows, NEW now \in MaybeRows, NEW next \in Rows,
           next.version = Version(now) + 1, OldOrSame(c, now)
    PROVE  OldOrSame(c, next)
<1>1. next # Absent
  BY AbsentAssumption
<1>2. CASE c = Absent
  BY <1>2 DEF OldOrSame
<1>3. CASE c # Absent
  <2>1. now # Absent /\ c.version <= now.version
    BY <1>3 DEF OldOrSame
  <2>2. /\ c.version \in Nat /\ now.version = Version(now) /\ Version(now) \in Nat
    BY <1>3, <2>1, Versions
  <2>3. c.version < next.version
    BY <2>1, <2>2
  <2>4. QED
    BY <1>1, <2>2, <2>3 DEF OldOrSame
<1>4. QED
  BY <1>2, <1>3

LEMMA WriteFacts ==
    ASSUME TypeOK, NEW k \in Keys, NEW e \in BOOLEAN, Write(k, e)
    PROVE  /\ row' \in Table /\ row'[k] \in Rows
           /\ row'[k].version = Version(row[k]) + 1
           /\ Version(row'[k]) = Version(row[k]) + 1
           /\ Version(row[k]) + 1 \in 1..MaxWrites
           /\ \A j \in Keys : j # k => row'[j] = row[j]
<1>1. row \in Table /\ row[k] \in MaybeRows
  BY DEF TypeOK, Table, MaybeRows
<1>2. Version(row[k]) + 1 \in 1..MaxWrites
  BY <1>1, Versions, KeysAssumption DEF Write
<1>3. row' = [row EXCEPT ![k] = Row(e, Version(row[k]) + 1)]
  BY DEF Write
<1>4. /\ Row(e, Version(row[k]) + 1) \in Rows
      /\ Row(e, Version(row[k]) + 1).version = Version(row[k]) + 1
      /\ Row(e, Version(row[k]) + 1) # Absent
  BY <1>2, RowParts
<1>5. row' \in Table /\ row'[k] = Row(e, Version(row[k]) + 1)
      /\ \A j \in Keys : j # k => row'[j] = row[j]
  BY <1>1, <1>3, <1>4 DEF Table
<1>6. QED
  BY <1>2, <1>4, <1>5 DEF Version

\* Writing a row leaves every copy as old as it was, or makes it older.
LEMMA WriteKeepsOldOrSame ==
    ASSUME TypeOK, NEW k \in Keys, NEW e \in BOOLEAN, Write(k, e),
           NEW j \in Keys, NEW c \in MaybeRows, OldOrSame(c, row[j])
    PROVE  OldOrSame(c, row'[j])
<1>1. CASE j = k
  <2>1. row[k] \in MaybeRows
    BY DEF TypeOK, Table, MaybeRows
  <2>2. QED
    BY <1>1, <2>1, WriteFacts, NewerThanCopies
<1>2. CASE j # k
  BY <1>2, WriteFacts
<1>3. QED
  BY <1>1, <1>2

LEMMA OldOrSameBasics ==
    /\ \A now : OldOrSame(Absent, now)
    /\ \A c \in MaybeRows : OldOrSame(c, c)
<1>1. \A c \in MaybeRows : c # Absent => c.version \in Nat
  BY Versions
<1>2. \A c \in MaybeRows : c # Absent => c.version <= c.version
  BY <1>1
<1>3. QED
  BY <1>2 DEF OldOrSame

LEMMA WriteKeepsCopies ==
    ASSUME Inv, NEW k \in Keys, NEW e \in BOOLEAN, Write(k, e),
           UNCHANGED <<cache, listing, requestVars>>
    PROVE  CopiesOld'
<1>1. TypeOK /\ CopiesOld
  BY DEF Inv
<1>2. /\ \A g \in Gateways, j \in Keys : cache[g][j] \in MaybeRows
      /\ \A g \in Gateways, j \in Keys : listing[g] # NoList => listing[g][j] \in MaybeRows
      /\ \A r \in Requests : copy[r] \in MaybeRows /\ key[r] \in Keys
  BY <1>1 DEF TypeOK, Table, MaybeRows, NoList
<1>3. \A j \in Keys : \A c \in MaybeRows : OldOrSame(c, row[j]) => OldOrSame(c, row'[j])
  BY <1>1, WriteKeepsOldOrSame
<1>4. \A g \in Gateways, j \in Keys : OldOrSame(cache'[g][j], row'[j])
  BY <1>1, <1>2, <1>3 DEF CopiesOld
<1>5. \A g \in Gateways : listing'[g] # NoList =>
          \A j \in Keys : OldOrSame(listing'[g][j], row'[j])
  BY <1>1, <1>2, <1>3 DEF CopiesOld
<1>6. \A r \in Requests : OldOrSame(copy'[r], row'[key'[r]])
  BY <1>1, <1>2, <1>3 DEF CopiesOld, requestVars
<1>7. \A r \in Requests : pc'[r] # "fill" => copy'[r] = Absent
  BY <1>1 DEF CopiesOld, requestVars
<1>8. QED
  BY <1>4, <1>5, <1>6, <1>7 DEF CopiesOld
-----------------------------------------------------------------------------
(* The writers.                                                            *)

Handlers == {"created", "updated", "deleted"}
Invalidates == [on : {"created", "updated", "deleted"}, key : Keys, home : Gateways]
Writes == [on : {"update", "spend"}, key : Keys, home : Processes, copy : Rows,
           asked : {"keep", "enable", "disable"}]

LEMMA WorkParts ==
    ASSUME TypeOK, NEW w \in Writers
    PROVE  /\ work[w].on \in Handlers => work[w] \in Invalidates
           /\ work[w].on \in {"update", "spend"} => work[w] \in Writes
<1>1. work[w] \in {Idle} \union Invalidates \union Writes
  BY DEF TypeOK, Invalidates, Writes
<1>2. Idle.on = "idle"
  BY DEF Idle
<1>3. \A x \in Invalidates : x.on \in {"created", "updated", "deleted"}
  BY DEF Invalidates
<1>4. \A x \in Writes : x.on \in {"update", "spend"}
  BY DEF Writes
<1>5. QED
  BY <1>1, <1>2, <1>3, <1>4 DEF Handlers

\* A writer that was not about to invalidate, and is not now.
LEMMA StillInvalidating ==
    ASSUME TypeOK, NEW w \in Writers, work[w].on \notin Handlers, NEW now,
           work' = [work EXCEPT ![w] = now], NEW g, NEW j, Invalidating(g, j)
    PROVE  Invalidating(g, j)'
BY DEF TypeOK, Invalidating, Handlers

\* A write by an administrator, as Create, Delete and UpdateStore make it.
LEMMA AdminWriteKeepsInv ==
    ASSUME Inv, NEW w \in Writers, NEW k \in Keys, NEW e \in BOOLEAN, NEW p \in Processes,
           NEW what \in Handlers, work[w].on \notin Handlers,
           AdminWrite(w, k, e, p, what),
           UNCHANGED <<cache, listing, requestVars, late>>
    PROVE  Inv'
<1>0. TypeOK /\ StaleOnlyByRace /\ WritesKnown /\ Write(k, e)
  BY DEF Inv, AdminWrite
<1>1. /\ row' \in Table /\ Version(row[k]) + 1 \in 1..MaxWrites
      /\ Version(row'[k]) = Version(row[k]) + 1
      /\ \A j \in Keys : j # k => row'[j] = row[j]
  BY <1>0, WriteFacts
<1>2. \A j \in Keys : Version(row[j]) \in Nat
  BY <1>0, Versions DEF TypeOK, Table, MaybeRows
<1>3. CopiesOld'
  BY <1>0, WriteKeepsCopies
<1>4. CASE p \in Gateways
  <2>1. /\ written' = [written EXCEPT ![p][k] = Version(row[k]) + 1]
        /\ \/ /\ work' = [work EXCEPT ![w] = [on |-> what, key |-> k, home |-> p]]
              /\ UNCHANGED unnoticed
           \/ /\ work' = [work EXCEPT ![w] = Idle]
              /\ unnoticed' = [unnoticed EXCEPT ![p][k] = TRUE]
    BY <1>4 DEF AdminWrite
  <2>2. TypeOK'
    <3>1. written' \in [Gateways -> [Keys -> 0..MaxWrites]]
      BY <1>0, <1>1, <1>4, <2>1 DEF TypeOK
    <3>2. [on |-> what, key |-> k, home |-> p]
            \in [on : {"created", "updated", "deleted"}, key : Keys, home : Gateways]
      BY <1>4 DEF Handlers
    <3>3. unnoticed' \in [Gateways -> [Keys -> BOOLEAN]]
      <4>1. unnoticed \in [Gateways -> [Keys -> BOOLEAN]]
        BY <1>0 DEF TypeOK
      <4>2. CASE UNCHANGED unnoticed
        BY <4>1, <4>2
      <4>3. CASE unnoticed' = [unnoticed EXCEPT ![p][k] = TRUE]
        BY <1>4, <4>1, <4>3
      <4>4. QED
        BY <2>1, <4>2, <4>3
    <3>4. CASE work' = [work EXCEPT ![w] = [on |-> what, key |-> k, home |-> p]]
      BY <1>0, <1>1, <3>1, <3>2, <3>3, <3>4 DEF TypeOK, requestVars
    <3>5. CASE work' = [work EXCEPT ![w] = Idle]
      BY <1>0, <1>1, <3>1, <3>3, <3>5 DEF TypeOK, requestVars
    <3>6. QED
      BY <2>1, <3>4, <3>5
  <2>3. \A g \in Gateways, j \in Keys :
          written'[g][j] = IF g = p /\ j = k THEN Version(row[k]) + 1 ELSE written[g][j]
    BY <1>0, <1>4, <2>1 DEF TypeOK
  <2>4. StaleOnlyByRace'
    <3> SUFFICES ASSUME NEW g \in Gateways, NEW j \in Keys,
                        ~Invalidating(g, j)', cache[g][j] # Absent,
                        cache[g][j].version < written'[g][j],
                        ~unnoticed'[g][j]
                 PROVE  late[g][j]
      BY DEF StaleOnlyByRace
    <3>1. ~(g = p /\ j = k)
      <4>1. CASE work' = [work EXCEPT ![w] = [on |-> what, key |-> k, home |-> p]]
        BY <1>0, <1>4, <4>1 DEF TypeOK, Invalidating, Handlers
      <4>2. CASE unnoticed' = [unnoticed EXCEPT ![p][k] = TRUE]
        BY <1>0, <1>4, <4>2 DEF TypeOK
      <4>3. QED
        BY <2>1, <4>1, <4>2
    <3>2. written'[g][j] = written[g][j] /\ ~unnoticed[g][j]
      BY <1>0, <2>1, <2>3, <3>1 DEF TypeOK
    <3>3. ~Invalidating(g, j)
      BY <1>0, <2>1, StillInvalidating
    <3>4. QED
      BY <1>0, <3>2, <3>3 DEF StaleOnlyByRace
  <2>5. WritesKnown'
    <3> SUFFICES ASSUME NEW g \in Gateways, NEW j \in Keys
                 PROVE  written'[g][j] <= Version(row'[j])
      BY DEF WritesKnown
    <3>1. written[g][j] <= Version(row[j]) /\ written[g][j] \in Nat
      BY <1>0 DEF WritesKnown, TypeOK
    <3>2. QED
      BY <1>1, <1>2, <2>3, <3>1
  <2>6. QED
    BY <1>3, <2>2, <2>4, <2>5 DEF Inv
<1>5. CASE p \notin Gateways
  <2>1. UNCHANGED <<written, unnoticed>> /\ work' = [work EXCEPT ![w] = Idle]
    BY <1>5 DEF AdminWrite
  <2>2. TypeOK'
    BY <1>0, <1>1, <2>1 DEF TypeOK, requestVars
  <2>3. StaleOnlyByRace'
    BY <1>0, <2>1, StillInvalidating DEF StaleOnlyByRace
  <2>4. WritesKnown'
    <3> SUFFICES ASSUME NEW g \in Gateways, NEW j \in Keys
                 PROVE  written[g][j] <= Version(row'[j])
      BY <2>1 DEF WritesKnown
    <3>1. written[g][j] <= Version(row[j]) /\ written[g][j] \in Nat
      BY <1>0 DEF WritesKnown, TypeOK
    <3>2. QED
      BY <1>1, <1>2, <3>1
  <2>5. QED
    BY <1>3, <2>2, <2>3, <2>4 DEF Inv
<1>6. QED
  BY <1>4, <1>5

LEMMA LoadKeepsInv ==
    ASSUME Inv, NEW w \in Writers, NEW k \in Keys, Load(w, k) PROVE Inv'
<1>0. TypeOK /\ StaleOnlyByRace /\ CopiesOld /\ WritesKnown
  BY DEF Inv
<1>1. PICK what \in {"update", "spend"}, asked \in {"keep", "enable", "disable"},
           p \in Processes :
        work' = [work EXCEPT ![w] = [on |-> what, key |-> k, home |-> p,
                                     copy |-> row[k], asked |-> asked]]
  BY DEF Load
<1>2. work[w].on \notin Handlers /\ row[k] \in Rows
      /\ UNCHANGED <<row, cache, listing, requestVars, written, late, unnoticed>>
  BY <1>0 DEF Load, Idle, Handlers, TypeOK, Table
<1>3. TypeOK'
  BY <1>0, <1>1, <1>2 DEF TypeOK, requestVars
<1>4. StaleOnlyByRace'
  BY <1>0, <1>1, <1>2, StillInvalidating DEF StaleOnlyByRace
<1>5. CopiesOld' /\ WritesKnown'
  BY <1>0, <1>2 DEF CopiesOld, WritesKnown, requestVars
<1>6. QED
  BY <1>3, <1>4, <1>5 DEF Inv

LEMMA SpendStoreKeepsInv ==
    ASSUME Inv, NEW w \in Writers, SpendStore(w) PROVE Inv'
<1> DEFINE k == work[w].key
           e == work[w].copy.enabled
<1>0. TypeOK /\ StaleOnlyByRace /\ WritesKnown
  BY DEF Inv
<1>1. /\ work[w].on = "spend" /\ Write(k, e) /\ work' = [work EXCEPT ![w] = Idle]
      /\ UNCHANGED <<cache, listing, requestVars, written, late, unnoticed>>
  BY DEF SpendStore
<1>2. work[w] \in Writes
  BY <1>0, <1>1, WorkParts
<1>3. k \in Keys /\ e \in BOOLEAN /\ work[w].on \notin Handlers
  BY <1>1, <1>2 DEF Writes, Rows, Handlers
<1>4. /\ row' \in Table
      /\ Version(row'[k]) = Version(row[k]) + 1
      /\ \A j \in Keys : j # k => row'[j] = row[j]
  BY <1>0, <1>1, <1>3, WriteFacts
<1>5. CopiesOld'
  BY <1>1, <1>3, WriteKeepsCopies
<1>6. TypeOK'
  BY <1>0, <1>1, <1>4 DEF TypeOK, requestVars
<1>7. StaleOnlyByRace'
  BY <1>0, <1>1, <1>3, StillInvalidating DEF StaleOnlyByRace
<1>8. WritesKnown'
  <2> SUFFICES ASSUME NEW g \in Gateways, NEW j \in Keys
               PROVE  written[g][j] <= Version(row'[j])
    BY <1>1 DEF WritesKnown
  <2>1. /\ written[g][j] <= Version(row[j]) /\ written[g][j] \in Nat
        /\ Version(row[j]) \in Nat
    BY <1>0, Versions DEF WritesKnown, TypeOK, Table, MaybeRows
  <2>2. QED
    BY <1>4, <2>1
<1>9. QED
  BY <1>5, <1>6, <1>7, <1>8 DEF Inv

LEMMA StoreFailsKeepsInv ==
    ASSUME Inv, NEW w \in Writers, StoreFails(w) PROVE Inv'
<1>0. TypeOK /\ StaleOnlyByRace /\ CopiesOld /\ WritesKnown
  BY DEF Inv
<1>1. /\ work[w].on \in {"update", "spend"} /\ work' = [work EXCEPT ![w] = Idle]
      /\ UNCHANGED <<row, cache, listing, requestVars, written, late, unnoticed>>
  BY DEF StoreFails
<1>2. work[w].on \notin Handlers
  BY <1>1 DEF Handlers
<1>3. TypeOK'
  BY <1>0, <1>1 DEF TypeOK, requestVars
<1>4. StaleOnlyByRace'
  BY <1>0, <1>1, <1>2, StillInvalidating DEF StaleOnlyByRace
<1>5. CopiesOld' /\ WritesKnown'
  BY <1>0, <1>1 DEF CopiesOld, WritesKnown, requestVars
<1>6. QED
  BY <1>3, <1>4, <1>5 DEF Inv

LEMMA InvalidateKeepsInv ==
    ASSUME Inv, NEW w \in Writers, Invalidate(w) PROVE Inv'
<1> DEFINE g0 == work[w].home
           k0 == work[w].key
<1>0. TypeOK /\ StaleOnlyByRace /\ CopiesOld /\ WritesKnown
  BY DEF Inv
<1>1. /\ work[w].on \in Handlers
      /\ cache' = [cache EXCEPT ![g0][k0] = Absent]
      /\ late' = [late EXCEPT ![g0][k0] = FALSE]
      /\ unnoticed' = [unnoticed EXCEPT ![g0][k0] = FALSE]
      /\ work' = [work EXCEPT ![w] = Idle]
      /\ UNCHANGED <<row, listing, requestVars, written>>
  BY DEF Invalidate, Handlers
<1>2. work[w] \in Invalidates
  BY <1>0, <1>1, WorkParts
<1>3. g0 \in Gateways /\ k0 \in Keys
  BY <1>2 DEF Invalidates
<1>4. /\ cache' \in [Gateways -> Table]
      /\ \A g \in Gateways, k \in Keys :
            cache'[g][k] = IF g = g0 /\ k = k0 THEN Absent ELSE cache[g][k]
  BY <1>0, <1>1, <1>3 DEF TypeOK, Table
<1>5. /\ late' \in [Gateways -> [Keys -> BOOLEAN]]
      /\ unnoticed' \in [Gateways -> [Keys -> BOOLEAN]]
  BY <1>0, <1>1, <1>3 DEF TypeOK
<1>6. \A g \in Gateways, k \in Keys : ~(g = g0 /\ k = k0) =>
          late'[g][k] = late[g][k] /\ unnoticed'[g][k] = unnoticed[g][k]
  BY <1>0, <1>1, <1>3 DEF TypeOK
<1>7. TypeOK'
  BY <1>0, <1>1, <1>4, <1>5 DEF TypeOK, requestVars
<1>8. StaleOnlyByRace'
  <2> SUFFICES ASSUME NEW g \in Gateways, NEW k \in Keys,
                      ~Invalidating(g, k)', cache'[g][k] # Absent,
                      cache'[g][k].version < written'[g][k],
                      ~unnoticed'[g][k]
               PROVE  late'[g][k]
    BY DEF StaleOnlyByRace
  <2>1. ~(g = g0 /\ k = k0) /\ cache'[g][k] = cache[g][k]
    BY <1>4
  <2>2. ~Invalidating(g, k)
    <3> SUFFICES ASSUME NEW v \in Writers, work[v].on \in Handlers,
                        work[v].key = k, work[v].home = g
                 PROVE  FALSE
      BY DEF Invalidating, Handlers
    <3>1. v # w
      BY <2>1
    <3>2. work'[v] = work[v]
      BY <1>0, <1>1, <3>1 DEF TypeOK
    <3>3. QED
      BY <3>2 DEF Invalidating, Handlers
  <2>3. QED
    BY <1>0, <1>1, <1>6, <2>1, <2>2 DEF StaleOnlyByRace
<1>9. CopiesOld' /\ WritesKnown'
  BY <1>0, <1>1, <1>4, OldOrSameBasics DEF CopiesOld, WritesKnown, requestVars
<1>10. QED
  BY <1>7, <1>8, <1>9 DEF Inv

\* The steps of the writers.
LEMMA AdministerKeepsInv ==
    ASSUME Inv, NEW w \in Writers, Administer(w) PROVE Inv'
<1>0. TypeOK
  BY DEF Inv
<1>1. ASSUME NEW k \in Keys, Create(w, k) PROVE Inv'
  <2>1. PICK p \in Processes : AdminWrite(w, k, TRUE, p, "created")
    BY <1>1 DEF Create
  <2>2. work[w].on \notin Handlers /\ UNCHANGED <<cache, listing, requestVars, late>>
    BY <1>1 DEF Create, Idle, Handlers
  <2>3. "created" \in Handlers
    BY DEF Handlers
  <2>4. QED
    BY <2>1, <2>2, <2>3, AdminWriteKeepsInv
<1>2. ASSUME NEW k \in Keys, Delete(w, k) PROVE Inv'
  <2>1. PICK p \in Processes : AdminWrite(w, k, FALSE, p, "deleted")
    BY <1>2 DEF Delete
  <2>2. work[w].on \notin Handlers /\ UNCHANGED <<cache, listing, requestVars, late>>
    BY <1>2 DEF Delete, Idle, Handlers
  <2>3. "deleted" \in Handlers
    BY DEF Handlers
  <2>4. QED
    BY <2>1, <2>2, <2>3, AdminWriteKeepsInv
<1>3. ASSUME UpdateStore(w) PROVE Inv'
  <2>1. work[w].on = "update" /\ work[w] \in Writes
    BY <1>0, <1>3, WorkParts DEF UpdateStore
  <2>2. work[w].key \in Keys /\ work[w].home \in Processes /\ work[w].on \notin Handlers
    BY <2>1 DEF Writes, Handlers
  <2>3. Asked(w) \in BOOLEAN /\ "updated" \in Handlers
    BY Zenon DEF Asked, Handlers
  <2>4. /\ AdminWrite(w, work[w].key, Asked(w), work[w].home, "updated")
        /\ UNCHANGED <<cache, listing, requestVars, late>>
    BY <1>3 DEF UpdateStore
  <2>5. QED
    BY <2>2, <2>3, <2>4, AdminWriteKeepsInv
<1>4. QED
  BY <1>1, <1>2, <1>3, LoadKeepsInv, SpendStoreKeepsInv, StoreFailsKeepsInv,
     InvalidateKeepsInv DEF Administer
-----------------------------------------------------------------------------
(* The refresh and the requests.                                           *)

LEMMA InitKeys == Init => Inv
<1> SUFFICES ASSUME Init PROVE Inv
  OBVIOUS
<1>1. Row(TRUE, 1) \in Rows
  <2>1. TRUE \in BOOLEAN
    BY Zenon
  <2>2. 1 \in 1..MaxWrites
    BY KeysAssumption
  <2>3. QED
    BY <2>1, <2>2, RowParts
<1>2. TypeOK
  <2>1. row \in Table /\ cache \in [Gateways -> Table]
    BY <1>1 DEF Init, Table
  <2>2. /\ late \in [Gateways -> [Keys -> BOOLEAN]]
        /\ unnoticed \in [Gateways -> [Keys -> BOOLEAN]]
    BY Zenon DEF Init
  <2>3. written \in [Gateways -> [Keys -> 0..MaxWrites]]
    BY KeysAssumption DEF Init
  <2>4. QED
    BY <2>1, <2>2, <2>3 DEF Init, TypeOK
<1>3. StaleOnlyByRace
  BY DEF Init, StaleOnlyByRace
<1>4. CopiesOld
  BY OldOrSameBasics DEF Init, CopiesOld
<1>5. WritesKnown
  BY <1>2, Versions DEF Init, WritesKnown, TypeOK, Table, MaybeRows
<1>6. QED
  BY <1>2, <1>3, <1>4, <1>5 DEF Inv

LEMMA ListKeepsInv ==
    ASSUME Inv, NEW g \in Gateways, List(g) PROVE Inv'
<1>0. TypeOK /\ StaleOnlyByRace /\ CopiesOld /\ WritesKnown
  BY DEF Inv
<1>1. /\ listing' = [listing EXCEPT ![g] = row]
      /\ UNCHANGED <<row, cache, work, requestVars, written, late, unnoticed>>
  BY DEF List
<1>2. TypeOK'
  BY <1>0, <1>1 DEF TypeOK, requestVars
<1>3. StaleOnlyByRace' /\ WritesKnown'
  BY <1>0, <1>1 DEF StaleOnlyByRace, Invalidating, WritesKnown
<1>4. \A k \in Keys : OldOrSame(row[k], row[k])
  BY <1>0, OldOrSameBasics DEF TypeOK, Table, MaybeRows
<1>5. CopiesOld'
  BY <1>0, <1>1, <1>4 DEF CopiesOld, requestVars, TypeOK
<1>6. QED
  BY <1>2, <1>3, <1>5 DEF Inv

LEMMA SwapKeepsInv ==
    ASSUME Inv, NEW g \in Gateways, Swap(g) PROVE Inv'
<1>0. TypeOK /\ StaleOnlyByRace /\ CopiesOld /\ WritesKnown
  BY DEF Inv
<1>1. /\ listing[g] # NoList
      /\ cache' = [cache EXCEPT ![g] = listing[g]]
      /\ late' = [late EXCEPT ![g] =
                     [k \in Keys |-> Version(listing[g][k]) < written[g][k]]]
      /\ unnoticed' = [unnoticed EXCEPT ![g] = [k \in Keys |-> FALSE]]
      /\ listing' = [listing EXCEPT ![g] = NoList]
      /\ UNCHANGED <<row, work, requestVars, written>>
  BY DEF Swap
<1>2. listing[g] \in Table /\ \A k \in Keys : listing[g][k] \in MaybeRows
  BY <1>0, <1>1 DEF TypeOK, Table, MaybeRows
<1>3. [k \in Keys |-> Version(listing[g][k]) < written[g][k]] \in [Keys -> BOOLEAN]
  OBVIOUS
<1>4. TypeOK'
  BY <1>0, <1>1, <1>2, <1>3 DEF TypeOK, requestVars
<1>5. ASSUME NEW h \in Gateways, h # g
      PROVE  cache'[h] = cache[h] /\ late'[h] = late[h] /\ unnoticed'[h] = unnoticed[h]
  BY <1>0, <1>1, <1>5 DEF TypeOK
<1>6. cache'[g] = listing[g]
      /\ \A k \in Keys : late'[g][k] = (Version(listing[g][k]) < written[g][k])
  BY <1>0, <1>1 DEF TypeOK
<1>7. StaleOnlyByRace'
  <2> SUFFICES ASSUME NEW h \in Gateways, NEW k \in Keys,
                      ~Invalidating(h, k), cache'[h][k] # Absent,
                      cache'[h][k].version < written[h][k],
                      ~unnoticed'[h][k]
               PROVE  late'[h][k]
    BY <1>1 DEF StaleOnlyByRace, Invalidating
  <2>1. CASE h = g
    <3>1. Version(listing[g][k]) = listing[g][k].version
      BY <1>6, <2>1 DEF Version
    <3>2. QED
      BY <1>6, <2>1, <3>1
  <2>2. CASE h # g
    BY <1>0, <1>5, <2>2 DEF StaleOnlyByRace
  <2>3. QED
    BY <2>1, <2>2
<1>8. CopiesOld' /\ WritesKnown'
  <2>1. \A h \in Gateways, k \in Keys : OldOrSame(cache'[h][k], row[k])
    BY <1>0, <1>1, <1>5, <1>6 DEF CopiesOld
  <2>2. QED
    BY <1>0, <1>1, <2>1 DEF CopiesOld, WritesKnown, requestVars, TypeOK
<1>9. QED
  BY <1>4, <1>7, <1>8 DEF Inv

LEMMA LookupKeepsInv ==
    ASSUME Inv, NEW r \in Requests, Lookup(r) PROVE Inv'
<1>0. TypeOK /\ StaleOnlyByRace /\ CopiesOld /\ WritesKnown
  BY DEF Inv
<1>1. PICK g \in Gateways, k \in Keys :
          /\ at' = [at EXCEPT ![r] = g]
          /\ key' = [key EXCEPT ![r] = k]
          /\ \/ Verdict(r, cache[g][k].enabled) /\ UNCHANGED pc
             \/ /\ answer' = [answer EXCEPT ![r] = "none"]
                /\ pc' = [pc EXCEPT ![r] = "query"]
  BY DEF Lookup
<1>2. pc[r] = "idle" /\ UNCHANGED <<row, cache, listing, work, copy, written, late,
                                     unnoticed>>
  BY DEF Lookup
<1>3. /\ answer' \in [Requests -> {"none", "accepted", "rejected"}]
      /\ pc' \in [Requests -> {"idle", "query", "fill"}]
      /\ \A q \in Requests : pc'[q] = "fill" => pc[q] = "fill" /\ q # r
      /\ \A q \in Requests : q # r => pc'[q] = pc[q] /\ key'[q] = key[q]
      /\ pc'[r] # "fill"
  BY <1>0, <1>1, <1>2 DEF TypeOK, Verdict
<1>4. TypeOK'
  BY <1>0, <1>1, <1>2, <1>3 DEF TypeOK
<1>5. StaleOnlyByRace' /\ WritesKnown'
  BY <1>0, <1>2 DEF StaleOnlyByRace, Invalidating, WritesKnown
<1>6. copy[r] = Absent
  BY <1>0, <1>2 DEF CopiesOld
<1>7. CopiesOld'
  BY <1>0, <1>2, <1>3, <1>6, OldOrSameBasics DEF CopiesOld
<1>8. QED
  BY <1>4, <1>5, <1>7 DEF Inv

LEMMA QueryKeepsInv ==
    ASSUME Inv, NEW r \in Requests, Query(r) PROVE Inv'
<1>0. TypeOK /\ StaleOnlyByRace /\ CopiesOld /\ WritesKnown
  BY DEF Inv
<1>1. pc[r] = "query" /\ UNCHANGED <<row, cache, listing, work, at, key, written,
                                      late, unnoticed>>
  BY DEF Query
<1>2. StaleOnlyByRace' /\ WritesKnown'
  BY <1>0, <1>1 DEF StaleOnlyByRace, Invalidating, WritesKnown
<1>3. CASE /\ Enabled(row[key[r]]) /\ UNCHANGED answer
           /\ copy' = [copy EXCEPT ![r] = row[key[r]]]
           /\ pc' = [pc EXCEPT ![r] = "fill"]
  <2>1. row[key[r]] \in MaybeRows /\ OldOrSame(row[key[r]], row[key[r]])
    BY <1>0, OldOrSameBasics DEF TypeOK, Table, MaybeRows
  <2>2. /\ copy'[r] = row[key[r]] /\ pc'[r] = "fill"
        /\ \A q \in Requests : q # r => copy'[q] = copy[q] /\ pc'[q] = pc[q]
    BY <1>0, <1>3 DEF TypeOK
  <2>3. TypeOK'
    BY <1>0, <1>1, <1>3, <2>1, <2>2 DEF TypeOK, MaybeRows
  <2>4. CopiesOld'
    BY <1>0, <1>1, <2>1, <2>2 DEF CopiesOld
  <2>5. QED
    BY <1>2, <2>3, <2>4 DEF Inv
<1>4. CASE /\ pc' = [pc EXCEPT ![r] = "idle"] /\ Verdict(r, FALSE) /\ UNCHANGED copy
  <2>1. \A q \in Requests : pc'[q] = IF q = r THEN "idle" ELSE pc[q]
    BY <1>0, <1>4 DEF TypeOK
  <2>2. TypeOK'
    BY <1>0, <1>1, <1>4, <2>1 DEF TypeOK, Verdict
  <2>3. CopiesOld'
    BY <1>0, <1>1, <1>4, <2>1 DEF CopiesOld
  <2>4. QED
    BY <1>2, <2>2, <2>3 DEF Inv
<1>5. QED
  BY <1>3, <1>4 DEF Query

LEMMA FillKeepsInv ==
    ASSUME Inv, NEW r \in Requests, Fill(r) PROVE Inv'
<1> DEFINE g == at[r]
           k == key[r]
           old == Version(copy[r]) < written[g][k]
<1>0. TypeOK /\ StaleOnlyByRace /\ CopiesOld /\ WritesKnown
  BY DEF Inv
<1>1. /\ pc[r] = "fill"
      /\ cache' = [cache EXCEPT ![g][k] = copy[r]]
      /\ late' = [late EXCEPT ![g][k] = old]
      /\ unnoticed' = [unnoticed EXCEPT ![g][k] = FALSE]
      /\ Verdict(r, copy[r].enabled)
      /\ copy' = [copy EXCEPT ![r] = Absent]
      /\ pc' = [pc EXCEPT ![r] = "idle"]
      /\ UNCHANGED <<row, listing, work, at, key, written>>
  BY DEF Fill
<1>2. /\ g \in Gateways /\ k \in Keys /\ copy[r] \in Rows /\ copy[r] # Absent
      /\ OldOrSame(copy[r], row[k])
  BY <1>0, <1>1 DEF TypeOK, Enabled, CopiesOld
<1>3. old \in BOOLEAN
  OBVIOUS
<1>4. /\ late' \in [Gateways -> [Keys -> BOOLEAN]]
      /\ unnoticed' \in [Gateways -> [Keys -> BOOLEAN]]
  BY <1>0, <1>1, <1>2, <1>3, Zenon DEF TypeOK
<1>5. \A h \in Gateways, j \in Keys :
          ~(h = g /\ j = k) => /\ late'[h][j] = late[h][j]
                               /\ unnoticed'[h][j] = unnoticed[h][j]
                               /\ cache'[h][j] = cache[h][j]
  BY <1>0, <1>1, <1>2 DEF TypeOK, Table
<1>6. cache' \in [Gateways -> Table] /\ cache'[g][k] = copy[r] /\ late'[g][k] = old
  BY <1>0, <1>1, <1>2 DEF TypeOK, Table
<1>7. \A q \in Requests :
          /\ pc'[q] = IF q = r THEN "idle" ELSE pc[q]
          /\ copy'[q] = IF q = r THEN Absent ELSE copy[q]
  BY <1>0, <1>1 DEF TypeOK
<1>8. TypeOK'
  <2>1. /\ pc' \in [Requests -> {"idle", "query", "fill"}]
        /\ copy' \in [Requests -> Rows \union {Absent}]
        /\ answer' \in [Requests -> {"none", "accepted", "rejected"}]
    BY <1>0, <1>1 DEF TypeOK, Verdict
  <2>2. \A q \in Requests : pc'[q] = "fill" => Enabled(copy'[q])
    BY <1>0, <1>7 DEF TypeOK
  <2>3. QED
    BY <1>0, <1>1, <1>4, <1>6, <2>1, <2>2 DEF TypeOK
<1>9. StaleOnlyByRace'
  <2> SUFFICES ASSUME NEW h \in Gateways, NEW j \in Keys,
                      ~Invalidating(h, j), cache'[h][j] # Absent,
                      cache'[h][j].version < written[h][j],
                      ~unnoticed'[h][j]
               PROVE  late'[h][j]
    BY <1>1 DEF StaleOnlyByRace, Invalidating
  <2>1. CASE h = g /\ j = k
    BY <1>2, <1>6, <2>1 DEF Version
  <2>2. CASE ~(h = g /\ j = k)
    BY <1>0, <1>5, <2>2 DEF StaleOnlyByRace
  <2>3. QED
    BY <2>1, <2>2
<1>10. CopiesOld' /\ WritesKnown'
  <2>1. \A h \in Gateways, j \in Keys : OldOrSame(cache'[h][j], row[j])
    BY <1>0, <1>2, <1>5, <1>6 DEF CopiesOld
  <2>2. QED
    BY <1>0, <1>1, <1>7, <2>1, OldOrSameBasics DEF CopiesOld, WritesKnown
<1>11. QED
  BY <1>8, <1>9, <1>10 DEF Inv

LEMMA StepKeys == Inv /\ [Next]_vars => Inv'
<1> SUFFICES ASSUME Inv, [Next]_vars PROVE Inv'
  OBVIOUS
<1>1. CASE UNCHANGED vars
  BY <1>1 DEF vars, requestVars, Inv, TypeOK, StaleOnlyByRace, Invalidating, CopiesOld,
              WritesKnown
<1>2. QED
  BY <1>1, AdministerKeepsInv, ListKeepsInv, SwapKeepsInv, LookupKeepsInv, QueryKeepsInv,
     FillKeepsInv DEF Next, Refresh, Authenticate

LEMMA KeysInvariant == Spec => []Inv
<1> QED
  BY InitKeys, StepKeys, PTL DEF Spec

\* Rows, caches, copies and what every administrator has in hand stay typed; a
\* request never has a row in hand that it did not find enabled.
THEOREM KeysTypeOK == Spec => []TypeOK
<1>1. Inv => TypeOK
  BY DEF Inv
<1>2. QED
  BY <1>1, KeysInvariant, PTL

\* Whichever handlers, lookups and refreshes run together, a cached copy older
\* than the last write of an admin handler of the process was stored after it,
\* or that handler took its write for failed.
THEOREM InvalidationForgetsNothing == Spec => []StaleOnlyByRace
<1>1. Inv => StaleOnlyByRace
  BY DEF Inv
<1>2. QED
  BY <1>1, KeysInvariant, PTL

\* A gateway sees the write of its own administrators unless overtaken, or
\* reported as failed: the copy it holds is neither older nor newer than the row, so it is the row.
THEOREM OwnWritesAreSeen == Spec => []SeenUnlessOvertaken
<1>1. Inv => SeenUnlessOvertaken
  <2> SUFFICES ASSUME Inv, NEW g \in Gateways, NEW k \in Keys, ~Invalidating(g, k),
                      written[g][k] = Version(row[k]), ~late[g][k],
                      ~unnoticed[g][k], cache[g][k] # Absent
               PROVE  cache[g][k] = row[k]
    BY DEF SeenUnlessOvertaken
  <2>1. OldOrSame(cache[g][k], row[k]) /\ ~(cache[g][k].version < written[g][k])
    BY DEF Inv, CopiesOld, StaleOnlyByRace
  <2>2. row[k] # Absent /\ cache[g][k].version <= row[k].version
    BY <2>1 DEF OldOrSame
  <2>3. cache[g][k] \in MaybeRows /\ row[k] \in MaybeRows
    BY DEF Inv, TypeOK, Table, MaybeRows
  <2>4. /\ cache[g][k].version \in Nat /\ row[k].version = Version(row[k])
        /\ Version(row[k]) \in Nat
    BY <2>2, <2>3, Versions
  <2>5. cache[g][k].version = row[k].version
    BY <2>1, <2>2, <2>4
  <2>6. QED
    BY <2>1, <2>5 DEF OldOrSame
<1>2. QED
  BY <1>1, KeysInvariant, PTL
===============================================================================
