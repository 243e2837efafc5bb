----------------------------- MODULE MemoryStore -----------------------------
(***************************************************************************)
(* The ephemeral record store (rds-discovery, records/memory.rs): the same *)
(* cells and decisions as FileStore over a map in memory, with the live    *)
(* count maintained incrementally and the collection cursor moved before   *)
(* the batch is retired.  The directory service collects on a timer.       *)
(***************************************************************************)
EXTENDS RecordEntry, FiniteSets, FiniteSetTheorems, TLAPS

CONSTANTS
    Endpoints,      \* endpoint keys, a set of numbers: the map orders them
    Entries,        \* the verified mutations callers may present
    Capacity,       \* with_capacity
    GcBatch,        \* GC_BATCH
    MaxStoreWall,   \* bound of the wall clock
    MaxContinuous,  \* bound of the continuous clock
    MaxSets         \* bound of the number of times the wall clock is set

LeaseValues ==
    [boot: Int, issued_at: Int, expires_at: Int, accepted_wall: Int,
     accepted_continuous: Int, deadline: Int]
Cells == [entry: Entries, lease: LeaseValues \cup {None}]

\* Nothing that is stored is None.
ASSUME StoreAssumption ==
    /\ IsFiniteSet(Endpoints)
    /\ Entries \subseteq Entry
    /\ MaxStoreWall \in Nat
    /\ None \notin LeaseValues
    /\ None \notin Cells
    /\ None \notin [entry: Entries, live: BOOLEAN]

VARIABLES
    storeWall, storeContinuous, sets,  \* the clock, and how often it was set
    entries,   \* Memory.entries
    observed,  \* Memory.observed_wall
    live,      \* Memory.live
    cursor,    \* Memory.cursor, 0 for none
    acked      \* history: every <<key, entry>> acknowledged

storeClock == <<storeWall, storeContinuous, sets>>
storeVars == <<storeClock, entries, observed, live, cursor, acked>>

StoreNow == [boot |-> 0, wall |-> storeWall, continuous |-> storeContinuous]
Remembered == {k \in Endpoints : entries[k] # None}
One(b) == IF b THEN 1 ELSE 0

StoreInit ==
    /\ storeWall = 0
    /\ storeContinuous = 0
    /\ sets = 0
    /\ entries = [k \in Endpoints |-> None]
    /\ observed = 0
    /\ live = 0
    /\ cursor = 0
    /\ acked = {}

Observed == Observes(0, observed, StoreNow) /\ observed' = storeWall

LiveAfter(k, cell) == live - One(Live(entries[k])) + One(Live(cell))

Replace(k, cell) ==
    /\ live' = LiveAfter(k, cell)
    /\ entries' = [entries EXCEPT ![k] = cell]

Full == Cardinality(Remembered) >= Capacity

\* access_admitted with an entry: put and remove.
Mutate(k, e, admitted) ==
    LET decision == Decide(entries[k], e, StoreNow)
        granted == IF decision.result = "ok" THEN {<<k, e>>} ELSE {}
        refused == \/ k \notin Remembered /\ Full
                   \/ Active(decision.cell) /\ ~admitted
    IN  /\ Observed
        /\ IF decision.cell # entries[k] /\ refused
           THEN UNCHANGED <<entries, live, acked>>
           ELSE Replace(k, decision.cell) /\ acked' = acked \cup granted
        /\ UNCHANGED <<storeClock, cursor>>

\* access without an entry: get.
Get(k) ==
    /\ Observed
    /\ Replace(k, DecideRead(entries[k], StoreNow).cell)
    /\ UNCHANGED <<storeClock, cursor, acked>>

Batch ==
    LET rest == {k \in Remembered : k > cursor}
    IN  {k \in rest : Cardinality({j \in rest : j <= k}) <= GcBatch}

Last(batch) == CHOOSE k \in batch : \A j \in batch : j <= k

\* collect_expired().
Collect ==
    LET retired == {k \in Batch : Retire(entries[k], StoreNow) # entries[k]}
    IN  /\ Observed
        /\ cursor' = IF Cardinality(Batch) = GcBatch THEN Last(Batch) ELSE 0
        /\ entries' = [k \in Endpoints |->
                          IF k \in retired THEN Retire(entries[k], StoreNow)
                          ELSE entries[k]]
        /\ live' = live - Cardinality({k \in retired : Live(entries[k])})
        /\ UNCHANGED <<storeClock, acked>>

StoreTick ==
    /\ storeWall < MaxStoreWall
    /\ storeContinuous < MaxContinuous
    /\ storeWall' = storeWall + 1
    /\ storeContinuous' = storeContinuous + 1
    /\ UNCHANGED <<sets, entries, observed, live, cursor, acked>>

StoreSetClock ==
    /\ sets < MaxSets
    /\ sets' = sets + 1
    /\ storeWall' \in (0..MaxStoreWall) \ {storeWall}
    /\ UNCHANGED <<storeContinuous, entries, observed, live, cursor, acked>>

StoreNext ==
    \/ \E k \in Endpoints, e \in Entries, admitted \in BOOLEAN : Mutate(k, e, admitted)
    \/ \E k \in Endpoints : Get(k)
    \/ Collect
    \/ StoreTick
    \/ StoreSetClock

StoreSpec == StoreInit /\ [][StoreNext]_storeVars

-----------------------------------------------------------------------------
(* Properties.                                                              *)

\* The incrementally maintained count is the number of live records, through
\* replacement of records by deletes, refusals and collection (live -= and
\* live += of access_admitted and collect_at; an error underflows a u64).
LiveCountExact == live = Cardinality({k \in Endpoints : Live(entries[k])})

\* Content that expires is reclaimed by some later batch, whatever the cursor
\* and the capacity are, unless the clock stays behind what was observed
\* (collect_at: the cursor moves before the batch is retired).
ExpiredIsCollected ==
    \A k \in Endpoints :
        []<>(\/ ~Active(entries[k])
             \/ ValidAt(entries[k].lease, StoreNow)
             \/ storeWall < observed)

\* What a caller can tell of a cell.
View(cell) ==
    IF cell = None THEN None
    ELSE [entry |-> cell.entry, live |-> cell.lease # None]

\* The store implements the abstract record store: every call, collection and
\* refusal is a step of RecordStore or changes nothing of it (access_admitted,
\* collect_at).
Abstract ==
    INSTANCE RecordStore WITH
        Keys <- Endpoints, cells <- [k \in Endpoints |-> View(entries[k])]
ImplementsRecordStore == Abstract!Spec

-----------------------------------------------------------------------------
(***************************************************************************)
(* Proofs.  The inductive invariant is the type of the cells: only what is *)
(* no None can be told from an absent cell or a dropped lease.  The steps  *)
(* are then followed case by case of Decide.                               *)
(***************************************************************************)

StoreTypeOK ==
    /\ storeWall \in Nat
    /\ storeContinuous \in Nat
    /\ entries \in [Endpoints -> Cells \cup {None}]

\* Stored::retire keeps the entry of a cell and drops at most its lease.
LEMMA RetireFacts ==
  ASSUME NEW cell \in Cells \cup {None}, NEW now
  PROVE  /\ Retire(cell, now) \in Cells \cup {None}
         /\ Retire(cell, now) = None <=> cell = None
         /\ cell # None => Retire(cell, now).entry = cell.entry
         /\ Retire(cell, now) # cell =>
               cell # None /\ cell.lease # None /\ Retire(cell, now).lease = None
<1>1. CASE Active(cell) /\ ~ValidAt(cell.lease, now)
  <2>1. cell \in Cells /\ cell.lease # None
    BY <1>1 DEF Active
  <2>2. Retire(cell, now) = [cell EXCEPT !.lease = None]
    BY <1>1 DEF Retire
  <2>3. [cell EXCEPT !.lease = None] \in Cells
    BY <2>1 DEF Cells
  <2>4. [cell EXCEPT !.lease = None].entry = cell.entry /\ [cell EXCEPT !.lease = None].lease = None
    BY <2>1 DEF Cells
  <2> QED BY <2>1, <2>2, <2>3, <2>4, StoreAssumption
<1>2. CASE ~(Active(cell) /\ ~ValidAt(cell.lease, now))
  <2>1. Retire(cell, now) = cell
    BY <1>2 DEF Retire
  <2> QED BY <2>1
<1> QED BY <1>1, <1>2

\* A mutation that is accepted is stored under a lease.
LEMMA AcceptedFacts ==
  ASSUME StoreTypeOK, NEW e \in Entries
  PROVE  /\ Accepted(e, StoreNow) \in Cells
         /\ Accepted(e, StoreNow) # None
         /\ Accepted(e, StoreNow).entry = e
         /\ Accepted(e, StoreNow).lease # None
<1>1. e.issued \in Nat /\ e.expires \in Nat
  BY StoreAssumption DEF Entry
<1>2. FromSecs(e.expires) \in Int
  BY <1>1, SecondAssumption DEF FromSecs
<1>3. NewLease(e.issued, e.expires, StoreNow) \in LeaseValues
  BY <1>1, <1>2 DEF NewLease, LeaseValues, StoreNow, StoreTypeOK
<1>4. Accepted(e, StoreNow) = [entry |-> e, lease |-> NewLease(e.issued, e.expires, StoreNow)]
  BY DEF Accepted
<1> QED BY <1>3, <1>4, StoreAssumption DEF Cells

\* decide() accepts a higher revision under a new lease, or retires what has
\* expired; then it acknowledges exact retries of live content only.
LEMMA DecideFacts ==
  ASSUME NEW cell \in Cells \cup {None}, NEW e, NEW now
  PROVE  \/ /\ Decide(cell, e, now).cell = Accepted(e, now)
            /\ Decide(cell, e, now).result = "ok"
            /\ cell = None \/ e.revision > cell.entry.revision
         \/ /\ Decide(cell, e, now).cell = Retire(cell, now)
            /\ Decide(cell, e, now).result = "ok" =>
                  /\ cell # None
                  /\ Retire(cell, now).entry = e
                  /\ Retire(cell, now).lease # None
<1> DEFINE current == Retire(cell, now)
           err == LeaseError(e.issued, e.expires, now)
<1>1. /\ current = None <=> cell = None
      /\ cell # None => current.entry = cell.entry
  BY RetireFacts
<1>2. CASE err # "none"
  <2>1. err # "ok"
    BY DEF LeaseError
  <2>2. Decide(cell, e, now) = [cell |-> current, result |-> err]
    BY <1>2 DEF Decide
  <2> QED BY <2>1, <2>2
<1>3. CASE err = "none" /\ (current = None \/ e.revision > current.entry.revision)
  <2>1. Decide(cell, e, now) = [cell |-> Accepted(e, now), result |-> "ok"]
    BY <1>3 DEF Decide
  <2> QED BY <2>1, <1>1, <1>3
<1>4. CASE err = "none" /\ ~(current = None \/ e.revision > current.entry.revision)
  <2>1. Decide(cell, e, now) =
          [cell |-> current,
           result |-> IF current.entry # e THEN "stale"
                      ELSE IF current.lease = None THEN "expired" ELSE "ok"]
    BY <1>4 DEF Decide
  <2> QED BY <2>1, <1>1, <1>4
<1> QED BY <1>2, <1>3, <1>4

\* What a call leaves in a cell.
LEMMA DecidedCell ==
  ASSUME StoreTypeOK, NEW k \in Endpoints, NEW e \in Entries
  PROVE  /\ Decide(entries[k], e, StoreNow).cell \in Cells \cup {None}
         /\ DecideRead(entries[k], StoreNow).cell = Retire(entries[k], StoreNow)
         /\ Retire(entries[k], StoreNow) \in Cells \cup {None}
<1>1. entries[k] \in Cells \cup {None}
  BY DEF StoreTypeOK
<1>2. Retire(entries[k], StoreNow) \in Cells \cup {None}
  BY <1>1, RetireFacts
<1>3. Accepted(e, StoreNow) \in Cells
  BY AcceptedFacts
<1>4. \/ Decide(entries[k], e, StoreNow).cell = Accepted(e, StoreNow)
      \/ Decide(entries[k], e, StoreNow).cell = Retire(entries[k], StoreNow)
  BY <1>1, DecideFacts
<1>5. DecideRead(entries[k], StoreNow).cell = Retire(entries[k], StoreNow)
  BY DEF DecideRead
<1> QED BY <1>2, <1>3, <1>4, <1>5

\* What a collection leaves in the cells: some of those with a lease lose it.
LEMMA CollectFacts ==
  ASSUME StoreTypeOK, Collect
  PROVE  \E retired \in SUBSET Endpoints :
            /\ entries' = [k \in Endpoints |->
                             IF k \in retired THEN Retire(entries[k], StoreNow)
                             ELSE entries[k]]
            /\ \A k \in retired : Retire(entries[k], StoreNow) # entries[k]
            /\ live' = live - Cardinality({k \in retired : Live(entries[k])})
            /\ acked' = acked
            /\ storeWall' = storeWall /\ storeContinuous' = storeContinuous
<1> DEFINE gone == {k \in Batch : Retire(entries[k], StoreNow) # entries[k]}
<1>1. gone \in SUBSET Endpoints
  BY DEF Batch, Remembered
<1>2. /\ entries' = [k \in Endpoints |->
                       IF k \in gone THEN Retire(entries[k], StoreNow) ELSE entries[k]]
      /\ live' = live - Cardinality({k \in gone : Live(entries[k])})
      /\ acked' = acked
      /\ storeWall' = storeWall /\ storeContinuous' = storeContinuous
  BY DEF Collect, storeClock
<1>3. \A k \in gone : Retire(entries[k], StoreNow) # entries[k]
  OBVIOUS
<1> HIDE DEF gone
<1> QED BY <1>1, <1>2, <1>3

LEMMA StoreTypeStep ==
  ASSUME StoreTypeOK, [StoreNext]_storeVars
  PROVE  StoreTypeOK'
<1>1. ASSUME NEW k \in Endpoints, NEW e \in Entries, NEW admitted \in BOOLEAN,
             Mutate(k, e, admitted)
      PROVE  StoreTypeOK'
  <2>1. \/ entries' = entries
        \/ entries' = [entries EXCEPT ![k] = Decide(entries[k], e, StoreNow).cell]
    BY <1>1 DEF Mutate, Replace
  <2>2. storeWall' = storeWall /\ storeContinuous' = storeContinuous
    BY <1>1 DEF Mutate, storeClock
  <2> QED BY <2>1, <2>2, DecidedCell DEF StoreTypeOK
<1>2. ASSUME NEW k \in Endpoints, Get(k) PROVE StoreTypeOK'
  <2>1. entries' = [entries EXCEPT ![k] = Retire(entries[k], StoreNow)]
    BY <1>2 DEF Get, Replace, DecideRead
  <2>2. Retire(entries[k], StoreNow) \in Cells \cup {None}
    BY RetireFacts DEF StoreTypeOK
  <2> QED BY <1>2, <2>1, <2>2 DEF StoreTypeOK, Get, storeClock
<1>3. CASE Collect
  <2>1. \A k \in Endpoints : Retire(entries[k], StoreNow) \in Cells \cup {None}
    BY RetireFacts DEF StoreTypeOK
  <2> QED BY <1>3, <2>1, CollectFacts DEF StoreTypeOK
<1>4. CASE StoreTick
  BY <1>4 DEF StoreTick, StoreTypeOK
<1>5. CASE StoreSetClock
  BY <1>5, StoreAssumption DEF StoreSetClock, StoreTypeOK
<1>6. CASE UNCHANGED storeVars
  BY <1>6 DEF storeVars, storeClock, StoreTypeOK
<1> QED BY <1>1, <1>2, <1>3, <1>4, <1>5, <1>6 DEF StoreNext

-----------------------------------------------------------------------------
(* Refinement.                                                              *)

\* A caller sees of a retired cell its entry, and that it is not live.
LEMMA ViewFacts ==
  ASSUME NEW cell \in Cells \cup {None}
  PROVE  /\ cell = None => View(cell) = None
         /\ cell # None => View(cell).entry = cell.entry
         /\ cell # None /\ cell.lease # None =>
               View(cell) = [entry |-> cell.entry, live |-> TRUE]
         /\ cell # None /\ cell.lease = None =>
               View(cell) = [entry |-> cell.entry, live |-> FALSE]
<1>1. cell # None => View(cell) = [entry |-> cell.entry, live |-> cell.lease # None]
  BY DEF View
<1>2. ASSUME cell # None, cell.lease # None
      PROVE  (cell.lease # None) = TRUE
  BY <1>2
<1>3. ASSUME cell # None, cell.lease = None
      PROVE  (cell.lease # None) = FALSE
  BY <1>3
<1>4. cell = None => View(cell) = None
  BY DEF View
<1>5. cell # None => View(cell).entry = cell.entry
  BY <1>1
<1>6. ASSUME cell # None, cell.lease # None
      PROVE  View(cell) = [entry |-> cell.entry, live |-> TRUE]
  BY <1>1, <1>2, <1>6, Zenon
<1>7. ASSUME cell # None, cell.lease = None
      PROVE  View(cell) = [entry |-> cell.entry, live |-> FALSE]
  BY <1>1, <1>3, <1>7, Zenon
<1> QED BY <1>4, <1>5, <1>6, <1>7

Seen == [k \in Endpoints |-> View(entries[k])]

\* The view of a live cell, and what becomes of it when the cell lapses.
LEMMA LiveField ==
  ASSUME NEW x, NEW r, r = [entry |-> x, live |-> TRUE]
  PROVE  r.live = TRUE
OBVIOUS

LEMMA ReplacedField ==
  ASSUME NEW x, NEW a, NEW b
  PROVE  [[entry |-> x, live |-> a] EXCEPT !.live = b] = [entry |-> x, live |-> b]
OBVIOUS

LEMMA LapsedField ==
  ASSUME NEW x, NEW r, r = [entry |-> x, live |-> TRUE]
  PROVE  [r EXCEPT !.live = FALSE] = [entry |-> x, live |-> FALSE]
<1>1. [[entry |-> x, live |-> TRUE] EXCEPT !.live = FALSE] = [entry |-> x, live |-> FALSE]
  BY ReplacedField, Zenon
<1> QED BY <1>1, Zenon

\* A step that changes one cell changes one cell of what callers see.
LEMMA OneSeen ==
  ASSUME StoreTypeOK, NEW k \in Endpoints, NEW cell, entries' = [entries EXCEPT ![k] = cell]
  PROVE  Seen' = [Seen EXCEPT ![k] = View(cell)]
<1>1. \A j \in Endpoints : View(entries[j])' = IF j = k THEN View(cell) ELSE View(entries[j])
  BY DEF StoreTypeOK, View
<1> QED BY <1>1 DEF Seen

\* The content of live cells may lapse at any time (Abstract!Expire).
LEMMA LapseStep ==
  ASSUME StoreTypeOK, NEW retired \in SUBSET Endpoints,
         \A k \in retired : Retire(entries[k], StoreNow) # entries[k],
         entries' = [k \in Endpoints |->
                       IF k \in retired THEN Retire(entries[k], StoreNow) ELSE entries[k]],
         acked' = acked
  PROVE  [Abstract!Next]_(Abstract!vars)
<1>1. ASSUME NEW k \in retired
      PROVE  /\ View(entries[k]) # None
             /\ View(entries[k]) = [entry |-> entries[k].entry, live |-> TRUE]
             /\ View(Retire(entries[k], StoreNow)) = [entry |-> entries[k].entry, live |-> FALSE]
  <2>1. entries[k] \in Cells \cup {None} /\ Retire(entries[k], StoreNow) \in Cells \cup {None}
    BY RetireFacts DEF StoreTypeOK
  <2>2. /\ entries[k] # None /\ entries[k].lease # None
        /\ Retire(entries[k], StoreNow) # None
        /\ Retire(entries[k], StoreNow).lease = None
        /\ Retire(entries[k], StoreNow).entry = entries[k].entry
    BY <2>1, RetireFacts
  <2>3. [entry |-> entries[k].entry, live |-> TRUE] \in [entry: Entries, live: BOOLEAN]
    BY <2>1, <2>2 DEF Cells
  <2>4. /\ View(entries[k]) = [entry |-> entries[k].entry, live |-> TRUE]
        /\ View(Retire(entries[k], StoreNow)) =
              [entry |-> Retire(entries[k], StoreNow).entry, live |-> FALSE]
    BY <2>1, <2>2, ViewFacts, Zenon
  <2> QED BY <2>2, <2>3, <2>4, StoreAssumption, Zenon
<1>2. ASSUME NEW k \in retired
      PROVE  /\ Seen[k] # None
             /\ Seen[k].live
             /\ View(Retire(entries[k], StoreNow)) = [Seen[k] EXCEPT !.live = FALSE]
  <2>1. Seen[k] = [entry |-> entries[k].entry, live |-> TRUE]
    BY <1>1 DEF Seen
  <2>2. Seen[k].live = TRUE
    BY <2>1, LiveField, Zenon
  <2>3. [Seen[k] EXCEPT !.live = FALSE] = [entry |-> entries[k].entry, live |-> FALSE]
    BY <2>1, LapsedField, Zenon
  <2> QED BY <1>1, <2>1, <2>2, <2>3, Zenon
<1>3. Seen' = [k \in Endpoints |-> IF k \in retired THEN [Seen[k] EXCEPT !.live = FALSE] ELSE Seen[k]]
  <2>1. ASSUME NEW k \in Endpoints
        PROVE  View(entries[k])' =
                 IF k \in retired THEN [Seen[k] EXCEPT !.live = FALSE] ELSE Seen[k]
    <3>1. CASE k \in retired
      <4>1. View(entries[k])' = View(Retire(entries[k], StoreNow))
        BY <3>1 DEF View
      <4> QED BY <4>1, <3>1, <1>2, Zenon
    <3>2. CASE k \notin retired
      <4>1. View(entries[k])' = View(entries[k])
        BY <3>2 DEF View
      <4> QED BY <4>1, <3>2 DEF Seen
    <3> QED BY <3>1, <3>2
  <2> QED BY <2>1, Zenon DEF Seen
<1>4. CASE retired = {}
  <2>1. Seen' = Seen
    BY <1>3, <1>4 DEF Seen
  <2> QED BY <2>1 DEF Seen, Abstract!vars
<1>5. CASE retired # {}
  <2>1. Abstract!Expire(retired)
    BY <1>2, <1>3, <1>5, Zenon DEF Abstract!Expire, Seen
  <2> QED BY <2>1 DEF Abstract!Next, Abstract!vars
<1> QED BY <1>4, <1>5

\* A higher revision replaces what a cell holds (Abstract!Accept).
LEMMA AcceptStep ==
  ASSUME StoreTypeOK, NEW k \in Endpoints, NEW e \in Entries,
         entries[k] = None \/ e.revision > entries[k].entry.revision,
         entries' = [entries EXCEPT ![k] = Accepted(e, StoreNow)],
         acked' = acked \cup {<<k, e>>}
  PROVE  [Abstract!Next]_(Abstract!vars)
<1>1. View(Accepted(e, StoreNow)) = [entry |-> e, live |-> TRUE]
  <2>1. /\ Accepted(e, StoreNow) \in Cells
        /\ Accepted(e, StoreNow) # None /\ Accepted(e, StoreNow).lease # None
        /\ Accepted(e, StoreNow).entry = e
    BY AcceptedFacts
  <2>2. View(Accepted(e, StoreNow)) = [entry |-> Accepted(e, StoreNow).entry, live |-> TRUE]
    BY <2>1, ViewFacts, Zenon
  <2> QED BY <2>1, <2>2, Zenon
<1>2. Seen' = [Seen EXCEPT ![k] = [entry |-> e, live |-> TRUE]]
  <2>1. Seen' = [Seen EXCEPT ![k] = View(Accepted(e, StoreNow))]
    BY OneSeen
  <2> QED BY <2>1, <1>1, Zenon
<1>3. Abstract!Supersedes(e, Seen[k])
  <2>1. Seen[k] = View(entries[k]) /\ entries[k] \in Cells \cup {None}
    BY DEF Seen, StoreTypeOK
  <2>2. entries[k] = None => Seen[k] = None
    BY <2>1, ViewFacts, Zenon
  <2>3. entries[k] # None => Seen[k].entry = entries[k].entry
    BY <2>1, ViewFacts, Zenon
  <2> QED BY <2>2, <2>3 DEF Abstract!Supersedes
<1>4. Abstract!Accept(k, e)
  BY <1>2, <1>3, Zenon DEF Abstract!Accept, Seen
<1> QED BY <1>4 DEF Abstract!Next, Abstract!vars

\* An exact retry of live content is acknowledged again (Abstract!Acknowledge).
LEMMA RetryStep ==
  ASSUME StoreTypeOK, NEW k \in Endpoints, NEW e \in Entries,
         entries[k] # None, entries[k].entry = e, entries[k].lease # None,
         entries' = entries,
         acked' = acked \cup {<<k, e>>}
  PROVE  [Abstract!Next]_(Abstract!vars)
<1>1. Seen[k] = [entry |-> e, live |-> TRUE]
  <2>1. Seen[k] = View(entries[k]) /\ entries[k] \in Cells \cup {None}
    BY DEF Seen, StoreTypeOK
  <2>2. View(entries[k]) = [entry |-> entries[k].entry, live |-> TRUE]
    BY <2>1, ViewFacts, Zenon
  <2> QED BY <2>1, <2>2, Zenon
<1>2. Seen' = Seen
  BY DEF Seen, View
<1>3. Abstract!Acknowledge(k, e)
  BY <1>1, <1>2, Zenon DEF Abstract!Acknowledge, Seen
<1> QED BY <1>3 DEF Abstract!Next, Abstract!vars

\* Nothing that a caller sees changes.
LEMMA StutterStep ==
  ASSUME entries' = entries, acked' = acked
  PROVE  [Abstract!Next]_(Abstract!vars)
BY DEF Abstract!vars, View

\* put and remove.
LEMMA MutateRefines ==
  ASSUME StoreTypeOK, NEW k \in Endpoints, NEW e \in Entries, NEW admitted \in BOOLEAN,
         Mutate(k, e, admitted)
  PROVE  [Abstract!Next]_(Abstract!vars)
<1> DEFINE decision == Decide(entries[k], e, StoreNow)
           granted == IF decision.result = "ok" THEN {<<k, e>>} ELSE {}
<1>1. entries[k] \in Cells \cup {None}
  BY DEF StoreTypeOK
<1>2. \/ entries' = entries /\ acked' = acked
      \/ /\ entries' = [entries EXCEPT ![k] = decision.cell]
         /\ acked' = acked \cup granted
  BY DEF Mutate, Replace
<1>3. CASE entries' = entries /\ acked' = acked
  BY <1>3, StutterStep
<1>4. ASSUME entries' = [entries EXCEPT ![k] = decision.cell], acked' = acked \cup granted,
             decision.cell = Accepted(e, StoreNow), decision.result = "ok",
             entries[k] = None \/ e.revision > entries[k].entry.revision
      PROVE  [Abstract!Next]_(Abstract!vars)
  BY <1>4, AcceptStep
<1>5. ASSUME entries' = [entries EXCEPT ![k] = decision.cell], acked' = acked \cup granted,
             decision.cell = Retire(entries[k], StoreNow),
             decision.result = "ok" =>
                /\ entries[k] # None
                /\ Retire(entries[k], StoreNow).entry = e
                /\ Retire(entries[k], StoreNow).lease # None
      PROVE  [Abstract!Next]_(Abstract!vars)
  <2>1. CASE Retire(entries[k], StoreNow) = entries[k]
    <3>1. entries' = entries
      BY <1>5, <2>1 DEF StoreTypeOK
    <3>2. CASE decision.result = "ok"
      <4>1. acked' = acked \cup {<<k, e>>}
        BY <1>5, <3>2
      <4> HIDE DEF decision
      <4> QED BY <1>5, <2>1, <3>1, <3>2, <4>1, RetryStep
    <3>3. CASE decision.result # "ok"
      <4>1. acked' = acked
        BY <1>5, <3>3
      <4> QED BY <3>1, <4>1, StutterStep
    <3> QED BY <3>2, <3>3
  <2>2. CASE Retire(entries[k], StoreNow) # entries[k]
    <3>1. Retire(entries[k], StoreNow).lease = None
      BY <1>1, <2>2, RetireFacts
    <3>2. acked' = acked
      BY <1>5, <3>1
    <3>3. entries' = [j \in Endpoints |->
                        IF j \in {k} THEN Retire(entries[j], StoreNow) ELSE entries[j]]
      BY <1>5 DEF StoreTypeOK
    <3>4. \A j \in {k} : Retire(entries[j], StoreNow) # entries[j]
      BY <2>2
    <3>5. {k} \in SUBSET Endpoints
      OBVIOUS
    <3> HIDE DEF decision
    <3> QED BY <3>2, <3>3, <3>4, <3>5, LapseStep
  <2> QED BY <2>1, <2>2
<1>6. \/ /\ decision.cell = Accepted(e, StoreNow)
         /\ decision.result = "ok"
         /\ entries[k] = None \/ e.revision > entries[k].entry.revision
      \/ /\ decision.cell = Retire(entries[k], StoreNow)
         /\ decision.result = "ok" =>
               /\ entries[k] # None
               /\ Retire(entries[k], StoreNow).entry = e
               /\ Retire(entries[k], StoreNow).lease # None
  BY <1>1, DecideFacts
<1> HIDE DEF decision, granted
<1> QED BY <1>2, <1>3, <1>4, <1>5, <1>6, Zenon

\* Every put, remove, get and collection of the ephemeral store is a step that
\* the contract of a record store allows, or changes nothing a caller can see:
\* revisions only rise, floors outlive their content, and only live content is
\* acknowledged (RecordStore, access_admitted, collect_at).
THEOREM StoreRefines == StoreSpec => ImplementsRecordStore
<1>1. StoreInit => StoreTypeOK /\ Abstract!Init
  BY DEF StoreInit, StoreTypeOK, Abstract!Init, View
<1>2. StoreTypeOK /\ [StoreNext]_storeVars => StoreTypeOK'
  BY StoreTypeStep
<1>3. StoreTypeOK /\ [StoreNext]_storeVars => [Abstract!Next]_(Abstract!vars)
  <2> SUFFICES ASSUME StoreTypeOK, [StoreNext]_storeVars
               PROVE  [Abstract!Next]_(Abstract!vars)
    OBVIOUS
  <2>1. ASSUME NEW k \in Endpoints, NEW e \in Entries, NEW admitted \in BOOLEAN,
               Mutate(k, e, admitted)
        PROVE  [Abstract!Next]_(Abstract!vars)
    BY <2>1, MutateRefines
  <2>2. ASSUME NEW k \in Endpoints, Get(k) PROVE [Abstract!Next]_(Abstract!vars)
    <3>1. entries' = [entries EXCEPT ![k] = Retire(entries[k], StoreNow)] /\ acked' = acked
      BY <2>2 DEF Get, Replace, DecideRead
    <3>2. CASE Retire(entries[k], StoreNow) = entries[k]
      <4>1. entries' = entries
        BY <3>1, <3>2 DEF StoreTypeOK
      <4> QED BY <3>1, <4>1, StutterStep
    <3>3. CASE Retire(entries[k], StoreNow) # entries[k]
      <4>1. entries' = [j \in Endpoints |->
                          IF j \in {k} THEN Retire(entries[j], StoreNow) ELSE entries[j]]
        BY <3>1 DEF StoreTypeOK
      <4>2. \A j \in {k} : Retire(entries[j], StoreNow) # entries[j]
        BY <3>3
      <4>3. {k} \in SUBSET Endpoints
        OBVIOUS
      <4> QED BY <3>1, <4>1, <4>2, <4>3, LapseStep
    <3> QED BY <3>2, <3>3
  <2>3. CASE Collect
    <3>1. PICK retired \in SUBSET Endpoints :
             /\ entries' = [k \in Endpoints |->
                              IF k \in retired THEN Retire(entries[k], StoreNow)
                              ELSE entries[k]]
             /\ \A k \in retired : Retire(entries[k], StoreNow) # entries[k]
             /\ acked' = acked
      BY <2>3, CollectFacts
    <3> QED BY <3>1, LapseStep
  <2>4. CASE StoreTick \/ StoreSetClock \/ UNCHANGED storeVars
    <3>1. entries' = entries /\ acked' = acked
      BY <2>4 DEF StoreTick, StoreSetClock, storeVars
    <3> QED BY <3>1, StutterStep
  <2> QED BY <2>1, <2>2, <2>3, <2>4 DEF StoreNext
<1> QED BY <1>1, <1>2, <1>3, PTL DEF StoreSpec, ImplementsRecordStore, Abstract!Spec

-----------------------------------------------------------------------------
(* The count of live records.                                               *)

Recorded == {k \in Endpoints : Live(entries[k])}

LEMMA RecordedFinite ==
  /\ IsFiniteSet(Recorded)
  /\ Cardinality(Recorded) \in Nat
BY StoreAssumption, FS_Subset, FS_CardinalityType DEF Recorded

\* One cell is replaced and the count corrected by it (live -= and live +=).
LEMMA ReplaceCounts ==
  ASSUME StoreTypeOK, LiveCountExact, NEW k \in Endpoints, NEW cell, Replace(k, cell)
  PROVE  LiveCountExact'
<1>1. /\ live = Cardinality(Recorded)
      /\ LiveCountExact' <=> live' = Cardinality(Recorded')
  BY DEF LiveCountExact, Recorded
<1>2. entries' = [entries EXCEPT ![k] = cell]
  BY DEF Replace
<1>3. \A j \in Endpoints : entries'[j] = IF j = k THEN cell ELSE entries[j]
  BY <1>2 DEF StoreTypeOK
<1>4. \A j \in Endpoints : j \in Recorded' <=> Live(entries'[j])
  BY DEF Recorded
<1>5. Recorded' \subseteq Endpoints /\ Recorded \subseteq Endpoints
  BY DEF Recorded
<1>6. k \in Recorded <=> Live(entries[k])
  BY DEF Recorded
<1>7. Recorded' = IF Live(cell) THEN Recorded \cup {k} ELSE Recorded \ {k}
  <2>1. \A j \in Endpoints : j # k => (j \in Recorded' <=> j \in Recorded)
    BY <1>3, <1>4, Zenon DEF Recorded
  <2>2. k \in Recorded' <=> Live(cell)
    BY <1>3, <1>4, Zenon
  <2> QED BY <2>1, <2>2, <1>5
<1>8. live' = live - One(Live(entries[k])) + One(Live(cell))
  BY DEF Replace, LiveAfter
<1>9. /\ Live(cell) => One(Live(cell)) = 1
      /\ ~Live(cell) => One(Live(cell)) = 0
      /\ Live(entries[k]) => One(Live(entries[k])) = 1
      /\ ~Live(entries[k]) => One(Live(entries[k])) = 0
  BY DEF One
<1>10. /\ Cardinality(Recorded \cup {k}) =
              IF k \in Recorded THEN Cardinality(Recorded) ELSE Cardinality(Recorded) + 1
       /\ Cardinality(Recorded \ {k}) =
              IF k \in Recorded THEN Cardinality(Recorded) - 1 ELSE Cardinality(Recorded)
  BY RecordedFinite, FS_AddElement, FS_RemoveElement
<1>11. Cardinality(Recorded) \in Nat
  BY RecordedFinite
<1> QED BY <1>1, <1>6, <1>7, <1>8, <1>9, <1>10, <1>11

\* A collection takes from the count the live records that it retires.
LEMMA CollectCounts ==
  ASSUME StoreTypeOK, LiveCountExact, Collect
  PROVE  LiveCountExact'
<1>1. PICK retired \in SUBSET Endpoints :
         /\ entries' = [k \in Endpoints |->
                          IF k \in retired THEN Retire(entries[k], StoreNow)
                          ELSE entries[k]]
         /\ \A k \in retired : Retire(entries[k], StoreNow) # entries[k]
         /\ live' = live - Cardinality({k \in retired : Live(entries[k])})
  BY CollectFacts
<1> DEFINE gone == {k \in retired : Live(entries[k])}
<1>2. ASSUME NEW k \in retired PROVE ~Live(Retire(entries[k], StoreNow))
  <2>1. entries[k] \in Cells \cup {None}
    BY DEF StoreTypeOK
  <2>2. Retire(entries[k], StoreNow).lease = None
    BY <1>1, <2>1, RetireFacts
  <2> QED BY <2>2 DEF Live, Active
<1>3. Recorded' = Recorded \ gone
  <2>1. ASSUME NEW k \in Endpoints PROVE k \in Recorded' <=> k \in Recorded \ gone
    <3>1. k \in Recorded' <=> Live(entries'[k])
      BY DEF Recorded
    <3>2. CASE k \in retired
      BY <1>1, <1>2, <3>1, <3>2 DEF Recorded
    <3>3. CASE k \notin retired
      BY <1>1, <3>1, <3>3 DEF Recorded
    <3> QED BY <3>2, <3>3
  <2>2. Recorded' \subseteq Endpoints /\ Recorded \subseteq Endpoints
    BY DEF Recorded
  <2> QED BY <2>1, <2>2
<1>4. Recorded \cap gone = gone
  BY DEF Recorded
<1>5. Cardinality(Recorded \ gone) = Cardinality(Recorded) - Cardinality(gone)
  <2> HIDE DEF gone
  <2>1. Cardinality(Recorded \ gone) = Cardinality(Recorded) - Cardinality(Recorded \cap gone)
    BY RecordedFinite, FS_Difference, Zenon
  <2> QED BY <2>1, <1>4, Zenon
<1> QED BY <1>1, <1>3, <1>5 DEF LiveCountExact, Recorded

\* The count kept by increments is the number of live records, for any number
\* of endpoints, so that it never underflows (live -= of access_admitted and
\* collect_at).
THEOREM LiveCounted == StoreSpec => []LiveCountExact
<1>1. StoreInit => StoreTypeOK /\ LiveCountExact
  <2> SUFFICES ASSUME StoreInit PROVE StoreTypeOK /\ LiveCountExact
    OBVIOUS
  <2>1. {k \in Endpoints : Live(entries[k])} = {}
    BY DEF StoreInit, Live, Active
  <2> QED BY <2>1, FS_EmptySet DEF StoreInit, StoreTypeOK, LiveCountExact
<1>2. StoreTypeOK /\ [StoreNext]_storeVars => StoreTypeOK'
  BY StoreTypeStep
<1>3. StoreTypeOK /\ LiveCountExact /\ [StoreNext]_storeVars => LiveCountExact'
  <2> SUFFICES ASSUME StoreTypeOK, LiveCountExact, [StoreNext]_storeVars
               PROVE  LiveCountExact'
    OBVIOUS
  <2>1. ASSUME NEW k \in Endpoints, NEW e \in Entries, NEW admitted \in BOOLEAN,
               Mutate(k, e, admitted)
        PROVE  LiveCountExact'
    <3>1. \/ entries' = entries /\ live' = live
          \/ Replace(k, Decide(entries[k], e, StoreNow).cell)
      BY <2>1 DEF Mutate
    <3>2. CASE entries' = entries /\ live' = live
      BY <3>2 DEF LiveCountExact
    <3> QED BY <3>1, <3>2, ReplaceCounts
  <2>2. ASSUME NEW k \in Endpoints, Get(k) PROVE LiveCountExact'
    BY <2>2, ReplaceCounts DEF Get
  <2>3. CASE Collect
    BY <2>3, CollectCounts
  <2>4. CASE StoreTick \/ StoreSetClock \/ UNCHANGED storeVars
    <3>1. entries' = entries /\ live' = live
      BY <2>4 DEF StoreTick, StoreSetClock, storeVars
    <3> QED BY <3>1 DEF LiveCountExact
  <2> QED BY <2>1, <2>2, <2>3, <2>4 DEF StoreNext
<1> QED BY <1>1, <1>2, <1>3, PTL DEF StoreSpec
=============================================================================
