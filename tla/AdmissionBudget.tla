--------------------------- MODULE AdmissionBudget ----------------------------
(* The directory's mutation budgets (rds-discovery/src/admission.rs).  A       *)
(* mutation that passed signature and revision checks is charged to its writer *)
(* and, beyond one protected renewal per window, to a budget all writers share.*)
(* Time is counted in ticks; a window of the limiter is Window ticks long.     *)
EXTENDS Integers, FiniteSets, FiniteSetTheorems, TLAPS

CONSTANTS
    Keys,                 \* the enrolled publishers
    MaxIdentities,        \* MAX_IDENTITIES
    Window,               \* WINDOW
    PutMinInterval, PutPerMinute, AdmissionsPerMinute,
    WriterPerMinute, PolicyPerMinute,
    MaxTime               \* bound: the clock stops here

\* Enrollment::new, and what serve refuses to start with.
ASSUME LimitsAssumption ==
    /\ IsFiniteSet(Keys) /\ MaxIdentities \in Nat /\ Cardinality(Keys) <= MaxIdentities
    /\ Window \in Nat \ {0}
    /\ PutMinInterval \in 0 .. Window
    /\ WriterPerMinute \in Nat \ {0}
    /\ {PutPerMinute, AdmissionsPerMinute, PolicyPerMinute, MaxTime} \subseteq Nat

VARIABLES
    now,          \* Instant::now()
    writers,      \* the table of writers: a function on some of Keys
    admissions, burst, registry, revocations,    \* the shared windows
    known,        \* identities the store remembers
    admitted,     \* when the last mutation of each key was admitted (or Never)
    answer        \* the last answer given

budgetVars == <<now, writers, admissions, burst, registry, revocations,
                known, admitted, answer>>

Never == -1
Fresh(t) == [start |-> t, used |-> 0]
Elapsed(w, t) == t - w.start >= Window
Reset(w, t) == IF Elapsed(w, t) THEN Fresh(t) ELSE w

\* Window::take: what it leaves behind, and whether it succeeds.
Takes(w, t, limit) == Reset(w, t).used < limit
Taken(w, t, limit) ==
    [Reset(w, t) EXCEPT !.used = IF @ < limit THEN @ + 1 ELSE @]

NewWriter(t) == [window |-> Fresh(t), reserved |-> FALSE, last |-> Never]

\* The writer's entry as the limiter finds it at t.
Current(w, t) ==
    IF Elapsed(w.window, t) THEN [w EXCEPT !.window = Fresh(t), !.reserved = FALSE] ELSE w

BudgetInit ==
    /\ now = 0
    /\ writers = [k \in {} |-> NewWriter(0)]
    /\ admissions = Fresh(0) /\ burst = Fresh(0)
    /\ registry = Fresh(0) /\ revocations = Fresh(0)
    /\ known = {}
    /\ admitted = [k \in Keys |-> Never]
    /\ answer = [ok |-> TRUE, renewal |-> FALSE, idle |-> TRUE]

\* The table after the stale entries were dropped to make room for k.
Retained(k) ==
    IF k \notin DOMAIN writers /\ Cardinality(DOMAIN writers) >= MaxIdentities
    THEN [j \in {i \in DOMAIN writers : ~Elapsed(writers[i].window, now)} |-> writers[j]]
    ELSE writers

HasRoom(k) ==
    k \in DOMAIN writers \/ Cardinality(DOMAIN Retained(k)) < MaxIdentities

WriterOf(k) ==
    Current(IF k \in DOMAIN writers THEN writers[k] ELSE NewWriter(now), now)

WithWriter(k, w) ==
    [j \in DOMAIN Retained(k) \cup {k} |-> IF j = k THEN w ELSE writers[j]]

WriterBusy(w) ==
    \/ w.last # Never /\ now - w.last < PutMinInterval
    \/ w.window.used >= WriterPerMinute

\* Whether k has gone a whole window without an admitted mutation.
Idle(k) == admitted[k] = Never \/ now - admitted[k] >= Window

Refuse(k) ==
    /\ answer' = [ok |-> FALSE, renewal |-> k \in known, idle |-> Idle(k)]
    /\ UNCHANGED <<known, admitted>>

\* What a charged attempt costs its writer.
Debit(w, reserved) ==
    [window |-> [w.window EXCEPT !.used = @ + 1],
     reserved |-> w.reserved \/ reserved,
     last |-> now]

\* What an attempt that the shared budget refused costs its writer: nothing.
\* (SpareCharged: a refused attempt counts as a mutation of its writer.)
SpareCharged(w) == Debit(w, FALSE)
Spare(w) == w

\* The one mutation per window that no shared budget can refuse.
Protected(k, w) == k \in known /\ ~w.reserved

\* The window a mutation beyond the protected one is charged to.
Shared(k) == IF k \in known THEN burst ELSE admissions
SharedLimit(k) == IF k \in known THEN PutPerMinute ELSE AdmissionsPerMinute

Allowed(k, w) == Protected(k, w) \/ Takes(Shared(k), now, SharedLimit(k))

\* Only an unprotected attempt touches the shared windows.
ChargeShared(k, w) ==
    LET next == IF Protected(k, w) THEN Shared(k)
                ELSE Taken(Shared(k), now, SharedLimit(k))
    IN  IF k \in known
        THEN burst' = next /\ UNCHANGED admissions
        ELSE admissions' = next /\ UNCHANGED burst

\* Limiter::record_at, called with the store locked after the mutation was
\* verified; stored says whether the commit that follows succeeds.
Record(k, stored) ==
    /\ UNCHANGED <<now, registry, revocations>>
    /\ IF ~HasRoom(k)
       THEN /\ Refuse(k)
            /\ writers' = Retained(k)
            /\ UNCHANGED <<admissions, burst>>
       ELSE LET w == WriterOf(k)
            IN  IF WriterBusy(w)
                THEN /\ Refuse(k)
                     /\ writers' = WithWriter(k, w)
                     /\ UNCHANGED <<admissions, burst>>
                ELSE /\ ChargeShared(k, w)
                     /\ IF Allowed(k, w)
                        THEN /\ writers' = WithWriter(k, Debit(w, Protected(k, w)))
                             /\ answer' = [ok |-> TRUE, renewal |-> k \in known, idle |-> Idle(k)]
                             /\ admitted' = [admitted EXCEPT ![k] = now]
                             /\ known' = IF stored THEN known \cup {k} ELSE known
                        ELSE /\ writers' = WithWriter(k, Spare(w))
                             /\ Refuse(k)

\* Limiter::policy: each role has a window of its own.
PolicyWrite(role) ==
    /\ IF role = "revocations"
       THEN revocations' = Taken(revocations, now, PolicyPerMinute) /\ UNCHANGED registry
       ELSE registry' = Taken(registry, now, PolicyPerMinute) /\ UNCHANGED revocations
    /\ UNCHANGED <<now, writers, admissions, burst, known, admitted, answer>>

Elapse ==
    /\ now < MaxTime
    /\ now' = now + 1
    /\ UNCHANGED <<writers, admissions, burst, registry, revocations, known, admitted, answer>>

BudgetNext ==
    \/ \E k \in Keys, stored \in BOOLEAN : Record(k, stored)
    \/ \E role \in {"registry", "revocations"} : PolicyWrite(role)
    \/ Elapse

BudgetSpec == BudgetInit /\ [][BudgetNext]_budgetVars

-----------------------------------------------------------------------------
\* A known identity that had no mutation admitted for a whole window is never
\* refused, whatever other writers, new enrollments and its own refused attempts
\* did before: "one protected mutation per minute" of Limiter::record_at.
RenewalProtected == answer.renewal /\ answer.idle => answer.ok

\* The table stays within the enrolled publishers and every entry's bookkeeping
\* agrees with the admissions it stands for; the shared windows never exceed
\* their limits.  The strengthening RenewalProtected rests on.
WindowType == [start : Int, used : Nat]
WriterType == [window : WindowType, reserved : BOOLEAN, last : Int]

WriterSound(k) ==
    LET w == writers[k]
    IN  /\ w.window.start >= 0 /\ w.window.start <= now
        /\ w.last = Never \/ (w.last >= 0 /\ w.last <= admitted[k])
        /\ w.window.used > 0 \/ w.reserved => w.last # Never /\ w.window.start <= w.last

BudgetInv ==
    /\ now \in Nat
    /\ DOMAIN writers \subseteq Keys
    /\ writers = [k \in DOMAIN writers |-> writers[k]]
    /\ \A k \in DOMAIN writers : writers[k] \in WriterType /\ WriterSound(k)
    /\ known \subseteq Keys
    /\ admitted \in [Keys -> Int]
    /\ \A k \in Keys : admitted[k] = Never \/ (admitted[k] >= 0 /\ admitted[k] <= now)
    /\ answer \in [ok : BOOLEAN, renewal : BOOLEAN, idle : BOOLEAN]
    /\ RenewalProtected

-----------------------------------------------------------------------------
(* RenewalProtected of AdmissionBudget, for every number of publishers and     *)
(* every setting of the limits that serve accepts.                             *)

\* A writer that is not in the table always finds room in it: the table holds
\* enrolled publishers only, and Enrollment::new bounds them by MAX_IDENTITIES.
LEMMA RoomForEnrolled ==
    ASSUME BudgetInv, NEW k \in Keys
    PROVE  HasRoom(k) /\ Retained(k) = writers
<1>1. CASE k \in DOMAIN writers
    BY <1>1 DEF HasRoom, Retained
<1>2. CASE k \notin DOMAIN writers
    <2>1. IsFiniteSet(DOMAIN writers) /\ Cardinality(DOMAIN writers) <= Cardinality(Keys \ {k})
        <3>1. DOMAIN writers \subseteq Keys \ {k}
            BY <1>2 DEF BudgetInv
        <3>2. IsFiniteSet(Keys \ {k})
            BY LimitsAssumption, FS_RemoveElement
        <3> QED BY <3>1, <3>2, FS_Subset
    <2>2. Cardinality(Keys \ {k}) = Cardinality(Keys) - 1 /\ Cardinality(Keys) \in Nat
        BY LimitsAssumption, FS_RemoveElement, FS_CardinalityType
    <2>3. Cardinality(DOMAIN writers) \in Nat
        BY <2>1, FS_CardinalityType
    <2>4. Cardinality(DOMAIN writers) < MaxIdentities
        BY <2>1, <2>2, <2>3, LimitsAssumption
    <2> QED BY <1>2, <2>3, <2>4, LimitsAssumption DEF HasRoom, Retained
<1> QED BY <1>1, <1>2

\* What the limiter finds for a writer: an entry whose charges all lie in its
\* open window and are no later than the writer's last admission.
LEMMA FoundSound ==
    ASSUME BudgetInv, NEW k \in Keys
    PROVE  LET w == WriterOf(k)
           IN  /\ w \in WriterType
               /\ w.window.start >= 0 /\ w.window.start <= now
               /\ now - w.window.start < Window
               /\ w.last = Never \/ (w.last >= 0 /\ w.last <= admitted[k])
               /\ w.window.used > 0 \/ w.reserved => w.last # Never /\ w.window.start <= w.last
<1> DEFINE v == IF k \in DOMAIN writers THEN writers[k] ELSE NewWriter(now)
<1>0. now \in Nat /\ Window \in Nat \ {0}
    BY LimitsAssumption DEF BudgetInv
<1>1. /\ v \in WriterType
      /\ v.window.start >= 0 /\ v.window.start <= now
      /\ v.last = Never \/ (v.last >= 0 /\ v.last <= admitted[k])
      /\ v.window.used > 0 \/ v.reserved => v.last # Never /\ v.window.start <= v.last
    <2>1. CASE k \in DOMAIN writers
        BY <2>1 DEF BudgetInv, WriterSound
    <2>2. CASE k \notin DOMAIN writers
        BY <2>2, <1>0 DEF NewWriter, Fresh, WriterType, WindowType, Never
    <2> QED BY <2>1, <2>2
<1> HIDE DEF v
<1>2. WriterOf(k) = Current(v, now)
    BY DEF WriterOf, v
<1>3. CASE Elapsed(v.window, now)
    <2>1. Current(v, now) = [window |-> [start |-> now, used |-> 0], reserved |-> FALSE, last |-> v.last]
        BY <1>1, <1>3 DEF Current, Fresh, WriterType
    <2> QED BY <1>0, <1>1, <1>2, <2>1 DEF WriterType, WindowType, Never
<1>4. CASE ~Elapsed(v.window, now)
    <2>1. Current(v, now) = v
        BY <1>4 DEF Current
    <2> QED BY <1>0, <1>1, <1>2, <1>4, <2>1 DEF Elapsed, WriterType, WindowType
<1> QED BY <1>3, <1>4

\* A refusal is sound when its key is new or was admitted within the window.
LEMMA RefusalSound ==
    ASSUME NEW k, Refuse(k), k \in known => ~Idle(k)
    PROVE  answer' \in [ok : BOOLEAN, renewal : BOOLEAN, idle : BOOLEAN] /\ RenewalProtected'
<1>1. answer' = [ok |-> FALSE, renewal |-> k \in known, idle |-> Idle(k)]
    BY DEF Refuse
<1>2. (k \in known) \in BOOLEAN /\ Idle(k) \in BOOLEAN
    BY DEF Idle
<1>3. CASE k \in known
    <2>1. answer' = [ok |-> FALSE, renewal |-> TRUE, idle |-> FALSE]
        BY <1>1, <1>2, <1>3
    <2> QED BY <2>1 DEF RenewalProtected
<1>4. CASE k \notin known
    <2>1. PICK b \in BOOLEAN : answer' = [ok |-> FALSE, renewal |-> FALSE, idle |-> b]
        BY <1>1, <1>2, <1>4
    <2> QED BY <2>1 DEF RenewalProtected
<1> QED BY <1>3, <1>4

\* An entry w for k that is sound replaces the old one.
LEMMA TableKept ==
    ASSUME BudgetInv, NEW k \in Keys, NEW w \in WriterType,
           writers' = WithWriter(k, w), UNCHANGED now,
           admitted' \in [Keys -> Int],
           \A j \in Keys : j # k => admitted'[j] = admitted[j],
           w.window.start >= 0 /\ w.window.start <= now,
           w.last = Never \/ (w.last >= 0 /\ w.last <= admitted'[k]),
           w.window.used > 0 \/ w.reserved => w.last # Never /\ w.window.start <= w.last
    PROVE  /\ (DOMAIN writers)' \subseteq Keys
           /\ writers' = [j \in (DOMAIN writers)' |-> writers'[j]]
           /\ \A j \in (DOMAIN writers)' : writers'[j] \in WriterType /\ WriterSound(j)'
<1>1. writers' = [j \in DOMAIN writers \cup {k} |-> IF j = k THEN w ELSE writers[j]]
    BY RoomForEnrolled DEF WithWriter
<1>2. (DOMAIN writers)' = DOMAIN writers \cup {k}
    BY <1>1
<1>3. (DOMAIN writers)' \subseteq Keys
    BY <1>2 DEF BudgetInv
<1>4. writers' = [j \in (DOMAIN writers)' |-> writers'[j]]
    BY <1>1, <1>2
<1>5. ASSUME NEW j \in (DOMAIN writers)'
      PROVE  writers'[j] \in WriterType /\ WriterSound(j)'
    <2>1. CASE j = k
        BY <2>1, <1>1, <1>2 DEF WriterSound
    <2>2. CASE j # k
        <3>1. j \in DOMAIN writers /\ j \in Keys /\ writers'[j] = writers[j]
            BY <2>2, <1>1, <1>2, <1>3
        <3>2. writers[j] \in WriterType /\ WriterSound(j) /\ admitted'[j] = admitted[j]
            BY <3>1, <2>2 DEF BudgetInv
        <3> QED BY <3>1, <3>2 DEF WriterSound
    <2> QED BY <2>1, <2>2
<1> QED BY <1>3, <1>4, <1>5

LEMMA RecordKeeps ==
    ASSUME BudgetInv, NEW k \in Keys, NEW stored \in BOOLEAN, Record(k, stored)
    PROVE  BudgetInv'
<1> DEFINE w == WriterOf(k)
<1>0. /\ now \in Nat /\ now' = now
      /\ Window \in Nat \ {0} /\ PutMinInterval \in 0 .. Window /\ WriterPerMinute \in Nat \ {0}
      /\ admitted \in [Keys -> Int]
      /\ \A j \in Keys : admitted[j] = Never \/ (admitted[j] >= 0 /\ admitted[j] <= now)
      /\ known \subseteq Keys
    BY LimitsAssumption DEF BudgetInv, Record
<1>1. /\ w \in WriterType
      /\ w.window.start >= 0 /\ w.window.start <= now
      /\ now - w.window.start < Window
      /\ w.last = Never \/ (w.last >= 0 /\ w.last <= admitted[k])
      /\ w.window.used > 0 \/ w.reserved => w.last # Never /\ w.window.start <= w.last
    BY FoundSound
<1>2. /\ w.window.start \in Int /\ w.window.used \in Nat /\ w.last \in Int /\ w.reserved \in BOOLEAN
      /\ w.window \in WindowType
    BY <1>1 DEF WriterType, WindowType
<1>3. HasRoom(k)
    BY RoomForEnrolled
<1> HIDE DEF w
<1>4. CASE WriterBusy(w)
    <2>1. /\ Refuse(k) /\ writers' = WithWriter(k, w)
        BY <1>3, <1>4 DEF Record, w
    <2>2. ~Idle(k)
        BY <1>0, <1>1, <1>2, <1>4 DEF WriterBusy, Idle, Never
    <2>3. /\ (DOMAIN writers)' \subseteq Keys
          /\ writers' = [j \in (DOMAIN writers)' |-> writers'[j]]
          /\ \A j \in (DOMAIN writers)' : writers'[j] \in WriterType /\ WriterSound(j)'
        BY <1>0, <1>1, <2>1, TableKept DEF Refuse
    <2>4. answer' \in [ok : BOOLEAN, renewal : BOOLEAN, idle : BOOLEAN] /\ RenewalProtected'
        BY <2>1, <2>2, RefusalSound
    <2> QED BY <1>0, <2>1, <2>3, <2>4 DEF BudgetInv, Refuse
<1>5. CASE ~WriterBusy(w) /\ Allowed(k, w)
    <2> DEFINE d == Debit(w, Protected(k, w))
    <2>1. /\ writers' = WithWriter(k, d)
          /\ answer' = [ok |-> TRUE, renewal |-> k \in known, idle |-> Idle(k)]
          /\ admitted' = [admitted EXCEPT ![k] = now]
          /\ known' = IF stored THEN known \cup {k} ELSE known
        BY <1>3, <1>5 DEF Record, w
    <2>2. /\ d \in WriterType
          /\ d.window.start = w.window.start
          /\ d.last = now
        <3>1. w.reserved \/ Protected(k, w) \in BOOLEAN
            BY <1>2 DEF Protected
        <3>2. [w.window EXCEPT !.used = @ + 1] \in WindowType
            BY <1>2 DEF WindowType
        <3>3. [w.window EXCEPT !.used = @ + 1].start = w.window.start
            BY <1>2 DEF WindowType
        <3>4. d = [window |-> [w.window EXCEPT !.used = @ + 1],
                   reserved |-> w.reserved \/ Protected(k, w), last |-> now]
            BY Zenon DEF Debit, d
        <3> HIDE DEF d
        <3>5. d.window = [w.window EXCEPT !.used = @ + 1] /\ d.last = now
            BY <3>4
        <3>6. d \in WriterType
            BY <1>0, <3>1, <3>2, <3>4 DEF WriterType
        <3> QED BY <3>3, <3>5, <3>6
    <2>3. admitted' \in [Keys -> Int] /\ admitted'[k] = now
        BY <1>0, <2>1
    <2>4. \A j \in Keys : j # k => admitted'[j] = admitted[j]
        BY <1>0, <2>1
    <2> HIDE DEF d
    <2>5. /\ (DOMAIN writers)' \subseteq Keys
          /\ writers' = [j \in (DOMAIN writers)' |-> writers'[j]]
          /\ \A j \in (DOMAIN writers)' : writers'[j] \in WriterType /\ WriterSound(j)'
        BY <1>0, <1>1, <2>1, <2>2, <2>3, <2>4, TableKept DEF Never
    <2>6. \A j \in Keys : admitted'[j] = Never \/ (admitted'[j] >= 0 /\ admitted'[j] <= now')
        BY <1>0, <2>3, <2>4
    <2>7. Idle(k) \in BOOLEAN
        BY DEF Idle
    <2>8. answer' \in [ok : BOOLEAN, renewal : BOOLEAN, idle : BOOLEAN] /\ RenewalProtected'
        BY <2>1, <2>7 DEF RenewalProtected
    <2>9. known' \subseteq Keys
        BY <1>0, <2>1
    <2> QED BY <1>0, <2>3, <2>5, <2>6, <2>8, <2>9 DEF BudgetInv
<1>6. CASE ~WriterBusy(w) /\ ~Allowed(k, w)
    <2>1. /\ Refuse(k) /\ writers' = WithWriter(k, w)
        BY <1>3, <1>6 DEF Record, Spare, w
    <2>2. k \in known => ~Idle(k)
        BY <1>0, <1>1, <1>2, <1>6 DEF Allowed, Protected, Idle, Never
    <2>3. /\ (DOMAIN writers)' \subseteq Keys
          /\ writers' = [j \in (DOMAIN writers)' |-> writers'[j]]
          /\ \A j \in (DOMAIN writers)' : writers'[j] \in WriterType /\ WriterSound(j)'
        BY <1>0, <1>1, <2>1, TableKept DEF Refuse
    <2>4. answer' \in [ok : BOOLEAN, renewal : BOOLEAN, idle : BOOLEAN] /\ RenewalProtected'
        BY <2>1, <2>2, RefusalSound
    <2> QED BY <1>0, <2>1, <2>3, <2>4 DEF BudgetInv, Refuse
<1> QED BY <1>4, <1>5, <1>6

\* For every enrollment and every limits accepted by serve, a known publisher
\* whose last admitted mutation is a window old is never refused by
\* Limiter::record_at.
THEOREM RenewalAlwaysProtected == BudgetSpec => []RenewalProtected
<1>1. BudgetInit => BudgetInv
    BY LimitsAssumption DEF BudgetInit, BudgetInv, RenewalProtected, Never
<1>2. BudgetInv /\ [BudgetNext]_budgetVars => BudgetInv'
    <2> SUFFICES ASSUME BudgetInv, [BudgetNext]_budgetVars PROVE BudgetInv'
        OBVIOUS
    <2>1. ASSUME NEW k \in Keys, NEW stored \in BOOLEAN, Record(k, stored) PROVE BudgetInv'
        BY <2>1, RecordKeeps
    <2>2. ASSUME NEW role \in {"registry", "revocations"}, PolicyWrite(role) PROVE BudgetInv'
        BY <2>2 DEF PolicyWrite, BudgetInv, RenewalProtected, WriterSound
    <2>3. CASE Elapse
        <3>1. now' \in Nat /\ now <= now' /\ UNCHANGED <<writers, known, admitted, answer>>
            BY <2>3 DEF Elapse, BudgetInv
        <3>2. \A k \in DOMAIN writers : writers[k] \in WriterType /\ WriterSound(k)'
            BY <3>1 DEF BudgetInv, WriterSound, WriterType, WindowType
        <3> QED BY <3>1, <3>2 DEF BudgetInv, RenewalProtected
    <2>4. CASE UNCHANGED budgetVars
        BY <2>4 DEF budgetVars, BudgetInv, RenewalProtected, WriterSound
    <2> QED BY <2>1, <2>2, <2>3, <2>4 DEF BudgetNext
<1>3. BudgetInv => RenewalProtected
    BY DEF BudgetInv
<1> QED BY <1>1, <1>2, <1>3, PTL DEF BudgetSpec
=============================================================================
