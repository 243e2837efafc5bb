-------------------------- MODULE ConnAuthzProofs --------------------------
(***************************************************************************)
(* Proofs about the authorization of connections, for any number of        *)
(* connections, streams, grants and policy updates: what is authorized has *)
(* one owner, and a renewal stands.                                       *)
(***************************************************************************)
EXTENDS ConnAuthz, TLAPS

Streams == Conns \X Tasks
Working == {"verify", "ack", "commit", "published"}

-----------------------------------------------------------------------------
(* Streams, times and types.                                                *)

LEMMA StreamFacts ==
    /\ \A t \in Streams : t[1] \in Conns
    /\ \A c \in Conns : {c} \X Tasks = {t \in Streams : t[1] = c}
  BY Zenon DEF Streams

\* The state lock of a connection is free while none of its streams publishes.
LEMMA LockFact ==
    ASSUME NEW c \in Conns
    PROVE  Unlocked(c) <=> \A t \in Streams : t[1] = c => task[t].at # "published"
  BY StreamFacts, Zenon DEF Unlocked

\* A time before a whole second is before its first tick.
LEMMA SecondsFact == \A w, e \in Nat : AsSecs(w) < e => w < FromSecs(e)
<1> SUFFICES ASSUME NEW w \in Nat, NEW e \in Nat, AsSecs(w) < e
             PROVE  w < FromSecs(e)
  BY Zenon
<1> DEFINE q == w \div Second
<1>1. q \in Nat /\ w < Second * (q + 1)
  BY SecondAssumption
<1>2. q + 1 <= e
  BY <1>1 DEF AsSecs
<1> HIDE DEF q
<1>3. Second * (q + 1) <= Second * e
  BY <1>1, <1>2, SecondAssumption
<1> QED
  BY <1>1, <1>3, SecondAssumption DEF FromSecs

\* A live grant gets a lease of the right kind.
LEMMA ActivateFact ==
    ASSUME TypeOK, NEW g \in Grants, GrantLive(g)
    PROVE  Activate(g) \in ActiveGrants
<1>1. g.expires \in Nat /\ wall \in Nat /\ continuous \in Nat
  BY AuthzAssumption DEF TypeOK
<1>2. AsSecs(wall) \in Nat
  BY <1>1, SecondAssumption DEF AsSecs
<1>3. wall < FromSecs(g.expires) /\ FromSecs(g.expires) \in Nat
  BY <1>1, SecondsFact, SecondAssumption DEF GrantLive, FromSecs
<1> QED
  BY <1>1, <1>2, <1>3 DEF Activate, NewLease, Now, ActiveGrants, Validities

\* The watchdog sleeps for a second at most.
LEMMA WaitFact ==
    ASSUME TypeOK, NEW a \in ActiveGrants
    PROVE  Wait(a) \in Nat /\ Wait(a) <= Second
<1> DEFINE r == RemainingAt(a.validity, Now)
<1>1. r \in Nat
  <2> DEFINE v == a.validity
  <2>1. /\ v.expires_at \in Nat /\ v.deadline \in Nat
        /\ wall \in Nat /\ continuous \in Nat
    BY DEF TypeOK, ActiveGrants, Validities
  <2>2. FromSecs(v.expires_at) \in Nat
    BY <2>1, SecondAssumption DEF FromSecs
  <2>3. CASE ValidAt(v, Now)
    <3>1. wall < FromSecs(v.expires_at) /\ continuous < v.deadline
      BY <2>1, <2>3, SecondsFact, Zenon DEF ValidAt, Now
    <3> QED
      BY <2>1, <2>2, <2>3, <3>1 DEF RemainingAt, Now
  <2>4. CASE ~ValidAt(v, Now)
    BY <2>4, Zenon DEF RemainingAt
  <2> QED
    BY <2>3, <2>4, Zenon
<1> HIDE DEF r
<1> QED
  BY <1>1, SecondAssumption DEF Wait, r

-----------------------------------------------------------------------------
(***************************************************************************)
(* The inductive invariant.  SlotsOwned says nothing of what a renewal is  *)
(* about to install, nor why a connection without a transaction may begin  *)
(* one.  Added are: at most one stream of a connection works on a          *)
(* transaction, of the kind its state names; a lease is there when the     *)
(* state says so, and only a lease is watched; a prepared renewal has the  *)
(* id of the grant it renews, and its deadline if it is that grant; and    *)
(* the watchdog's view differs from the current grant only under the state *)
(* lock.                                                                   *)
(***************************************************************************)
Transactions ==
    \A t \in Streams : task[t].at \in Working =>
        /\ st[t[1]] \in {"authorizing", "renewing", "closed"}
        /\ st[t[1]] = "authorizing" => ~task[t].renewal
        /\ st[t[1]] = "renewing" => task[t].renewal
        /\ task[t].at = "published" => st[t[1]] = "renewing"

OneOwner ==
    /\ \A t, u \in Streams :
          t[1] = u[1] /\ task[t].at \in Working /\ task[u].at \in Working => t = u
    /\ \A c \in Conns : st[c] \in {"authorizing", "renewing"} =>
          \E t \in Streams : t[1] = c /\ task[t].at \in Working

Leased ==
    \A c \in Conns :
        /\ st[c] \in {"pending", "closed"} => ~Held(c)
        /\ st[c] \in {"granted", "renewing"} => Held(c)

OnlyLeasedWatched == \A c \in Conns : watcher[c].at # "none" => Held(c)

Prepared ==
    \A t \in Streams :
        /\ task[t].at \in {"ack", "commit", "published"}
        /\ task[t].renewal
        => /\ task[t].next \in ActiveGrants
           /\ st[t[1]] = "renewing" =>
                 /\ task[t].next.grant.id = lease[t[1]].current.grant.id
                 /\ task[t].next.grant = lease[t[1]].current.grant =>
                       task[t].next = lease[t[1]].current

Viewed ==
    \A c \in Conns : Held(c) =>
        /\ (\A t \in Streams : t[1] = c => task[t].at # "published")
              => lease[c].view = lease[c].current
        /\ \A t \in Streams :
              t[1] = c /\ task[t].at = "published" => lease[c].view = task[t].next

AuthzInv ==
    /\ TypeOK /\ Transactions /\ OneOwner /\ Leased /\ OnlyLeasedWatched
    /\ Prepared /\ Viewed /\ SlotsExact

\* Everything but the streams' transactions and the teardown of a connection
\* leaves grants and transactions alone.
LEMMA Undisturbed ==
    ASSUME [Next]_vars
    PROVE  \/ \E t \in Streams : TaskStep(t)
           \/ \E c \in Conns : TearDown(c)
           \/ UNCHANGED <<active, st, lease, task>>
<1>1. ASSUME NEW c \in Conns, WatchStep(c) \/ PeerCloses(c)
      PROVE  UNCHANGED <<active, st, lease, task>>
  BY <1>1, Zenon DEF WatchStep, WatchSnapshot, WatchCheck, WatchWake, PeerCloses, conn
<1>2. ASSUME NEW s \in Conns \X Services, ServiceStep(s)
      PROVE  UNCHANGED <<active, st, lease, task>>
  BY <1>2, Zenon DEF ServiceStep, Arrive, Scope, Woken, ScopeTimeout, Serve, conn
<1>3. ASSUME NEW p \in Policies, UpdatePolicy(p)
      PROVE  UNCHANGED <<active, st, lease, task>>
  BY <1>3, Zenon DEF UpdatePolicy, conn
<1>4. CASE Tick \/ SetClock
  BY <1>4, Zenon DEF Tick, SetClock, conn
<1>5. CASE UNCHANGED vars
  BY <1>5, Zenon DEF vars, conn
<1> QED
  BY <1>1, <1>2, <1>3, <1>4, <1>5, Zenon DEF Next, Streams

\* What a stream holds while it works on a grant.
LEMMA TaskFacts ==
    ASSUME TypeOK, NEW t \in Streams
    PROVE  /\ t[1] \in Conns
           /\ task[t] \in TaskValues
           /\ task[t].at # "idle" => task[t].grant \in Grants
           /\ task[t].next \in ActiveGrants \cup {None}
<1>1. t[1] \in Conns /\ task[t] \in TaskValues
  BY StreamFacts, Zenon DEF TypeOK, Streams
<1> QED
  BY <1>1 DEF TaskValues, Idle

\* What a held lease is.
LEMMA LeaseFacts ==
    ASSUME TypeOK, NEW c \in Conns, Held(c)
    PROVE  /\ lease[c] \in LeaseValues
           /\ lease[c].current \in ActiveGrants /\ lease[c].view \in ActiveGrants
           /\ lease[c].current.grant \in Grants
           /\ lease[c].current.grant.id \in Ids
  BY Zenon DEF TypeOK, Held, LeaseValues, ActiveGrants, Ids

\* A task's next step is of the right kind.
LEMMA TaskTyping ==
    ASSUME TypeOK, NEW t \in Streams
    PROVE  /\ [task EXCEPT ![t] = Idle] \in [Streams -> TaskValues]
           /\ \A at \in {"ack", "commit", "published", "notify", "finish"} :
                 task[t].at # "idle" =>
                    [task EXCEPT ![t].at = at] \in [Streams -> TaskValues]
           /\ \A a \in ActiveGrants : task[t].at # "idle" =>
                 [task EXCEPT ![t].at = "ack", ![t].next = a] \in [Streams -> TaskValues]
           /\ \A renewal \in BOOLEAN, g \in Grants :
                 [task EXCEPT ![t] = [at |-> "verify", renewal |-> renewal,
                                      grant |-> g, next |-> None]]
                    \in [Streams -> TaskValues]
<1>1. task \in [Streams -> TaskValues] /\ task[t] \in TaskValues
  BY Zenon DEF TypeOK, Streams
<1>2. Idle \in TaskValues
  BY Zenon DEF TaskValues
<1>3. ASSUME NEW at \in {"ack", "commit", "published", "notify", "finish"},
             task[t].at # "idle"
      PROVE  [task[t] EXCEPT !.at = at] \in TaskValues
  BY <1>1, <1>3 DEF TaskValues, Idle
<1>4. ASSUME NEW a \in ActiveGrants, task[t].at # "idle"
      PROVE  [task[t] EXCEPT !.at = "ack", !.next = a] \in TaskValues
  <2>1. [task[t] EXCEPT !.at = "ack"] \in TaskValues /\ a \in ActiveGrants
    BY <1>3, <1>4, Zenon
  <2>2. [task[t] EXCEPT !.at = "ack"].at # "idle"
    BY <1>1, Zenon DEF TaskValues, Idle
  <2>3. ASSUME NEW x \in TaskValues, x.at # "idle" PROVE [x EXCEPT !.next = a] \in TaskValues
    BY <2>3, <1>4 DEF TaskValues, Idle
  <2>4. [[task[t] EXCEPT !.at = "ack"] EXCEPT !.next = a]
            = [task[t] EXCEPT !.at = "ack", !.next = a]
    BY Zenon
  <2> QED
    BY <2>1, <2>2, <2>3, <2>4, Zenon
<1>5. ASSUME NEW renewal \in BOOLEAN, NEW g \in Grants
      PROVE  [at |-> "verify", renewal |-> renewal, grant |-> g, next |-> None]
                \in TaskValues
  BY Zenon DEF TaskValues
<1> QED
  BY <1>1, <1>2, <1>3, <1>4, <1>5, Zenon

\* close() leaves values of the right kind.
LEMMA DropTyping ==
    ASSUME TypeOK, NEW c \in Conns, Drop(c)
    PROVE  /\ st' \in [Conns -> States] /\ lease' \in [Conns -> LeaseValues \cup {None}]
           /\ active' \subseteq Ids
           /\ watcher' \in [Conns -> WatcherValues]
           /\ service' \in [Conns \X Services ->
                              [at: {"idle", "scope", "wait", "run"}, woken: BOOLEAN]]
<1>1. NoWatcher \in WatcherValues
  BY Zenon DEF NoWatcher, WatcherValues
<1>2. Notified(c) \in [Conns \X Services ->
                         [at: {"idle", "scope", "wait", "run"}, woken: BOOLEAN]]
  BY ZenonT(40) DEF Notified, TypeOK
<1> QED
  BY <1>1, <1>2, Zenon DEF Drop, TypeOK, States

\* A watchdog's next step is of the right kind.
LEMMA WatcherTyping ==
    ASSUME TypeOK, NEW c \in Conns
    PROVE  /\ NoWatcher \in WatcherValues
           /\ [watcher[c] EXCEPT !.at = "snapshot"] \in WatcherValues
           /\ [watcher[c] EXCEPT !.at = "check", !.snap = policy, !.policyChanged = FALSE]
                 \in WatcherValues
           /\ \A due \in Nat :
                 [watcher[c] EXCEPT !.at = "wait", !.due = due, !.grantChanged = FALSE]
                     \in WatcherValues
           /\ \A b \in BOOLEAN : /\ [watcher[c] EXCEPT !.policyChanged = b] \in WatcherValues
                                 /\ [watcher[c] EXCEPT !.grantChanged = b] \in WatcherValues
<1>1. watcher[c] \in WatcherValues /\ policy \in PolicyValues
  BY Zenon DEF TypeOK
<1> USE DEF WatcherValues
<1>2. NoWatcher \in WatcherValues
  BY Zenon DEF NoWatcher
<1>3. [watcher[c] EXCEPT !.at = "snapshot"] \in WatcherValues
  BY <1>1, Zenon
<1>4. [watcher[c] EXCEPT !.at = "check", !.snap = policy, !.policyChanged = FALSE]
          \in WatcherValues
  BY <1>1, Zenon
<1>5. \A due \in Nat :
          [watcher[c] EXCEPT !.at = "wait", !.due = due, !.grantChanged = FALSE]
              \in WatcherValues
  BY <1>1, Zenon
<1>6. \A b \in BOOLEAN : [watcher[c] EXCEPT !.policyChanged = b] \in WatcherValues
  BY <1>1, Zenon
<1>7. \A b \in BOOLEAN : [watcher[c] EXCEPT !.grantChanged = b] \in WatcherValues
  BY <1>1, Zenon
<1> HIDE DEF WatcherValues
<1> QED
  BY <1>2, <1>3, <1>4, <1>5, <1>6, <1>7, Zenon

\* The kinds of all values are kept, by streams first.
LEMMA TaskTypeStep ==
    ASSUME AuthzInv, NEW t \in Streams, TaskStep(t)
    PROVE  TypeOK'
<1> DEFINE c == t[1]
<1> USE DEF AuthzInv
<1>1. c \in Conns /\ task[t] \in TaskValues /\ (task[t].at # "idle" => task[t].grant \in Grants)
  BY TaskFacts, Zenon
<1> HIDE DEF c
<1>2. ASSUME NEW renewal \in BOOLEAN, NEW g \in Grants, Begin(t, renewal, g) PROVE TypeOK'
  <2>1. task' \in [Streams -> TaskValues]
    BY <1>2, TaskTyping, Zenon DEF Begin
  <2>2. st' \in [Conns -> States]
    BY <1>1, <1>2, Zenon DEF Begin, c, TypeOK, States
  <2> QED
    BY <2>1, <2>2, <1>2, Zenon DEF Begin, TypeOK, env, Streams
<1>3. CASE Install(t)
  <2>1. task' \in [Streams -> TaskValues]
    BY <1>3, TaskTyping, Zenon DEF Install
  <2>2. task[t].grant \in Grants /\ GrantLive(task[t].grant)
    BY <1>1, <1>3, Zenon DEF Install
  <2>3. Activate(task[t].grant) \in ActiveGrants
    BY <2>2, ActivateFact, Zenon
  <2>4. lease' \in [Conns -> LeaseValues \cup {None}]
    BY <1>1, <1>3, <2>3, Zenon DEF Install, c, TypeOK, LeaseValues
  <2>5. active' \subseteq Ids
    BY <1>3, <2>2, Zenon DEF Install, TypeOK, Ids
  <2>6. watcher' \in [Conns -> WatcherValues]
    <3>1. [NoWatcher EXCEPT !.at = "snapshot"] \in WatcherValues
      BY Zenon DEF NoWatcher, WatcherValues
    <3> QED
      BY <1>1, <1>3, <3>1, Zenon DEF Install, c, TypeOK
  <2> QED
    BY <2>1, <2>4, <2>5, <2>6, <1>3, Zenon DEF Install, TypeOK, env, Streams
<1>4. CASE Prepare(t)
  <2>1. Held(c)
    BY <1>1, <1>4, Zenon DEF Prepare, Leased, c
  <2>2. Renewed(lease[c].current, task[t].grant) \in ActiveGrants
    <3>1. task[t].grant \in Grants /\ GrantLive(task[t].grant)
      BY <1>1, <1>4, Zenon DEF Prepare
    <3>2. Activate(task[t].grant) \in ActiveGrants
      BY <3>1, ActivateFact, Zenon
    <3> QED
      BY <1>1, <2>1, <3>2, LeaseFacts, Zenon DEF Renewed
  <2>3. task' \in [Streams -> TaskValues]
    BY <1>4, <2>2, TaskTyping, Zenon DEF Prepare, c
  <2> QED
    BY <2>3, <1>4, Zenon DEF Prepare, TypeOK, env, conn, Streams
<1>5. CASE Ack(t) \/ Finish(t)
  <2>1. task' \in [Streams -> TaskValues]
    <3>1. CASE Ack(t)
      BY <3>1, TaskTyping, Zenon DEF Ack
    <3>2. CASE Finish(t)
      BY <3>2, TaskTyping, Zenon DEF Finish
    <3> QED
      BY <1>5, <3>1, <3>2, Zenon
  <2> QED
    BY <2>1, <1>5, Zenon DEF Ack, Finish, TypeOK, env, conn, Streams
<1>6. CASE Commit(t)
  <2>1. task' \in [Streams -> TaskValues]
    BY <1>6, TaskTyping, Zenon DEF Commit
  <2>2. st' \in [Conns -> States]
    BY <1>1, <1>6, Zenon DEF Commit, c, TypeOK, States
  <2> QED
    BY <2>1, <2>2, <1>6, Zenon DEF Commit, TypeOK, env, Streams
<1>7. CASE Publish(t)
  <2>1. task' \in [Streams -> TaskValues]
    BY <1>7, TaskTyping, Zenon DEF Publish
  <2>2. Held(c) /\ task[t].next \in ActiveGrants
    BY <1>1, <1>7, Zenon DEF Publish, Leased, Prepared, c
  <2>3. lease' \in [Conns -> LeaseValues \cup {None}]
    BY <1>1, <1>7, <2>2, LeaseFacts, Zenon DEF Publish, c, TypeOK, LeaseValues
  <2>4. watcher' \in [Conns -> WatcherValues]
    <3>1. \A b \in BOOLEAN : [watcher[c] EXCEPT !.grantChanged = b] \in WatcherValues
      BY <1>1, WatcherTyping, Zenon
    <3>2. (watcher[c].at # "none") \in BOOLEAN
      BY Zenon
    <3>3. watcher' = [watcher EXCEPT ![c] = [watcher[c] EXCEPT !.grantChanged =
                                               (watcher[c].at # "none")]]
      BY <1>7, Zenon DEF Publish, c
    <3> QED
      BY <1>1, <3>1, <3>2, <3>3, Zenon DEF TypeOK
  <2> QED
    BY <2>1, <2>3, <2>4, <1>7, Zenon DEF Publish, TypeOK, env, Streams
<1>8. CASE CommitRenewal(t)
  <2>1. task' \in [Streams -> TaskValues]
    BY <1>8, TaskTyping, Zenon DEF CommitRenewal
  <2>2. Held(c) /\ task[t].next \in ActiveGrants
    BY <1>1, <1>8, Zenon DEF CommitRenewal, Leased, Prepared, Transactions, Working, c
  <2>3. lease' \in [Conns -> LeaseValues \cup {None}]
    BY <1>1, <1>8, <2>2, LeaseFacts, Zenon DEF CommitRenewal, c, TypeOK, LeaseValues
  <2>4. st' \in [Conns -> States]
    BY <1>1, <1>8, Zenon DEF CommitRenewal, c, TypeOK, States
  <2> QED
    BY <2>1, <2>3, <2>4, <1>8, Zenon DEF CommitRenewal, TypeOK, env, Streams
<1>9. CASE Notify(t)
  <2>1. task' \in [Streams -> TaskValues]
    BY <1>9, TaskTyping, Zenon DEF Notify
  <2>2. service' \in [Conns \X Services ->
                        [at: {"idle", "scope", "wait", "run"}, woken: BOOLEAN]]
    BY <1>9, ZenonT(40) DEF Notify, Notified, TypeOK
  <2> QED
    BY <2>1, <2>2, <1>9, Zenon DEF Notify, TypeOK, env, conn, Streams
<1>10. CASE Fail(t)
  <2>1. task' \in [Streams -> TaskValues]
    BY <1>10, TaskTyping, Zenon DEF Fail
  <2>2. Drop(c)
    BY <1>10, Zenon DEF Fail, c
  <2>3. closed' \in [Conns -> BOOLEAN]
    BY <1>1, <1>10, Zenon DEF Fail, CloseConn, TypeOK, c
  <2> QED
    BY <1>1, <2>1, <2>2, <2>3, <1>10, DropTyping, Zenon DEF Fail, TypeOK, env, Streams
<1> QED
  BY <1>2, <1>3, <1>4, <1>5, <1>6, <1>7, <1>8, <1>9, <1>10, Zenon DEF TaskStep

\* The kinds of all values are kept by everybody.
LEMMA TypeStep ==
    ASSUME AuthzInv, [Next]_vars
    PROVE  TypeOK'
<1> USE DEF AuthzInv
<1>1. ASSUME NEW t \in Streams, TaskStep(t) PROVE TypeOK'
  BY <1>1, TaskTypeStep, Zenon
<1>2. ASSUME NEW c \in Conns, WatchSnapshot(c) PROVE TypeOK'
  <2>1. watcher' \in [Conns -> WatcherValues]
    BY <1>2, WatcherTyping, Zenon DEF WatchSnapshot, TypeOK
  <2> QED
    BY <2>1, <1>2, Zenon DEF WatchSnapshot, TypeOK, env, conn
<1>3. ASSUME NEW c \in Conns, WatchCheck(c) PROVE TypeOK'
  <2>1. closed' \in [Conns -> BOOLEAN]
    BY <1>3, Zenon DEF WatchCheck, CloseConn, TypeOK
  <2>2. Held(c)
    BY <1>3, Zenon DEF WatchCheck, OnlyLeasedWatched
  <2>3. Wait(lease[c].view) \in Nat
    BY <2>2, LeaseFacts, WaitFact, Zenon
  <2>4. continuous + Wait(lease[c].view) \in Nat
    BY <2>3, AuthzAssumption DEF TypeOK
  <2>5. watcher' \in [Conns -> WatcherValues]
    <3>1. \/ watcher' = [watcher EXCEPT ![c] = NoWatcher]
          \/ watcher' = [watcher EXCEPT ![c] =
                [watcher[c] EXCEPT !.at = "wait", !.due = continuous + Wait(lease[c].view),
                                   !.grantChanged = FALSE]]
      BY <1>3, Zenon DEF WatchCheck
    <3>2. \E w \in WatcherValues : watcher' = [watcher EXCEPT ![c] = w]
      BY <2>4, <3>1, WatcherTyping, Zenon
    <3> QED
      BY <3>2, Zenon DEF TypeOK
  <2> QED
    BY <2>1, <2>5, <1>3, Zenon DEF WatchCheck, TypeOK, env
<1>4. ASSUME NEW c \in Conns, WatchWake(c) PROVE TypeOK'
  <2>1. watcher' \in [Conns -> WatcherValues]
    BY <1>4, WatcherTyping, Zenon DEF WatchWake, TypeOK
  <2> QED
    BY <2>1, <1>4, Zenon DEF WatchWake, TypeOK, env, conn
<1>5. ASSUME NEW c \in Conns, PeerCloses(c) PROVE TypeOK'
  BY <1>5, Zenon DEF PeerCloses, CloseConn, TypeOK, env
<1>6. ASSUME NEW c \in Conns, TearDown(c) PROVE TypeOK'
  BY <1>6, DropTyping, Zenon DEF TearDown, TypeOK, env
<1>7. ASSUME NEW s \in Conns \X Services, ServiceStep(s) PROVE TypeOK'
  <2>1. s[1] \in Conns
    BY Zenon
  <2>2. closed' \in [Conns -> BOOLEAN]
    BY <1>7, <2>1, Zenon DEF ServiceStep, Arrive, Scope, Woken, ScopeTimeout, Serve, CloseConn,
                      TypeOK, conn
  <2>3. service' \in [Conns \X Services ->
                        [at: {"idle", "scope", "wait", "run"}, woken: BOOLEAN]]
    <3> DEFINE V == [at: {"idle", "scope", "wait", "run"}, woken: BOOLEAN]
    <3>1. service[s] \in V /\ service \in [Conns \X Services -> V]
      BY Zenon DEF TypeOK
    <3>2. CASE Arrive(s) \/ Woken(s)
      <4>1. [at |-> "scope", woken |-> FALSE] \in V
        BY Zenon
      <4> QED
        BY <3>1, <3>2, <4>1, Zenon DEF Arrive, Woken
    <3>3. CASE ScopeTimeout(s) \/ Serve(s)
      <4>1. [service[s] EXCEPT !.at = "idle"] \in V
        BY <3>1, Zenon
      <4> QED
        BY <3>1, <3>3, <4>1, Zenon DEF ScopeTimeout, Serve
    <3>4. CASE Scope(s)
      <4>1. [service[s] EXCEPT !.at = "wait"] \in V
        BY <3>1, Zenon
      <4>2. [at |-> "run", woken |-> FALSE] \in V /\ [at |-> "idle", woken |-> FALSE] \in V
        BY Zenon
      <4>3. \E v \in V : service' = [service EXCEPT ![s] = v]
        BY <3>4, <4>1, <4>2, Zenon DEF Scope
      <4> HIDE DEF V
      <4>4. service' \in [Conns \X Services -> V]
        BY <3>1, <4>3, Zenon
      <4> QED
        BY <4>4, Zenon DEF V
    <3> QED
      BY <1>7, <3>2, <3>3, <3>4, Zenon DEF ServiceStep
  <2>4. UNCHANGED <<env, active, st, lease, task, watcher, exposed>>
    BY <1>7, Zenon DEF ServiceStep, Arrive, Scope, Woken, ScopeTimeout, Serve, conn
  <2> QED
    BY <2>2, <2>3, <2>4, Zenon DEF TypeOK, env
<1>8. ASSUME NEW p \in Policies, UpdatePolicy(p) PROVE TypeOK'
  <2>1. p \in PolicyValues
    BY AuthzAssumption DEF Policies, PolicyValues, TypeOK
  <2>2. watcher' \in [Conns -> WatcherValues]
    BY <1>8, WatcherTyping, Zenon DEF UpdatePolicy
  <2>3. exposed' \in [Conns -> Nat]
    BY <1>8, Zenon DEF UpdatePolicy, ExposedStill, TypeOK
  <2>4. updates' \in 0..MaxUpdates
    BY <1>8, AuthzAssumption DEF UpdatePolicy, TypeOK
  <2> QED
    BY <2>1, <2>2, <2>3, <2>4, <1>8, Zenon DEF UpdatePolicy, TypeOK, conn
<1>9. CASE Tick
  <2>1. exposed' \in [Conns -> Nat]
    BY <1>9 DEF Tick, TypeOK
  <2>2. continuous' \in 0..MaxTime /\ wall' \in Nat
    BY <1>9, AuthzAssumption DEF Tick, TypeOK
  <2> QED
    BY <2>1, <2>2, <1>9, Zenon DEF Tick, TypeOK, conn
<1>10. CASE SetClock
  <2>1. exposed' \in [Conns -> Nat]
    BY <1>10, Zenon DEF SetClock, ExposedStill, TypeOK
  <2>2. updates' \in 0..MaxUpdates /\ wall' \in Nat
    BY <1>10, AuthzAssumption, SecondAssumption DEF SetClock, TypeOK
  <2> QED
    BY <2>1, <2>2, <1>10, Zenon DEF SetClock, TypeOK, conn
<1>11. CASE UNCHANGED vars
  BY <1>11, Zenon DEF vars, env, conn, TypeOK
<1> QED
  BY <1>1, <1>2, <1>3, <1>4, <1>5, <1>6, <1>7, <1>8, <1>9, <1>10, <1>11, Zenon
     DEF Next, WatchStep, Streams

-----------------------------------------------------------------------------
(* What one step of a stream changes, seen from outside.                    *)

\* A stream touches only its own task and its own connection.
LEMMA TaskFrame ==
    ASSUME TypeOK, NEW t \in Streams, TaskStep(t)
    PROVE  /\ \A u \in Streams : u # t => task'[u] = task[u]
           /\ \A d \in Conns : d # t[1] => /\ st'[d] = st[d] /\ lease'[d] = lease[d]
                                           /\ closed'[d] = closed[d]
                                           /\ watcher'[d] = watcher[d]
<1>1. t[1] \in Conns /\ task \in [Streams -> TaskValues]
  BY StreamFacts, Zenon DEF TypeOK, Streams
<1>2. \A u \in Streams : u # t => task'[u] = task[u]
  BY <1>1, Zenon DEF TaskStep, Begin, Install, Prepare, Ack, Commit, Publish, CommitRenewal, Notify,
         Finish, Fail
<1>3. \A d \in Conns : d # t[1] => st'[d] = st[d]
  BY <1>1, Zenon DEF TypeOK, TaskStep, Begin, Install, Prepare, Ack, Commit, Publish, CommitRenewal,
         Notify, Finish, Fail, Drop, conn
<1>4. \A d \in Conns : d # t[1] => lease'[d] = lease[d]
  BY <1>1, Zenon DEF TypeOK, TaskStep, Begin, Install, Prepare, Ack, Commit, Publish, CommitRenewal,
         Notify, Finish, Fail, Drop, conn
<1>5. \A d \in Conns : d # t[1] => closed'[d] = closed[d]
  BY <1>1, Zenon DEF TypeOK, TaskStep, Begin, Install, Prepare, Ack, Commit, Publish, CommitRenewal,
         Notify, Finish, Fail, CloseConn, conn
<1>6. \A d \in Conns : d # t[1] => watcher'[d] = watcher[d]
  BY <1>1, Zenon DEF TypeOK, TaskStep, Begin, Install, Prepare, Ack, Commit, Publish, CommitRenewal,
         Notify, Finish, Fail, Drop, conn
<1> QED
  BY <1>2, <1>3, <1>4, <1>5, <1>6, Zenon

\* The stages of a stream and of its connection.  A stage that is passed keeps
\* the kind of the transaction.
Stage(t, from, to) ==
    /\ task[t].at = from
    /\ task'[t].at = to
    /\ task'[t].renewal = task[t].renewal

LEMMA Stages ==
    ASSUME TypeOK, NEW t \in Streams, TaskStep(t)
    PROVE  \/ \E renewal \in BOOLEAN :
                 /\ task[t].at = "idle" /\ task'[t].at = "verify"
                 /\ task'[t].renewal = renewal
                 /\ st[t[1]] = IF renewal THEN "granted" ELSE "pending"
                 /\ st'[t[1]] = IF renewal THEN "renewing" ELSE "authorizing"
           \/ Stage(t, "verify", "ack") /\ UNCHANGED st
           \/ Stage(t, "ack", "commit") /\ UNCHANGED st
           \/ Stage(t, "commit", "published") /\ st[t[1]] = "renewing" /\ UNCHANGED st
           \/ Stage(t, "commit", "notify") /\ st[t[1]] = "authorizing" /\ st'[t[1]] = "granted"
           \/ Stage(t, "published", "notify") /\ st'[t[1]] = "granted"
           \/ Stage(t, "notify", "finish") /\ UNCHANGED st
           \/ task[t].at = "finish" /\ task'[t].at = "idle" /\ UNCHANGED st
           \/ Fail(t) /\ task'[t].at = "idle" /\ st'[t[1]] = "closed"
<1>1. /\ t[1] \in Conns /\ task \in [Streams -> TaskValues] /\ task[t] \in TaskValues
      /\ st \in [Conns -> States]
  BY StreamFacts, Zenon DEF TypeOK, Streams
<1>2. ASSUME NEW renewal \in BOOLEAN, NEW g \in Grants, Begin(t, renewal, g)
      PROVE  /\ task[t].at = "idle" /\ task'[t].at = "verify"
             /\ task'[t].renewal = renewal
             /\ st[t[1]] = IF renewal THEN "granted" ELSE "pending"
             /\ st'[t[1]] = IF renewal THEN "renewing" ELSE "authorizing"
  BY <1>1, <1>2, Zenon DEF Begin
<1>3. ASSUME NEW from, NEW to, task[t].at = from, from # "idle",
             task' = [task EXCEPT ![t].at = to]
      PROVE  Stage(t, from, to)
  BY <1>1, <1>3, Zenon DEF Stage, TaskValues, Idle
<1>4. Prepare(t) => Stage(t, "verify", "ack")
  <2>1. ASSUME NEW a, task[t].at = "verify",
               task' = [task EXCEPT ![t].at = "ack", ![t].next = a]
        PROVE  Stage(t, "verify", "ack")
    <3>1. task'[t] = [task[t] EXCEPT !.at = "ack", !.next = a]
      BY <1>1, <2>1, Zenon
    <3> QED
      BY <1>1, <2>1, <3>1, Zenon DEF Stage, TaskValues, Idle
  <2> QED
    BY <2>1, Zenon DEF Prepare
<1>5. Install(t) => Stage(t, "verify", "ack") /\ UNCHANGED st
  BY <1>3, Zenon DEF Install
<1>6. Ack(t) => Stage(t, "ack", "commit") /\ UNCHANGED st
  BY <1>3, Zenon DEF Ack, conn
<1>7. Publish(t) => Stage(t, "commit", "published") /\ st[t[1]] = "renewing" /\ UNCHANGED st
  BY <1>3, Zenon DEF Publish
<1>8. Commit(t) => /\ Stage(t, "commit", "notify") /\ st[t[1]] = "authorizing"
                   /\ st'[t[1]] = "granted"
  BY <1>1, <1>3, Zenon DEF Commit, Committable
<1>9. CommitRenewal(t) => Stage(t, "published", "notify") /\ st'[t[1]] = "granted"
  BY <1>1, <1>3, Zenon DEF CommitRenewal
<1>10. Notify(t) => Stage(t, "notify", "finish") /\ UNCHANGED st
  BY <1>3, Zenon DEF Notify, conn
<1>11. Finish(t) => task[t].at = "finish" /\ task'[t].at = "idle" /\ UNCHANGED st
  BY <1>1 DEF Finish, Idle, conn
<1>12. Fail(t) => task'[t].at = "idle" /\ st'[t[1]] = "closed"
  BY <1>1 DEF Fail, Drop, Idle
<1>13. Prepare(t) => UNCHANGED st
  BY Zenon DEF Prepare, conn
<1> QED
  BY <1>2, <1>4, <1>5, <1>6, <1>7, <1>8, <1>9, <1>10, <1>11, <1>12, <1>13, Zenon DEF TaskStep

\* Where a stream can be after a step, and by which step.
LEMMA Targets ==
    ASSUME TypeOK, NEW t \in Streams, TaskStep(t)
    PROVE  /\ task'[t].at = "published" => Publish(t)
           /\ task'[t].at \in {"ack", "commit", "published"} =>
                 Install(t) \/ Prepare(t) \/ Ack(t) \/ Publish(t)
<1>1. task[t] \in TaskValues /\ task \in [Streams -> TaskValues]
  BY TaskFacts, Zenon DEF TypeOK, Streams
<1>2. ASSUME NEW to, task[t].at # "idle", task' = [task EXCEPT ![t].at = to]
      PROVE  task'[t].at = to
  BY <1>1, <1>2, Zenon DEF TaskValues, Idle
<1>3. Commit(t) \/ CommitRenewal(t) => task'[t].at = "notify"
  BY <1>2, Zenon DEF Commit, CommitRenewal
<1>4. Notify(t) => task'[t].at = "finish"
  BY <1>2, Zenon DEF Notify
<1>5. Finish(t) \/ Fail(t) => task'[t].at = "idle"
  BY <1>1, SMTT(30) DEF Finish, Fail, Idle
<1>6. ASSUME NEW renewal \in BOOLEAN, NEW g \in Grants, Begin(t, renewal, g)
      PROVE  task'[t].at = "verify"
  BY <1>1, <1>6, Zenon DEF Begin
<1>7. Install(t) => task'[t].at = "ack"
  BY <1>2, Zenon DEF Install
<1>8. Ack(t) => task'[t].at = "commit"
  BY <1>2, Zenon DEF Ack
<1>9. Prepare(t) => task'[t].at = "ack"
  <2>1. ASSUME NEW a, task' = [task EXCEPT ![t].at = "ack", ![t].next = a]
        PROVE  task'[t].at = "ack"
    <3>1. task'[t] = [task[t] EXCEPT !.at = "ack", !.next = a]
      BY <1>1, <2>1, Zenon
    <3> QED
      BY <1>1, <3>1, Zenon DEF TaskValues, Idle
  <2> QED
    BY <2>1, Zenon DEF Prepare
<1> QED
  BY <1>3, <1>4, <1>5, <1>6, <1>7, <1>8, <1>9, Zenon DEF TaskStep

-----------------------------------------------------------------------------
(* A transaction has one owner.                                             *)

LEMMA TransactionStep ==
    ASSUME AuthzInv, [Next]_vars
    PROVE  Transactions' /\ OneOwner'
<1> USE DEF AuthzInv
<1>1. ASSUME NEW t \in Streams, TaskStep(t) PROVE Transactions' /\ OneOwner'
  <2> DEFINE c == t[1]
  <2>1. /\ c \in Conns
        /\ \A u \in Streams : u[1] \in Conns
        /\ \A u \in Streams : u # t => task'[u] = task[u]
        /\ \A d \in Conns : d # c => st'[d] = st[d]
    BY <1>1, TaskFrame, StreamFacts, Zenon
  <2> HIDE DEF c
  <2>2. ASSUME NEW renewal \in BOOLEAN,
               task[t].at = "idle", task'[t].at = "verify", task'[t].renewal = renewal,
               st[c] = IF renewal THEN "granted" ELSE "pending",
               st'[c] = IF renewal THEN "renewing" ELSE "authorizing"
        PROVE  Transactions' /\ OneOwner'
    <3>1. \A u \in Streams : u[1] = c => task[u].at \notin Working
      BY <2>2, Zenon DEF Transactions
    <3>2. Transactions'
      BY <2>1, <2>2, <3>1 DEF Transactions, Working, c
    <3>3. OneOwner'
      BY <2>1, <2>2, <3>1 DEF OneOwner, Working, c
    <3> QED
      BY <3>2, <3>3, Zenon
  <2>3. CASE UNCHANGED st /\ \/ Stage(t, "verify", "ack") \/ Stage(t, "ack", "commit")
                             \/ Stage(t, "commit", "published") /\ st[c] = "renewing"
    <3>1. /\ task[t].at \in Working /\ task'[t].at \in Working
          /\ task'[t].renewal = task[t].renewal
          /\ task'[t].at = "published" => st[c] = "renewing"
      BY <2>3, Zenon DEF Stage, Working
    <3>2. Transactions'
      BY <2>1, <2>3, <3>1, ZenonT(40) DEF Transactions, c
    <3>3. OneOwner'
      BY <2>1, <2>3, <3>1 DEF OneOwner
    <3> QED
      BY <3>2, <3>3, Zenon
  <2>4. CASE UNCHANGED st /\ task[t].at \notin Working /\ task'[t].at \notin Working
    <3>1. Transactions'
      BY <2>1, <2>4, Zenon DEF Transactions
    <3>2. OneOwner'
      BY <2>1, <2>4 DEF OneOwner
    <3> QED
      BY <3>1, <3>2, Zenon
  <2>5. CASE task[t].at \in Working /\ task'[t].at \notin Working /\ st'[c] = "granted"
    <3>1. \A u \in Streams : u # t /\ u[1] = c => task[u].at \notin Working
      BY <2>1, <2>5, Zenon DEF OneOwner, c
    <3>2. Transactions'
      BY <2>1, <2>5, <3>1 DEF Transactions
    <3>3. OneOwner'
      BY <2>1, <2>5, <3>1 DEF OneOwner, c
    <3> QED
      BY <3>2, <3>3, Zenon
  <2>6. CASE Fail(t) /\ task'[t].at = "idle" /\ st'[c] = "closed"
    <3>1. \A u \in Streams : u # t /\ u[1] = c => task[u].at # "published"
      BY <2>1, <2>6, LockFact DEF Fail, OneOwner, Working, c
    <3>2. Transactions'
      BY <2>1, <2>6, <3>1, Zenon DEF Transactions, Working
    <3>3. OneOwner'
      BY <2>1, <2>6 DEF OneOwner, Working, c
    <3> QED
      BY <3>2, <3>3, Zenon
  <2> QED
    BY <1>1, <2>2, <2>3, <2>4, <2>5, <2>6, Stages, ZenonT(40) DEF Stage, Working, c
<1>2. ASSUME NEW c \in Conns, TearDown(c) PROVE Transactions' /\ OneOwner'
  <2>1. /\ \A u \in Streams : u[1] \in Conns
        /\ \A u \in Streams : u[1] = c => task[u].at # "published"
        /\ st'[c] = "closed" /\ \A d \in Conns : d # c => st'[d] = st[d]
        /\ UNCHANGED task
    BY <1>2, StreamFacts, LockFact, Zenon DEF TearDown, Drop, TypeOK
  <2> QED
    BY <2>1, ZenonT(40) DEF Transactions, OneOwner
<1>3. CASE UNCHANGED <<active, st, lease, task>>
  BY <1>3, Zenon DEF Transactions, OneOwner
<1> QED
  BY <1>1, <1>2, <1>3, Undisturbed, Zenon

\* The owner is one.
LEMMA OwnerIsOne ==
    ASSUME OneOwner PROVE NoOrphanTransaction
<1> SUFFICES ASSUME NEW c \in Conns, st[c] \in {"authorizing", "renewing"}
             PROVE  \E owner \in {c} \X Tasks : \A t \in {c} \X Tasks :
                        task[t].at \in Working <=> t = owner
  BY Zenon DEF NoOrphanTransaction, Working
<1>1. PICK owner \in Streams : owner[1] = c /\ task[owner].at \in Working
  BY Zenon DEF OneOwner
<1>2. owner \in {c} \X Tasks
  BY <1>1, StreamFacts, Zenon
<1>3. \A t \in {c} \X Tasks : task[t].at \in Working <=> t = owner
  BY <1>1, StreamFacts DEF OneOwner
<1> QED
  BY <1>2, <1>3, Zenon

-----------------------------------------------------------------------------
(* Leases and the ids in use.                                               *)

\* What a step of a stream does to the lease of its connection: nothing, or
\* install(), the two halves of commit_renewal(), or close().
Installs(t) ==
    LET c == t[1]
        g == task[t].grant
    IN  /\ ~task[t].renewal /\ task[t].at = "verify" /\ st[c] = "authorizing"
        /\ ~Held(c) /\ Held(c)'
        /\ lease'[c].current.grant = g /\ lease'[c].view = lease'[c].current
        /\ g.id \notin active /\ active' = active \cup {g.id}
        /\ UNCHANGED st
Publishes(t) ==
    LET c == t[1]
    IN  /\ task[t].at = "commit" /\ task'[t].at = "published" /\ task[t].renewal
        /\ st[c] = "renewing" /\ Held(c) /\ Held(c)'
        /\ lease'[c].current = lease[c].current /\ lease'[c].view = task[t].next
        /\ task'[t].next = task[t].next
        /\ UNCHANGED <<active, st>>
Commits(t) ==
    LET c == t[1]
    IN  /\ task[t].at = "published" /\ task'[t].at = "notify" /\ task[t].renewal
        /\ st[c] = "renewing" /\ st'[c] = "granted" /\ Held(c) /\ Held(c)'
        /\ lease'[c].current = task[t].next /\ lease'[c].view = lease[c].view
        /\ UNCHANGED active
Drops(c) ==
    /\ st'[c] = "closed" /\ ~Held(c)'
    /\ active' = IF Held(c) THEN active \ {lease[c].current.grant.id} ELSE active

LEMMA DropEffect ==
    ASSUME TypeOK, NEW c \in Conns, Drop(c)
    PROVE  Drops(c) /\ watcher'[c].at = "none"
  BY Zenon DEF Drop, Drops, TypeOK, Held, NoWatcher

\* Closing one connection leaves the others alone.
LEMMA DropFrame ==
    ASSUME TypeOK, NEW c \in Conns, Drop(c)
    PROVE  \A d \in Conns : d # c => /\ st'[d] = st[d] /\ lease'[d] = lease[d]
                                     /\ watcher'[d] = watcher[d]
                                     /\ Held(d)' <=> Held(d)
<1> TAKE d \in Conns
<1> HAVE d # c
<1>1. st'[d] = st[d] /\ lease'[d] = lease[d]
  BY Zenon DEF Drop, TypeOK
<1>2. watcher'[d] = watcher[d]
  BY Zenon DEF Drop, TypeOK
<1> QED
  BY <1>1, <1>2, Zenon DEF Held

LEMMA CommitEffect ==
    ASSUME AuthzInv, NEW t \in Streams, CommitRenewal(t)
    PROVE  Commits(t)
<1> DEFINE c == t[1]
<1> USE DEF AuthzInv
<1>1. /\ c \in Conns /\ lease \in [Conns -> LeaseValues \cup {None}]
      /\ task[t] \in TaskValues /\ task \in [Streams -> TaskValues]
  BY TaskFacts, Zenon DEF TypeOK, Streams
<1>2. st[c] = "renewing" /\ Held(c) /\ task[t].renewal
  BY <1>1, Zenon DEF CommitRenewal, Leased, Transactions, Working
<1>3. lease[c] \in LeaseValues
  BY <1>1, <1>2, LeaseFacts, Zenon
<1>4. lease'[c] = [lease[c] EXCEPT !.current = task[t].next]
  BY <1>1, Zenon DEF CommitRenewal
<1>5. lease'[c].current = task[t].next /\ lease'[c].view = lease[c].view
  BY <1>3, <1>4, Zenon DEF LeaseValues
<1>6. Held(c)'
  <2>1. task[t].next \in ActiveGrants
    BY <1>2, Zenon DEF CommitRenewal, Prepared
  <2> QED
    BY <1>3, <1>4, <2>1, AbsenceAssumption, Zenon DEF LeaseValues, Held
<1>7. task'[t].at = "notify" /\ st'[c] = "granted"
  BY <1>1, Zenon DEF CommitRenewal, TaskValues, Idle, TypeOK
<1> QED
  BY <1>2, <1>5, <1>6, <1>7, Zenon DEF CommitRenewal, Commits

LEMMA LeaseEffects ==
    ASSUME AuthzInv, TypeOK', NEW t \in Streams, TaskStep(t)
    PROVE  \/ /\ ~(Install(t) \/ Publish(t) \/ CommitRenewal(t) \/ Fail(t))
              /\ UNCHANGED <<active, lease>>
           \/ Installs(t)
           \/ Publishes(t)
           \/ Commits(t)
           \/ Fail(t) /\ Drops(t[1]) /\ task'[t].at = "idle"
<1> DEFINE c == t[1]
<1> USE DEF AuthzInv
<1>1. /\ c \in Conns /\ lease \in [Conns -> LeaseValues \cup {None}]
      /\ task[t] \in TaskValues /\ task \in [Streams -> TaskValues]
  BY TaskFacts, Zenon DEF TypeOK, Streams
<1>2. Held(c)' <=> lease'[c] # None
  BY Zenon DEF Held
<1>3. CASE Install(t)
  <2>1. GrantLive(task[t].grant) /\ task[t].grant \in Grants
    BY <1>3, TaskFacts, Zenon DEF Install
  <2>2. Activate(task[t].grant) \in ActiveGrants
    BY <2>1, ActivateFact, Zenon
  <2>3. lease'[c] = [current |-> Activate(task[t].grant), view |-> Activate(task[t].grant)]
    BY <1>1, <1>3, Zenon DEF Install
  <2>4. Held(c)'
    BY <1>2, <2>2, <2>3, AbsenceAssumption DEF LeaseValues
  <2>5. lease'[c].current = Activate(task[t].grant) /\ lease'[c].view = lease'[c].current
    BY <2>3
  <2>6. lease'[c].current.grant = task[t].grant
    BY <2>5 DEF Activate
  <2> QED
    BY <1>3, <2>4, <2>5, <2>6, Zenon DEF Install, Installs, Claimable
<1>4. CASE Publish(t)
  <2>1. Held(c) /\ lease[c] \in LeaseValues
    BY <1>1, <1>4, LeaseFacts, Zenon DEF Publish, Leased
  <2>2. lease'[c] = [lease[c] EXCEPT !.view = task[t].next]
    BY <1>1, <1>4, Zenon DEF Publish
  <2>3. lease'[c].current = lease[c].current /\ lease'[c].view = task[t].next
    BY <2>1, <2>2, Zenon DEF LeaseValues
  <2>4. Held(c)'
    <3>1. task[t].next \in ActiveGrants
      BY <1>4, Zenon DEF Publish, Prepared
    <3> QED
      BY <1>2, <2>1, <2>2, <3>1, AbsenceAssumption, Zenon DEF LeaseValues
  <2>5. task'[t].at = "published" /\ task'[t].next = task[t].next
    BY <1>1, <1>4, Zenon DEF Publish, TaskValues, Idle
  <2> QED
    BY <1>4, <2>1, <2>3, <2>4, <2>5, Zenon DEF Publish, Publishes
<1>5. CASE CommitRenewal(t)
  BY <1>5, CommitEffect, Zenon
<1>6. CASE Fail(t)
  <2>1. Drop(c) /\ task'[t].at = "idle"
    BY <1>1, <1>6, Zenon DEF Fail, Idle
  <2> QED
    BY <1>1, <1>6, <2>1, DropEffect, Zenon
<1>7. CASE ~(Install(t) \/ Publish(t) \/ CommitRenewal(t) \/ Fail(t))
  BY <1>7, Zenon DEF TaskStep, Begin, Prepare, Ack, Commit, Notify, Finish, conn
<1> QED
  BY <1>3, <1>4, <1>5, <1>6, <1>7, Zenon

\* A lease is there when the state says so.
LEMMA LeasedStep ==
    ASSUME AuthzInv, TypeOK', [Next]_vars
    PROVE  Leased'
<1> USE DEF AuthzInv
<1>1. ASSUME NEW t \in Streams, TaskStep(t) PROVE Leased'
  <2> DEFINE c == t[1]
  <2>1. c \in Conns /\ \A d \in Conns : d # c => st'[d] = st[d] /\ (Held(d)' <=> Held(d))
    BY <1>1, TaskFrame, StreamFacts, Zenon DEF Held
  <2> HIDE DEF c
  <2>2. CASE /\ ~(Install(t) \/ Publish(t) \/ CommitRenewal(t) \/ Fail(t))
             /\ UNCHANGED lease
    <3>1. Held(c)' <=> Held(c)
      BY <2>2, Zenon DEF Held
    <3>2. /\ st'[c] \in {"pending", "closed"} => st[c] \in {"pending", "closed"}
          /\ st'[c] \in {"granted", "renewing"} => Held(c)
      <4>1. Commit(t) => Held(c)
        BY Zenon DEF Commit, Committable, c
      <4>2. \/ Commit(t) /\ st'[c] = "granted"
            \/ st'[c] \in {"authorizing", "renewing"} /\ (st'[c] = "renewing" => st[c] = "granted")
            \/ UNCHANGED st
        BY <1>1, <2>1, <2>2, Zenon DEF TaskStep, Begin, Prepare, Ack, Commit, Notify, Finish, c, conn,
                                TypeOK
      <4> QED
        BY <2>1, <4>1, <4>2, Zenon DEF Leased
    <3> QED
      BY <2>1, <3>1, <3>2, Zenon DEF Leased
  <2>3. CASE Installs(t) \/ Publishes(t) \/ Commits(t)
    <3>1. Held(c)' /\ st'[c] \notin {"pending", "closed"}
      BY <2>1, <2>3, Zenon DEF Installs, Publishes, Commits, c
    <3> QED
      BY <2>1, <3>1, Zenon DEF Leased
  <2>4. CASE Fail(t) /\ Drops(c)
    <3>1. ~Held(c)' /\ st'[c] = "closed"
      BY <2>4, Zenon DEF Drops
    <3> QED
      BY <2>1, <3>1, Zenon DEF Leased
  <2> QED
    BY <1>1, <2>2, <2>3, <2>4, LeaseEffects, Zenon DEF c
<1>2. ASSUME NEW c \in Conns, TearDown(c) PROVE Leased'
  <2>1. \A d \in Conns : d # c => st'[d] = st[d] /\ (Held(d)' <=> Held(d))
    BY <1>2, Zenon DEF TearDown, Drop, TypeOK, Held
  <2>2. ~Held(c)' /\ st'[c] = "closed"
    BY <1>2, DropEffect, Zenon DEF TearDown, Drops
  <2> QED
    BY <2>1, <2>2, Zenon DEF Leased
<1>3. CASE UNCHANGED <<active, st, lease, task>>
  BY <1>3, Zenon DEF Leased, Held
<1> QED
  BY <1>1, <1>2, <1>3, Undisturbed, Zenon

\* The ids in use, without the set they are collected in.
LEMMA SlotsRead ==
    SlotsExact <=>
        /\ \A i : i \in active <=> \E c \in Conns : Held(c) /\ i = lease[c].current.grant.id
        /\ \A c, d \in Conns : Held(c) /\ Held(d) /\ c # d =>
              lease[c].current.grant.id # lease[d].current.grant.id
  BY DEF SlotsExact

\* The ids in use stay those of the leases: a lease comes with its id, keeps
\* it when it is renewed, and goes with it.
LEMMA SlotsStep ==
    ASSUME AuthzInv, TypeOK', [Next]_vars
    PROVE  SlotsExact'
<1> USE DEF AuthzInv
<1> DEFINE Id(d) == lease[d].current.grant.id
<1>1. /\ \A i : i \in active <=> \E d \in Conns : Held(d) /\ i = Id(d)
      /\ \A d, e \in Conns : Held(d) /\ Held(e) /\ d # e => Id(d) # Id(e)
  BY SlotsRead, Zenon
<1>2. SUFFICES /\ \A i : i \in active' <=> \E d \in Conns : Held(d)' /\ i = Id(d)'
               /\ \A d, e \in Conns : Held(d)' /\ Held(e)' /\ d # e => Id(d)' # Id(e)'
  BY DEF SlotsExact
<1>3. ASSUME NEW c \in Conns,
             \A d \in Conns : d # c => (Held(d)' <=> Held(d)) /\ Id(d)' = Id(d),
             Drops(c)
      PROVE  /\ \A i : i \in active' <=> \E d \in Conns : Held(d)' /\ i = Id(d)'
             /\ \A d, e \in Conns : Held(d)' /\ Held(e)' /\ d # e => Id(d)' # Id(e)'
  <2>1. ~Held(c)' /\ active' = IF Held(c) THEN active \ {Id(c)} ELSE active
    BY <1>3, Zenon DEF Drops
  <2> HIDE DEF Id
  <2> QED
    BY <1>1, <1>3, <2>1
<1>4. ASSUME NEW t \in Streams, TaskStep(t)
      PROVE  /\ \A i : i \in active' <=> \E d \in Conns : Held(d)' /\ i = Id(d)'
             /\ \A d, e \in Conns : Held(d)' /\ Held(e)' /\ d # e => Id(d)' # Id(e)'
  <2> DEFINE c == t[1]
  <2>1. c \in Conns /\ \A d \in Conns : d # c => (Held(d)' <=> Held(d)) /\ Id(d)' = Id(d)
    BY <1>4, TaskFrame, StreamFacts, Zenon DEF Held
  <2>2. CASE UNCHANGED <<active, lease>>
    BY <1>1, <2>2, Zenon DEF Held
  <2>3. CASE Installs(t)
    <3>1. /\ ~Held(c) /\ Held(c)' /\ Id(c)' \notin active /\ active' = active \cup {Id(c)'}
      BY <2>3, Zenon DEF Installs
    <3> HIDE DEF Id, c
    <3> QED
      BY <1>1, <2>1, <3>1
  <2>4. CASE Publishes(t) \/ Commits(t)
    <3>1. Held(c) /\ Held(c)' /\ UNCHANGED active
      BY <2>4, Zenon DEF Publishes, Commits
    <3>2. Id(c)' = Id(c)
      BY <2>4, Zenon DEF Publishes, Commits, Prepared
    <3> HIDE DEF Id, c
    <3> QED
      BY <1>1, <2>1, <3>1, <3>2
  <2>5. CASE Drops(c)
    BY <1>3, <2>1, <2>5, Zenon
  <2> QED
    BY <1>4, <2>2, <2>3, <2>4, <2>5, LeaseEffects, Zenon
<1>5. ASSUME NEW c \in Conns, TearDown(c)
      PROVE  /\ \A i : i \in active' <=> \E d \in Conns : Held(d)' /\ i = Id(d)'
             /\ \A d, e \in Conns : Held(d)' /\ Held(e)' /\ d # e => Id(d)' # Id(e)'
  <2>1. \A d \in Conns : d # c => (Held(d)' <=> Held(d)) /\ Id(d)' = Id(d)
    BY <1>5, Zenon DEF TearDown, Drop, TypeOK, Held
  <2>2. Drops(c)
    BY <1>5, DropEffect, Zenon DEF TearDown
  <2> QED
    BY <1>3, <2>1, <2>2, Zenon
<1>6. CASE UNCHANGED <<active, st, lease, task>>
  BY <1>1, <1>6, Zenon DEF Held
<1> QED
  BY <1>4, <1>5, <1>6, Undisturbed, Zenon

\* Only a lease is watched.
LEMMA WatchedStep ==
    ASSUME AuthzInv, TypeOK', [Next]_vars
    PROVE  OnlyLeasedWatched'
<1> USE DEF AuthzInv
<1>1. ASSUME NEW t \in Streams, TaskStep(t) PROVE OnlyLeasedWatched'
  <2> DEFINE c == t[1]
  <2>1. /\ c \in Conns
        /\ \A d \in Conns : d # c => watcher'[d] = watcher[d] /\ (Held(d)' <=> Held(d))
    BY <1>1, TaskFrame, StreamFacts, Zenon DEF Held
  <2>2. watcher'[c].at # "none" => Held(c)'
    <3>1. CASE Fail(t)
      BY <2>1, <3>1, DropEffect, Zenon DEF Fail
    <3>2. CASE Installs(t) \/ Publishes(t) \/ Commits(t)
      BY <3>2, Zenon DEF Installs, Publishes, Commits
    <3>3. CASE /\ ~(Install(t) \/ Publish(t) \/ CommitRenewal(t) \/ Fail(t))
               /\ UNCHANGED lease
      <4>1. UNCHANGED watcher
        BY <1>1, <3>3, Zenon DEF TaskStep, Begin, Prepare, Ack, Commit, Notify, Finish
      <4> QED
        BY <2>1, <3>3, <4>1, Zenon DEF OnlyLeasedWatched, Held
    <3> QED
      BY <1>1, <3>1, <3>2, <3>3, LeaseEffects, Zenon
  <2> HIDE DEF c
  <2> QED
    BY <2>1, <2>2, Zenon DEF OnlyLeasedWatched
<1>2. ASSUME NEW c \in Conns, TearDown(c) PROVE OnlyLeasedWatched'
  <2>1. /\ watcher'[c].at = "none"
        /\ \A d \in Conns : d # c => watcher'[d] = watcher[d] /\ (Held(d)' <=> Held(d))
    BY <1>2, DropEffect, DropFrame, Zenon DEF TearDown
  <2> QED
    BY <2>1, Zenon DEF OnlyLeasedWatched
<1>3. ASSUME NEW c \in Conns, WatchStep(c) \/ PeerCloses(c) PROVE OnlyLeasedWatched'
  <2>1. /\ UNCHANGED lease
        /\ \A d \in Conns : watcher'[d].at # "none" => watcher[d].at # "none"
    BY <1>3, ZenonT(40) DEF WatchStep, WatchSnapshot, WatchCheck, WatchWake, PeerCloses, TypeOK, conn,
                WatcherValues, NoWatcher
  <2> QED
    BY <2>1, Zenon DEF OnlyLeasedWatched, Held
<1>4. ASSUME NEW s \in Conns \X Services, ServiceStep(s) PROVE OnlyLeasedWatched'
  BY <1>4, Zenon DEF ServiceStep, Arrive, Scope, Woken, ScopeTimeout, Serve, conn,
              OnlyLeasedWatched, Held
<1>5. ASSUME NEW p \in Policies, UpdatePolicy(p) PROVE OnlyLeasedWatched'
  <2>1. UNCHANGED lease /\ \A d \in Conns : watcher'[d].at = watcher[d].at
    BY <1>5 DEF UpdatePolicy, TypeOK, WatcherValues, conn
  <2> QED
    BY <2>1, Zenon DEF OnlyLeasedWatched, Held
<1>6. CASE Tick \/ SetClock \/ UNCHANGED vars
  BY <1>6, Zenon DEF Tick, SetClock, vars, conn, OnlyLeasedWatched, Held
<1> QED
  BY <1>1, <1>2, <1>3, <1>4, <1>5, <1>6, Zenon DEF Next, Streams

-----------------------------------------------------------------------------
(* Renewals.                                                                *)

\* While another stream of a connection works, a stream leaves the connection
\* alone or closes it.
LEMMA WorkingAlone ==
    ASSUME AuthzInv, NEW t \in Streams, TaskStep(t),
           NEW u \in Streams, u # t, u[1] = t[1], task[u].at \in Working
    PROVE  \/ UNCHANGED <<st, lease>>
           \/ Fail(t)
<1> USE DEF AuthzInv
<1>1. task[t].at \notin Working
  BY Zenon DEF OneOwner
<1>2. st[t[1]] \notin {"pending", "granted"}
  BY Zenon DEF Transactions
<1>3. ASSUME NEW renewal \in BOOLEAN, NEW g \in Grants, Begin(t, renewal, g) PROVE FALSE
  BY <1>2, <1>3, Zenon DEF Begin
<1> QED
  BY <1>1, <1>3, Zenon DEF TaskStep, Install, Prepare, Ack, Commit, Publish, CommitRenewal, Notify,
                    Finish, Working, conn

\* prepare_renewal() prepares a successor of the current grant, or the current
\* grant with its deadline.
LEMMA PrepareFact ==
    ASSUME AuthzInv, NEW t \in Streams, Prepare(t)
    PROVE  LET a == lease[t[1]].current
           IN  /\ task'[t].next \in ActiveGrants
               /\ task'[t].next.grant.id = a.grant.id
               /\ task'[t].next.grant = a.grant => task'[t].next = a
<1> DEFINE a == lease[t[1]].current
           g == task[t].grant
<1> USE DEF AuthzInv
<1>1. t[1] \in Conns /\ task[t] \in TaskValues /\ task \in [Streams -> TaskValues]
  BY TaskFacts, Zenon DEF TypeOK, Streams
<1>2. g \in Grants /\ GrantLive(g)
  BY TaskFacts, Zenon DEF Prepare
<1>3. a \in ActiveGrants
  BY <1>1, LeaseFacts, Zenon DEF Prepare, Leased
<1>4. Activate(g) \in ActiveGrants /\ Activate(g).grant = g
  BY <1>2, ActivateFact, Zenon DEF Activate
<1>5. task'[t].next = Renewed(a, g)
  <2>1. ASSUME NEW r, task' = [task EXCEPT ![t].at = "ack", ![t].next = r]
        PROVE  task'[t].next = r
    <3>1. task'[t] = [task[t] EXCEPT !.at = "ack", !.next = r]
      BY <1>1, <2>1, Zenon
    <3> QED
      BY <1>1, <3>1, Zenon DEF TaskValues, Idle
  <2> QED
    BY <2>1, Zenon DEF Prepare
<1>6. g = a.grant \/ g.id = a.grant.id
  BY Zenon DEF Prepare, Advances
<1> HIDE DEF a, g
<1>7. /\ Renewed(a, g) \in ActiveGrants /\ Renewed(a, g).grant.id = a.grant.id
      /\ Renewed(a, g).grant = a.grant => Renewed(a, g) = a
  BY <1>3, <1>4, <1>6, Zenon DEF Renewed
<1> QED
  BY <1>5, <1>7, Zenon DEF a

LEMMA PreparedStep ==
    ASSUME AuthzInv, TypeOK', Transactions', [Next]_vars
    PROVE  Prepared'
<1> USE DEF AuthzInv
<1>1. ASSUME NEW t \in Streams, TaskStep(t) PROVE Prepared'
  <2> SUFFICES ASSUME NEW u \in Streams, task'[u].at \in {"ack", "commit", "published"},
                      task'[u].renewal
               PROVE  /\ task'[u].next \in ActiveGrants
                      /\ st'[u[1]] = "renewing" =>
                            /\ task'[u].next.grant.id = lease'[u[1]].current.grant.id
                            /\ task'[u].next.grant = lease'[u[1]].current.grant =>
                                  task'[u].next = lease'[u[1]].current
    BY Zenon DEF Prepared
  <2>1. /\ u[1] \in Conns
        /\ u # t => task'[u] = task[u]
        /\ u[1] # t[1] => st'[u[1]] = st[u[1]] /\ lease'[u[1]] = lease[u[1]]
    BY <1>1, TaskFrame, StreamFacts, Zenon
  <2>2. CASE u # t /\ u[1] # t[1]
    BY <2>1, <2>2, ZenonT(40) DEF Prepared
  <2>3. CASE u # t /\ u[1] = t[1]
    <3>1. task[u].at \in Working
      BY <2>1, <2>3, Zenon DEF Working
    <3>2. CASE UNCHANGED <<st, lease>>
      BY <2>1, <2>3, <3>2, SMTT(30) DEF Prepared
    <3>3. CASE Fail(t)
      <4>1. st'[u[1]] = "closed"
        BY <2>1, <2>3, <3>3, Zenon DEF Fail, Drop, TypeOK
      <4> QED
        BY <2>1, <2>3, <4>1, Zenon DEF Prepared
    <3> QED
      BY <1>1, <2>3, <3>1, <3>2, <3>3, WorkingAlone, Zenon
  <2>4. CASE u = t /\ Prepare(t)
    <3>1. UNCHANGED lease
      BY <2>4, Zenon DEF Prepare, conn
    <3> QED
      BY <2>4, <3>1, PrepareFact, Zenon
  <2>5. CASE u = t /\ (Ack(t) \/ Publish(t))
    <3>1. task[t] \in TaskValues /\ task \in [Streams -> TaskValues]
      BY TaskFacts, Zenon DEF TypeOK, Streams
    <3>2. ASSUME NEW to, task[t].at # "idle", task' = [task EXCEPT ![t].at = to]
          PROVE  task'[t].next = task[t].next /\ task'[t].renewal = task[t].renewal
      BY <3>1, <3>2, Zenon DEF TaskValues, Idle
    <3>3. task'[t].next = task[t].next /\ task'[t].renewal = task[t].renewal
      BY <2>5, <3>2, Zenon DEF Ack, Publish
    <3>4. task[t].at \in {"ack", "commit"}
      BY <2>5, Zenon DEF Ack, Publish
    <3>5. UNCHANGED st /\ lease'[t[1]].current = lease[t[1]].current
      <4>1. CASE Ack(t)
        BY <4>1, Zenon DEF Ack, conn
      <4>2. CASE Publish(t)
        <5>1. lease[t[1]] \in LeaseValues
          BY <2>1, <2>5, <4>2, LeaseFacts, Zenon DEF Publish, Leased
        <5> QED
          BY <2>1, <2>5, <4>2, <5>1, ZenonT(40) DEF Publish, LeaseValues, TypeOK
      <4> QED
        BY <2>5, <4>1, <4>2, Zenon
    <3> QED
      BY <2>5, <3>3, <3>4, <3>5, ZenonT(40) DEF Prepared
  <2>6. CASE u = t /\ Install(t)
    <3>1. task[t] \in TaskValues /\ task \in [Streams -> TaskValues]
      BY TaskFacts, Zenon DEF TypeOK, Streams
    <3>2. task'[t].renewal = task[t].renewal /\ ~task[t].renewal
      BY <2>6, <3>1, Zenon DEF Install, TaskValues, Idle
    <3> QED
      BY <2>6, <3>2, Zenon
  <2>7. CASE u = t /\ ~(Prepare(t) \/ Ack(t) \/ Publish(t) \/ Install(t))
    <3>1. task'[t].at \notin {"ack", "commit", "published"}
      BY <1>1, <2>7, Targets, Zenon
    <3> QED
      BY <2>7, <3>1, Zenon
  <2> QED
    BY <2>2, <2>3, <2>4, <2>5, <2>6, <2>7, Zenon
<1>2. ASSUME NEW c \in Conns, TearDown(c) PROVE Prepared'
  <2>1. /\ UNCHANGED task /\ st'[c] = "closed"
        /\ \A d \in Conns : d # c => st'[d] = st[d] /\ lease'[d] = lease[d]
    BY <1>2, Zenon DEF TearDown, Drop, TypeOK
  <2> QED
    BY <2>1, StreamFacts, SMTT(30) DEF Prepared
<1>3. CASE UNCHANGED <<active, st, lease, task>>
  BY <1>3, Zenon DEF Prepared
<1> QED
  BY <1>1, <1>2, <1>3, Undisturbed, Zenon

\* The watchdog sees the current grant, or the one that is about to be.
LEMMA ViewedStep ==
    ASSUME AuthzInv, TypeOK', Transactions', [Next]_vars
    PROVE  Viewed'
<1> USE DEF AuthzInv
<1> DEFINE Sees(d) ==
        Held(d) =>
            /\ (\A u \in Streams : u[1] = d => task[u].at # "published")
                  => lease[d].view = lease[d].current
            /\ \A u \in Streams :
                  u[1] = d /\ task[u].at = "published" => lease[d].view = task[u].next
<1>1. ASSUME NEW t \in Streams, TaskStep(t) PROVE Viewed'
  <2> DEFINE c == t[1]
  <2>1. /\ c \in Conns
        /\ \A u \in Streams : u # t => task'[u] = task[u]
        /\ \A d \in Conns : d # c => lease'[d] = lease[d] /\ (Held(d)' <=> Held(d))
    BY <1>1, TaskFrame, StreamFacts, Zenon DEF Held
  <2>2. \A d \in Conns : d # c => Sees(d)'
    BY <2>1 DEF Viewed
  <2>3. task[t].at \in Working =>
            \A u \in Streams : u # t /\ u[1] = c => task[u].at # "published"
    BY <2>1, Zenon DEF OneOwner, Working
  <2>4. CASE /\ ~(Install(t) \/ Publish(t) \/ CommitRenewal(t) \/ Fail(t))
             /\ UNCHANGED lease
    <3>1. task[t].at # "published" /\ task'[t].at # "published"
      <4>1. task[t].at # "published"
        BY <1>1, <2>4, Zenon DEF TaskStep, Begin, Prepare, Ack, Commit, Notify, Finish
      <4> QED
        BY <1>1, <2>4, <4>1, Targets, Zenon
    <3>2. Sees(c)'
      BY <2>1, <2>4, <3>1, SMTT(30) DEF Viewed, Held
    <3> QED
      BY <2>2, <3>2, ZenonT(40) DEF Viewed
  <2>5. CASE Installs(t)
    <3>1. \A u \in Streams : u[1] = c => task'[u].at # "published"
      BY <2>1, <2>5, Zenon DEF Installs, Transactions, Working
    <3>2. Sees(c)'
      BY <2>5, <3>1, Zenon DEF Installs
    <3> QED
      BY <2>2, <3>2, Zenon DEF Viewed
  <2>6. CASE Publishes(t)
    <3>1. Sees(c)'
      BY <2>1, <2>3, <2>6, Zenon DEF Publishes, Working
    <3> QED
      BY <2>2, <3>1, Zenon DEF Viewed
  <2>7. CASE Commits(t)
    <3>1. lease[c].view = task[t].next
      BY <2>1, <2>7, Zenon DEF Commits, Viewed
    <3>2. \A u \in Streams : u[1] = c => task'[u].at # "published"
      BY <2>1, <2>3, <2>7, Zenon DEF Commits, Working
    <3>3. Sees(c)'
      BY <2>7, <3>1, <3>2, Zenon DEF Commits
    <3> QED
      BY <2>2, <3>3, Zenon DEF Viewed
  <2>8. CASE Drops(c)
    <3>1. Sees(c)'
      BY <2>8, Zenon DEF Drops
    <3> QED
      BY <2>2, <3>1, Zenon DEF Viewed
  <2> QED
    BY <1>1, <2>4, <2>5, <2>6, <2>7, <2>8, LeaseEffects, Zenon
<1>2. ASSUME NEW c \in Conns, TearDown(c) PROVE Viewed'
  <2>1. /\ UNCHANGED task /\ ~Held(c)'
        /\ \A d \in Conns : d # c => lease'[d] = lease[d] /\ (Held(d)' <=> Held(d))
    BY <1>2, DropEffect, DropFrame, Zenon DEF TearDown, Drops
  <2> QED
    BY <2>1 DEF Viewed
<1>3. CASE UNCHANGED <<active, st, lease, task>>
  BY <1>3, Zenon DEF Viewed, Held
<1> QED
  BY <1>1, <1>2, <1>3, Undisturbed, Zenon

-----------------------------------------------------------------------------
(* The results.                                                             *)

LEMMA AuthzInit == Init => AuthzInv
<1> SUFFICES ASSUME Init PROVE AuthzInv
  BY Zenon
<1>1. TypeOK
  <2>1. policy \in PolicyValues
    BY AuthzAssumption, Zenon DEF Init, PolicyValues
  <2>2. NoWatcher \in WatcherValues /\ Idle \in TaskValues
    BY Zenon DEF NoWatcher, WatcherValues, TaskValues
  <2> QED
    BY <2>1, <2>2, AuthzAssumption DEF Init, TypeOK, States
<1>2. Transactions /\ OneOwner /\ Prepared
  BY StreamFacts, Zenon DEF Init, Transactions, OneOwner, Prepared, Idle, Working, Streams
<1>3. Leased /\ OnlyLeasedWatched /\ Viewed /\ SlotsExact
  BY Zenon DEF Init, Leased, OnlyLeasedWatched, Viewed, SlotsExact, Held, NoWatcher
<1> QED
  BY <1>1, <1>2, <1>3, Zenon DEF AuthzInv

LEMMA AuthzStep == AuthzInv /\ [Next]_vars => AuthzInv'
<1> SUFFICES ASSUME AuthzInv, [Next]_vars PROVE AuthzInv'
  BY Zenon
<1>1. TypeOK'
  BY TypeStep, Zenon
<1>2. Transactions' /\ OneOwner'
  BY TransactionStep, Zenon
<1> QED
  BY <1>1, <1>2, LeasedStep, WatchedStep, PreparedStep, ViewedStep, SlotsStep, Zenon DEF AuthzInv

LEMMA AuthzInvariant == Spec => []AuthzInv
  BY AuthzInit, AuthzStep, PTL DEF Spec

\* The agent's authorizations are owned: for any number of connections, streams
\* and grants, the ids in use are exactly those of the leases, one connection
\* each, and a connection that is authorizing or renewing has one stream that
\* does it (GrantSlot, Admission).
THEOREM AuthorizationsOwned == Spec => []SlotsOwned
<1>1. AuthzInv => SlotsOwned
  BY OwnerIsOne, Zenon DEF AuthzInv, SlotsOwned
<1> QED
  BY <1>1, AuthzInvariant, PTL

LEMMA DeadlineKept ==
    ASSUME AuthzInv, [Next]_vars, NEW c \in Conns, Held(c), Held(c)',
           lease'[c].current.grant = lease[c].current.grant
    PROVE  lease'[c].current = lease[c].current
<1> USE DEF AuthzInv
<1>1. ASSUME NEW t \in Streams, TaskStep(t), t[1] = c
      PROVE  lease'[c].current = lease[c].current
  <2>1. TypeOK'
    BY TypeStep, Zenon
  <2>2. Commits(t) => lease'[c].current = lease[c].current
    BY <1>1, Zenon DEF Commits, Prepared
  <2> QED
    BY <1>1, <2>1, <2>2, LeaseEffects, Zenon DEF Installs, Publishes, Drops
<1>2. ASSUME NEW t \in Streams, TaskStep(t), t[1] # c
      PROVE  lease'[c].current = lease[c].current
  BY <1>2, TaskFrame, Zenon
<1>3. ASSUME NEW d \in Conns, TearDown(d) PROVE lease'[c].current = lease[c].current
  BY <1>3, Zenon DEF TearDown, Drop, TypeOK, Held
<1> QED
  BY <1>1, <1>2, <1>3, Undisturbed, Zenon

LEMMA ClosedForCurrent ==
    ASSUME AuthzInv, [Next]_vars, NEW c \in Conns,
           watcher[c].at = "check", watcher'[c].at = "none",
           closed'[c], ~closed[c], st'[c] = "granted"
    PROVE  ~(Live(lease[c].current) /\ Permits(watcher[c].snap, lease[c].current.grant.id))
<1> USE DEF AuthzInv
<1>1. WatchCheck(c)
  <2>1. ASSUME NEW t \in Streams, TaskStep(t) PROVE FALSE
    <3>1. CASE t[1] = c
      BY <2>1, <3>1, Zenon DEF TaskStep, Begin, Install, Prepare, Ack, Commit, Publish,
             CommitRenewal, Notify, Finish, Fail, Drop, conn, TypeOK
    <3>2. CASE t[1] # c
      BY <2>1, <3>2, TaskFrame, Zenon
    <3> QED
      BY <3>1, <3>2, Zenon
  <2>2. ASSUME NEW d \in Conns, WatchSnapshot(d) \/ WatchWake(d) \/ PeerCloses(d) \/ TearDown(d)
        PROVE  FALSE
    BY <2>2, Zenon DEF WatchSnapshot, WatchWake, PeerCloses, TearDown, conn
  <2>3. ASSUME NEW d \in Conns, WatchCheck(d), d # c PROVE FALSE
    BY <2>3, Zenon DEF WatchCheck, CloseConn, TypeOK
  <2>4. ASSUME NEW s \in Conns \X Services, ServiceStep(s) PROVE FALSE
    BY <2>4, Zenon DEF ServiceStep, Arrive, Scope, Woken, ScopeTimeout, Serve, conn
  <2>5. ASSUME NEW p \in Policies, UpdatePolicy(p) PROVE FALSE
    BY <2>5, Zenon DEF UpdatePolicy, conn
  <2>6. CASE Tick \/ SetClock \/ UNCHANGED vars
    BY <2>6, Zenon DEF Tick, SetClock, vars, conn
  <2> QED
    BY <2>1, <2>2, <2>3, <2>4, <2>5, <2>6, Zenon DEF Next, WatchStep, Streams
<1>2. ~(Permits(watcher[c].snap, lease[c].view.grant.id) /\ Live(lease[c].view))
  BY <1>1, Zenon DEF WatchCheck
<1>3. Held(c) /\ st[c] = "granted"
  BY <1>1, Zenon DEF WatchCheck, OnlyLeasedWatched
<1>4. \A t \in Streams : t[1] = c => task[t].at # "published"
  BY <1>3, Zenon DEF Transactions, Working
<1>5. lease[c].view = lease[c].current
  BY <1>3, <1>4, Zenon DEF Viewed
<1> QED
  BY <1>2, <1>5, Zenon

\* A renewal stands, for any number of connections, streams and grants: the
\* deadline accepted with a grant is kept as long as the grant is, and the
\* watchdog never closes a connection for the grant that a renewal replaced
\* (prepare_renewal, commit_renewal).
THEOREM RenewalsStand == Spec => RenewalStands
<1>1. AuthzInv /\ [Next]_vars =>
        [\A c \in Conns :
            Held(c) /\ Held(c)' /\ lease'[c].current.grant = lease[c].current.grant
              => lease'[c].current = lease[c].current]_vars
  BY DeadlineKept, Zenon
<1>2. AuthzInv /\ [Next]_vars =>
        [\A c \in Conns :
          /\ watcher[c].at = "check"
          /\ watcher'[c].at = "none"
          /\ closed'[c] /\ ~closed[c]
          /\ st'[c] = "granted"
          => ~(Live(lease[c].current)
               /\ Permits(watcher[c].snap, lease[c].current.grant.id))]_vars
  BY ClosedForCurrent, Zenon
<1>3. Spec => RetryKeepsDeadline
  BY <1>1, AuthzInvariant, PTL DEF Spec, RetryKeepsDeadline
<1>4. Spec => WatchdogSeesRenewal
  BY <1>2, AuthzInvariant, PTL DEF Spec, WatchdogSeesRenewal
<1> QED
  BY <1>3, <1>4, Zenon DEF RenewalStands
=============================================================================
