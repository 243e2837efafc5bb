----------------------------- MODULE ConnAuthz -----------------------------
(***************************************************************************)
(* Grant authorization of connections (rds-agent, authz.rs): the state of  *)
(* every connection, the authorization and renewal tasks its streams run,  *)
(* the watchdog of its grant, the service streams waiting for a decision,  *)
(* and the set of grant ids in use, shared by all connections.             *)
(*                                                                         *)
(* A section under one mutex or watch guard is one step; tasks interleave  *)
(* at their awaits and between such sections.  Grants are the verified     *)
(* ones: signature, subject, audience and tenant checks reject a grant     *)
(* before anything else happens and are taken as passed.                   *)
(***************************************************************************)
EXTENDS Leases

CONSTANTS
    Conns,
    Tasks,      \* Authz and RenewAuthz streams of one connection
    Services,   \* service streams of one connection
    Grants,     \* [id, revision, not_before, expires], times in seconds
    Skew,       \* SKEW_SECS
    PolicyTtls, \* time left, in ticks, of the policy leases the feed publishes
    MaxTime,    \* bound of the continuous clock, in ticks
    MaxUpdates  \* bound of policy updates and clock settings

ASSUME AuthzAssumption ==
    /\ \A g \in Grants : g.revision \in Nat /\ g.not_before \in Nat /\ g.expires \in Nat
    /\ Skew \in Nat
    /\ PolicyTtls \subseteq Nat
    /\ MaxTime \in Nat
    /\ MaxUpdates \in Nat

VARIABLES
    wall, continuous,
    policy,   \* AgentPolicy.denylist: revoked ids, and until when it is fresh
    updates,  \* policy updates and clock settings so far
    active,   \* AgentPolicy.active_grants
    st,       \* the variant of ConnAuthz.state
    lease,    \* GrantLease: the current grant and the value its watchdog sees
    closed,   \* conn.is_closed()
    task,     \* authorize(), per stream
    watcher,  \* watch_grant()
    service,  \* serve_stream() up to service_scope(), per stream
    exposed   \* history: ticks an open connection has held a grant in vain

conn == <<active, st, lease, closed>>
env == <<wall, continuous, policy, updates>>
vars == <<env, conn, task, watcher, service, exposed>>

Now == [boot |-> 0, wall |-> wall, continuous |-> continuous]
Ids == {g.id : g \in Grants}

Fresh(p) == p.lease # None /\ continuous < p.lease
\* revocations_permit().
Permits(p, id) == Fresh(p) /\ id \notin p.ids

-----------------------------------------------------------------------------
(* Grants (rds-core, grant.rs) and ActiveGrant.                             *)

GrantLive(g) == AsSecs(wall) + Skew >= g.not_before /\ AsSecs(wall) < g.expires

Activate(g) ==
    [grant |-> g, validity |-> NewLease(AsSecs(wall), g.expires, Now)]
Live(a) == GrantLive(a.grant) /\ ValidAt(a.validity, Now)

\* permits_renewal(): a strict successor.
Advances(next, g) ==
    /\ next.id = g.id
    /\ next.revision > g.revision
    /\ next.not_before >= g.not_before
    /\ next.expires > g.expires

-----------------------------------------------------------------------------
(* Shared pieces.                                                           *)

NoWatcher == [at |-> "none", snap |-> None, due |-> 0,
              policyChanged |-> FALSE, grantChanged |-> FALSE]
Idle == [at |-> "idle", renewal |-> FALSE, grant |-> None, next |-> None]

Held(c) == lease[c] # None

\* The state mutex is free: a renewal holds it from Publish to its decision.
Unlocked(c) == \A t \in {c} \X Tasks : task[t].at # "published"

\* changed.send_replace(()).
Notified(c) ==
    [s \in DOMAIN service |->
        IF s[1] = c /\ service[s].at \in {"scope", "wait"}
        THEN [service[s] EXCEPT !.woken = TRUE] ELSE service[s]]

\* close(): the lease is dropped with its slot and its watchdog.
Drop(c) ==
    /\ st' = [st EXCEPT ![c] = "closed"]
    /\ lease' = [lease EXCEPT ![c] = None]
    /\ active' = IF Held(c) THEN active \ {lease[c].current.grant.id} ELSE active
    /\ watcher' = [watcher EXCEPT ![c] = NoWatcher]
    /\ service' = Notified(c)

CloseConn(c) == closed' = [closed EXCEPT ![c] = TRUE]

Init ==
    /\ wall = 0
    /\ continuous = 0
    /\ policy \in [ids: {{}}, lease: PolicyTtls \cup {None}]
    /\ updates = 0
    /\ active = {}
    /\ st = [c \in Conns |-> "pending"]
    /\ lease = [c \in Conns |-> None]
    /\ closed = [c \in Conns |-> FALSE]
    /\ task = [t \in Conns \X Tasks |-> Idle]
    /\ watcher = [c \in Conns |-> NoWatcher]
    /\ service = [s \in Conns \X Services |-> [at |-> "idle", woken |-> FALSE]]
    /\ exposed = [c \in Conns |-> 0]

-----------------------------------------------------------------------------
(* authorize().  Begin fails without effect unless the state allows it.     *)

Begin(t, renewal, g) ==
    LET c == t[1]
    IN  /\ task[t].at = "idle"
        /\ ~closed[c]
        /\ st[c] = IF renewal THEN "granted" ELSE "pending"
        /\ st' = [st EXCEPT ![c] = IF renewal THEN "renewing" ELSE "authorizing"]
        /\ task' = [task EXCEPT ![t] = [at |-> "verify", renewal |-> renewal,
                                        grant |-> g, next |-> None]]
        /\ UNCHANGED <<env, active, lease, closed, watcher, service, exposed>>

\* Mutant of GrantSlot::claim: a grant in use is shared.
ClaimableAlways(id) == TRUE
Claimable(id) == id \notin active

\* install().
Install(t) ==
    LET c == t[1]
        g == task[t].grant
    IN  /\ task[t].at = "verify"
        /\ ~task[t].renewal
        /\ GrantLive(g)
        /\ st[c] = "authorizing"
        /\ ~Held(c)
        /\ ~closed[c]
        /\ Permits(policy, g.id)
        /\ Claimable(g.id)
        /\ active' = active \cup {g.id}
        /\ lease' = [lease EXCEPT ![c] = [current |-> Activate(g), view |-> Activate(g)]]
        /\ watcher' = [watcher EXCEPT ![c] = [NoWatcher EXCEPT !.at = "snapshot"]]
        /\ task' = [task EXCEPT ![t].at = "ack"]
        /\ UNCHANGED <<env, st, closed, service, exposed>>

\* Mutant of prepare_renewal(): an exact retry is leased again.
RenewedAgain(current, g) == Activate(g)
\* An exact retry keeps the deadline that was accepted first.
Renewed(current, g) == IF g = current.grant THEN current ELSE Activate(g)

\* prepare_renewal().
Prepare(t) ==
    LET c == t[1]
        g == task[t].grant
    IN  /\ task[t].at = "verify"
        /\ task[t].renewal
        /\ GrantLive(g)
        /\ st[c] = "renewing"
        /\ Live(lease[c].current)
        /\ g = lease[c].current.grant \/ Advances(g, lease[c].current.grant)
        /\ task' = [task EXCEPT ![t].at = "ack",
                                ![t].next = Renewed(lease[c].current, g)]
        /\ UNCHANGED <<env, conn, watcher, service, exposed>>

\* The reply is written.
Ack(t) ==
    /\ task[t].at = "ack"
    /\ task' = [task EXCEPT ![t].at = "commit"]
    /\ UNCHANGED <<env, conn, watcher, service, exposed>>

Committable(c) ==
    /\ st[c] = "authorizing"
    /\ Held(c)
    /\ ~closed[c]
    /\ Live(lease[c].current)
    /\ Permits(policy, lease[c].current.grant.id)

\* commit(): the waiting services are told after the lock is released.
Commit(t) ==
    LET c == t[1]
    IN  /\ task[t].at = "commit"
        /\ ~task[t].renewal
        /\ Committable(c)
        /\ st' = [st EXCEPT ![c] = "granted"]
        /\ task' = [task EXCEPT ![t].at = "notify"]
        /\ UNCHANGED <<env, active, lease, closed, watcher, service, exposed>>

\* commit_renewal(): under the state lock the watchdog's value is replaced,
\* which waits for a check that is under way, and only then is the closure of
\* the connection read again.
Publish(t) ==
    LET c == t[1]
    IN  /\ task[t].at = "commit"
        /\ task[t].renewal
        /\ st[c] = "renewing"
        /\ ~closed[c]
        /\ Live(lease[c].current)
        /\ Live(task[t].next)
        /\ Permits(policy, task[t].next.grant.id)
        /\ lease' = [lease EXCEPT ![c].view = task[t].next]
        /\ watcher' = [watcher EXCEPT ![c].grantChanged = watcher[c].at # "none"]
        /\ task' = [task EXCEPT ![t].at = "published"]
        /\ UNCHANGED <<env, active, st, closed, service, exposed>>
CommitRenewal(t) ==
    LET c == t[1]
    IN  /\ task[t].at = "published"
        /\ ~closed[c]
        /\ lease' = [lease EXCEPT ![c].current = task[t].next]
        /\ st' = [st EXCEPT ![c] = "granted"]
        /\ task' = [task EXCEPT ![t].at = "notify"]
        /\ UNCHANGED <<env, active, closed, watcher, service, exposed>>

Notify(t) ==
    /\ task[t].at = "notify"
    /\ service' = Notified(t[1])
    /\ task' = [task EXCEPT ![t].at = "finish"]
    /\ UNCHANGED <<env, conn, watcher, exposed>>

Finish(t) ==
    /\ task[t].at = "finish"
    /\ task' = [task EXCEPT ![t] = Idle]
    /\ UNCHANGED <<env, conn, watcher, service, exposed>>

\* Any error, timeout or cancellation on the way drops the Admission.
Fail(t) ==
    /\ task[t].at # "idle"
    /\ task[t].at = "published" => closed[t[1]]
    /\ task[t].at # "published" => Unlocked(t[1])
    /\ Drop(t[1])
    /\ CloseConn(t[1])
    /\ task' = [task EXCEPT ![t] = Idle]
    /\ UNCHANGED <<env, exposed>>

-----------------------------------------------------------------------------
(* watch_grant().                                                           *)

WatchSnapshot(c) ==
    /\ watcher[c].at = "snapshot"
    /\ watcher' = [watcher EXCEPT ![c].at = "check", ![c].snap = policy,
                                  ![c].policyChanged = FALSE]
    /\ UNCHANGED <<env, conn, task, service, exposed>>

\* Mutant: the watchdog sleeps until the grant expires.
WaitForExpiry(a) == RemainingAt(a.validity, Now)
Wait(a) ==
    LET remaining == RemainingAt(a.validity, Now)
    IN  IF remaining < Second THEN remaining ELSE Second

\* Under the guard of the grant's watch: close, or sleep for a second at most.
WatchCheck(c) ==
    LET view == lease[c].view
        ok == Permits(watcher[c].snap, view.grant.id) /\ Live(view)
    IN  /\ watcher[c].at = "check"
        /\ IF ok
           THEN /\ watcher' = [watcher EXCEPT ![c].at = "wait",
                                              ![c].due = continuous + Wait(view),
                                              ![c].grantChanged = FALSE]
                /\ UNCHANGED closed
           ELSE /\ watcher' = [watcher EXCEPT ![c] = NoWatcher]
                /\ CloseConn(c)
        /\ UNCHANGED <<env, active, st, lease, task, service, exposed>>

WatchWake(c) ==
    /\ watcher[c].at = "wait"
    /\ closed[c] \/ watcher[c].policyChanged \/ watcher[c].grantChanged
       \/ continuous >= watcher[c].due
    /\ watcher' = IF closed[c] THEN [watcher EXCEPT ![c] = NoWatcher]
                  ELSE [watcher EXCEPT ![c].at = "snapshot"]
    /\ UNCHANGED <<env, conn, task, service, exposed>>

-----------------------------------------------------------------------------
(* service_scope(): subscribe, read the state, wait while it is authorizing.*)

Arrive(s) ==
    /\ service[s].at = "idle"
    /\ ~closed[s[1]]
    /\ service' = [service EXCEPT ![s] = [at |-> "scope", woken |-> FALSE]]
    /\ UNCHANGED <<env, conn, task, watcher, exposed>>

\* scope(): a terminal refusal closes the connection, a pending one does not.
Scope(s) ==
    LET c == s[1]
        permitted == /\ st[c] \in {"granted", "renewing"}
                     /\ Live(lease[c].current)
                     /\ Permits(policy, lease[c].current.grant.id)
    IN  /\ service[s].at = "scope"
        /\ Unlocked(c)
        /\ service' = [service EXCEPT ![s] =
                          IF st[c] = "authorizing" THEN [@ EXCEPT !.at = "wait"]
                          ELSE [at |-> IF permitted THEN "run" ELSE "idle",
                                woken |-> FALSE]]
        /\ IF permitted \/ st[c] \in {"pending", "authorizing"}
           THEN UNCHANGED closed ELSE CloseConn(c)
        /\ UNCHANGED <<env, active, st, lease, task, watcher, exposed>>

\* changed().await returns at once if anything was sent since the subscription.
Woken(s) ==
    /\ service[s].at = "wait"
    /\ service[s].woken
    /\ service' = [service EXCEPT ![s] = [at |-> "scope", woken |-> FALSE]]
    /\ UNCHANGED <<env, conn, task, watcher, exposed>>

\* The authorization timeout.
ScopeTimeout(s) ==
    /\ service[s].at = "wait"
    /\ ~service[s].woken
    /\ service' = [service EXCEPT ![s].at = "idle"]
    /\ CloseConn(s[1])
    /\ UNCHANGED <<env, active, st, lease, task, watcher, exposed>>

Serve(s) ==
    /\ service[s].at = "run"
    /\ service' = [service EXCEPT ![s].at = "idle"]
    /\ UNCHANGED <<env, conn, task, watcher, exposed>>

-----------------------------------------------------------------------------
(* The connection and its environment.                                      *)

PeerCloses(c) ==
    /\ ~closed[c]
    /\ CloseConn(c)
    /\ UNCHANGED <<env, active, st, lease, task, watcher, service, exposed>>

\* serve_connection() after its loop, or dropped: close_and_wait().  The
\* streams are aborted afterwards, each failing where it stands.
TearDown(c) ==
    /\ closed[c]
    /\ st[c] # "closed"
    /\ Unlocked(c)
    /\ Drop(c)
    /\ UNCHANGED <<env, closed, task, exposed>>

\* An open connection holds a grant that is not permitted any more.
Exposed(c) ==
    /\ ~closed[c]
    /\ st[c] \in {"granted", "renewing"}
    /\ ~(Live(lease[c].current) /\ Permits(policy, lease[c].current.grant.id))

\* The count goes on while the exposure does.
ExposedStill == [c \in Conns |-> IF Exposed(c) /\ Exposed(c)' THEN exposed[c] ELSE 0]

\* send_modify on the denylist: publication, revocation, invalidation.
UpdatePolicy(p) ==
    /\ updates < MaxUpdates
    /\ updates' = updates + 1
    /\ policy' = p
    /\ watcher' = [c \in Conns |-> [watcher[c] EXCEPT
                                       !.policyChanged = watcher[c].at # "none"]]
    /\ UNCHANGED <<wall, continuous, conn, task, service>>
    /\ exposed' = ExposedStill
Policies ==
    {[ids |-> policy.ids \cup {id}, lease |-> policy.lease] : id \in Ids}
        \cup [ids: {policy.ids, {}}, lease: {continuous + ttl : ttl \in PolicyTtls}]
        \cup {[ids |-> policy.ids, lease |-> None]}

\* A watchdog that can run does so before the clock advances, and no time
\* passes under the state lock.
Settled(c) ==
    /\ Unlocked(c)
    /\ \/ watcher[c].at = "none"
       \/ closed[c]
       \/ /\ watcher[c].at = "wait"
          /\ ~watcher[c].policyChanged
          /\ ~watcher[c].grantChanged
          /\ continuous < watcher[c].due

Tick ==
    /\ continuous < MaxTime
    /\ \A c \in Conns : Settled(c)
    /\ wall' = wall + 1
    /\ continuous' = continuous + 1
    /\ exposed' = [c \in Conns |-> IF Exposed(c) THEN exposed[c] + 1 ELSE 0]
    /\ UNCHANGED <<policy, updates, conn, task, watcher, service>>

SetClock ==
    /\ updates < MaxUpdates
    /\ updates' = updates + 1
    /\ wall' \in {wall + 2 * Second} \cup (IF wall >= Second THEN {wall - Second} ELSE {})
    /\ UNCHANGED <<continuous, policy, conn, task, watcher, service>>
    /\ exposed' = ExposedStill

TaskStep(t) ==
    \/ \E renewal \in BOOLEAN, g \in Grants : Begin(t, renewal, g)
    \/ Install(t) \/ Prepare(t) \/ Ack(t) \/ Commit(t) \/ Publish(t)
    \/ CommitRenewal(t) \/ Notify(t) \/ Finish(t) \/ Fail(t)
WatchStep(c) == WatchSnapshot(c) \/ WatchCheck(c) \/ WatchWake(c)
ServiceStep(s) == Arrive(s) \/ Scope(s) \/ Woken(s) \/ ScopeTimeout(s) \/ Serve(s)

Next ==
    \/ \E t \in Conns \X Tasks : TaskStep(t)
    \/ \E c \in Conns : WatchStep(c) \/ PeerCloses(c) \/ TearDown(c)
    \/ \E s \in Conns \X Services : ServiceStep(s)
    \/ \E p \in Policies : UpdatePolicy(p)
    \/ Tick
    \/ SetClock

Spec == Init /\ [][Next]_vars

-----------------------------------------------------------------------------
(* Properties.                                                              *)

States == {"pending", "authorizing", "granted", "renewing", "closed"}
Validities == [boot: {0}, issued_at: Nat, expires_at: Nat, accepted_wall: Nat,
               accepted_continuous: Nat, deadline: Nat]
ActiveGrants == [grant: Grants, validity: Validities]
LeaseValues == [current: ActiveGrants, view: ActiveGrants]
PolicyValues == [ids: SUBSET Ids, lease: Nat \cup {None}]
TaskValues ==
    {Idle} \cup [at: {"verify", "ack", "commit", "published", "notify", "finish"},
                 renewal: BOOLEAN, grant: Grants, next: ActiveGrants \cup {None}]
WatcherValues ==
    [at: {"none", "snapshot", "check", "wait"}, snap: PolicyValues \cup {None},
     due: Nat, policyChanged: BOOLEAN, grantChanged: BOOLEAN]

\* Nothing that can be held is None.
ASSUME AbsenceAssumption == None \notin LeaseValues

TypeOK ==
    /\ wall \in Nat
    /\ continuous \in 0..MaxTime
    /\ policy \in PolicyValues
    /\ updates \in 0..MaxUpdates
    /\ active \subseteq Ids
    /\ st \in [Conns -> States]
    /\ lease \in [Conns -> LeaseValues \cup {None}]
    /\ closed \in [Conns -> BOOLEAN]
    /\ task \in [Conns \X Tasks -> TaskValues]
    /\ watcher \in [Conns -> WatcherValues]
    /\ service \in [Conns \X Services ->
                      [at: {"idle", "scope", "wait", "run"}, woken: BOOLEAN]]
    /\ exposed \in [Conns -> Nat]

\* A grant is bound to one connection at a time and no reservation leaks: the
\* ids in use are exactly those of the leases, one connection each, through
\* failed replies, renewals, cancellation and teardown (GrantSlot).
SlotsExact ==
    /\ active = {lease[c].current.grant.id : c \in {d \in Conns : Held(d)}}
    /\ \A c, d \in Conns : Held(c) /\ Held(d) /\ c # d =>
          lease[c].current.grant.id # lease[d].current.grant.id

\* No transaction is orphaned: while a connection is authorizing or renewing,
\* exactly one of its tasks owns the transaction, unless the connection has
\* been torn down (Admission, begin, begin_renewal).
NoOrphanTransaction ==
    \A c \in Conns :
        st[c] \in {"authorizing", "renewing"} =>
            \E owner \in {c} \X Tasks : \A t \in {c} \X Tasks :
                task[t].at \in {"verify", "ack", "commit", "published"} <=> t = owner

\* What is authorized has one owner: the ids in use are those of the leases and a
\* transaction is a task's, through failed replies, renewals, cancellation and
\* teardown (GrantSlot, Admission).
SlotsOwned == SlotsExact /\ NoOrphanTransaction

\* An open connection keeps a grant that has expired or was revoked, or whose
\* policy is stale, for one second at most, although the expiry of the policy
\* lease and a change of the clock announce themselves to nobody (watch_grant).
ExposureBounded == \A c \in Conns : exposed[c] <= Second

\* No lease is renewed by repetition: as long as a connection holds the same
\* grant it holds the deadline that was accepted with it (prepare_renewal).
RetryKeepsDeadline ==
    [][\A c \in Conns :
          Held(c) /\ Held(c)' /\ lease'[c].current.grant = lease[c].current.grant
              => lease'[c].current = lease[c].current]_vars

\* A renewal that was accepted is never undone by the watchdog's view of the
\* grant it replaced: the watchdog closes a granted connection only if its
\* current grant is expired or not permitted by the policy it read
\* (commit_renewal: "cannot race a stale expiry decision").
WatchdogSeesRenewal ==
    [][\A c \in Conns :
          /\ watcher[c].at = "check"
          /\ watcher'[c].at = "none"
          /\ closed'[c] /\ ~closed[c]
          /\ st'[c] = "granted"
          => ~(Live(lease[c].current)
               /\ Permits(watcher[c].snap, lease[c].current.grant.id))]_vars

\* A renewal stands: the deadline accepted with a grant is kept as long as the
\* grant is, and the watchdog never closes a connection for the grant that a
\* renewal replaced (prepare_renewal, commit_renewal).
RenewalStands == RetryKeepsDeadline /\ WatchdogSeesRenewal

=============================================================================
