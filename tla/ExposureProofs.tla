-------------------------- MODULE ExposureProofs ---------------------------
(***************************************************************************)
(* A grant that ended is held for one second at most: proof of the bound   *)
(* that the watchdogs of ConnAuthz keep, for any number of connections,    *)
(* streams, grants and policy updates and any length of a second.          *)
(***************************************************************************)
EXTENDS ConnAuthzProofs

(***************************************************************************)
(* Why the exposure is bounded.  An open connection that holds a grant has *)
(* a watchdog.  It decides by the policy it has read, unless a newer one   *)
(* has been announced to it, and sleeps for a second at most; while it     *)
(* sleeps unannounced, the time since the exposure began and the time left *)
(* to sleep add up to a second at most.  Under the state lock the watchdog *)
(* judges the renewed grant and scope() would still judge the old one, so  *)
(* the count has to be shown to be zero there, or the exposure over.       *)
(***************************************************************************)
Watched == \A c \in Conns : ~closed[c] /\ Held(c) => watcher[c].at # "none"

SnapKnown ==
    \A c \in Conns :
        watcher[c].at = "check" /\ ~watcher[c].policyChanged => watcher[c].snap = policy

DueBound ==
    \A c \in Conns : watcher[c].at = "wait" => watcher[c].due <= continuous + Second

Asleep(c) ==
    /\ watcher[c].at = "wait"
    /\ ~watcher[c].policyChanged
    /\ ~watcher[c].grantChanged

Timed ==
    \A c \in Conns : Asleep(c) /\ Exposed(c) =>
        exposed[c] + watcher[c].due <= continuous + Second

\* The grant a renewal is about to install is permitted.
Ready(t) == Live(task[t].next) /\ Permits(policy, task[t].next.grant.id)

Locked ==
    \A t \in Streams : task[t].at = "published" /\ ~closed[t[1]] =>
        exposed[t[1]] = 0 \/ (~Exposed(t[1]) /\ Ready(t))

ExposureInv ==
    Watched /\ SnapKnown /\ DueBound /\ Timed /\ Locked /\ ExposureBounded

\* What Exposed and scope() ask of the current grant.
Good(c) == Live(lease[c].current) /\ Permits(policy, lease[c].current.grant.id)

LEMMA ExposedFact ==
    \A c : /\ Exposed(c) <=> ~closed[c] /\ st[c] \in {"granted", "renewing"} /\ ~Good(c)
           /\ Exposed(c)' <=> ~closed'[c] /\ st'[c] \in {"granted", "renewing"} /\ ~Good(c)'
  BY Zenon DEF Exposed, Good

\* While neither the clocks nor the policy change, a grant is judged the same.
LEMMA Judgement ==
    ASSUME UNCHANGED <<wall, continuous, policy>>
    PROVE  /\ \A c : lease'[c].current = lease[c].current => (Good(c)' <=> Good(c))
           /\ \A t : task'[t].next = task[t].next => (Ready(t)' <=> Ready(t))
           /\ \A c, t : lease'[c].current = task[t].next => (Good(c)' <=> Ready(t))
<1>1. \A a : Live(a)' <=> Live(a)
  BY Zenon DEF Live, GrantLive, ValidAt, Now, AsSecs
<1>2. \A id : Permits(policy, id)' <=> Permits(policy, id)
  BY Zenon DEF Permits, Fresh
<1> QED
  BY <1>1, <1>2, Zenon DEF Good, Ready, Live, Permits

\* A step of a stream, seen from the watchdogs.
LEMMA ExposureTask ==
    ASSUME AuthzInv, AuthzInv', ExposureInv, NEW t \in Streams, TaskStep(t)
    PROVE  ExposureInv'
<1> DEFINE c == t[1]
<1> USE DEF AuthzInv, ExposureInv
<1>1. /\ c \in Conns /\ UNCHANGED <<wall, continuous, policy, exposed>>
      /\ \A u \in Streams : u[1] \in Conns
      /\ \A u \in Streams : u # t => task'[u] = task[u]
      /\ \A d \in Conns : d # c => /\ st'[d] = st[d] /\ lease'[d] = lease[d]
                                   /\ closed'[d] = closed[d]
                                   /\ watcher'[d] = watcher[d]
  <2>1. UNCHANGED <<wall, continuous, policy, exposed>>
    BY Zenon DEF TaskStep, Begin, Install, Prepare, Ack, Commit, Publish, CommitRenewal, Notify,
           Finish, Fail, env
  <2> QED
    BY <2>1, TaskFrame, StreamFacts, Zenon
<1>2. \A d \in Conns : d # c => (Exposed(d)' <=> Exposed(d)) /\ (Held(d)' <=> Held(d))
  BY <1>1, Judgement, ExposedFact, Zenon DEF Held
<1>3. ExposureBounded'
  BY <1>1, Zenon DEF ExposureBounded
<1> HIDE DEF c
\* It is enough to look at the stream's own connection.
<1>4. ASSUME ~closed'[c] /\ Held(c)' => watcher'[c].at # "none",
             watcher'[c].at = "check" /\ ~watcher'[c].policyChanged => watcher'[c].snap = policy,
             watcher'[c].at = "wait" => watcher'[c].due <= continuous + Second,
             Asleep(c)' /\ Exposed(c)' => exposed[c] + watcher'[c].due <= continuous + Second,
             \A u \in Streams : u[1] = c /\ task'[u].at = "published" /\ ~closed'[c] =>
                 exposed[c] = 0 \/ (~Exposed(c)' /\ Ready(u)')
      PROVE  ExposureInv'
  <2>1. Watched'
    BY <1>1, <1>2, <1>4, Zenon DEF Watched
  <2>2. SnapKnown'
    BY <1>1, <1>4, Zenon DEF SnapKnown
  <2>3. DueBound'
    BY <1>1, <1>4, Zenon DEF DueBound
  <2>4. Timed'
    BY <1>1, <1>2, <1>4, Zenon DEF Timed, Asleep
  <2>5. Locked'
    BY <1>1, <1>2, <1>4, Judgement, Zenon DEF Locked, c
  <2> QED
    BY <1>3, <2>1, <2>2, <2>3, <2>4, <2>5, Zenon
<1>5. CASE Fail(t)
  <2>1. closed'[c] /\ watcher'[c].at = "none"
    BY <1>1, <1>5, DropEffect, Zenon DEF Fail, CloseConn, TypeOK, c
  <2> QED
    BY <1>4, <2>1, Zenon DEF Asleep
<1>6. CASE Install(t)
  <2>1. watcher'[c].at = "snapshot" /\ UNCHANGED closed
    <3>1. /\ watcher' = [watcher EXCEPT ![c] = [NoWatcher EXCEPT !.at = "snapshot"]]
          /\ UNCHANGED closed
      BY <1>6, Zenon DEF Install, c
    <3>2. c \in DOMAIN watcher
      BY <1>1, Zenon DEF TypeOK
    <3>3. [NoWatcher EXCEPT !.at = "snapshot"].at = "snapshot"
      BY DEF NoWatcher
    <3> QED
      BY <3>1, <3>2, <3>3, Zenon
  <2>2. \A u \in Streams : u[1] = c => task'[u].at # "published"
    <3>1. st'[c] = "authorizing"
      BY <1>6, Zenon DEF Install, c
    <3> QED
      BY <3>1, Zenon DEF Transactions, Working
  <2> QED
    BY <1>4, <2>1, <2>2, Zenon DEF Asleep
<1>7. CASE Publish(t)
  <2>1. /\ task[t].at = "commit" /\ task[t].renewal /\ st[c] = "renewing" /\ ~closed[c]
        /\ Live(lease[c].current) /\ Ready(t) /\ UNCHANGED <<st, closed>>
    BY <1>7, Zenon DEF Publish, Ready, c
  <2>2. Held(c) /\ task[t].next.grant.id = lease[c].current.grant.id
    BY <1>1, <2>1, Zenon DEF Leased, Prepared, c
  <2>3. Good(c)
    BY <2>1, <2>2, Zenon DEF Good, Ready
  <2>4. lease'[c].current = lease[c].current /\ task'[t].next = task[t].next
    <3>1. lease[c] \in LeaseValues
      BY <1>1, <2>2, LeaseFacts, Zenon
    <3>2. lease'[c].current = lease[c].current
      BY <1>1, <1>7, <3>1, Zenon DEF Publish, LeaseValues, TypeOK, c
    <3>3. task[t] \in TaskValues /\ task \in [Streams -> TaskValues]
      BY TaskFacts, Zenon DEF TypeOK, Streams
    <3>4. task'[t].next = task[t].next
      BY <1>7, <2>1, <3>3, Zenon DEF Publish, TaskValues, Idle
    <3> QED
      BY <3>2, <3>4, Zenon
  <2>5. ~Exposed(c)' /\ Ready(t)'
    BY <1>1, <2>1, <2>3, <2>4, Judgement, ExposedFact, Zenon
  <2>6. /\ watcher'[c].at = watcher[c].at /\ watcher'[c].snap = watcher[c].snap
        /\ watcher'[c].due = watcher[c].due
        /\ watcher'[c].policyChanged = watcher[c].policyChanged
    <3>1. ASSUME NEW b, watcher' = [watcher EXCEPT ![c].grantChanged = b]
          PROVE  /\ watcher'[c].at = watcher[c].at /\ watcher'[c].snap = watcher[c].snap
                 /\ watcher'[c].due = watcher[c].due
                 /\ watcher'[c].policyChanged = watcher[c].policyChanged
      BY <1>1, <3>1 DEF TypeOK, WatcherValues
    <3> QED
      BY <1>7, <3>1, Zenon DEF Publish, c
  <2>7. \A u \in Streams : u[1] = c /\ task'[u].at = "published" => u = t
    BY <1>1, <2>1, SMTT(30) DEF OneOwner, Working, c
  <2>8. watcher[c].at # "none"
    BY <1>1, <2>1, <2>2, Zenon DEF Watched
  <2>9. watcher[c].at = "check" /\ ~watcher[c].policyChanged => watcher[c].snap = policy
    BY <1>1, Zenon DEF SnapKnown
  <2>10. watcher[c].at = "wait" => watcher[c].due <= continuous + Second
    BY <1>1, Zenon DEF DueBound
  <2> QED
    BY <1>4, <2>5, <2>6, <2>7, <2>8, <2>9, <2>10, Zenon
<1>8. CASE ~(Fail(t) \/ Install(t) \/ Publish(t))
  <2>1. UNCHANGED <<closed, watcher>>
    BY <1>8, Zenon DEF TaskStep, Begin, Prepare, Ack, Commit, CommitRenewal, Notify, Finish, conn
  <2>2. Held(c)' => Held(c)
    <3>1. CASE CommitRenewal(t)
      BY <3>1, CommitEffect, Zenon DEF Commits, c
    <3>2. CASE ~CommitRenewal(t)
      BY <1>8, <3>2, Zenon DEF TaskStep, Begin, Prepare, Ack, Commit, Notify, Finish, conn, Held
    <3> QED
      BY <3>1, <3>2, Zenon
  <2>3. Exposed(c)' => exposed[c] = 0 \/ Exposed(c)
    <3>1. CASE CommitRenewal(t)
      <4>1. Ready(t) => Good(c)'
        BY <1>1, <3>1, CommitEffect, Judgement, Zenon DEF Commits, c
      <4> QED
        BY <1>1, <3>1, <4>1, <2>1, ExposedFact, Zenon DEF Locked, CommitRenewal, c
    <3>2. CASE ~CommitRenewal(t)
      <4>1. UNCHANGED lease
        BY <1>8, <3>2, Zenon DEF TaskStep, Begin, Prepare, Ack, Commit, Notify, Finish, conn
      <4>2. Good(c)' <=> Good(c)
        BY <1>1, <4>1, Judgement, Zenon
      <4>3. Commit(t) => Good(c)
        BY Zenon DEF Commit, Committable, Good, c
      <4>4. \/ Commit(t) \/ UNCHANGED st
            \/ st[c] \in {"granted"} \/ st'[c] = "authorizing"
        BY <1>1, <1>8, <3>2, Zenon DEF TaskStep, Begin, Prepare, Ack, Notify, Finish, conn, c, TypeOK
      <4> QED
        BY <2>1, <4>2, <4>3, <4>4, ExposedFact, Zenon
    <3> QED
      BY <3>1, <3>2, Zenon
  <2>4. \A u \in Streams : u[1] = c /\ task'[u].at = "published" /\ ~closed'[c] =>
            exposed[c] = 0 \/ (~Exposed(c)' /\ Ready(u)')
    <3> SUFFICES ASSUME NEW u \in Streams, u[1] = c, task'[u].at = "published", ~closed'[c]
                 PROVE  exposed[c] = 0 \/ (~Exposed(c)' /\ Ready(u)')
      BY Zenon
    <3>1. u # t
      <4>1. task'[t].at # "published"
        BY <1>8, Targets, Zenon
      <4> QED
        BY <4>1, Zenon
    <3>2. task[u].at = "published" /\ task'[u] = task[u]
      BY <1>1, <3>1, Zenon
    <3>3. UNCHANGED <<st, lease>>
      BY <1>8, <3>1, <3>2, WorkingAlone, Zenon DEF Working, c
    <3>4. (Exposed(c)' <=> Exposed(c)) /\ (Ready(u)' <=> Ready(u))
      BY <1>1, <2>1, <3>2, <3>3, Judgement, ExposedFact, Zenon
    <3> QED
      BY <2>1, <3>2, <3>4, Zenon DEF Locked
  <2>5. ~closed[c] /\ Held(c) => watcher[c].at # "none"
    BY <1>1, Zenon DEF Watched
  <2>6. watcher[c].at = "check" /\ ~watcher[c].policyChanged => watcher[c].snap = policy
    BY <1>1, Zenon DEF SnapKnown
  <2>7. watcher[c].at = "wait" => watcher[c].due <= continuous + Second
    BY <1>1, Zenon DEF DueBound
  <2>8. Asleep(c) /\ Exposed(c) => exposed[c] + watcher[c].due <= continuous + Second
    BY <1>1, Zenon DEF Timed
  <2>9. Asleep(c)' <=> Asleep(c)
    BY <2>1, Zenon DEF Asleep
  <2>10. Asleep(c)' /\ Exposed(c)' => exposed[c] + watcher'[c].due <= continuous + Second
    <3>1. exposed[c] = 0 /\ Asleep(c) => exposed[c] + watcher[c].due <= continuous + Second
      BY <1>1, <2>7, SMTT(30) DEF Asleep, TypeOK, WatcherValues
    <3> QED
      BY <2>1, <2>3, <2>8, <2>9, <3>1, Zenon
  <2> QED
    BY <1>4, <2>1, <2>2, <2>4, <2>5, <2>6, <2>7, <2>10, Zenon
<1> QED
  BY <1>5, <1>6, <1>7, <1>8, Zenon

\* A step of a watchdog.
LEMMA ExposureWatch ==
    ASSUME AuthzInv, AuthzInv', ExposureInv, NEW c \in Conns, WatchStep(c)
    PROVE  ExposureInv'
<1> USE DEF AuthzInv, ExposureInv
<1>1. /\ UNCHANGED <<wall, continuous, policy, exposed, st, lease, task>>
      /\ \A d \in Conns : d # c => closed'[d] = closed[d] /\ watcher'[d] = watcher[d]
      /\ closed[c] => closed'[c]
  BY ZenonT(40) DEF WatchStep, WatchSnapshot, WatchCheck, WatchWake, CloseConn, env, conn, TypeOK
<1>2. \A d \in Conns : Held(d)' <=> Held(d)
  BY <1>1, Zenon DEF Held
<1>3. /\ \A d \in Conns : Exposed(d)' => Exposed(d)
      /\ \A d \in Conns : closed'[d] = closed[d] => (Exposed(d)' <=> Exposed(d))
      /\ \A u \in Streams : Ready(u)' <=> Ready(u)
  BY <1>1, Judgement, ExposedFact, Zenon
<1>4. ExposureBounded'
  BY <1>1, Zenon DEF ExposureBounded
<1>5. Locked'
  BY <1>1, <1>3, StreamFacts, Zenon DEF Locked
<1>6. ASSUME ~closed'[c] => watcher'[c].at # "none" \/ ~Held(c),
             watcher'[c].at = "check" /\ ~watcher'[c].policyChanged => watcher'[c].snap = policy,
             watcher'[c].at = "wait" => watcher'[c].due <= continuous + Second,
             Asleep(c)' /\ Exposed(c)' => exposed[c] + watcher'[c].due <= continuous + Second
      PROVE  ExposureInv'
  <2>1. Watched'
    BY <1>1, <1>2, <1>6, Zenon DEF Watched
  <2>2. SnapKnown'
    BY <1>1, <1>6, Zenon DEF SnapKnown
  <2>3. DueBound'
    BY <1>1, <1>6, Zenon DEF DueBound
  <2>4. Timed'
    BY <1>1, <1>3, <1>6, Zenon DEF Timed, Asleep
  <2> QED
    BY <1>4, <1>5, <2>1, <2>2, <2>3, <2>4, Zenon
<1>7. CASE WatchSnapshot(c)
  <2>1. watcher'[c].at = "check" /\ watcher'[c].snap = policy
    BY <1>7 DEF WatchSnapshot, TypeOK, WatcherValues
  <2> QED
    BY <1>6, <2>1, Zenon DEF Asleep
<1>8. CASE WatchWake(c)
  <2>1. \/ watcher'[c].at = "snapshot"
        \/ watcher'[c].at = "none" /\ closed'[c]
    BY <1>8 DEF WatchWake, TypeOK, WatcherValues, NoWatcher, conn
  <2> QED
    BY <1>6, <2>1, Zenon DEF Asleep
<1>9. CASE WatchCheck(c)
  <2> DEFINE view == lease[c].view
  <2>1. CASE ~(Permits(watcher[c].snap, view.grant.id) /\ Live(view))
    <3>1. closed'[c] /\ watcher'[c].at = "none"
      BY <1>9, <2>1 DEF WatchCheck, CloseConn, TypeOK, NoWatcher
    <3> QED
      BY <1>6, <3>1, Zenon DEF Asleep
  <2>2. CASE Permits(watcher[c].snap, view.grant.id) /\ Live(view)
    <3>1. /\ watcher' = [watcher EXCEPT ![c].at = "wait", ![c].due = continuous + Wait(view),
                                        ![c].grantChanged = FALSE]
          /\ UNCHANGED closed /\ watcher[c].at = "check"
      BY <1>9, <2>2, Zenon DEF WatchCheck
    <3>2. /\ watcher'[c].at = "wait" /\ watcher'[c].due = continuous + Wait(view)
          /\ watcher'[c].policyChanged = watcher[c].policyChanged
      BY <3>1 DEF TypeOK, WatcherValues
    <3>3. Held(c)
      BY <3>1, Zenon DEF OnlyLeasedWatched
    <3>4. Wait(view) \in Nat /\ Wait(view) <= Second
      BY <3>3, LeaseFacts, WaitFact, Zenon
    <3>5. watcher'[c].due <= continuous + Second
      BY <3>2, <3>4, SecondAssumption, AuthzAssumption DEF TypeOK
    <3>6. Asleep(c)' /\ Exposed(c)' => exposed[c] = 0
      <4> SUFFICES ASSUME Asleep(c)', Exposed(c), ~closed[c] PROVE exposed[c] = 0
        BY <1>3, ExposedFact, Zenon
      <4>1. watcher[c].snap = policy
        BY <3>1, <3>2, Zenon DEF Asleep, SnapKnown
      <4>2. CASE \A u \in Streams : u[1] = c => task[u].at # "published"
        <5>1. view = lease[c].current
          BY <3>3, <4>2, Zenon DEF Viewed
        <5>2. Good(c)
          BY <2>2, <4>1, <5>1, Zenon DEF Good
        <5> QED
          BY <5>2, ExposedFact, Zenon
      <4>3. CASE \E u \in Streams : u[1] = c /\ task[u].at = "published"
        BY <4>3, Zenon DEF Locked
      <4> QED
        BY <4>2, <4>3, Zenon
    <3>7. exposed[c] = 0 => exposed[c] + watcher'[c].due <= continuous + Second
      BY <3>2, <3>4, <3>5, AuthzAssumption DEF TypeOK
    <3> QED
      BY <1>6, <3>2, <3>5, <3>6, <3>7, Zenon
  <2> QED
    BY <2>1, <2>2, Zenon
<1> QED
  BY <1>7, <1>8, <1>9, Zenon DEF WatchStep

\* A policy update or a clock setting cannot lengthen an exposure.
LEMMA StillFact ==
    ASSUME TypeOK, Locked, exposed' = ExposedStill, NEW c \in Conns
    PROVE  /\ exposed'[c] = 0 \/ (exposed'[c] = exposed[c] /\ Exposed(c) /\ Exposed(c)')
           /\ \A t \in Streams : t[1] = c /\ task[t].at = "published" /\ ~closed[c] =>
                 exposed'[c] = 0
<1>1. exposed'[c] = IF Exposed(c) /\ Exposed(c)' THEN exposed[c] ELSE 0
  BY Zenon DEF ExposedStill
<1> QED
  BY <1>1, Zenon DEF Locked

LEMMA StillBounded ==
    ASSUME TypeOK, Locked, ExposureBounded, exposed' = ExposedStill
    PROVE  ExposureBounded'
<1> SUFFICES ASSUME NEW c \in Conns PROVE exposed'[c] <= Second
  BY Zenon DEF ExposureBounded
<1>1. exposed'[c] = 0 \/ exposed'[c] = exposed[c]
  BY StillFact, Zenon
<1>2. exposed[c] <= Second
  BY Zenon DEF ExposureBounded
<1> QED
  BY <1>1, <1>2, SecondAssumption

LEMMA ExposureEnvironment ==
    ASSUME AuthzInv, AuthzInv', ExposureInv,
           (\E p \in Policies : UpdatePolicy(p)) \/ Tick \/ SetClock
    PROVE  ExposureInv'
<1> USE DEF AuthzInv, ExposureInv
<1>1. ASSUME NEW p \in Policies, UpdatePolicy(p) PROVE ExposureInv'
  <2>1. UNCHANGED <<continuous, st, lease, closed, task>> /\ exposed' = ExposedStill
    BY <1>1, Zenon DEF UpdatePolicy, conn
  <2>2. \A c \in Conns : /\ watcher'[c].at = watcher[c].at /\ watcher'[c].due = watcher[c].due
                         /\ watcher[c].at # "none" => watcher'[c].policyChanged
    BY <1>1 DEF UpdatePolicy, TypeOK, WatcherValues
  <2>3. Watched' /\ SnapKnown' /\ DueBound' /\ Timed'
    BY <2>1, <2>2, Zenon DEF Watched, SnapKnown, DueBound, Timed, Asleep, Held
  <2>4. Locked'
    BY <2>1, StillFact, StreamFacts, Zenon DEF Locked
  <2>5. ExposureBounded'
    BY <2>1, StillBounded, Zenon
  <2> QED
    BY <2>3, <2>4, <2>5, Zenon
<1>2. CASE SetClock
  <2>1. /\ UNCHANGED <<continuous, policy, st, lease, closed, task, watcher>>
        /\ exposed' = ExposedStill
    BY <1>2, Zenon DEF SetClock, conn
  <2>2. Watched' /\ SnapKnown' /\ DueBound'
    BY <2>1, Zenon DEF Watched, SnapKnown, DueBound, Held
  <2>3. Timed'
    <3> SUFFICES ASSUME NEW c \in Conns, Asleep(c)', Exposed(c)'
                 PROVE  exposed'[c] + watcher'[c].due <= continuous' + Second
      BY Zenon DEF Timed
    <3>1. Asleep(c) /\ watcher[c].due <= continuous + Second /\ watcher[c].due \in Nat
      BY <2>1, Zenon DEF Asleep, DueBound, TypeOK, WatcherValues
    <3>2. Exposed(c) => exposed[c] + watcher[c].due <= continuous + Second
      BY <3>1, Zenon DEF Timed
    <3> QED
      BY <2>1, <3>1, <3>2, StillFact
  <2>4. Locked'
    BY <2>1, StillFact, StreamFacts, Zenon DEF Locked
  <2>5. ExposureBounded'
    BY <2>1, StillBounded, Zenon
  <2> QED
    BY <2>2, <2>3, <2>4, <2>5, Zenon
<1>3. CASE Tick
  <2>1. /\ continuous' = continuous + 1 /\ UNCHANGED <<policy, st, lease, closed, task, watcher>>
        /\ \A c \in Conns : /\ Exposed(c) => exposed'[c] = exposed[c] + 1
                            /\ ~Exposed(c) => exposed'[c] = 0
        /\ \A c \in Conns : Settled(c)
    BY <1>3, Zenon DEF Tick, conn
  <2>2. Watched' /\ SnapKnown'
    BY <2>1, Zenon DEF Watched, SnapKnown, Held
  <2>3. DueBound'
    BY <2>1, SecondAssumption, SMTT(30) DEF DueBound, TypeOK, WatcherValues
  <2>4. Locked'
    <3>1. \A t \in Streams : task[t].at # "published"
      BY <2>1, LockFact, StreamFacts, Zenon DEF Settled
    <3> QED
      BY <2>1, <3>1, Zenon DEF Locked
  <2>5. \A c \in Conns : /\ exposed[c] \in Nat /\ watcher[c].due \in Nat
                         /\ continuous \in Nat /\ Second \in Nat
    BY SecondAssumption, AuthzAssumption DEF TypeOK, WatcherValues
  <2>6. Timed'
    <3> SUFFICES ASSUME NEW c \in Conns, Asleep(c)'
                 PROVE  exposed'[c] + watcher'[c].due <= continuous' + Second
      BY Zenon DEF Timed
    <3>1. Asleep(c) /\ watcher[c].due <= continuous + Second
      BY <2>1, Zenon DEF Asleep, DueBound
    <3>2. Exposed(c) => exposed[c] + watcher[c].due <= continuous + Second
      BY <3>1, Zenon DEF Timed
    <3> QED
      BY <2>1, <2>5, <3>1, <3>2
  <2>7. ExposureBounded'
    <3>1. ASSUME NEW c \in Conns, Exposed(c) PROVE exposed[c] + 1 <= Second
      <4>1. Held(c) /\ ~closed[c]
        BY <3>1, Zenon DEF Exposed, Leased
      <4>2. Asleep(c) /\ continuous < watcher[c].due
        BY <2>1, <4>1, Zenon DEF Settled, Asleep, Watched
      <4>3. exposed[c] + watcher[c].due <= continuous + Second
        BY <3>1, <4>2, Zenon DEF Timed
      <4> QED
        BY <2>5, <4>2, <4>3
    <3>2. ASSUME NEW c \in Conns PROVE exposed'[c] <= Second
      <4>1. CASE Exposed(c)
        BY <2>1, <3>1, <4>1, Zenon
      <4>2. CASE ~Exposed(c)
        <5>1. exposed'[c] = 0
          BY <2>1, <4>2, Zenon
        <5> QED
          BY <5>1, SecondAssumption
      <4> QED
        BY <4>1, <4>2, Zenon
    <3> QED
      BY <3>2, Zenon DEF ExposureBounded
  <2> QED
    BY <2>2, <2>3, <2>4, <2>6, <2>7, Zenon
<1> QED
  BY <1>1, <1>2, <1>3, Zenon

LEMMA ExposureStep ==
    AuthzInv /\ AuthzInv' /\ ExposureInv /\ [Next]_vars => ExposureInv'
<1> SUFFICES ASSUME AuthzInv, AuthzInv', ExposureInv, [Next]_vars PROVE ExposureInv'
  BY Zenon
<1>1. ASSUME UNCHANGED <<wall, continuous, policy, exposed, st, lease, task, watcher>>,
             \A d \in Conns : closed[d] => closed'[d]
      PROVE  ExposureInv'
  <2>1. /\ \A d \in Conns : (Exposed(d)' => Exposed(d)) /\ (Held(d)' <=> Held(d))
        /\ \A u \in Streams : Ready(u)' <=> Ready(u)
    BY <1>1, Judgement, ExposedFact, Zenon DEF Held
  <2>2. Watched' /\ SnapKnown' /\ DueBound' /\ ExposureBounded'
    BY <1>1, <2>1, Zenon DEF ExposureInv, Watched, SnapKnown, DueBound, ExposureBounded
  <2>3. Timed'
    BY <1>1, <2>1, Zenon DEF ExposureInv, Timed, Asleep
  <2>4. Locked'
    BY <1>1, <2>1, StreamFacts, Zenon DEF ExposureInv, Locked
  <2> QED
    BY <2>2, <2>3, <2>4, Zenon DEF ExposureInv
<1>2. ASSUME NEW s \in Conns \X Services, ServiceStep(s) PROVE ExposureInv'
  <2>1. UNCHANGED <<wall, continuous, policy, exposed, st, lease, task, watcher>>
    BY <1>2, Zenon DEF ServiceStep, Arrive, Scope, Woken, ScopeTimeout, Serve, env, conn
  <2>2. \A d \in Conns : closed[d] => closed'[d]
    BY <1>2, Zenon DEF ServiceStep, Arrive, Scope, Woken, ScopeTimeout, Serve, CloseConn, conn,
                AuthzInv, TypeOK
  <2> QED
    BY <1>1, <2>1, <2>2, Zenon
<1>3. ASSUME NEW c \in Conns, PeerCloses(c) PROVE ExposureInv'
  <2>1. /\ UNCHANGED <<wall, continuous, policy, exposed, st, lease, task, watcher>>
        /\ \A d \in Conns : closed[d] => closed'[d]
    BY <1>3, Zenon DEF PeerCloses, CloseConn, env, AuthzInv, TypeOK
  <2> QED
    BY <1>1, <2>1, Zenon
<1>4. ASSUME NEW c \in Conns, TearDown(c) PROVE ExposureInv'
  <2>1. /\ UNCHANGED <<wall, continuous, policy, exposed, closed, task>> /\ closed[c]
        /\ watcher'[c].at = "none" /\ st'[c] = "closed"
        /\ \A d \in Conns : d # c => /\ st'[d] = st[d] /\ lease'[d] = lease[d]
                                     /\ watcher'[d] = watcher[d]
    BY <1>4, DropEffect, DropFrame, Zenon DEF TearDown, Drops, env, AuthzInv
  <2>2. /\ \A d \in Conns : d # c => (Exposed(d)' => Exposed(d)) /\ (Held(d)' <=> Held(d))
        /\ \A u \in Streams : Ready(u)' <=> Ready(u)
    BY <2>1, Judgement, ExposedFact, Zenon DEF Held
  <2>3. Watched' /\ SnapKnown' /\ DueBound' /\ ExposureBounded'
    BY <2>1, <2>2, Zenon DEF ExposureInv, Watched, SnapKnown, DueBound, ExposureBounded
  <2>4. Timed'
    BY <2>1, <2>2, Zenon DEF ExposureInv, Timed, Asleep
  <2>5. Locked'
    BY <2>1, <2>2, StreamFacts, Zenon DEF ExposureInv, Locked
  <2> QED
    BY <2>3, <2>4, <2>5, Zenon DEF ExposureInv
<1>5. CASE UNCHANGED vars
  BY <1>1, <1>5, Zenon DEF vars, env, conn
<1> QED
  BY <1>2, <1>3, <1>4, <1>5, ExposureTask, ExposureWatch, ExposureEnvironment, Zenon DEF Next, Streams

\* An open connection keeps a grant that has expired or was revoked, or whose
\* policy is stale, for one second at most, for any number of connections,
\* streams, grants and policy updates and any length of a second
\* (watch_grant sleeps for the remaining time, a second at most).
THEOREM ExposuresBounded == Spec => []ExposureBounded
<1>1. Init => ExposureInv
  <2> SUFFICES ASSUME Init PROVE ExposureInv
    BY Zenon
  <2>1. /\ \A c \in Conns : ~Held(c) /\ watcher[c].at = "none" /\ exposed[c] = 0
        /\ \A t \in Streams : task[t].at = "idle"
    BY Zenon DEF Init, Held, NoWatcher, Idle, Streams
  <2>2. Watched /\ SnapKnown /\ DueBound /\ Timed /\ Locked
    BY <2>1, Zenon DEF Watched, SnapKnown, DueBound, Timed, Locked, Asleep
  <2>3. ExposureBounded
    BY <2>1, SecondAssumption DEF ExposureBounded
  <2> QED
    BY <2>2, <2>3, Zenon DEF ExposureInv
<1>2. Spec => []ExposureInv
  BY <1>1, ExposureStep, AuthzInvariant, PTL DEF Spec
<1>3. ExposureInv => ExposureBounded
  BY Zenon DEF ExposureInv
<1> QED
  BY <1>2, <1>3, PTL
=============================================================================
