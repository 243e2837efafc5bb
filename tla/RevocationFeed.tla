--------------------------- MODULE RevocationFeed ---------------------------
(***************************************************************************)
(* The revocation feed of an agent (rds-agent, revocations.rs): feeds poll *)
(* signed snapshots, commit them in a policy store on a blocking thread,   *)
(* and publish them in the one value that admits grants.  A feed is        *)
(* dropped while its job runs; its successor opens the same store file.    *)
(*                                                                         *)
(* The store is the one of PolicyStore, reduced to the revision it holds:  *)
(* a healthy handle agrees with its file, a failed one is never read.  The *)
(* wall clock is not set here, so a lease ends with its snapshot.          *)
(***************************************************************************)
EXTENDS Naturals, Sequences, TLAPS

CONSTANTS
    Feeds,       \* calls of watch_revocations()
    Expiry,      \* the snapshots: when revision r expires, a sequence
    MaxTime,     \* bound of the clock
    MaxCalls,    \* bound of embedder calls, failures and restarts
    Unset

ASSUME FeedAssumption ==
    /\ Expiry \in Seq(Nat)
    /\ MaxTime \in Nat
    /\ MaxCalls \in Nat
    /\ Unset \notin Feeds \cup Nat

Revisions == DOMAIN Expiry

VARIABLES
    now,
    latest,  \* the newest snapshot the estate has signed
    calls,   \* embedder calls, failures and restarts so far
    stored,    \* the revision committed in the store file, 0 for none
    lock,    \* the feed whose task or job keeps the store open
    policy,  \* AgentPolicy.denylist
    feed,    \* the task of each feed
    job,     \* its blocking job
    top      \* history: the newest revision ever published

env == <<now, latest, calls>>
feedVars == <<env, stored, lock, policy, feed, job, top>>

\* RevocationPolicy; a lease is named by the revision it belongs to.
Default ==
    [ids |-> {}, lease |-> Unset, revision |-> Unset, local |-> FALSE, owner |-> Unset]
NoJob == [at |-> "none", rev |-> 0]

Unexpired(r) == now < Expiry[r]
FreshPolicy(p) == p.local \/ (p.lease # Unset /\ Unexpired(p.lease))

FeedInit ==
    /\ now = 0
    /\ latest \in Revisions \cup {0}
    /\ calls = 0
    /\ stored = 0
    /\ lock = Unset
    /\ policy = Default
    /\ feed = [f \in Feeds |-> "none"]
    /\ job = [f \in Feeds |-> NoJob]
    /\ top = 0

-----------------------------------------------------------------------------
(* The shared value.                                                        *)

\* Mutant of update_feed(): any feed may write.
UpdateFeedByAny(f, p) == policy' = p
UpdateFeed(f, p) == policy' = IF policy.owner = f THEN p ELSE policy

\* publish_revocations(): complete contents and the lease, at once.
Publishing(r) == [policy EXCEPT !.ids = 1..r, !.lease = r, !.revision = r]
KeepTop == top' = IF policy'.revision # Unset /\ policy'.revision > top
                 THEN policy'.revision ELSE top

-----------------------------------------------------------------------------
(* watch_revocations().                                                     *)

\* PolicyStore::open() holds the lock of its file as long as the handle lives.
Open(f) ==
    /\ feed[f] = "none"
    /\ lock = Unset
    /\ feed' = [feed EXCEPT ![f] = "opened"]
    /\ lock' = f
    /\ UNCHANGED <<env, stored, policy, job, top>>

\* claim_feed(): refused while another feed owns the value.
Claim(f) ==
    /\ feed[f] = "opened"
    /\ IF policy.owner # Unset
       THEN /\ feed' = [feed EXCEPT ![f] = "none"]
            /\ lock' = Unset
            /\ UNCHANGED policy
       ELSE /\ feed' = [feed EXCEPT ![f] = "claimed"]
            /\ policy' = [policy EXCEPT !.local = FALSE, !.lease = Unset,
                                        !.owner = f, !.revision = Unset]
            /\ UNCHANGED lock
    /\ UNCHANGED <<env, stored, job, top>>

\* The verified cache is published before anything is served.
Load(f) ==
    /\ feed[f] = "claimed"
    /\ IF stored # 0 /\ Unexpired(stored) THEN UpdateFeed(f, Publishing(stored))
       ELSE UNCHANGED policy
    /\ feed' = [feed EXCEPT ![f] = "poll"]
    /\ KeepTop
    /\ UNCHANGED <<env, stored, lock, job>>

\* fetch_revocations(): any snapshot signed so far may be served.
Fetch(f, r) ==
    /\ feed[f] = "poll"
    /\ r <= latest
    /\ feed' = [feed EXCEPT ![f] = "job"]
    /\ job' = [job EXCEPT ![f] = [at |-> "run", rev |-> r]]
    /\ UNCHANGED <<env, stored, lock, policy, top>>

\* Mutant: an older snapshot replaces the committed one.
NewerOrEqualAny(r) == TRUE
NewerOrEqual(r) == r >= stored

\* accept_revocations() and the read after it.
RunJob(f) ==
    /\ job[f].at = "run"
    /\ LET r == job[f].rev
           accepted == Unexpired(r) /\ NewerOrEqual(r)
       IN  /\ stored' = IF accepted THEN r ELSE stored
           /\ job' = [job EXCEPT ![f] = [at |-> IF accepted THEN "ok" ELSE "rejected",
                                         rev |-> r]]
    /\ UNCHANGED <<env, lock, policy, feed, top>>

\* The write fails before or after its rename, or the job panics.
JobFails(f) ==
    /\ job[f].at = "run"
    /\ calls < MaxCalls
    /\ calls' = calls + 1
    /\ stored' \in {stored} \cup (IF Unexpired(job[f].rev) /\ job[f].rev >= stored
                               THEN {job[f].rev} ELSE {})
    /\ job' = [job EXCEPT ![f].at = "fatal"]
    /\ UNCHANGED <<now, latest, lock, policy, feed, top>>

\* Mutant: only a first snapshot is published.
OutcomeOnce(f) ==
    IF job[f].at = "ok" /\ policy.revision = Unset
    THEN UpdateFeed(f, Publishing(job[f].rev))
    ELSE IF job[f].at = "fatal" THEN UpdateFeed(f, [policy EXCEPT !.lease = Unset])
    ELSE UNCHANGED policy
Outcome(f) ==
    CASE job[f].at = "ok" -> UpdateFeed(f, Publishing(job[f].rev))
      [] job[f].at = "fatal" -> UpdateFeed(f, [policy EXCEPT !.lease = Unset])
      [] OTHER -> UNCHANGED policy

\* The task takes the result; an aborted one that already runs still does.
Finish(f) ==
    /\ feed[f] \in {"job", "aborted"}
    /\ job[f].at \in {"ok", "rejected", "fatal"}
    /\ Outcome(f)
    /\ job' = [job EXCEPT ![f] = NoJob]
    /\ feed' = [feed EXCEPT ![f] =
                  IF feed[f] = "aborted" THEN "aborted"
                  ELSE IF job[f].at = "fatal" THEN "broken" ELSE "poll"]
    /\ lock' = IF job[f].at = "fatal" /\ feed[f] = "job" THEN Unset ELSE lock
    /\ KeepTop
    /\ UNCHANGED <<env, stored>>

\* RevocationFeed::drop.
DropFeed(f) ==
    /\ feed[f] \in {"poll", "job", "broken"}
    /\ UpdateFeed(f, [policy EXCEPT !.lease = Unset, !.owner = Unset, !.revision = Unset])
    /\ feed' = [feed EXCEPT ![f] = IF feed[f] = "broken" THEN "none" ELSE "aborted"]
    /\ UNCHANGED <<env, stored, lock, job, top>>

\* The aborted task is gone, and its job with its handle of the store.
Ended(f) ==
    /\ feed[f] = "aborted"
    /\ job[f].at # "run"
    /\ feed' = [feed EXCEPT ![f] = "none"]
    /\ job' = [job EXCEPT ![f] = NoJob]
    /\ lock' = Unset
    /\ UNCHANGED <<env, stored, policy, top>>

-----------------------------------------------------------------------------
(* The embedder, the estate, time and the process.                          *)

\* use_local_revocations(), require_managed_revocations(), revoke(),
\* replace_denylist().
Configure(p) ==
    /\ calls < MaxCalls
    /\ calls' = calls + 1
    /\ policy' = p
    /\ UNCHANGED <<now, latest, stored, lock, feed, job, top>>
Configurations ==
    {[policy EXCEPT !.local = TRUE, !.owner = Unset, !.revision = Unset],
     [policy EXCEPT !.local = FALSE, !.lease = Unset, !.owner = Unset, !.revision = Unset],
     [policy EXCEPT !.ids = {}]}
        \cup {[policy EXCEPT !.ids = @ \cup {id}] : id \in Revisions}

Restart ==
    /\ calls < MaxCalls
    /\ calls' = calls + 1
    /\ lock' = Unset
    /\ policy' = Default
    /\ feed' = [f \in Feeds |-> "none"]
    /\ job' = [f \in Feeds |-> NoJob]
    /\ UNCHANGED <<now, latest, stored, top>>

Sign ==
    /\ latest + 1 \in Revisions
    /\ latest' = latest + 1
    /\ UNCHANGED <<now, calls, stored, lock, policy, feed, job, top>>

Tick ==
    /\ now < MaxTime
    /\ now' = now + 1
    /\ UNCHANGED <<latest, calls, stored, lock, policy, feed, job, top>>

FeedStep(f) ==
    \/ Open(f) \/ Claim(f) \/ Load(f)
    \/ \E r \in Revisions : Fetch(f, r)
    \/ RunJob(f) \/ JobFails(f) \/ Finish(f) \/ DropFeed(f) \/ Ended(f)

FeedNext ==
    \/ \E f \in Feeds : FeedStep(f)
    \/ \E p \in Configurations : Configure(p)
    \/ Restart
    \/ Sign
    \/ Tick

FeedSpec == FeedInit /\ [][FeedNext]_feedVars

-----------------------------------------------------------------------------
(* Properties.                                                              *)

PolicyValues ==
    [ids: SUBSET Revisions, lease: Revisions \cup {Unset},
     revision: Revisions \cup {Unset}, local: BOOLEAN, owner: Feeds \cup {Unset}]
JobValues ==
    {NoJob} \cup [at: {"run", "ok", "rejected", "fatal"}, rev: Revisions]

FeedTypeOK ==
    /\ now \in 0..MaxTime
    /\ latest \in Revisions \cup {0}
    /\ calls \in 0..MaxCalls
    /\ stored \in Revisions \cup {0}
    /\ lock \in Feeds \cup {Unset}
    /\ policy \in PolicyValues
    /\ feed \in [Feeds -> {"none", "opened", "claimed", "poll", "job", "broken",
                           "aborted"}]
    /\ job \in [Feeds -> JobValues]
    /\ top \in Revisions \cup {0}

\* Managed admission is open only while a feed stands behind it: a dropped
\* feed, its late job or its aborted task never leaves or reopens freshness
\* (update_feed, RevocationFeed::drop).
FreshIsOwned ==
    FreshPolicy(policy) /\ ~policy.local =>
        /\ policy.owner # Unset
        /\ feed[policy.owner] \in {"claimed", "poll", "job"}

\* Through failures, successors and restarts no published revision is followed
\* by an older one (accept_revocations under the lock of the store file).
NeverBackwards ==
    [][policy'.revision # Unset /\ policy'.revision # policy.revision
          => policy'.revision >= top]_feedVars

\* A feed that keeps the value converges to the newest snapshot, unless that
\* expires first: rejected and failed replies only cost a poll.
Converges ==
    <>[](policy.owner # Unset /\ feed[policy.owner] # "broken")
        => <>[](latest # 0 => policy.revision = latest \/ ~Unexpired(latest))

-----------------------------------------------------------------------------
(* Proofs.                                                                  *)

\* Revisions are the numbers from one to the last snapshot.
LEMMA RevisionFacts ==
    /\ Revisions \subseteq Nat \ {0}
    /\ \A r \in Revisions : 1..r \subseteq Revisions
    /\ Unset \notin Revisions
  BY FeedAssumption DEF Revisions

\* Whoever writes the shared value writes a policy.
LEMMA PolicyTyping ==
    ASSUME FeedTypeOK
    PROVE  /\ \A r \in Revisions : Publishing(r) \in PolicyValues
           /\ [policy EXCEPT !.lease = Unset] \in PolicyValues
           /\ [policy EXCEPT !.lease = Unset, !.owner = Unset, !.revision = Unset]
                \in PolicyValues
           /\ \A f \in Feeds : [policy EXCEPT !.local = FALSE, !.lease = Unset,
                                  !.owner = f, !.revision = Unset] \in PolicyValues
           /\ Configurations \subseteq PolicyValues
<1> USE RevisionFacts DEF FeedTypeOK, PolicyValues
<1>1. \A r \in Revisions : Publishing(r) \in PolicyValues
  BY DEF Publishing
<1>2. [policy EXCEPT !.lease = Unset] \in PolicyValues
  OBVIOUS
<1>3. [policy EXCEPT !.lease = Unset, !.owner = Unset, !.revision = Unset] \in PolicyValues
  OBVIOUS
<1>4. \A f \in Feeds : [policy EXCEPT !.local = FALSE, !.lease = Unset,
                          !.owner = f, !.revision = Unset] \in PolicyValues
  OBVIOUS
<1>5. [policy EXCEPT !.local = TRUE, !.owner = Unset, !.revision = Unset] \in PolicyValues
  OBVIOUS
<1>6. [policy EXCEPT !.local = FALSE, !.lease = Unset, !.owner = Unset, !.revision = Unset]
        \in PolicyValues
  OBVIOUS
<1>7. [policy EXCEPT !.ids = {}] \in PolicyValues
  OBVIOUS
<1>8. \A id \in Revisions : [policy EXCEPT !.ids = @ \cup {id}] \in PolicyValues
  OBVIOUS
<1> HIDE DEF PolicyValues, FeedTypeOK
<1>9. Configurations \subseteq PolicyValues
  BY <1>5, <1>6, <1>7, <1>8, Zenon DEF Configurations
<1> QED
  BY <1>1, <1>2, <1>3, <1>4, <1>9, Zenon

\* A configuration call keeps what the feed decided, or takes the value from it.
LEMMA ConfigurationCases ==
    ASSUME FeedTypeOK, NEW p, p \in Configurations
    PROVE  \/ /\ p.owner = policy.owner /\ p.lease = policy.lease
              /\ p.revision = policy.revision /\ p.local = policy.local
           \/ /\ p.owner = Unset /\ p.revision = Unset
              /\ p.local \/ p.lease = Unset
<1> USE DEF FeedTypeOK, PolicyValues
<1>1. CASE p = [policy EXCEPT !.local = TRUE, !.owner = Unset, !.revision = Unset]
  BY <1>1
<1>2. CASE p = [policy EXCEPT !.local = FALSE, !.lease = Unset, !.owner = Unset,
                              !.revision = Unset]
  BY <1>2
<1>3. CASE p = [policy EXCEPT !.ids = {}]
  BY <1>3
<1>4. ASSUME NEW id \in Revisions, p = [policy EXCEPT !.ids = @ \cup {id}]
      PROVE  /\ p.owner = policy.owner /\ p.lease = policy.lease
             /\ p.revision = policy.revision /\ p.local = policy.local
  BY <1>4
<1> HIDE DEF FeedTypeOK, PolicyValues
<1> QED
  BY <1>1, <1>2, <1>3, <1>4, Zenon DEF Configurations

\* What the feed publishes: the revision, under the same owner.
LEMMA PublishedFields ==
    ASSUME FeedTypeOK, NEW r, NEW p, p = Publishing(r)
    PROVE  p.owner = policy.owner /\ p.revision = r
  BY DEF Publishing, FeedTypeOK, PolicyValues

\* What the feed claims or withdraws.
LEMMA WrittenFields ==
    ASSUME FeedTypeOK
    PROVE  /\ \A p : p = [policy EXCEPT !.lease = Unset] =>
                  p.owner = policy.owner /\ p.revision = policy.revision /\ p.lease = Unset
           /\ \A f, p : p = [policy EXCEPT !.local = FALSE, !.lease = Unset,
                                           !.owner = f, !.revision = Unset] =>
                  p.owner = f /\ p.revision = Unset /\ p.lease = Unset
<1> USE DEF FeedTypeOK, PolicyValues
<1>1. ASSUME NEW p, p = [policy EXCEPT !.lease = Unset]
      PROVE  p.owner = policy.owner /\ p.revision = policy.revision /\ p.lease = Unset
  BY <1>1
<1>2. ASSUME NEW f, NEW p, p = [policy EXCEPT !.local = FALSE, !.lease = Unset,
                                              !.owner = f, !.revision = Unset]
      PROVE  p.owner = f /\ p.revision = Unset /\ p.lease = Unset
  BY <1>2
<1> HIDE DEF FeedTypeOK, PolicyValues
<1> QED
  BY <1>1, <1>2, Zenon

\* The history keeps a revision.
LEMMA TopTyping ==
    ASSUME FeedTypeOK, KeepTop, policy' \in PolicyValues
    PROVE  top' \in Revisions \cup {0}
  BY RevisionFacts DEF FeedTypeOK, PolicyValues, KeepTop

\* The type invariant holds of every feed, job and configuration call.
LEMMA FeedTyping == FeedSpec => []FeedTypeOK
<1>1. FeedInit => FeedTypeOK
  BY RevisionFacts, FeedAssumption DEF FeedInit, FeedTypeOK, PolicyValues, JobValues, Default, NoJob
<1>2. FeedTypeOK /\ [FeedNext]_feedVars => FeedTypeOK'
  <2> SUFFICES ASSUME FeedTypeOK, [FeedNext]_feedVars PROVE FeedTypeOK'
    OBVIOUS
  <2> USE RevisionFacts DEF FeedTypeOK
  <2>1. ASSUME NEW f \in Feeds, Open(f) PROVE FeedTypeOK'
    BY <2>1 DEF Open, env
  <2>2. ASSUME NEW f \in Feeds, Claim(f) PROVE FeedTypeOK'
    BY <2>2, PolicyTyping DEF Claim, env
  <2>3. ASSUME NEW f \in Feeds, Load(f) PROVE FeedTypeOK'
    <3>1. policy' \in PolicyValues
      BY <2>3, PolicyTyping DEF Load, UpdateFeed
    <3>2. top' \in Revisions \cup {0}
      BY <2>3, <3>1, TopTyping DEF Load
    <3> QED
      BY <2>3, <3>1, <3>2 DEF Load, env
  <2>4. ASSUME NEW f \in Feeds, NEW r \in Revisions, Fetch(f, r) PROVE FeedTypeOK'
    BY <2>4 DEF Fetch, JobValues, NoJob, env
  <2>5. ASSUME NEW f \in Feeds, RunJob(f) PROVE FeedTypeOK'
    BY <2>5 DEF RunJob, JobValues, NoJob, env
  <2>6. ASSUME NEW f \in Feeds, JobFails(f) PROVE FeedTypeOK'
    <3>1. stored' \in Revisions \cup {0}
      BY <2>6 DEF JobFails, JobValues, NoJob
    <3>2. job' \in [Feeds -> JobValues]
      BY <2>6 DEF JobFails, JobValues, NoJob
    <3> QED
      BY <2>6, <3>1, <3>2, FeedAssumption DEF JobFails
  <2>7. ASSUME NEW f \in Feeds, Finish(f) PROVE FeedTypeOK'
    <3>1. job[f].at = "ok" => job[f].rev \in Revisions
      BY DEF JobValues, NoJob
    <3>2. policy' \in PolicyValues
      BY <2>7, <3>1, PolicyTyping DEF Finish, Outcome, UpdateFeed
    <3>3. top' \in Revisions \cup {0}
      BY <2>7, <3>2, TopTyping DEF Finish
    <3> QED
      BY <2>7, <3>2, <3>3 DEF Finish, JobValues, env
  <2>8. ASSUME NEW f \in Feeds, DropFeed(f) PROVE FeedTypeOK'
    BY <2>8, PolicyTyping DEF DropFeed, UpdateFeed, env
  <2>9. ASSUME NEW f \in Feeds, Ended(f) PROVE FeedTypeOK'
    BY <2>9 DEF Ended, JobValues, env
  <2>10. ASSUME NEW p \in Configurations, Configure(p) PROVE FeedTypeOK'
    <3>1. policy' \in PolicyValues
      BY <2>10, PolicyTyping, Zenon DEF Configure
    <3> QED
      BY <2>10, <3>1, FeedAssumption DEF Configure
  <2>11. CASE Restart
    BY <2>11, FeedAssumption DEF Restart, Default, PolicyValues, JobValues
  <2>12. CASE Sign
    BY <2>12 DEF Sign
  <2>13. CASE Tick
    BY <2>13, FeedAssumption DEF Tick
  <2>14. CASE UNCHANGED feedVars
    BY <2>14 DEF feedVars, env
  <2> QED
    BY <2>1, <2>2, <2>3, <2>4, <2>5, <2>6, <2>7, <2>8, <2>9, <2>10, <2>11, <2>12, <2>13, <2>14
    DEF FeedNext, FeedStep
<1> QED
  BY <1>1, <1>2, PTL DEF FeedSpec

(***************************************************************************)
(* FreshIsOwned says nothing of a value without a lease, and NeverBackwards*)
(* nothing of jobs.  The inductive invariant adds that the owner of the    *)
(* value is a feed that has not let go of it, that only the feed with the  *)
(* lock of the store file has a task or a job at work, so that the         *)
(* revision a finished job brings is the one in the file, and that nothing *)
(* newer than the file was ever published.                                 *)
(***************************************************************************)
OwnerBacked ==
    /\ policy.owner # Unset =>
          feed[policy.owner] \in {"claimed", "poll", "job", "broken"}
    /\ policy.lease # Unset /\ ~policy.local =>
          policy.owner # Unset /\ feed[policy.owner] # "broken"
OneWriter ==
    \A f \in Feeds :
        /\ feed[f] \in {"opened", "claimed", "poll", "job", "aborted"} => lock = f
        /\ job[f].at # "none" => feed[f] \in {"job", "aborted"}
        /\ job[f].at = "ok" => job[f].rev = stored
NothingNewer ==
    /\ top <= stored
    /\ policy.revision # Unset => policy.revision <= stored
FeedInv == OwnerBacked /\ OneWriter /\ NothingNewer

\* Revisions in the file, in memory and in a job that has one are numbers.
LEMMA RevisionNumbers ==
    ASSUME FeedTypeOK
    PROVE  /\ stored \in Nat /\ top \in Nat
           /\ policy.revision # Unset => policy.revision \in Nat
           /\ \A f \in Feeds : job[f].at = "run" => job[f].rev \in Nat
<1>1. Revisions \subseteq Nat
  BY RevisionFacts
<1>2. stored \in Revisions \cup {0} /\ top \in Revisions \cup {0}
  BY Zenon DEF FeedTypeOK
<1>3. policy.revision \in Revisions \cup {Unset}
  <2>1. policy \in PolicyValues
    BY Zenon DEF FeedTypeOK
  <2> QED
    BY <2>1 DEF PolicyValues
<1>4. ASSUME NEW f \in Feeds, job[f].at = "run" PROVE job[f].rev \in Revisions
  <2>1. job[f] \in JobValues
    BY DEF FeedTypeOK
  <2> QED
    BY <1>4, <2>1 DEF JobValues, NoJob
<1>5. stored \in Nat /\ top \in Nat
  BY <1>1, <1>2
<1> QED
  BY <1>1, <1>3, <1>4, <1>5, Zenon

\* A job that ends is the only one: the lock has one holder, so no other feed's
\* finished job relies on the revision that this one replaces in the file.
LEMMA JobEnds ==
    ASSUME FeedTypeOK, FeedInv, NEW f \in Feeds, job[f].at = "run",
           UNCHANGED <<lock, policy, feed, top>>,
           stored' \in Nat, stored <= stored',
           \A g \in Feeds \ {f} : job'[g] = job[g],
           job'[f].at = "ok" => job'[f].rev = stored'
    PROVE  FeedInv'
<1>1. OwnerBacked'
  BY Zenon DEF FeedInv, OwnerBacked
<1>2. feed[f] \in {"job", "aborted"} /\ lock = f
  BY Zenon DEF FeedInv, OneWriter
<1>3. ASSUME NEW g \in Feeds, g # f PROVE job[g].at = "none"
  BY <1>2, <1>3, Zenon DEF FeedInv, OneWriter
<1>4. ASSUME NEW g \in Feeds
      PROVE  /\ feed'[g] \in {"opened", "claimed", "poll", "job", "aborted"} => lock' = g
             /\ job'[g].at # "none" => feed'[g] \in {"job", "aborted"}
             /\ job'[g].at = "ok" => job'[g].rev = stored'
  <2>1. CASE g = f
    BY <1>2, <2>1, Zenon
  <2>2. CASE g # f
    <3>1. job'[g].at = "none"
      BY <1>3, <2>2, Zenon
    <3>2. feed'[g] \in {"opened", "claimed", "poll", "job", "aborted"} => lock' = g
      BY Zenon DEF FeedInv, OneWriter
    <3> QED
      BY <3>1, <3>2, Zenon
  <2> QED
    BY <2>1, <2>2, Zenon
<1>5. OneWriter'
  BY <1>4, Zenon DEF OneWriter
<1>6. top \in Nat /\ stored \in Nat /\ (policy.revision # Unset => policy.revision \in Nat)
  BY RevisionNumbers, Zenon
<1>7. top <= stored /\ (policy.revision # Unset => policy.revision <= stored)
  BY Zenon DEF FeedInv, NothingNewer
<1>8. top <= stored' /\ (policy.revision # Unset => policy.revision <= stored')
  BY <1>6, <1>7
<1>9. NothingNewer'
  BY <1>8, Zenon DEF NothingNewer
<1> QED
  BY <1>1, <1>5, <1>9, Zenon DEF FeedInv

LEMMA FeedInductive ==
    ASSUME FeedTypeOK, FeedTypeOK', FeedInv, [FeedNext]_feedVars
    PROVE  FeedInv'
<1> USE RevisionFacts, FeedAssumption DEF FeedTypeOK, PolicyValues, JobValues, FeedInv
<1>1. ASSUME NEW f \in Feeds, Open(f) PROVE FeedInv'
  <2>1. OwnerBacked'
    BY <1>1 DEF OwnerBacked, OneWriter, Open, env
  <2>2. OneWriter'
    BY <1>1 DEF OneWriter, Open, env, NoJob
  <2>3. NothingNewer'
    BY <1>1 DEF OneWriter, NothingNewer, Open, env
  <2> QED
    BY <2>1, <2>2, <2>3
<1>2. ASSUME NEW f \in Feeds, Claim(f) PROVE FeedInv'
  <2>1. feed[f] = "opened" /\ UNCHANGED <<stored, job, top>>
    BY <1>2 DEF Claim
  <2>2. CASE policy.owner # Unset
    <3>1. feed' = [feed EXCEPT ![f] = "none"] /\ lock' = Unset /\ UNCHANGED policy
      BY <1>2, <2>2 DEF Claim
    <3> QED
      BY <2>1, <2>2, <3>1 DEF OwnerBacked, OneWriter, NothingNewer
  <2>3. CASE policy.owner = Unset
    <3>1. feed' = [feed EXCEPT ![f] = "claimed"] /\ UNCHANGED lock
      BY <1>2, <2>3 DEF Claim
    <3>2. policy' = [policy EXCEPT !.local = FALSE, !.lease = Unset,
                                   !.owner = f, !.revision = Unset]
      BY <1>2, <2>3, Zenon DEF Claim
    <3>3. policy'.lease = Unset /\ policy'.owner = f /\ policy'.revision = Unset
      BY <3>2, WrittenFields, Zenon
    <3> QED
      BY <2>1, <3>1, <3>3 DEF OwnerBacked, OneWriter, NothingNewer
  <2> QED
    BY <2>2, <2>3
<1>3. ASSUME NEW f \in Feeds, Load(f) PROVE FeedInv'
  <2>1. /\ feed[f] = "claimed" /\ feed' = [feed EXCEPT ![f] = "poll"]
        /\ KeepTop /\ UNCHANGED <<stored, lock, job>>
    BY <1>3 DEF Load
  <2>2. \/ UNCHANGED policy
        \/ /\ policy.owner = f /\ stored # 0
           /\ policy' = Publishing(stored)
    BY <1>3 DEF Load, UpdateFeed
  <2>3. \/ UNCHANGED policy
        \/ policy.owner = f /\ policy'.owner = f /\ policy'.revision = stored
    <3>1. policy' = Publishing(stored) =>
              policy'.owner = policy.owner /\ policy'.revision = stored
      BY PublishedFields
    <3> HIDE DEF FeedTypeOK, FeedInv
    <3> QED
      BY <2>2, <3>1
  <2>4. OwnerBacked'
    BY <2>1, <2>3 DEF OwnerBacked
  <2>5. OneWriter'
    BY <2>1 DEF OneWriter, NoJob
  <2>6. NothingNewer'
    BY <2>1, <2>3 DEF NothingNewer, KeepTop
  <2> QED
    BY <2>4, <2>5, <2>6
<1>4. ASSUME NEW f \in Feeds, NEW r \in Revisions, Fetch(f, r) PROVE FeedInv'
  <2>1. OwnerBacked'
    BY <1>4 DEF OwnerBacked, OneWriter, Fetch, env
  <2>2. OneWriter'
    BY <1>4 DEF OneWriter, Fetch, env, NoJob
  <2>3. NothingNewer'
    BY <1>4 DEF OneWriter, NothingNewer, Fetch, env
  <2> QED
    BY <2>1, <2>2, <2>3
<1>5. ASSUME NEW f \in Feeds, RunJob(f) PROVE FeedInv'
  <2>1. job[f].at = "run" /\ UNCHANGED <<lock, policy, feed, top>>
    BY <1>5, Zenon DEF RunJob
  <2>2. job[f].rev \in Nat /\ stored \in Nat
    BY <2>1, RevisionNumbers, Zenon
  <2>3. stored' \in Nat /\ stored <= stored'
    BY <1>5, <2>2 DEF RunJob, NewerOrEqual
  <2>4. /\ \A g \in Feeds \ {f} : job'[g] = job[g]
        /\ job'[f].at = "ok" => job'[f].rev = stored'
    BY <1>5 DEF RunJob
  <2> HIDE DEF FeedTypeOK, FeedInv
  <2> QED
    BY <2>1, <2>3, <2>4, JobEnds, Zenon
<1>6. ASSUME NEW f \in Feeds, JobFails(f) PROVE FeedInv'
  <2>1. job[f].at = "run" /\ UNCHANGED <<lock, policy, feed, top>>
    BY <1>6, Zenon DEF JobFails
  <2>2. job[f].rev \in Nat /\ stored \in Nat
    BY <2>1, RevisionNumbers, Zenon
  <2>3. stored' \in Nat /\ stored <= stored'
    BY <1>6, <2>2 DEF JobFails
  <2>4. /\ \A g \in Feeds \ {f} : job'[g] = job[g]
        /\ job'[f].at = "ok" => job'[f].rev = stored'
    BY <1>6 DEF JobFails
  <2> HIDE DEF FeedTypeOK, FeedInv
  <2> QED
    BY <2>1, <2>3, <2>4, JobEnds, Zenon
<1>7. ASSUME NEW f \in Feeds, Finish(f) PROVE FeedInv'
  <2>1. /\ feed[f] \in {"job", "aborted"} /\ job[f].at \in {"ok", "rejected", "fatal"}
        /\ job' = [job EXCEPT ![f] = NoJob]
        /\ feed' = [feed EXCEPT ![f] = IF feed[f] = "aborted" THEN "aborted"
                                       ELSE IF job[f].at = "fatal" THEN "broken" ELSE "poll"]
        /\ lock' = IF job[f].at = "fatal" /\ feed[f] = "job" THEN Unset ELSE lock
        /\ KeepTop /\ UNCHANGED stored
    BY <1>7 DEF Finish
  <2>2. \/ job[f].at # "fatal" /\ UNCHANGED policy
        \/ policy.owner # f /\ UNCHANGED policy
        \/ policy.owner = f /\ job[f].at = "ok" /\ policy' = Publishing(job[f].rev)
        \/ /\ policy.owner = f /\ job[f].at = "fatal"
           /\ policy' = [policy EXCEPT !.lease = Unset]
    BY <1>7 DEF Finish, Outcome, UpdateFeed
  <2>3. \/ job[f].at # "fatal" /\ UNCHANGED policy
        \/ policy.owner # f /\ UNCHANGED policy
        \/ /\ policy.owner = f /\ job[f].at = "ok"
           /\ policy'.owner = f /\ policy'.revision = stored
        \/ /\ policy.owner = f /\ job[f].at = "fatal"
           /\ policy'.owner = f /\ policy'.lease = Unset
           /\ policy'.revision = policy.revision
    <3>1. job[f].at = "ok" => job[f].rev = stored
      BY DEF OneWriter
    <3>2. policy' = Publishing(job[f].rev) =>
              policy'.owner = policy.owner /\ policy'.revision = job[f].rev
      BY PublishedFields
    <3>3. policy' = [policy EXCEPT !.lease = Unset] =>
              /\ policy'.owner = policy.owner /\ policy'.lease = Unset
              /\ policy'.revision = policy.revision
      BY WrittenFields, Zenon
    <3> HIDE DEF FeedTypeOK, FeedInv
    <3> QED
      BY <2>2, <3>1, <3>2, <3>3
  <2>4. OwnerBacked'
    BY <2>1, <2>3 DEF OwnerBacked
  <2>5. OneWriter'
    BY <2>1 DEF OneWriter, NoJob
  <2>6. NothingNewer'
    BY <2>1, <2>3 DEF NothingNewer, KeepTop
  <2> QED
    BY <2>4, <2>5, <2>6
<1>8. ASSUME NEW f \in Feeds, DropFeed(f) PROVE FeedInv'
  <2>1. OwnerBacked'
    BY <1>8 DEF OwnerBacked, OneWriter, DropFeed, UpdateFeed, env
  <2>2. OneWriter'
    BY <1>8 DEF OneWriter, DropFeed, UpdateFeed, env, NoJob
  <2>3. NothingNewer'
    BY <1>8 DEF OneWriter, NothingNewer, DropFeed, UpdateFeed, env
  <2> QED
    BY <2>1, <2>2, <2>3
<1>9. ASSUME NEW f \in Feeds, Ended(f) PROVE FeedInv'
  <2>1. OwnerBacked'
    BY <1>9 DEF OwnerBacked, OneWriter, Ended, NoJob, env
  <2>2. OneWriter'
    BY <1>9 DEF OneWriter, Ended, NoJob, env
  <2>3. NothingNewer'
    BY <1>9 DEF OneWriter, NothingNewer, Ended, NoJob, env
  <2> QED
    BY <2>1, <2>2, <2>3
<1>10. ASSUME NEW p \in Configurations, Configure(p) PROVE FeedInv'
  <2>1. policy' = p /\ UNCHANGED <<stored, lock, feed, job, top>>
    BY <1>10 DEF Configure
  <2>2. p \in PolicyValues
    BY PolicyTyping
  <2> QED
    BY <2>1, <2>2, ConfigurationCases DEF OwnerBacked, OneWriter, NothingNewer
<1>11. CASE Restart
  BY <1>11 DEF OwnerBacked, OneWriter, NothingNewer, Restart, Default, NoJob
<1>12. CASE Sign
  BY <1>12 DEF OwnerBacked, OneWriter, NothingNewer, Sign
<1>13. CASE Tick
  BY <1>13 DEF OwnerBacked, OneWriter, NothingNewer, Tick
<1>14. CASE UNCHANGED feedVars
  BY <1>14 DEF OwnerBacked, OneWriter, NothingNewer, feedVars, env
<1> QED
  BY <1>1, <1>2, <1>3, <1>4, <1>5, <1>6, <1>7, <1>8, <1>9, <1>10, <1>11, <1>12, <1>13, <1>14
  DEF FeedNext, FeedStep

LEMMA FeedInvariance == FeedSpec => []FeedInv
<1>1. FeedInit => FeedInv
  BY RevisionFacts DEF FeedInit, FeedInv, OwnerBacked, OneWriter, NothingNewer, Default, NoJob
<1>2. FeedTypeOK /\ FeedTypeOK' /\ FeedInv /\ [FeedNext]_feedVars => FeedInv'
  BY FeedInductive
<1> QED
  BY <1>1, <1>2, FeedTyping, PTL DEF FeedSpec

\* In every behaviour, with any number of feeds and snapshots: managed admission
\* is open only while a feed that was neither dropped nor broken owns the value.
THEOREM FreshnessHasAnOwner == FeedSpec => []FreshIsOwned
<1>1. FeedTypeOK /\ FeedInv => FreshIsOwned
  BY DEF FeedTypeOK, PolicyValues, FeedInv, OwnerBacked, FreshIsOwned, FreshPolicy
<1> QED
  BY <1>1, FeedTyping, FeedInvariance, PTL

\* In every behaviour: whatever is published is at least as new as anything
\* published before, through failed writes, restarts and successors.
THEOREM RevisionsNeverGoBack == FeedSpec => NeverBackwards
<1>1. FeedTypeOK /\ FeedInv /\ [FeedNext]_feedVars
        => [policy'.revision # Unset /\ policy'.revision # policy.revision
              => policy'.revision >= top]_feedVars
  <2> SUFFICES ASSUME FeedTypeOK, FeedInv, FeedNext,
                      policy'.revision # Unset, policy'.revision # policy.revision
               PROVE  policy'.revision >= top
    BY DEF feedVars, env
  <2> USE RevisionFacts DEF FeedTypeOK, PolicyValues, JobValues, FeedInv, OneWriter, NothingNewer
  <2>1. ASSUME NEW f \in Feeds, Load(f) PROVE policy'.revision = stored
    BY <2>1 DEF Load, UpdateFeed, Publishing
  <2>2. ASSUME NEW f \in Feeds, Finish(f) PROVE policy'.revision = stored
    BY <2>2 DEF Finish, Outcome, UpdateFeed, Publishing
  <2>3. ASSUME NEW f \in Feeds, Claim(f) \/ DropFeed(f) PROVE FALSE
    BY <2>3 DEF Claim, DropFeed, UpdateFeed
  <2>4. ASSUME NEW p \in Configurations, Configure(p) PROVE FALSE
    BY <2>4, ConfigurationCases DEF Configure
  <2>5. CASE Restart
    BY <2>5 DEF Restart, Default
  <2>6. CASE UNCHANGED policy
    BY <2>6
  <2>7. ASSUME NEW f \in Feeds, FeedStep(f)
        PROVE  Load(f) \/ Finish(f) \/ Claim(f) \/ DropFeed(f) \/ UNCHANGED policy
    BY <2>7 DEF FeedStep, Open, Fetch, RunJob, JobFails, Ended
  <2>8. Sign \/ Tick => UNCHANGED policy
    BY DEF Sign, Tick
  <2> QED
    BY <2>1, <2>2, <2>3, <2>4, <2>5, <2>6, <2>7, <2>8 DEF FeedNext
<1> QED
  BY <1>1, FeedTyping, FeedInvariance, PTL DEF FeedSpec, NeverBackwards
=============================================================================
