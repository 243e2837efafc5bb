---------------------------- MODULE RecordIssuer ----------------------------
(***************************************************************************)
(* The record issuer of one endpoint (rds-discovery, publisher.rs) over    *)
(* its atomic state file (persist.rs).  Every new signed mutation and its  *)
(* revision are committed to publisher.json before the mutation is         *)
(* returned; an error while writing closes the issuer until it is reopened *)
(* or, for a full disk only, reconciled in place.                          *)
(*                                                                         *)
(* The issuer is owned by one process (publisher.lock) and its methods     *)
(* take &mut self, so a call is one step.  What interleaves with it is the *)
(* environment: the wall clock (which may jump both ways), the outcome of  *)
(* each disk write, the death of the process at any point of a write and   *)
(* the loss of power.                                                      *)
(***************************************************************************)
EXTENDS Naturals

CONSTANTS
    Drafts,          \* addresses, relay locators and services of a record
    Ttls,            \* lifetimes a draft may ask for
    DeleteTtl,       \* DELETE_TTL
    MaxRevision,     \* u64::MAX, where the revision counter is exhausted
    MaxWall,         \* bound of the wall clock
    RenameSurvives,  \* a rename a later open can see also survives power loss
    None

ASSUME BoundsAssumption ==
    /\ Ttls \subseteq Nat \ {0}
    /\ DeleteTtl \in Nat \ {0}
    /\ MaxRevision \in Nat
    /\ MaxWall \in Nat
    /\ RenameSurvives \in BOOLEAN

VARIABLES
    wall,      \* now_unix()
    disk,      \* publisher.json as the next read returns it
    synced,    \* publisher.json as of the last directory sync
    sealed,    \* publisher.lock carries the initialization marker
    open,      \* a process owns the issuer
    state,     \* RecordIssuer.state
    failed,    \* RecordIssuer.failed
    observed,  \* RecordIssuer.observed_wall
    attempt,   \* RecordIssuer.storage_full_attempt
    released   \* history: every mutation the issuer has returned

diskVars == <<disk, synced, sealed>>
memory == <<state, failed, observed, attempt>>
vars == <<wall, disk, synced, sealed, open, state, failed, observed, attempt,
          released>>

Revision == 0..MaxRevision
Wall == 0..MaxWall

\* The two mutations the issuer signs.  The signature binds every field, so
\* equality of mutations is equality of the signed bytes.
Record ==
    [kind: {"record"}, revision: Revision, issued: Wall, ttl: Ttls,
     draft: Drafts]
Delete ==
    [kind: {"delete"}, revision: Revision, issued: Wall, ttl: {DeleteTtl},
     draft: {None}]
Mutation == Record \cup Delete

State ==
    [revision: Revision, wall_floor: Wall, pending: Mutation \cup {None}]

ASSUME NoneAssumption ==
    /\ None \notin Mutation
    /\ None \notin State

Expires(m) == m.issued + m.ttl

Fresh == [revision |-> 0, wall_floor |-> 0, pending |-> None]

\* The state file's checksum and history rules.
Validate(s) ==
    IF s.pending = None
    THEN s.revision = 0 /\ s.wall_floor = 0
    ELSE s.pending.revision = s.revision /\ s.pending.issued = s.wall_floor

-----------------------------------------------------------------------------
(* AtomicFile::write: stage, write, sync, rename, sync the directory.  The  *)
(* write succeeds, or fails (with or without a "disk full" code) or the     *)
(* process dies, before or after the rename.                                *)

WriteOutcome ==
    {[result |-> "ok", renamed |-> TRUE]}
        \cup [result: {"full", "error", "died"}, renamed: BOOLEAN]

Write(s, o) ==
    /\ disk' = IF o.renamed THEN s ELSE disk
    /\ synced' = IF o.result = "ok" THEN s ELSE synced

Close ==
    /\ open' = FALSE
    /\ state' = Fresh
    /\ failed' = FALSE
    /\ observed' = 0
    /\ attempt' = None

Own(s) ==
    /\ open' = TRUE
    /\ state' = s
    /\ failed' = FALSE
    /\ observed' = wall
    /\ attempt' = None

Init ==
    /\ wall \in Wall
    /\ disk = None
    /\ synced = None
    /\ sealed = FALSE
    /\ open = FALSE
    /\ state = Fresh
    /\ failed = FALSE
    /\ observed = 0
    /\ attempt = None
    /\ released = {}

\* check_clock() without its refusal of a failed issuer: neither the issuance
\* floor nor the last observed time may lie ahead of the clock.
ClockOk(s, seen) == wall >= s.wall_floor /\ wall >= seen

\* RecordIssuer::open on an existing state file.  The first open that gets
\* this far seals the lock file, which also syncs the directory; sealing may
\* fail before or after the marker is written.
OpenExisting(sealOk) ==
    /\ ~open
    /\ disk # None
    /\ Validate(disk)
    /\ ClockOk(disk, 0)
    /\ sealed' \in IF sealed \/ sealOk THEN {TRUE} ELSE BOOLEAN
    /\ IF sealed
       THEN sealOk /\ Own(disk) /\ UNCHANGED synced
       ELSE IF sealOk
            THEN Own(disk) /\ synced' = disk
            ELSE UNCHANGED <<open, memory, synced>>
    /\ UNCHANGED <<wall, disk, released>>

\* RecordIssuer::open on a new directory: commit the initial state, then seal.
OpenNew(o, sealOk) ==
    /\ ~open
    /\ disk = None
    /\ ~sealed
    /\ Write(Fresh, o)
    /\ IF o.result = "ok"
       THEN /\ sealed' \in IF sealOk THEN {TRUE} ELSE BOOLEAN
            /\ IF sealOk THEN Own(Fresh) ELSE UNCHANGED <<open, memory>>
       ELSE sealOk /\ UNCHANGED <<sealed, open, memory>>
    /\ UNCHANGED <<wall, released>>

CheckClock ==
    /\ open
    /\ ~failed
    /\ ClockOk(state, observed)

\* Mutant of next_revision(): a revision is skipped.
NextRevisionSkipping == state.revision + 2
NextRevision == state.revision + 1

\* Mutant of commit(): the revision is taken in memory only.
CommitInMemory(m, o) ==
    /\ state' = [revision |-> m.revision, wall_floor |-> wall, pending |-> m]
    /\ released' = released \cup {m}
    /\ observed' = wall
    /\ UNCHANGED <<disk, synced, open, failed, attempt>>

\* commit(): the file must still hold the owned state; the write's outcome
\* decides whether the mutation is returned or the issuer closes.
Commit(m, o) ==
    LET next == [revision |-> m.revision, wall_floor |-> wall, pending |-> m]
    IN  /\ disk = state
        /\ Write(next, o)
        /\ CASE o.result = "ok" ->
                  /\ state' = next
                  /\ released' = released \cup {m}
                  /\ observed' = wall
                  /\ UNCHANGED <<open, failed, attempt>>
             [] o.result = "full" ->
                  /\ failed' = TRUE
                  /\ attempt' = next
                  /\ observed' = wall
                  /\ UNCHANGED <<open, state, released>>
             [] o.result = "error" ->
                  /\ failed' = TRUE
                  /\ observed' = wall
                  /\ UNCHANGED <<open, state, attempt, released>>
             [] OTHER -> Close /\ UNCHANGED released

\* An unchanged record is reused until a third of its lifetime has elapsed.
Reusable(draft, ttl) ==
    /\ state.pending # None
    /\ state.pending.kind = "record"
    /\ state.pending.draft = draft
    /\ state.pending.ttl = ttl
    /\ LET third == IF ttl \div 3 > 1 THEN ttl \div 3 ELSE 1
       IN  wall - state.pending.issued < third

Return(m) ==
    /\ observed' = wall
    /\ released' = released \cup {m}
    /\ UNCHANGED <<disk, synced, open, state, failed, attempt>>

\* record() and renew_record().
ReuseRecord(draft, ttl) ==
    /\ CheckClock
    /\ Reusable(draft, ttl)
    /\ Return(state.pending)
    /\ UNCHANGED <<wall, sealed>>

IssueRecord(draft, ttl, renew, o) ==
    /\ CheckClock
    /\ renew \/ ~Reusable(draft, ttl)
    /\ NextRevision \in Revision
    /\ Commit([kind |-> "record", revision |-> NextRevision, issued |-> wall,
               ttl |-> ttl, draft |-> draft], o)
    /\ UNCHANGED <<wall, sealed>>

\* delete(): a pending delete is returned again while it is fresh.
FreshDelete ==
    /\ state.pending # None
    /\ state.pending.kind = "delete"
    /\ state.pending.issued <= wall
    /\ wall < Expires(state.pending)

ReuseDelete ==
    /\ CheckClock
    /\ FreshDelete
    /\ Return(state.pending)
    /\ UNCHANGED <<wall, sealed>>

IssueDelete(o) ==
    /\ CheckClock
    /\ ~FreshDelete
    /\ NextRevision \in Revision
    /\ Commit([kind |-> "delete", revision |-> NextRevision, issued |-> wall,
               ttl |-> DeleteTtl, draft |-> None], o)
    /\ UNCHANGED <<wall, sealed>>

\* A call that passes check_clock and then fails (an exhausted counter) has
\* only observed the clock.
Exhausted ==
    /\ CheckClock
    /\ NextRevision \notin Revision
    /\ observed' = wall
    /\ UNCHANGED <<wall, diskVars, open, state, failed, attempt, released>>

\* recover_storage_full(): recommit the bytes on disk, which must be the
\* owned state or the attempted successor.
RecoverStorageFull(o) ==
    /\ open
    /\ attempt # None
    /\ wall >= observed
    /\ disk \in {state, attempt}
    /\ wall >= disk.wall_floor
    /\ Write(disk, o)
    /\ CASE o.result = "ok" -> Own(disk)
         [] o.result = "died" -> Close
         [] OTHER -> observed' = wall /\ UNCHANGED <<open, state, failed, attempt>>
    /\ UNCHANGED <<wall, sealed, released>>

-----------------------------------------------------------------------------
(* The environment.                                                         *)

ClockStep ==
    /\ wall' \in Wall \ {wall}
    /\ UNCHANGED <<diskVars, open, memory, released>>

\* The process ends between calls: shutdown, a kill or the supervisor's
\* reaction to a fatal issuer error.
Exit ==
    /\ open
    /\ Close
    /\ UNCHANGED <<wall, diskVars, released>>

PowerLoss ==
    /\ disk' \in IF RenameSurvives THEN {disk} ELSE {disk, synced}
    /\ synced' = disk'
    /\ Close
    /\ UNCHANGED <<wall, sealed, released>>

Next ==
    \/ \E b \in BOOLEAN : OpenExisting(b)
    \/ \E o \in WriteOutcome, b \in BOOLEAN : OpenNew(o, b)
    \/ \E d \in Drafts, t \in Ttls : ReuseRecord(d, t)
    \/ \E d \in Drafts, t \in Ttls, renew \in BOOLEAN, o \in WriteOutcome :
          IssueRecord(d, t, renew, o)
    \/ ReuseDelete
    \/ \E o \in WriteOutcome : IssueDelete(o)
    \/ Exhausted
    \/ \E o \in WriteOutcome : RecoverStorageFull(o)
    \/ ClockStep
    \/ Exit
    \/ PowerLoss

Spec == Init /\ [][Next]_vars

-----------------------------------------------------------------------------
(* Properties.                                                              *)

TypeOK ==
    /\ wall \in Wall
    /\ disk \in State \cup {None}
    /\ synced \in State \cup {None}
    /\ sealed \in BOOLEAN
    /\ open \in BOOLEAN
    /\ state \in State
    /\ failed \in BOOLEAN
    /\ observed \in Wall
    /\ attempt \in State \cup {None}
    /\ released \subseteq Mutation

\* Across failed writes, deaths of the process, power loss and storage-full
\* recovery the issuer never returns two different mutations under one
\* revision (publisher.rs commit, open, recover_storage_full).
UniqueRevision ==
    \A a, b \in released : a.revision = b.revision => a = b

\* Whatever has been returned for publication is on disk, or superseded there
\* by a later revision: "every new mutation and its revision commit before it
\* is returned for network publication" (publisher.rs, RecordIssuer).
ReleasedIsCommitted ==
    \A m \in released :
        /\ disk # None
        /\ m.revision <= disk.revision
        /\ m.revision = disk.revision => m = disk.pending

\* A mutation with a higher revision is never issued at an earlier time, even
\* when the wall clock jumps back between two runs of the process: the
\* issuance floor is part of the committed state (check_clock).
IssueTimesFollowRevisions ==
    \A a, b \in released : a.revision < b.revision => a.issued <= b.issued

\* A usable issuer agrees with its file.  A failed one is at most one write
\* away from it, and a disk-full failure remembers exactly that write, so
\* recover_storage_full never meets an unrelated state.
FailureIsOneWriteDeep ==
    open =>
        /\ ~failed => disk = state /\ attempt = None
        /\ disk # None
        /\ disk # state => failed /\ disk.revision = state.revision + 1
        /\ attempt # None => disk \in {state, attempt}

\* The committed revision never moves back and one call consumes at most one
\* revision, recovery included.
RevisionAdvancesByOne ==
    [][disk # None => /\ disk' # None
                      /\ disk'.revision \in {disk.revision, disk.revision + 1}]_vars
=============================================================================
