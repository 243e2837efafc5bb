----------------------------- MODULE PolicyStore -----------------------------
(***************************************************************************)
(* The policy store (rds-discovery, policy.rs, authority.rs): the chain of *)
(* authority rotations, the registry and revocation snapshots and the name *)
(* bindings a node has accepted, each under a lease, in one state file.    *)
(*                                                                         *)
(* Inputs are verified signed documents.  A document names the authority   *)
(* that signed it and its revision; equality of documents is equality of   *)
(* the signed bytes.  One writer owns the store, so a call is one step; a  *)
(* write stops before its rename, between the rename and the sync of the   *)
(* directory, or after it, with an error or a dead process.  What was      *)
(* renamed and not synced is visible to the next open, and a power loss    *)
(* keeps it or undoes it; the directory's changes reach the disk in order. *)
(***************************************************************************)
EXTENDS Leases, Sequences, FiniteSets

CONSTANTS
    Bootstrap,     \* the configured authority
    Receipts,      \* rotation receipts: [previous, next, issued, expires]
    Snapshots,     \* [stream, authority, revision, issued, expires, content]
    Bindings,      \* [name, authority, revision, digest, issued, expires, target]
    MaxRotations,  \* MAX_ROTATIONS
    MaxNames,      \* MAX_NAMES
    MaxWall,       \* bound of the wall clock
    MaxBoot        \* bound of the number of reboots

VARIABLES
    boot, wall, continuous,  \* Reading::now()
    disk,     \* policy.json
    kept,     \* what a power loss may leave of it
    sealed,   \* the marker in policy.lock: "no", "written" or "synced"
    open,     \* a process owns the store
    state,    \* PolicyStore.state
    failed,   \* PolicyStore.failed
    answered, \* history: documents whose acceptance was reported to a caller
    tentative,\* history: those reported from a file that is not synced
    adopted   \* history: a marker was written beside a file that is not synced

clock == <<boot, wall, continuous>>
files == <<disk, kept, sealed>>
history == <<answered, tentative, adopted>>
vars == <<clock, files, open, state, failed, history>>

Now == [boot |-> boot, wall |-> wall, continuous |-> continuous]
Streams == {"registry", "revocations"}

Fresh ==
    [authority |-> Bootstrap, rotations |-> <<>>, wall_floor |-> 0,
     snaps |-> [s \in Streams |-> None],
     leases |-> [s \in Streams |-> None],
     names |-> None, names_lease |-> None]

Init ==
    /\ boot = 0
    /\ wall \in 0..MaxWall
    /\ continuous = 0
    /\ disk = None
    /\ kept = {None}
    /\ sealed = "no"
    /\ open = FALSE
    /\ state = Fresh
    /\ failed = FALSE
    /\ answered = {}
    /\ tentative = {}
    /\ adopted = FALSE

-----------------------------------------------------------------------------
(* Verification of the inputs (authority.rs).                               *)

\* lifetime(), with max_ttl checked where the document is signed.
InLifetime(d) ==
    /\ d.issued <= AsSecs(wall)
    /\ d.issued < d.expires
    /\ AsSecs(wall) < d.expires

\* verify_at() without its lifetime: the receipt continues this authority.
Continues(receipt, current) ==
    /\ receipt.previous = current
    /\ receipt.next.epoch = current.epoch + 1
    /\ receipt.next.key # current.key

\* newer_than(); epochs are crossed only by a rotation.
NewerThan(d, old) == d.authority = old.authority /\ d.revision > old.revision

-----------------------------------------------------------------------------
(* open, validate, check_clock, commit.                                     *)

Validate(s) ==
    /\ Len(s.rotations) <= MaxRotations
    /\ \A i \in DOMAIN s.rotations :
          Continues(s.rotations[i], IF i = 1 THEN Bootstrap
                                    ELSE s.rotations[i - 1].next)
    /\ s.authority = IF s.rotations = <<>> THEN Bootstrap
                     ELSE s.rotations[Len(s.rotations)].next
    /\ \A t \in Streams : s.snaps[t] # None =>
          /\ s.snaps[t].authority = s.authority
          /\ s.leases[t] # None
          /\ MatchesInterval(s.leases[t], s.snaps[t].issued, s.snaps[t].expires)
    /\ s.names # None =>
          /\ s.names.anchor.authority = s.authority
          /\ s.names_lease # None
          /\ MatchesInterval(s.names_lease, s.names.anchor.issued,
                             s.names.anchor.expires)
          /\ Cardinality(DOMAIN s.names.bound) <= MaxNames
          /\ s.names.anchor.name \in DOMAIN s.names.bound
          /\ s.names.bound[s.names.anchor.name] = s.names.anchor

\* AtomicFile::write: an error or a death before the rename, after it, or (a
\* death only) after the sync.
WriteOutcome ==
    [result: {"error", "died"}, at: {"start", "renamed"}]
        \cup [result: {"ok", "died"}, at: {"synced"}]

Write(next, o) ==
    /\ disk' = IF o.at = "start" THEN disk ELSE next
    /\ kept' = CASE o.at = "start" -> kept
                 [] o.at = "renamed" -> kept \cup {next}
                 [] OTHER -> {next}

Close == open' = FALSE /\ state' = Fresh /\ failed' = FALSE
Own(s) == open' = TRUE /\ state' = s /\ failed' = FALSE

\* open() with a file: it is read as it stands.  A store without its marker is
\* sealed, which syncs the directory and with it an earlier rename.
OpenFile(seal) ==
    /\ ~open
    /\ disk # None
    /\ Validate(disk)
    /\ AsSecs(wall) >= disk.wall_floor
    /\ sealed = "no" \/ seal = "synced"
    /\ sealed' = IF sealed = "no" THEN seal ELSE sealed
    /\ kept' = IF sealed = "no" /\ seal = "synced" THEN {disk} ELSE kept
    /\ adopted' = (adopted \/ (sealed = "no" /\ seal = "written" /\ None \in kept))
    /\ IF seal = "synced" THEN Own(disk) ELSE UNCHANGED <<open, state, failed>>
    /\ UNCHANGED <<clock, disk, answered, tentative>>

\* open() without one: the first state is written, and then sealed.
OpenNew(o, seal) ==
    /\ ~open
    /\ disk = None
    /\ sealed = "no"
    /\ Write(Fresh, o)
    /\ seal # "no" => o.result = "ok"
    /\ sealed' = seal
    /\ IF seal = "synced" THEN Own(Fresh) ELSE UNCHANGED <<open, state, failed>>
    /\ UNCHANGED <<clock, history>>

Ready ==
    /\ open
    /\ ~failed
    /\ AsSecs(wall) >= state.wall_floor

Commit(next, documents, o) ==
    /\ Write(next, o)
    /\ tentative' = IF o.at = "synced" THEN {} ELSE tentative
    /\ CASE o.result = "ok" ->
              /\ state' = next
              /\ answered' = answered \cup documents
              /\ UNCHANGED <<open, failed>>
         [] o.result = "error" ->
              /\ failed' = TRUE
              /\ UNCHANGED <<open, state, answered>>
         [] OTHER -> Close /\ UNCHANGED answered

\* Nothing is written: an acceptance is repeated from the state that was read.
Answer(documents) ==
    /\ answered' = answered \cup documents
    /\ tentative' = IF kept = {disk} THEN tentative
                    ELSE tentative \cup (documents \ answered)
    /\ UNCHANGED <<disk, kept, open, state, failed>>

-----------------------------------------------------------------------------
(* The operations.                                                          *)

Rotated(receipt) ==
    [Fresh EXCEPT !.authority = receipt.next,
                  !.rotations = Append(state.rotations, receipt),
                  !.wall_floor = AsSecs(wall)]

\* apply_rotation(): a receipt of the chain is accepted again without effect.
ApplyRotation(receipt, o) ==
    /\ Ready
    /\ \A i \in DOMAIN state.rotations : state.rotations[i] # receipt
    /\ Len(state.rotations) < MaxRotations
    /\ Continues(receipt, state.authority)
    /\ InLifetime(receipt)
    /\ Commit(Rotated(receipt), {}, o)
    /\ UNCHANGED <<clock, sealed, adopted>>

\* Mutant: a snapshot of the same revision replaces the old one.
SupersedesEqual(d, old) == d.authority = old.authority /\ d.revision >= old.revision
Supersedes(d, old) == NewerThan(d, old)

\* accept_registry(), accept_revocations().
AcceptSnapshot(d, admitted, o) ==
    LET old == state.snaps[d.stream]
    IN  /\ Ready
        /\ InLifetime(d)
        /\ d.authority = state.authority
        /\ IF old = d
           THEN Answer({d})
           ELSE /\ old # None => Supersedes(d, old)
                /\ LeaseError(d.issued, d.expires, Now) = "none"
                /\ admitted
                /\ Commit([state EXCEPT
                             !.snaps[d.stream] = d,
                             !.leases[d.stream] = NewLease(d.issued, d.expires, Now),
                             !.wall_floor = AsSecs(wall)],
                          {d}, o)
        /\ UNCHANGED <<clock, sealed, adopted>>

SameStamp(b, c) == b.authority = c.authority /\ b.revision = c.revision

\* The binding contradicts the snapshot its stamp was first seen with, or the
\* binding that was accepted for its name.
Conflicts(b) ==
    LET anchor == state.names.anchor
    IN  \/ anchor.digest # b.digest
        \/ anchor.issued # b.issued
        \/ anchor.expires # b.expires
        \/ b.name \in DOMAIN state.names.bound /\ state.names.bound[b.name] # b

\* accept_name(): the names of one registry snapshot are remembered together
\* and forgotten when a name of a newer one is accepted.
AcceptName(b, o) ==
    LET names == state.names
        lease == NewLease(b.issued, b.expires, Now)
        same == names # None /\ SameStamp(b, names.anchor)
        bound == IF same THEN names.bound ELSE <<>>
        next == [state EXCEPT
                   !.names = [anchor |-> b,
                              bound |-> [n \in DOMAIN bound \cup {b.name} |->
                                           IF n = b.name THEN b ELSE bound[n]]],
                   !.names_lease = IF same THEN @ ELSE lease,
                   !.wall_floor = AsSecs(wall)]
    IN  /\ Ready
        /\ InLifetime(b)
        /\ b.authority = state.authority
        /\ names # None /\ ~same => NewerThan(b, names.anchor)
        /\ ~same => LeaseError(b.issued, b.expires, Now) = "none"
        /\ same => ValidAt(state.names_lease, Now) /\ ~Conflicts(b)
        /\ IF b.name \in DOMAIN bound
           THEN Answer({b})
           ELSE /\ names # None => Cardinality(DOMAIN bound) < MaxNames
                /\ Commit(next, {b}, o)
        /\ UNCHANGED <<clock, sealed, adopted>>

-----------------------------------------------------------------------------
(* The environment.                                                         *)

Tick ==
    /\ wall < MaxWall
    /\ continuous < MaxWall
    /\ wall' = wall + 1
    /\ continuous' = continuous + 1
    /\ UNCHANGED <<boot, files, open, state, failed, history>>

SetClock ==
    /\ wall' \in (0..MaxWall) \ {wall}
    /\ UNCHANGED <<boot, continuous, files, open, state, failed, history>>

Exit ==
    /\ open
    /\ Close
    /\ UNCHANGED <<clock, files, history>>

\* An orderly reboot, or a power loss.
Reboot ==
    /\ boot < MaxBoot
    /\ boot' = boot + 1
    /\ continuous' = 0
    /\ Close
    /\ disk' \in kept
    /\ kept' = {disk'}
    /\ sealed' \in IF sealed = "written" THEN {"no", "synced"} ELSE {sealed}
    /\ answered' = IF disk' = disk THEN answered ELSE answered \ tentative
    /\ tentative' = {}
    /\ UNCHANGED <<wall, adopted>>

Next ==
    \/ \E seal \in {"no", "written", "synced"} :
          OpenFile(seal) \/ \E o \in WriteOutcome : OpenNew(o, seal)
    \/ \E r \in Receipts, o \in WriteOutcome : ApplyRotation(r, o)
    \/ \E d \in Snapshots, admitted \in BOOLEAN, o \in WriteOutcome :
          AcceptSnapshot(d, admitted, o)
    \/ \E b \in Bindings, o \in WriteOutcome : AcceptName(b, o)
    \/ Tick
    \/ SetClock
    \/ Exit
    \/ Reboot

Spec == Init /\ [][Next]_vars

-----------------------------------------------------------------------------
(* Properties.                                                              *)

\* The stream holds the document, a later revision of its authority, or has
\* moved to a later authority.
Covers(s, d) ==
    \/ s.authority.epoch > d.authority.epoch
    \/ /\ s.authority = d.authority
       /\ s.snaps[d.stream] # None
       /\ s.snaps[d.stream] = d \/ s.snaps[d.stream].revision > d.revision

\* A snapshot reported as accepted is never lost or replaced by an older or
\* conflicting one, whatever point a later write stops at, however often the
\* store is reopened and whenever the power fails (commit, accept_registry,
\* accept_revocations).  Excepted from power loss is what was only repeated
\* from a file whose writer died before its sync.
AnsweredSurvives ==
    \A d \in answered \cap Snapshots :
        \A s \in IF d \in tentative THEN {disk} ELSE kept : s # None /\ Covers(s, d)

\* The same without the exception, which accept_revocations's and
\* accept_registry's early Ok(false) refutes.
RepeatedSurvives ==
    \A d \in answered \cap Snapshots : \A s \in kept : s # None /\ Covers(s, d)

\* What a write leaves behind, complete or not, also after a power loss, is a
\* state that the next open validates: rotations form a chain from the bootstrap
\* authority, and every document is of the current authority with a lease of its
\* own interval.  Excepted is a first file that was not synced when its marker was.
CrashIsOpenable ==
    /\ sealed # "no" /\ ~adopted => None \notin kept
    /\ \A s \in kept \ {None} : Validate(s)

\* Names told to callers under one registry stamp agree: one binding per name
\* and one registry digest, across restarts, newer stamps, rotations and a power
\* loss, except those repeated from a file the power loss then undid (accept_name: "old.registry_digest != payload.registry_digest").
NamesAgree ==
    \A a, b \in answered \cap Bindings :
        SameStamp(a, b) => /\ a.digest = b.digest
                           /\ a.name = b.name => a = b

\* Until a reboot the committed policy only moves forward: the clock floor and the epoch do
\* not decrease, and within an epoch no snapshot is dropped, replaced by an
\* older one or given a new lease (apply_rotation, accept_*).
PolicyMovesForward ==
    [][disk # None /\ boot' = boot =>
         /\ disk' # None
         /\ disk'.wall_floor >= disk.wall_floor
         /\ disk'.authority # disk.authority =>
              disk'.authority.epoch = disk.authority.epoch + 1
         /\ disk'.authority = disk.authority =>
              \A t \in Streams : disk.snaps[t] # None =>
                 /\ disk'.snaps[t] # None
                 /\ \/ disk'.snaps[t].revision > disk.snaps[t].revision
                    \/ /\ disk'.snaps[t] = disk.snaps[t]
                       /\ disk'.leases[t] = disk.leases[t]]_vars
=============================================================================
