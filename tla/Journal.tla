------------------------------ MODULE Journal ------------------------------
(***************************************************************************)
(* The resumable receive journal (rds-sync, journal.rs and confined.rs):   *)
(* receivers in one or several processes open a journal below a root's     *)
(* private state directory, store verified chunks in it, assemble the file *)
(* and replace the destination.                                            *)
(*                                                                         *)
(* A name in a directory has a current and a durable value: a rename or    *)
(* unlink is durable when the directory is synced, and power loss leaves   *)
(* each unsynced name either way. File bytes are synced before a rename.   *)
(* Creating a directory is one durable step. The staging name "pending" is *)
(* discarded before every use and left out.                                *)
(***************************************************************************)
EXTENDS Naturals, Sequences, SequencesExt, FiniteSets

CONSTANTS
    Receivers,
    Offers,     \* [state, rel, dest, dstate, version]: the root's state
                \* directory and that of the destination's parent
    Manifest,   \* the chunks of a version, in order
    Old,        \* contents the destination may have at first
    MaxFaults,  \* bound of failures, deaths, losses of power and bit rot
    Legacy,     \* stands for the relative path in the id of a legacy journal
    Bare,       \* the metadata of a journal directory that has none
    None

Chunks == UNION {Range(m) : m \in Range(Manifest)}
States == {o.state : o \in Offers} \cup {o.dstate : o \in Offers}
Rels == {o.rel : o \in Offers}
Dests == {o.dest : o \in Offers}

\* scoped_id() and the older name, the content id alone.
Scoped(o) == [state |-> o.state, rel |-> o.rel, version |-> o.version]
LegacyOf(o) == [Scoped(o) EXCEPT !.rel = Legacy]
Journals == {Scoped(o) : o \in Offers} \cup {LegacyOf(o) : o \in Offers}

VARIABLES
    parts, meta, dest,        \* the names as processes see them
    dparts, dmeta, ddest,     \* and as power loss would leave them
    assembly,   \* the staging file of a state directory: its owner, or "left"
    locks,      \* receive.lock of a state directory
    wanted,     \* the offer a caller repeats until it succeeds
    at, journal, have, staged, deferred,  \* Journal, and its step
    acked,      \* history: what the last assembly of a destination returned
    faults

disk == <<parts, meta, dest, dparts, dmeta, ddest>>
proc == <<at, journal, have, staged, deferred>>
vars == <<disk, assembly, locks, wanted, proc, acked, faults>>

\* The manifest of a receiver's offer, and where it is kept.
Wants(r) == Manifest[wanted[r].version]
Indices(r) == DOMAIN Wants(r)
Part(r, i) == parts[journal[r]][Wants(r)[i]]
Need(r) == Indices(r) \ have[r]

Init ==
    /\ dest \in [Dests -> Old] /\ ddest = dest
    /\ meta \in [Journals -> Rels \cup {None}] /\ dmeta = meta
    /\ \A j \in Journals : meta[j] # None => j.rel = Legacy
    /\ parts = [j \in Journals |-> [c \in Chunks |->
                   IF meta[j] # None /\ c \in Range(Manifest[j.version])
                   THEN "good" ELSE "absent"]]
    /\ dparts = parts
    /\ assembly = [s \in States |-> None]
    /\ locks = [s \in States |-> None]
    /\ wanted = [r \in Receivers |-> None]
    /\ at = [r \in Receivers |-> "idle"]
    /\ journal = [r \in Receivers |-> None]
    /\ have = [r \in Receivers |-> {}]
    /\ staged = [r \in Receivers |-> <<>>]
    /\ deferred = [r \in Receivers |-> FALSE]
    /\ acked = [d \in Dests |-> None]
    /\ faults = 0

Goto(r, a) == at' = [at EXCEPT ![r] = a]

-----------------------------------------------------------------------------
(* open_cancellable().                                                      *)

Request(r, o) ==
    /\ at[r] = "idle"
    /\ wanted[r] = None
    /\ wanted' = [wanted EXCEPT ![r] = o]
    /\ UNCHANGED <<disk, assembly, locks, proc, acked, faults>>

LockRoot(r) ==
    /\ at[r] = "idle"
    /\ wanted[r] # None
    /\ locks[wanted[r].state] = None
    /\ locks' = [locks EXCEPT ![wanted[r].state] = r]
    /\ deferred' = [deferred EXCEPT ![r] = FALSE]
    /\ Goto(r, "parent")
    /\ UNCHANGED <<disk, assembly, wanted, journal, have, staged, acked, faults>>

\* The parent's lock, unless it is the root's; then its assembly is discarded.
LockParent(r) ==
    LET s == wanted[r].dstate
    IN  /\ at[r] = "parent"
        /\ locks[s] \in {r, None}
        /\ locks' = [locks EXCEPT ![s] = r]
        /\ assembly' = [assembly EXCEPT ![s] = None]
        /\ Goto(r, "collect")
        /\ UNCHANGED <<disk, wanted, journal, have, staged, deferred, acked, faults>>

Released(r) == [s \in States |-> IF locks[s] = r THEN None ELSE locks[s]]
Reset(r) ==
    /\ at' = [at EXCEPT ![r] = "idle"]
    /\ journal' = [journal EXCEPT ![r] = None]
    /\ have' = [have EXCEPT ![r] = {}]
    /\ staged' = [staged EXCEPT ![r] = <<>>]
    /\ deferred' = [deferred EXCEPT ![r] = FALSE]

\* The parent is held by another receiver: refused, without waiting.
Refused(r) ==
    /\ at[r] = "parent"
    /\ locks[wanted[r].dstate] \notin {r, None}
    /\ locks' = Released(r)
    /\ Reset(r)
    /\ UNCHANGED <<disk, assembly, wanted, acked, faults>>

\* select_journal().
Select(o) ==
    IF meta[Scoped(o)] = None /\ meta[LegacyOf(o)] = o.rel
    THEN LegacyOf(o) ELSE Scoped(o)

\* collect_superseded(): other contents of the same destination path.
Superseded(o) ==
    {j \in Journals : /\ j.state = o.state /\ j # Select(o)
                      /\ j.version # o.version /\ meta[j] = o.rel}

\* collect_journal(): every unlink is synced, parts before the metadata.
CollectPart(r, j, c) ==
    /\ at[r] = "collect"
    /\ j \in Superseded(wanted[r])
    /\ parts[j][c] # "absent"
    /\ parts' = [parts EXCEPT ![j][c] = "absent"]
    /\ dparts' = [dparts EXCEPT ![j][c] = "absent"]
    /\ UNCHANGED <<meta, dest, dmeta, ddest, assembly, locks, wanted, proc, acked, faults>>
CollectMeta(r, j) ==
    /\ at[r] = "collect"
    /\ j \in Superseded(wanted[r])
    /\ \A c \in Chunks : parts[j][c] = "absent"
    /\ dparts' = [dparts EXCEPT ![j] = parts[j]]
    /\ meta' = [meta EXCEPT ![j] = None]
    /\ dmeta' = [dmeta EXCEPT ![j] = None]
    /\ UNCHANGED <<parts, dest, ddest, assembly, locks, wanted, proc, acked, faults>>

\* An entry that fails or the work limit ends the collection, not the open.
Defer(r) ==
    /\ at[r] = "collect"
    /\ Superseded(wanted[r]) # {}
    /\ faults < MaxFaults
    /\ faults' = faults + 1
    /\ deferred' = [deferred EXCEPT ![r] = TRUE]
    /\ UNCHANGED <<disk, assembly, locks, wanted, at, journal, have, staged, acked>>

\* The selected journal is opened or created.
OpenJournal(r) ==
    LET j == Select(wanted[r])
    IN  /\ at[r] = "collect"
        /\ Superseded(wanted[r]) = {} \/ deferred[r]
        /\ journal' = [journal EXCEPT ![r] = j]
        /\ meta' = IF meta[j] = None THEN [meta EXCEPT ![j] = Bare] ELSE meta
        /\ dmeta' = IF meta[j] = None THEN [dmeta EXCEPT ![j] = Bare] ELSE dmeta
        /\ Goto(r, "meta")
        /\ UNCHANGED <<parts, dest, dparts, ddest, assembly, locks, wanted,
                       have, staged, deferred, acked, faults>>

\* write_meta(): rename, then sync.
WriteMeta(r) ==
    /\ at[r] = "meta"
    /\ meta' = [meta EXCEPT ![journal[r]] = wanted[r].rel]
    /\ Goto(r, "meta synced")
    /\ UNCHANGED <<parts, dest, dparts, dmeta, ddest, assembly, locks, wanted,
                   journal, have, staged, deferred, acked, faults>>
SyncMeta(r) ==
    /\ at[r] = "meta synced"
    /\ dmeta' = [dmeta EXCEPT ![journal[r]] = meta[journal[r]]]
    /\ Goto(r, "rescan")
    /\ UNCHANGED <<parts, meta, dest, dparts, ddest, assembly, locks, wanted,
                   journal, have, staged, deferred, acked, faults>>

\* rescan(): verified parts count, others are unlinked.
Rescan(r) ==
    /\ at[r] = "rescan"
    /\ have' = [have EXCEPT ![r] = {i \in Indices(r) : Part(r, i) = "good"}]
    /\ parts' = [parts EXCEPT ![journal[r]] =
                    [c \in Chunks |-> IF @[c] = "bad" /\ c \in Range(Wants(r))
                                      THEN "absent" ELSE @[c]]]
    /\ Goto(r, "seed")
    /\ UNCHANGED <<meta, dest, dparts, dmeta, ddest, assembly, locks, wanted,
                   journal, staged, deferred, acked, faults>>

\* write_state() of a part, up to its rename.
RenamePart(r, i, next) ==
    /\ parts' = [parts EXCEPT ![journal[r]][Wants(r)[i]] = "good"]
    /\ staged' = [staged EXCEPT ![r] = <<i>>]
    /\ Goto(r, next)
    /\ UNCHANGED <<meta, dest, dparts, dmeta, ddest, assembly, locks, wanted,
                   journal, have, deferred, acked, faults>>

\* seed_from_destination(): chunks of the file that is to be replaced.
Seedable(r) == {i \in Need(r) : Wants(r)[i] \in Range(dest[wanted[r].dest])}
SeedChunk(r, i) == at[r] = "seed" /\ i \in Seedable(r) /\ RenamePart(r, i, "seed synced")
\* A chunk found in the old file serves every index that wants it.
SyncSeed(r) ==
    LET c == Wants(r)[staged[r][1]]
    IN  /\ at[r] = "seed synced"
        /\ dparts' = [dparts EXCEPT ![journal[r]] = parts[journal[r]]]
        /\ have' = [have EXCEPT ![r] = @ \cup {i \in Need(r) : Wants(r)[i] = c}]
        /\ staged' = [staged EXCEPT ![r] = <<>>]
        /\ Goto(r, "seed")
        /\ UNCHANGED <<parts, meta, dest, dmeta, ddest, assembly, locks, wanted,
                       journal, deferred, acked, faults>>
Opened(r) ==
    /\ at[r] = "seed"
    /\ Seedable(r) = {}
    /\ Goto(r, "receive")
    /\ UNCHANGED <<disk, assembly, locks, wanted, journal, have, staged, deferred,
                   acked, faults>>

-----------------------------------------------------------------------------
(* store() and assemble_cancellable().                                      *)

Store(r, i) == at[r] = "receive" /\ i \in Need(r) /\ RenamePart(r, i, "store synced")
SyncStore(r) ==
    /\ at[r] = "store synced"
    /\ dparts' = [dparts EXCEPT ![journal[r]] = parts[journal[r]]]
    /\ have' = [have EXCEPT ![r] = @ \cup {staged[r][1]}]
    /\ staged' = [staged EXCEPT ![r] = <<>>]
    /\ Goto(r, "receive")
    /\ UNCHANGED <<parts, meta, dest, dmeta, ddest, assembly, locks, wanted,
                   journal, deferred, acked, faults>>

\* The staging file is created exclusively.
Stage(r) ==
    LET s == wanted[r].dstate
    IN  /\ at[r] = "receive"
        /\ Need(r) = {}
        /\ assembly[s] = None
        /\ assembly' = [assembly EXCEPT ![s] = r]
        /\ Goto(r, "assemble")
        /\ UNCHANGED <<disk, locks, wanted, journal, have, staged, deferred, acked, faults>>

\* Mutant: a part is not verified again when it is copied.
ReadableOnce(r, i) == Part(r, i) # "absent"
Readable(r, i) == Part(r, i) = "good"

CopyPart(r) ==
    LET i == Len(staged[r]) + 1
    IN  /\ at[r] = "assemble"
        /\ i \in Indices(r)
        /\ Readable(r, i)
        /\ staged' = [staged EXCEPT ![r] =
                         Append(@, IF Part(r, i) = "good" THEN Wants(r)[i] ELSE "bad")]
        /\ UNCHANGED <<disk, assembly, locks, wanted, at, journal, have, deferred,
                       acked, faults>>

\* install_in(): rename over the destination, then sync both directories.
Install(r) ==
    LET o == wanted[r]
    IN  /\ at[r] = "assemble"
        /\ Len(staged[r]) = Len(Wants(r))
        /\ dest' = [dest EXCEPT ![o.dest] = staged[r]]
        /\ acked' = [acked EXCEPT ![o.dest] = None]
        /\ assembly' = [assembly EXCEPT ![o.dstate] = None]
        /\ Goto(r, "installed")
        /\ UNCHANGED <<parts, meta, dparts, dmeta, ddest, locks, wanted,
                       journal, have, staged, deferred, faults>>
SyncInstall(r) ==
    LET d == wanted[r].dest
    IN  /\ at[r] = "installed"
        /\ ddest' = [ddest EXCEPT ![d] = dest[d]]
        /\ acked' = [acked EXCEPT ![d] = Wants(r)]
        /\ staged' = [staged EXCEPT ![r] = <<>>]
        /\ Goto(r, "clean parts")
        /\ UNCHANGED <<parts, meta, dest, dparts, dmeta, assembly, locks, wanted,
                       journal, have, deferred, faults>>

\* cleanup(): the parts of this manifest, a sync, the metadata, a sync.
CleanPart(r, c) ==
    /\ at[r] = "clean parts"
    /\ c \in Range(Wants(r))
    /\ parts[journal[r]][c] # "absent"
    /\ parts' = [parts EXCEPT ![journal[r]][c] = "absent"]
    /\ UNCHANGED <<meta, dest, dparts, dmeta, ddest, assembly, locks, wanted, proc,
                   acked, faults>>
SyncParts(r) ==
    /\ at[r] = "clean parts"
    /\ \A c \in Range(Wants(r)) : parts[journal[r]][c] = "absent"
    /\ dparts' = [dparts EXCEPT ![journal[r]] = parts[journal[r]]]
    /\ Goto(r, "clean meta")
    /\ UNCHANGED <<parts, meta, dest, dmeta, ddest, assembly, locks, wanted,
                   journal, have, staged, deferred, acked, faults>>
CleanMeta(r) ==
    /\ at[r] = "clean meta"
    /\ meta' = [meta EXCEPT ![journal[r]] = Bare]
    /\ Goto(r, "clean journal")
    /\ UNCHANGED <<parts, dest, dparts, dmeta, ddest, assembly, locks, wanted,
                   journal, have, staged, deferred, acked, faults>>
CleanJournal(r) ==
    /\ at[r] = "clean journal"
    /\ meta' = [meta EXCEPT ![journal[r]] = None]
    /\ dmeta' = [dmeta EXCEPT ![journal[r]] = None]
    /\ locks' = Released(r)
    /\ wanted' = [wanted EXCEPT ![r] = None]
    /\ Reset(r)
    /\ UNCHANGED <<parts, dest, dparts, ddest, assembly, acked, faults>>

-----------------------------------------------------------------------------
(* Failures.                                                                *)

Committed(r) == at[r] \in {"clean parts", "clean meta", "clean journal"}

\* An error, or the stop flag, ends the call: the journal and its locks are
\* dropped and the staging file is removed. In cleanup the call succeeds.
Fail(r) ==
    /\ at[r] # "idle"
    /\ faults < MaxFaults
    /\ faults' = faults + 1
    /\ locks' = Released(r)
    /\ assembly' = [s \in States |-> IF assembly[s] = r THEN None ELSE assembly[s]]
    /\ wanted' = IF Committed(r) THEN [wanted EXCEPT ![r] = None] ELSE wanted
    /\ Reset(r)
    /\ UNCHANGED <<disk, acked>>

\* A part that no longer verifies fails the assembly.
PartChanged(r) ==
    /\ at[r] = "assemble"
    /\ Len(staged[r]) < Len(Wants(r))
    /\ ~Readable(r, Len(staged[r]) + 1)
    /\ locks' = Released(r)
    /\ assembly' = [s \in States |-> IF assembly[s] = r THEN None ELSE assembly[s]]
    /\ Reset(r)
    /\ UNCHANGED <<disk, wanted, acked, faults>>

\* A process dies with its receiver; the caller starts over.
Die(r) ==
    /\ at[r] # "idle"
    /\ faults < MaxFaults
    /\ faults' = faults + 1
    /\ locks' = Released(r)
    /\ assembly' = [s \in States |-> IF assembly[s] = r THEN "left" ELSE assembly[s]]
    /\ Reset(r)
    /\ UNCHANGED <<disk, wanted, acked>>

\* Every process dies, and each unsynced name is kept or not; a staging file
\* whose removal or rename was not synced may be back.
PowerLoss ==
    /\ faults < MaxFaults
    /\ faults' = faults + 1
    /\ \E lost \in SUBSET {x \in Journals \X Chunks : parts[x[1]][x[2]] # dparts[x[1]][x[2]]} :
          parts' = [j \in Journals |-> [c \in Chunks |->
                      IF <<j, c>> \in lost THEN dparts[j][c] ELSE parts[j][c]]]
    /\ \E lost \in SUBSET {j \in Journals : meta[j] # dmeta[j]} :
          meta' = [j \in Journals |-> IF j \in lost THEN dmeta[j] ELSE meta[j]]
    /\ \E lost \in SUBSET {d \in Dests : dest[d] # ddest[d]} :
          dest' = [d \in Dests |-> IF d \in lost THEN ddest[d] ELSE dest[d]]
    /\ dparts' = parts' /\ dmeta' = meta' /\ ddest' = dest'
    /\ \E left \in SUBSET {s \in States : assembly[s] # None \/ locks[s] # None} :
          assembly' = [s \in States |-> IF s \in left THEN "left" ELSE None]
    /\ locks' = [s \in States |-> None]
    /\ at' = [r \in Receivers |-> "idle"]
    /\ journal' = [r \in Receivers |-> None]
    /\ have' = [r \in Receivers |-> {}]
    /\ staged' = [r \in Receivers |-> <<>>]
    /\ deferred' = [r \in Receivers |-> FALSE]
    /\ UNCHANGED <<wanted, acked>>

\* A stored part changes on disk.
BitRot(j, c) ==
    /\ parts[j][c] = "good"
    /\ faults < MaxFaults
    /\ faults' = faults + 1
    /\ parts' = [parts EXCEPT ![j][c] = "bad"]
    /\ dparts' = [dparts EXCEPT ![j][c] = IF @ = "good" THEN "bad" ELSE @]
    /\ UNCHANGED <<meta, dest, dmeta, ddest, assembly, locks, wanted, proc, acked>>

\* One step of the call a receiver is in.
Work(r) ==
    \/ LockRoot(r) \/ LockParent(r) \/ Refused(r)
    \/ \E j \in Journals : CollectMeta(r, j) \/ \E c \in Chunks : CollectPart(r, j, c)
    \/ OpenJournal(r) \/ WriteMeta(r) \/ SyncMeta(r) \/ Rescan(r)
    \/ at[r] \in {"seed", "receive"} /\ \E i \in Indices(r) : SeedChunk(r, i) \/ Store(r, i)
    \/ SyncSeed(r) \/ Opened(r) \/ SyncStore(r)
    \/ Stage(r) \/ CopyPart(r) \/ PartChanged(r) \/ Install(r) \/ SyncInstall(r)
    \/ \E c \in Chunks : CleanPart(r, c)
    \/ SyncParts(r) \/ CleanMeta(r) \/ CleanJournal(r)

Next ==
    \/ \E r \in Receivers : \E o \in Offers : Request(r, o)
    \/ \E r \in Receivers : Work(r) \/ Defer(r) \/ Fail(r) \/ Die(r)
    \/ \E j \in Journals, c \in Chunks : BitRot(j, c)
    \/ PowerLoss

Spec == Init /\ [][Next]_vars

-----------------------------------------------------------------------------
(* Properties.                                                              *)

Steps == {"idle", "parent", "collect", "meta", "meta synced", "rescan", "seed",
          "seed synced", "receive", "store synced", "assemble", "installed",
          "clean parts", "clean meta", "clean journal"}

TypeOK ==
    /\ parts \in [Journals -> [Chunks -> {"absent", "good", "bad"}]]
    /\ meta \in [Journals -> Rels \cup {Bare, None}]
    /\ assembly \in [States -> Receivers \cup {"left", None}]
    /\ locks \in [States -> Receivers \cup {None}]
    /\ wanted \in [Receivers -> Offers \cup {None}]
    /\ at \in [Receivers -> Steps]
    /\ \A r \in Receivers : at[r] # "idle" => wanted[r] # None /\ have[r] \subseteq Indices(r)
    /\ faults \in 0..MaxFaults

\* The destination is always an old file or a complete new one: no failure,
\* death, power loss or damaged part, at any step of any receiver, leaves a
\* partial or unverified file under its name (assemble_cancellable).
DestinationComplete ==
    \A d \in Dests : {dest[d], ddest[d]} \subseteq Old \cup Range(Manifest)

\* What assemble() returned for a destination survives power loss until
\* another receiver replaces it (install_in: "Data and its parent are synced
\* before success").
AssembledIsDurable == \A d \in Dests : acked[d] # None => dest[d] = acked[d]

\* Parts never outlive the metadata that says whose they are, whatever is
\* lost with power: parts without it could never be collected
\* (write_meta before the first part, cleanup and collect_journal).
PartsAttributable ==
    \A j \in Journals : (\E c \in Chunks : parts[j][c] # "absent") => meta[j] \in Rels

=============================================================================
