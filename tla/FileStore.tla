------------------------------ MODULE FileStore ------------------------------
(***************************************************************************)
(* The durable record store (rds-discovery, records.rs): an embedded       *)
(* database holding the cells and the catalog metadata, and a separate     *)
(* anchor file holding the last acknowledged metadata.  A mutation commits *)
(* the database and then the anchor, under one mutex, before any result is *)
(* returned; any error in between poisons the instance until it is         *)
(* reopened, and open() reconciles the two files.                          *)
(*                                                                         *)
(* A call is one step, parameterised by the point it stops at.  Between    *)
(* calls the clocks move, the process dies, the machine reboots or loses   *)
(* power and an older copy of the database file may be put back.  The      *)
(* database commits with its own sync; an anchor that was renamed and not  *)
(* synced is visible to the next open, and a power loss keeps it or undoes *)
(* it.  The directory's changes reach the disk in order.                   *)
(***************************************************************************)
EXTENDS RecordEntry, FiniteSets, FiniteSetsExt

CONSTANTS
    Keys,           \* endpoint keys, a set of numbers: the tree orders them
    Offers,         \* alternatives of the <<key, verified mutation>> pairs
                    \* that the callers of one behaviour present
    MaxIdentities,  \* MAX_IDENTITIES
    GcBatch,        \* GC_BATCH
    MaxGeneration,  \* u64::MAX, where the commit generation is exhausted
    MaxWall,        \* bound of the wall clock
    MaxContinuous,  \* bound of the continuous clock of one boot
    MaxBoot         \* bound of the number of reboots

Entries == {m[2] : m \in UNION Offers}

VARIABLES
    offers,    \* the mutations presented, one of Offers
    boot, wall, continuous,  \* Reading::now()
    db,        \* records.redb: the committed cells and metadata
    anchor,    \* records.anchor
    kept,      \* what a power loss may leave of it
    sealed,    \* the marker in records.lock: "no", "written" or "synced"
    open,      \* a process owns the store
    metadata,  \* Inner.metadata
    failed,    \* Inner.failed
    observed,  \* Inner.observed_wall
    cursor,    \* Inner.cursor, 0 for none
    acked,     \* history: every <<key, entry>> acknowledged that the anchor guards
    adopted,   \* history: "relied" when open() took an anchor that is not synced,
               \* "undone" when a power loss then undid it
    backup     \* an older copy of records.redb

clock == <<boot, wall, continuous>>
files == <<db, anchor, kept, sealed>>
inner == <<metadata, failed, observed, cursor>>
vars == <<offers, clock, files, open, inner, acked, adopted, backup>>

Now == [boot |-> boot, wall |-> wall, continuous |-> continuous]

Empty == [k \in Keys |-> None]
FirstMetadata == [generation |-> 1, live |-> 0, identities |-> 0,
                  wall_floor |-> 0]

Identities(cells) == Cardinality({k \in Keys : cells[k] # None})
LiveCount(cells) == Cardinality({k \in Keys : Live(cells[k])})

Own(m) ==
    /\ open' = TRUE
    /\ metadata' = m
    /\ failed' = FALSE
    /\ observed' = 0
    /\ cursor' = 0

Close ==
    /\ open' = FALSE
    /\ metadata' = FirstMetadata
    /\ failed' = FALSE
    /\ observed' = 0
    /\ cursor' = 0

Init ==
    /\ offers \in Offers
    /\ boot = 0
    /\ wall \in 0..MaxWall
    /\ continuous = 0
    /\ db = [cells |-> Empty, meta |-> None]
    /\ anchor = None
    /\ kept = {None}
    /\ sealed = "no"
    /\ open = FALSE
    /\ metadata = FirstMetadata
    /\ failed = FALSE
    /\ observed = 0
    /\ cursor = 0
    /\ acked = {}
    /\ adopted = "no"
    /\ backup = None

-----------------------------------------------------------------------------
(* open_owned.                                                              *)

\* Mutant: a database behind its anchor is adopted.
AgreesWithAnchorLoosely(m, a) == m.generation <= a.generation + 1

\* The database is the anchored one or exactly one commit ahead of it.
AgreesWithAnchor(m, a) ==
    /\ a.wall_floor <= m.wall_floor
    /\ m.generation \in {a.generation, a.generation + 1}
    /\ m.generation = a.generation => m = a

CatalogValid(d, m) ==
    /\ Identities(d.cells) <= MaxIdentities
    /\ \A k \in Keys : /\ AcceptedWall(d.cells[k]) <= m.wall_floor
                       /\ Verified(d.cells[k])
    /\ Identities(d.cells) = m.identities
    /\ LiveCount(d.cells) = m.live

MetadataOf(d) == IF d.meta = None THEN FirstMetadata ELSE d.meta
OpenMetadata == MetadataOf(db)

Openable(d, a) ==
    /\ sealed # "no" => a # None
    /\ IF a # None
       THEN d.meta # None /\ AgreesWithAnchor(d.meta, a)
       ELSE MetadataOf(d).generation = 1 /\ MetadataOf(d).identities = 0
    /\ CatalogValid(d, MetadataOf(d))

\* open() stops after creating the database, renaming the anchor, syncing it or
\* writing the marker, or completes.  The anchor is rewritten when it differs,
\* and the marker's sync of the directory is the anchor's too.
Open(stop) ==
    LET rewritten == anchor # OpenMetadata
        marked == sealed = "no"
    IN  /\ ~open
        /\ Openable(db, anchor)
        /\ stop \in {"renamed", "synced"} => rewritten
        /\ stop = "marker" => marked
        /\ db' = [db EXCEPT !.meta = OpenMetadata]
        /\ anchor' = IF stop = "database" THEN anchor ELSE OpenMetadata
        /\ kept' = IF stop = "renamed" THEN kept \cup {OpenMetadata}
                   ELSE IF \/ stop \in {"synced", "marker", "done"} /\ rewritten
                           \/ stop = "done" /\ marked
                   THEN {OpenMetadata}
                   ELSE kept
        /\ sealed' = IF ~marked THEN sealed
                     ELSE CASE stop = "marker" -> "written"
                            [] stop = "done" -> "synced"
                            [] OTHER -> "no"
        /\ adopted' = IF stop # "database" /\ kept' = {anchor'} THEN "no"
                      ELSE IF stop \in {"marker", "done"} THEN "relied" ELSE adopted
        /\ IF stop = "done" THEN Own(OpenMetadata) ELSE UNCHANGED <<open, inner>>
        /\ UNCHANGED <<clock, acked, backup>>

-----------------------------------------------------------------------------
(* Inner::commit and the calls that reach it.                               *)

CommitOutcome ==
    [stop: {"start", "database", "renamed"}, died: BOOLEAN]
        \cup {[stop |-> "synced", died |-> TRUE], [stop |-> "done", died |-> FALSE]}

\* AtomicFile::write of the anchor.
Anchored(next, o) ==
    /\ anchor' = IF o.stop \in {"renamed", "synced", "done"} THEN next ELSE anchor
    /\ kept' = CASE o.stop \in {"synced", "done"} -> {next}
                 [] o.stop = "renamed" -> kept \cup {next}
                 [] OTHER -> kept
    /\ adopted' = IF o.stop \in {"synced", "done"} THEN "no" ELSE adopted

Changed(cells) == {k \in Keys : cells[k] # db.cells[k]}

\* The counts are carried from commit to commit: every changed key takes its
\* old record out of the live count and puts the new one in.
LiveAfter(cells) ==
    metadata.live - Cardinality({k \in Changed(cells) : Live(db.cells[k])})
                  + Cardinality({k \in Changed(cells) : Live(cells[k])})
IdentitiesAfter(cells) ==
    metadata.identities + Cardinality({k \in Changed(cells) : db.cells[k] = None})

NextMetadata(cells) ==
    [generation |-> metadata.generation + 1,
     live |-> LiveAfter(cells),
     identities |-> IdentitiesAfter(cells),
     wall_floor |-> Max({metadata.wall_floor, wall})]

\* checked_add on the generation.
Exhausted == metadata.generation = MaxGeneration

\* Mutant of commit(): the anchor is committed first.
CommitAnchorFirst(cells, granted, after, o) ==
    LET next == NextMetadata(cells)
    IN  /\ ~Exhausted
        /\ anchor' = IF o.stop = "start" THEN anchor ELSE next
        /\ kept' = {anchor'}
        /\ UNCHANGED adopted
        /\ db' = IF o.stop = "done" THEN [cells |-> cells, meta |-> next] ELSE db
        /\ acked' = IF o.stop = "done" THEN acked \cup granted ELSE acked
        /\ IF o.died THEN Close
           ELSE /\ metadata' = IF o.stop = "done" THEN next ELSE metadata
                /\ failed' = (o.stop # "done")
                /\ UNCHANGED <<open, observed, cursor>>

\* The database commits, then the anchor, then the caller is answered.  A
\* commit that stops earlier (an exhausted generation stops it at once)
\* leaves the instance failed, or the process dead.
Commit(cells, granted, after, o) ==
    LET next == NextMetadata(cells)
    IN  /\ anchor = metadata
        /\ Exhausted => o.stop = "start"
        /\ db' = IF o.stop = "start" THEN db ELSE [cells |-> cells, meta |-> next]
        /\ Anchored(next, o)
        /\ IF o.stop = "done"
           THEN /\ metadata' = next
                /\ observed' = wall
                /\ cursor' = after
                /\ acked' = acked \cup granted
                /\ UNCHANGED <<failed, open>>
           ELSE /\ UNCHANGED acked
                /\ IF o.died THEN Close
                   ELSE /\ failed' = TRUE
                        /\ observed' = wall
                        /\ UNCHANGED <<metadata, open, cursor>>

Healthy ==
    /\ open
    /\ ~failed
    /\ Observes(metadata.wall_floor, observed, Now)

\* A decision that leaves the cell alone only observes the clock.
Answer(granted) ==
    /\ observed' = wall
    /\ acked' = acked \cup granted
    /\ UNCHANGED <<db, anchor, kept, adopted, open, metadata, failed, cursor>>

\* put and remove: access_admitted with an entry.  A fresh identity needs a
\* slot and new content needs the caller's admission; a refusal of either
\* leaves even the expired content unretired.
Mutate(k, e, admitted, o) ==
    LET old == db.cells[k]
        decision == Decide(old, e, Now)
        granted == IF decision.result = "ok" THEN {<<k, e>>} ELSE {}
        refused == \/ old = None /\ metadata.identities >= MaxIdentities
                   \/ Active(decision.cell) /\ ~admitted
    IN  /\ Healthy
        /\ IF decision.cell = old THEN Answer(granted)
           ELSE IF refused THEN Answer({})
           ELSE Commit([db.cells EXCEPT ![k] = decision.cell], granted, cursor, o)
        /\ UNCHANGED <<clock, sealed, backup>>

\* get: access with no entry; it commits a retirement before it answers.
Get(k, o) ==
    LET decision == DecideRead(db.cells[k], Now)
    IN  /\ Healthy
        /\ IF decision.cell = db.cells[k] THEN Answer({})
           ELSE Commit([db.cells EXCEPT ![k] = decision.cell], {}, cursor, o)
        /\ UNCHANGED <<clock, sealed, backup>>

\* The next GC_BATCH keys of the catalog after the cursor.
Batch ==
    LET rest == {k \in Keys : db.cells[k] # None /\ k > cursor}
    IN  {k \in rest : Cardinality({j \in rest : j <= k}) <= GcBatch}

\* collect_expired(): the cursor moves only after the batch has committed.
Collect(o) ==
    LET cells == [k \in Keys |-> IF k \in Batch THEN Retire(db.cells[k], Now)
                                 ELSE db.cells[k]]
        after == IF Cardinality(Batch) = GcBatch THEN Max(Batch) ELSE 0
    IN  /\ Healthy
        /\ IF cells = db.cells
           THEN /\ observed' = wall
                /\ cursor' = after
                /\ UNCHANGED <<db, anchor, kept, adopted, open, metadata, failed, acked>>
           ELSE Commit(cells, {}, after, o)
        /\ UNCHANGED <<clock, sealed, backup>>

\* A read or decoding error inside a call leaves the instance failed.
ReadError ==
    /\ Healthy
    /\ failed' = TRUE
    /\ observed' = wall
    /\ UNCHANGED <<clock, files, open, metadata, cursor, acked, adopted, backup>>

-----------------------------------------------------------------------------
(* The environment.                                                         *)

Tick ==
    /\ wall < MaxWall
    /\ continuous < MaxContinuous
    /\ wall' = wall + 1
    /\ continuous' = continuous + 1
    /\ UNCHANGED <<boot, files, open, inner, acked, adopted, backup>>

\* The wall clock is set, in either direction.
SetClock ==
    /\ wall' \in (0..MaxWall) \ {wall}
    /\ UNCHANGED <<boot, continuous, files, open, inner, acked, adopted, backup>>

Exit ==
    /\ open
    /\ Close
    /\ UNCHANGED <<clock, files, acked, adopted, backup>>

\* An orderly reboot, or a power loss.
Reboot ==
    /\ boot < MaxBoot
    /\ boot' = boot + 1
    /\ continuous' = 0
    /\ Close
    /\ anchor' \in kept
    /\ kept' = {anchor'}
    /\ sealed' \in IF sealed = "written" THEN {"no", "synced"} ELSE {sealed}
    /\ adopted' = IF adopted = "relied"
                  THEN IF anchor' = anchor THEN "no" ELSE "undone"
                  ELSE adopted
    /\ UNCHANGED <<wall, db, acked, backup>>

CopyDatabase ==
    /\ backup = None
    /\ db.meta # None
    /\ backup' = db
    /\ UNCHANGED <<clock, files, open, inner, acked, adopted>>

\* An older copy of records.redb (or an older root the engine repaired to)
\* takes the place of the current one.  A copy that open() refuses leaves a
\* store that does not serve, until the current file is put back.  The anchor
\* guards nothing against a rollback once a power loss undid one relied on.
RollBack ==
    /\ ~open
    /\ backup # None
    /\ Openable(backup, anchor)
    /\ db' = backup
    /\ acked' = IF adopted = "undone" THEN {} ELSE acked
    /\ UNCHANGED <<clock, anchor, kept, sealed, open, inner, adopted, backup>>

Next ==
    /\ UNCHANGED offers
    /\ \/ \E stop \in {"database", "renamed", "synced", "marker", "done"} : Open(stop)
       \/ \E m \in offers, admitted \in BOOLEAN, o \in CommitOutcome :
             Mutate(m[1], m[2], admitted, o)
       \/ \E k \in {m[1] : m \in offers}, o \in CommitOutcome : Get(k, o)
       \/ \E o \in CommitOutcome : Collect(o)
       \/ ReadError
       \/ Tick
       \/ SetClock
       \/ Exit
       \/ Reboot
       \/ CopyDatabase
       \/ RollBack

Spec == Init /\ [][Next]_vars

-----------------------------------------------------------------------------
(* Properties.                                                              *)

Lease == [boot: Nat, issued_at: Nat, expires_at: Nat, accepted_wall: Nat,
          accepted_continuous: Nat, deadline: Nat]
Cell == [entry: Entries, lease: Lease \cup {None}]
Metadata == [generation: 1..MaxGeneration, live: Nat,
             identities: 0..MaxIdentities, wall_floor: 0..MaxWall]
Database == [cells: [Keys -> Cell \cup {None}], meta: Metadata \cup {None}]

TypeOK ==
    /\ offers \in Offers
    /\ boot \in 0..MaxBoot
    /\ wall \in 0..MaxWall
    /\ continuous \in 0..MaxContinuous
    /\ db \in Database
    /\ anchor \in Metadata \cup {None}
    /\ kept \subseteq Metadata \cup {None} /\ anchor \in kept
    /\ sealed \in {"no", "written", "synced"}
    /\ open \in BOOLEAN
    /\ metadata \in Metadata
    /\ failed \in BOOLEAN
    /\ observed \in 0..MaxWall
    /\ cursor \in Keys \cup {0}
    /\ acked \subseteq Keys \X Entries
    /\ backup \in Database \cup {None}

\* A mutation acknowledged to a caller is never lost by a store that serves:
\* its cell holds it or a higher revision, whatever point a commit stopped at,
\* after a power loss, and even after the database file alone was rolled back
\* (commit, open_owned).  Excepted are a rollback and a power loss together, when
\* the latter undoes an anchor which open() relied on without syncing it.
AckedSurvives ==
    open => \A <<k, e>> \in acked :
                /\ db.cells[k] # None
                /\ e.revision <= db.cells[k].entry.revision
                /\ e.revision = db.cells[k].entry.revision => e = db.cells[k].entry

\* Whatever point a call or an open stopped at, the files it leaves behind pass
\* every check of the next open, also after a power loss: own crashes never look
\* like a rollback or a corrupt catalog (open_owned).  Excepted is the power loss
\* that undoes an anchor which a later open() relied on without syncing it.
CrashIsOpenable ==
    /\ adopted # "undone" => Openable(db, anchor)
    /\ adopted = "no" => \A a \in kept : Openable(db, a)

\* The same without the exception: open() finds the anchor equal to the
\* database's metadata and neither rewrites nor syncs it, and the next commit of
\* the database is then two generations ahead of the synced anchor.
PowerLossIsOpenable == \A a \in kept : Openable(db, a)

\* The store implements the abstract record store, until an older copy of the
\* database exists that may take the place of a commit that was not anchored.
Abstract ==
    INSTANCE RecordStore WITH
        cells <- [k \in Keys |->
                    IF db.cells[k] = None THEN None
                    ELSE [entry |-> db.cells[k].entry,
                          live |-> db.cells[k].lease # None]]
ImplementsRecordStore ==
    /\ Abstract!Init
    /\ [][backup = None => UNCHANGED Abstract!vars \/ Abstract!Next]_<<db, acked>>
=============================================================================
