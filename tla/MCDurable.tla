---------------------------- MODULE MCDurable ----------------------------
(***************************************************************************)
(* What must survive a crash.  "issuer": two interchangeable drafts, two   *)
(* revisions and a four-valued wall clock.  "catalog": the life of one key *)
(* over a reboot, one key with an older database put back, three keys in a *)
(* catalog for two, or one key with an anchor that is not synced and a     *)
(* power loss.  "policy": competing rotations, conflicting snapshots under *)
(* one revision, names of two registries, a power loss.  "identity": two   *)
(* callers of one key path, a power loss that leaves the key's directory   *)
(* and a killed caller.                                                    *)
(* "migration": two imports of a catalog that is still being written.      *)
(***************************************************************************)
EXTENDS RecordIssuer, FiniteSets, TLC

CONSTANTS d1, d2

VARIABLES
    workload, exercise, offers, boot, catalogWall, continuous, db, anchor,
    anchorKept, catalogSealed, catalogOpen, metadata, catalogFailed,
    catalogObserved, cursor, acked, catalogAdopted, backup, policyBoot, policyWall, policyContinuous,
    policyDisk, policyKept, policySealed, policyOpen, policyState, policyFailed,
    answered, tentative, adopted, home, marker, name, may, inode, dirLock, at, mine, owner,
    identityAnswered, loose, forgotten, refusals, used, source, anchored,
    lock, migrationDisk, kept, copy, step, attempts, mishaps, commits,
    unfit, told

MCDrafts == {d1, d2}
Symmetry == Permutations(MCDrafts)

MCEntries ==
    {[kind |-> "record", revision |-> 1, issued |-> 0, expires |-> 2],
     [kind |-> "delete", revision |-> 1, issued |-> 0, expires |-> 2],
     [kind |-> "record", revision |-> 2, issued |-> 1, expires |-> 3]}

RecordThenDelete ==
    {[kind |-> "record", revision |-> 1, issued |-> 0, expires |-> 1],
     [kind |-> "delete", revision |-> 2, issued |-> 0, expires |-> 2]}

OneKey == {1} \X MCEntries
ThreeKeys == {m \in {1, 2, 3} \X RecordThenDelete : m[1] = 1 \/ m[2].kind = "record"}

A1 == [key |-> "a", epoch |-> 1]
A2 == [key |-> "b", epoch |-> 2]
B2 == [key |-> "c", epoch |-> 2]
A3 == [key |-> "a", epoch |-> 3]

Receipt(p, n) == [previous |-> p, next |-> n, issued |-> 0, expires |-> 3]
MCReceipts == {Receipt(A1, A2), Receipt(A1, B2), Receipt(A2, A3)}

Snapshot(s, a, r, e, c) ==
    [stream |-> s, authority |-> a, revision |-> r, issued |-> 0,
     expires |-> e, content |-> c]
MCSnapshots ==
    {Snapshot("registry", A1, 1, 2, "x"),
     Snapshot("registry", A1, 1, 2, "y"),
     Snapshot("registry", A1, 2, 3, "x"),
     Snapshot("revocations", A1, 1, 3, "x"),
     Snapshot("registry", A2, 1, 3, "x")}

Binding(n, a, r, d, t) ==
    [name |-> n, authority |-> a, revision |-> r, digest |-> d, issued |-> 0,
     expires |-> 2, target |-> t]
MCBindings ==
    {Binding("m", A1, 1, "d1", "k1"),
     Binding("n", A1, 1, "d1", "k1"),
     Binding("m", A1, 1, "d1", "k2"),
     Binding("n", A1, 1, "d2", "k2"),
     Binding("m", A1, 2, "d2", "k2"),
     Binding("m", A2, 1, "d1", "k1")}

\* What a behaviour of the catalog exercises.
Exercised ==
    [reboot |-> [offers |-> OneKey, copies |-> FALSE,
                 wall |-> 2, continuous |-> 1, boot |-> 1, kept |-> 1],
     rollback |-> [offers |-> OneKey, copies |-> TRUE,
                   wall |-> 2, continuous |-> 0, boot |-> 0, kept |-> 1],
     three |-> [offers |-> ThreeKeys, copies |-> FALSE,
                wall |-> 1, continuous |-> 0, boot |-> 0, kept |-> 1],
     power |-> [offers |-> OneKey, copies |-> TRUE,
                wall |-> 1, continuous |-> 0, boot |-> 1, kept |-> 2]]

Within(w) ==
    /\ offers = w.offers
    /\ catalogWall <= w.wall
    /\ continuous <= w.continuous
    /\ boot <= w.boot
    /\ Cardinality(anchorKept) <= w.kept
    /\ w.copies \/ backup = None

\* A behaviour of the policy exercises the snapshots of both streams across one
\* rotation, those of one stream across two rotations and a reboot, names across
\* one rotation and a reboot, or, with a rename that is not synced and a power
\* loss while no time passes, what one stream and one epoch of names make of it:
\* they share only the authority and the clock floor.
Concerns(e) ==
    /\ Cardinality(policyKept) <= IF e \in {"power", "namesPower"} THEN 2 ELSE 1
    /\ policyWall <= CASE e = "power" -> 1 [] e = "namesPower" -> 0 [] OTHER -> 2
    /\ policyContinuous <= IF e = "power" THEN 0 ELSE 1
    /\ policyDisk # None =>
        /\ e \notin {"names", "namesPower"} => policyDisk.names = None
        /\ e # "rotations" => policyDisk.authority # A3
        /\ e = "snapshots" => policyBoot = 0
        /\ e \in {"rotations", "power"} => policyDisk.snaps["revocations"] = None
        /\ e \in {"names", "namesPower"} =>
              /\ \A t \in {"registry", "revocations"} : policyDisk.snaps[t] = None
              /\ policyDisk.authority # B2
        /\ e = "namesPower" => policyDisk.authority = A1

Catalog ==
    INSTANCE FileStore WITH
        Second <- 1, Keys <- {1, 2, 3}, Offers <- {OneKey, ThreeKeys},
        MaxIdentities <- 2, GcBatch <- 1, MaxGeneration <- 4,
        MaxWall <- 2, MaxContinuous <- 1, MaxBoot <- 1,
        wall <- catalogWall, kept <- anchorKept, sealed <- catalogSealed,
        open <- catalogOpen, failed <- catalogFailed,
        observed <- catalogObserved, adopted <- catalogAdopted

Policy ==
    INSTANCE PolicyStore WITH
        Second <- 1, Bootstrap <- A1, Receipts <- MCReceipts,
        Snapshots <- MCSnapshots, Bindings <- MCBindings,
        MaxRotations <- 2, MaxNames <- 2, MaxWall <- 2, MaxBoot <- 1,
        boot <- policyBoot, wall <- policyWall,
        continuous <- policyContinuous, disk <- policyDisk, kept <- policyKept,
        sealed <- policySealed, open <- policyOpen,
        state <- policyState, failed <- policyFailed

Files ==
    INSTANCE StateFiles WITH
        KeyCallers <- {1, 2}, Seeds <- 3, MaxLosses <- 1, MaxStops <- 1,
        MaxLegacy <- 1, answered <- identityAnswered,
        MaxRevision <- 2, MaxAttempts <- 2, MaxMishaps <- 2,
        disk <- migrationDisk

catalogVars ==
    <<offers, boot, catalogWall, continuous, db, anchor, anchorKept,
      catalogSealed, catalogOpen, metadata, catalogFailed, catalogObserved,
      cursor, acked, catalogAdopted, backup>>
policyVars ==
    <<policyBoot, policyWall, policyContinuous, policyDisk, policyKept,
      policySealed, policyOpen, policyState, policyFailed, answered, tentative,
      adopted>>
identityVars ==
    <<home, marker, name, may, inode, dirLock, at, mine, owner,
      identityAnswered, loose, forgotten, refusals, used>>
migrationVars ==
    <<source, anchored, lock, migrationDisk, kept, copy, step, attempts,
      mishaps, commits, unfit, told>>

MCInit ==
    /\ workload \in {"issuer", "catalog", "policy", "identity", "migration"}
    /\ exercise \in CASE workload = "catalog" -> DOMAIN Exercised
                     [] workload = "policy" -> {"snapshots", "rotations", "names", "power", "namesPower"}
                     [] OTHER -> {"all"}
    /\ Catalog!Init
    /\ workload # "catalog" => catalogWall = 0 /\ offers = OneKey
    /\ workload = "catalog" => Within(Exercised[exercise])
    /\ Policy!Init
    /\ workload # "policy" => policyWall = 0
    /\ Files!KeyInit
    /\ Files!MigInit
    /\ Init
    /\ workload # "issuer" => wall = 0

MCNext ==
    /\ UNCHANGED <<workload, exercise>>
    /\ \/ workload = "issuer" /\ Next
           /\ UNCHANGED <<catalogVars, policyVars, identityVars, migrationVars>>
       \/ workload = "catalog" /\ Catalog!Next /\ Within(Exercised[exercise])'
           /\ UNCHANGED <<vars, policyVars, identityVars, migrationVars>>
       \/ workload = "policy" /\ Policy!Next /\ Concerns(exercise)'
           /\ UNCHANGED <<vars, catalogVars, identityVars, migrationVars>>
       \/ workload = "identity" /\ Files!KeyNext /\ (used'.losses = 0 \/ used'.legacy = 0)
           /\ UNCHANGED <<vars, catalogVars, policyVars, migrationVars>>
       \/ workload = "migration" /\ Files!MigNext
           /\ UNCHANGED <<vars, catalogVars, policyVars, identityVars>>

MCSpec ==
    /\ MCInit
    /\ [][MCNext]_<<workload, exercise, vars, catalogVars, policyVars, identityVars, migrationVars>>

\* An answer is kept, whatever point a later call or a power loss stopped at: an
\* acknowledged record is in its cell or a higher revision is, an accepted
\* snapshot or its successor is on disk, every caller of an identity path is
\* given the same key, and a migrated catalog that was reported is the source's
\* (FileStore::commit, PolicyStore::commit, acquire_key, migrate_v2).  Excepted
\* are a policy answer that only repeats what an unsynced rename shows
\* (RepeatedSurvives), an older catalog put back after a power loss undid an
\* anchor that open() relied on, and a key whose directory itself is lost
\* (AnsweredIsDurable).
AnsweredSurvives ==
    /\ workload = "catalog" => Catalog!AckedSurvives
    /\ workload = "policy" => Policy!AnsweredSurvives
    /\ workload = "identity" => Files!OneKey
    /\ workload = "migration" => Files!ReturnedSurvives

\* Whatever a crash leaves behind, the next call can work with: the catalog and
\* the policy pass every check of their next open, an identity is not bricked
\* by a half-made key, an interrupted import can be repeated (open_owned,
\* PolicyStore::open, recover, import).  Excepted is a power loss that undoes a
\* rename which an open() relied on without syncing it (PowerLossIsOpenable).
CrashIsOpenable ==
    /\ workload = "catalog" => Catalog!CrashIsOpenable
    /\ workload = "policy" => Policy!CrashIsOpenable
    /\ workload = "identity" => Files!NoCrashBricks
    /\ workload = "migration" => Files!CrashedIsImportable

\* The catalog on disk implements the abstract record store.
ImplementsRecordStore == Catalog!ImplementsRecordStore

\* No mixture of two states is ever given out: a revision names one mutation,
\* names accepted under one registry stamp agree on their registry, a destination
\* that opens holds one whole state of the migrated catalog, and the committed
\* policy only moves forward (record, accept_name, migrate_v2, apply_rotation).
NothingMixed ==
    /\ [](workload = "issuer" => UniqueRevision)
    /\ [](workload = "policy" => Policy!NamesAgree)
    /\ [](workload = "migration" => Files!OpenedIsComplete)
    /\ Policy!PolicyMovesForward
=============================================================================
