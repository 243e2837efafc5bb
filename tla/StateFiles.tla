----------------------------- MODULE StateFiles -------------------------------
(***************************************************************************)
(* The endpoint identity on disk (rds-net, identity.rs, identity/unix.rs): *)
(* a seed file created once per path, in a transaction held by a lock on   *)
(* the parent directory, and owned by one running process through a lock   *)
(* on the seed's inode.                                                    *)
(*                                                                         *)
(* The file system keeps what was synchronized.  Between two directory     *)
(* synchronizations a power loss may leave any value a name has had since  *)
(* the first; an unsynchronized file keeps any length it has had.  The     *)
(* creation mode is the worst one, a umask that removes every permission.  *)
(* An older program may create the key without taking the lock.            *)
(***************************************************************************)
EXTENDS Naturals, FiniteSets

CONSTANTS
    KeyCallers,   \* processes
    Seeds,        \* bound of the inodes created: 1 .. Seeds
    MaxLosses,    \* bound of the power losses
    MaxStops,     \* bound of the processes killed or failing midway
    MaxLegacy     \* bound of the keys created by an older program

VARIABLES
    home,      \* the parent directory: "none", "made" (not yet durable), "kept"
    marker,    \* .rds-key-transaction.lock: [is, may], its value and those a loss may leave
    name,      \* what "pending" and "key" name, an inode or 0
    may,       \* what a power loss may leave them naming
    inode,     \* [len, kept]: 0 empty, 1 partial, 2 whole; and the synchronized length
    dirLock,   \* the holder of the directory's lock, or 0
    at,        \* where each call stands
    mine,      \* the inode a call staged or read
    owner,     \* the holder of each inode's lock, or 0
    answered,  \* history: seeds handed to a caller
    loose,     \* history: seeds an older program uses, which it did not make durable
    forgotten, \* history: seeds handed out that a loss of the directory destroyed
    refusals,  \* history: the errors that left state for an operator
    used       \* [losses, stops, legacy]

keyVars == <<home, marker, name, may, inode, dirLock, at, mine, owner, answered,
             loose, forgotten, refusals, used>>

Inodes == 1 .. Seeds
Unused == {i \in Inodes : inode[i].len = 3}
NewInode == CHOOSE i \in Unused : \A j \in Unused : i <= j

KeyInit ==
    /\ home = "none"
    /\ marker = [is |-> "none", may |-> {"none"}]
    /\ name = [pending |-> 0, key |-> 0]
    /\ may = [pending |-> {0}, key |-> {0}]
    /\ inode = [i \in Inodes |-> [len |-> 3, kept |-> 0]]   \* 3: not created yet
    /\ dirLock = 0
    /\ at = [c \in KeyCallers |-> "idle"] /\ mine = [c \in KeyCallers |-> 0]
    /\ owner = [i \in Inodes |-> 0]
    /\ answered = {} /\ loose = {} /\ forgotten = {} /\ refusals = {}
    /\ used = [losses |-> 0, stops |-> 0, legacy |-> 0]

Go(c, pc) == at' = [at EXCEPT ![c] = pc]
From(c, pc) == at[c] = pc

SetName(n, i) ==
    /\ name' = [name EXCEPT ![n] = i]
    /\ may' = [may EXCEPT ![n] = @ \cup {i}]
SyncNames == may' = [n \in {"pending", "key"} |-> {name[n]}]
SetMarker(v) == marker' = [is |-> v, may |-> marker.may \cup {v}]
MarkerKept == marker' = [marker EXCEPT !.may = {marker.is}]

history == <<answered, loose, forgotten, refusals, used>>

\* A call that ends with an error releases the directory.
Refuse(c, why) ==
    /\ Go(c, "idle")
    /\ dirLock' = 0
    /\ refusals' = refusals \cup {why}

-----------------------------------------------------------------------------
(* open_or_create_directory.                                                 *)

Open(c) ==
    /\ From(c, "idle")
    /\ Go(c, IF home = "none" THEN "missing" ELSE "opened")
    /\ UNCHANGED <<home, marker, name, may, inode, dirLock, mine, owner, history>>

\* mkdirat, or another creator's directory.
MakeHome(c) ==
    /\ From(c, "missing")
    /\ home' = IF home = "none" THEN "made" ELSE home
    /\ Go(c, "made")
    /\ UNCHANGED <<marker, name, may, inode, dirLock, mine, owner, history>>

SyncHome(c) ==
    /\ From(c, "made")
    /\ home' = "kept"
    /\ Go(c, "opened")
    /\ UNCHANGED <<marker, name, may, inode, dirLock, mine, owner, history>>

-----------------------------------------------------------------------------
(* Transaction::open_checked and seal_marker.                                *)

\* LockedDirectory::acquire: retried for two seconds, then Busy.
Lock(c) ==
    /\ From(c, "opened")
    /\ \/ dirLock = 0 /\ dirLock' = c /\ Go(c, "locked")
       \/ dirLock # 0 /\ Go(c, "idle") /\ UNCHANGED dirLock
    /\ UNCHANGED <<home, marker, name, may, inode, mine, owner, history>>

\* An empty marker whose permissions were never set is replaced.
ClearMarker(c) ==
    /\ From(c, "locked")
    /\ IF marker.is = "bare" /\ name["pending"] # 0
       THEN Refuse(c, "state") /\ UNCHANGED <<marker, may, answered, loose, forgotten, used>>
       ELSE /\ Go(c, "cleared")
            /\ IF marker.is = "bare"
               THEN marker' = [is |-> "none", may |-> {"none"}] /\ SyncNames
               ELSE UNCHANGED <<marker, may>>
            /\ UNCHANGED <<dirLock, history>>
    /\ UNCHANGED <<home, name, inode, mine, owner>>

MakeMarker(c) ==
    /\ From(c, "cleared")
    /\ IF marker.is = "none" THEN SetMarker("bare") /\ Go(c, "marked")
       ELSE UNCHANGED marker /\ Go(c, "private")
    /\ UNCHANGED <<home, name, may, inode, dirLock, mine, owner, history>>

ChmodMarker(c) ==
    /\ From(c, "marked")
    /\ SetMarker("empty") /\ Go(c, "private")
    /\ UNCHANGED <<home, name, may, inode, dirLock, mine, owner, history>>

\* A prefix is completed only while no seed is pending.
WriteMarker(c) ==
    /\ From(c, "private")
    /\ IF marker.is # "full" /\ name["pending"] # 0
       THEN Refuse(c, "state") /\ UNCHANGED <<marker, answered, loose, forgotten, used>>
       ELSE /\ \/ marker.is # "full" /\ SetMarker("prefix") /\ UNCHANGED at
               \/ SetMarker("full") /\ Go(c, "marking")
            /\ UNCHANGED <<dirLock, history>>
    /\ UNCHANGED <<home, name, may, inode, mine, owner>>

Seal == MarkerKept /\ SyncNames

SealMarker(c) ==
    /\ From(c, "marking")
    /\ Seal
    /\ Go(c, "sealed")
    /\ UNCHANGED <<home, name, inode, dirLock, mine, owner, history>>

\* recover_pending: the leftover of a creator that died.
Recover(c) ==
    /\ From(c, "sealed")
    /\ name' = [name EXCEPT !["pending"] = 0]
    /\ may' = IF name["pending"] = 0 THEN may ELSE [n \in {"pending", "key"} |-> {name'[n]}]
    /\ Go(c, "recovered")
    /\ UNCHANGED <<home, marker, inode, dirLock, mine, owner, history>>

-----------------------------------------------------------------------------
(* transaction_file.                                                         *)

\* read_key and the directory's sync: a key whose creator exited first is made
\* durable before it is returned.
Adopt ==
    /\ inode' = [inode EXCEPT ![name["key"]].kept = 2]
    /\ SyncNames

Return(c, i) ==
    /\ answered' = answered \cup {i}
    /\ mine' = [mine EXCEPT ![c] = i]
    /\ dirLock' = 0
    /\ Go(c, "answer")
    /\ UNCHANGED <<loose, forgotten, refusals, used>>

ReadKey(c) ==
    /\ From(c, "recovered") /\ name["key"] # 0
    /\ IF inode[name["key"]].len = 2
       THEN Adopt /\ Return(c, name["key"])
       ELSE Refuse(c, "length") /\ UNCHANGED <<may, inode, mine, answered, loose, forgotten, used>>
    /\ UNCHANGED <<home, marker, name, owner>>

Stage(c) ==
    /\ From(c, "recovered") /\ name["key"] = 0 /\ Unused # {}
    /\ inode' = [inode EXCEPT ![NewInode].len = 0]
    /\ mine' = [mine EXCEPT ![c] = NewInode]
    /\ SetName("pending", NewInode)
    /\ Go(c, "staged")
    /\ UNCHANGED <<home, marker, dirLock, owner, history>>

WriteSeed(c) ==
    /\ From(c, "staged")
    /\ inode' = [inode EXCEPT ![mine[c]].len = @ + 1]
    /\ Go(c, IF inode[mine[c]].len = 1 THEN "written" ELSE "staged")
    /\ UNCHANGED <<home, marker, name, may, dirLock, mine, owner, history>>

Synced(c) == inode' = [inode EXCEPT ![mine[c]].kept = 2]

SyncSeed(c) ==
    /\ From(c, "written")
    /\ Synced(c)
    /\ Go(c, "synced")
    /\ UNCHANGED <<home, marker, name, may, dirLock, mine, owner, history>>

Free == name["key"] = 0

\* RENAME_NOREPLACE: a creator that ignores the lock may have won.
Publish(c) ==
    /\ From(c, "synced")
    /\ IF Free
       THEN /\ name' = [pending |-> 0, key |-> mine[c]]
            /\ may' = [pending |-> may["pending"] \cup {0}, key |-> may["key"] \cup {mine[c]}]
            /\ Go(c, "published")
            /\ UNCHANGED <<inode, dirLock, refusals>>
       ELSE IF inode[name["key"]].len = 2
       THEN /\ inode' = [inode EXCEPT ![name["key"]].kept = 2]
            /\ SetName("pending", 0)
            /\ Go(c, "published")
            /\ UNCHANGED <<dirLock, refusals>>
       ELSE SetName("pending", 0) /\ Refuse(c, "length") /\ UNCHANGED inode
    /\ UNCHANGED <<home, marker, mine, owner, answered, loose, forgotten, used>>

SyncDirectory(c) ==
    /\ From(c, "published")
    /\ SyncNames
    /\ Return(c, name["key"])
    /\ UNCHANGED <<home, marker, name, inode, owner>>

-----------------------------------------------------------------------------
(* acquire, KeyOwner and what stops a call.                                  *)

\* A pure reader is done; an owner locks the inode, or finds it in use.
Own(c) ==
    /\ From(c, "answer")
    /\ \/ Go(c, "idle") /\ UNCHANGED owner
       \/ /\ owner[mine[c]] = 0
          /\ owner' = [owner EXCEPT ![mine[c]] = c] /\ Go(c, "running")
    /\ UNCHANGED <<home, marker, name, may, inode, dirLock, mine, history>>

Owned(c) == {i \in Inodes : owner[i] = c}

\* The process ends: KeyOwner's drop, or the system, releases its locks.
Exit(c) ==
    /\ From(c, "running")
    /\ owner' = [i \in Inodes |-> IF i \in Owned(c) THEN 0 ELSE owner[i]]
    /\ Go(c, "idle")
    /\ UNCHANGED <<home, marker, name, may, inode, dirLock, mine, history>>

\* An I/O error or a kill: Staged's drop removes the pending file, or nothing does.
Stops(c) ==
    /\ at[c] \notin {"idle", "answer", "running"} /\ used.stops < MaxStops
    /\ used' = [used EXCEPT !.stops = @ + 1]
    /\ \/ UNCHANGED <<name, may>>
       \/ at[c] \in {"staged", "written", "synced"} /\ SetName("pending", 0)
    /\ dirLock' = IF dirLock = c THEN 0 ELSE dirLock
    /\ Go(c, "idle")
    /\ UNCHANGED <<home, marker, inode, mine, owner, answered, loose, forgotten, refusals>>

LegacyCreates ==
    /\ home # "none" /\ name["key"] = 0 /\ Unused # {} /\ used.legacy < MaxLegacy
    /\ used' = [used EXCEPT !.legacy = @ + 1]
    /\ inode' = [inode EXCEPT ![NewInode].len = 1]
    /\ SetName("key", NewInode)
    /\ UNCHANGED <<home, marker, dirLock, at, mine, owner, answered, loose, forgotten, refusals>>

\* The older program has its whole key, and uses it from now on.
LegacyFinishes ==
    /\ name["key"] # 0 /\ inode[name["key"]] = [len |-> 1, kept |-> 0] /\ used.legacy > 0
    /\ inode' = [inode EXCEPT ![name["key"]].len = 2]
    /\ loose' = loose \cup {name["key"]}
    /\ UNCHANGED <<home, marker, name, may, dirLock, at, mine, owner, answered, forgotten,
                   refusals, used>>

Unsynced == {i \in Inodes : inode[i].len < 3 /\ inode[i].kept < inode[i].len}

PowerLoss ==
    /\ used.losses < MaxLosses
    /\ used' = [used EXCEPT !.losses = @ + 1]
    /\ dirLock' = 0 /\ owner' = [i \in Inodes |-> 0]
    /\ at' = [c \in KeyCallers |-> "idle"] /\ mine' = [c \in KeyCallers |-> 0]
    /\ loose' = {}
    /\ \/ /\ home' = IF home = "none" THEN "none" ELSE "kept"
          /\ \E m \in marker.may, p \in may["pending"], k \in may["key"] :
                /\ marker' = [is |-> m, may |-> {m}]
                /\ name' = [pending |-> IF p = k THEN 0 ELSE p, key |-> k]
                /\ may' = [n \in {"pending", "key"} |-> {name'[n]}]
          /\ \E n \in [Unsynced -> 0 .. 2] :
                /\ \A i \in Unsynced : n[i] <= inode[i].len
                /\ inode' = [i \in Inodes |-> IF i \in Unsynced THEN [len |-> n[i], kept |-> n[i]]
                                              ELSE inode[i]]
          /\ UNCHANGED <<answered, forgotten, refusals>>
       \/ /\ home = "made"
          /\ home' = "none"
          /\ marker' = [is |-> "none", may |-> {"none"}]
          /\ name' = [pending |-> 0, key |-> 0]
          /\ may' = [pending |-> {0}, key |-> {0}]
          /\ forgotten' = forgotten \cup answered
          /\ answered' = {}
          /\ UNCHANGED <<inode, refusals>>

KeyStep(c) ==
    \/ Open(c) \/ MakeHome(c) \/ SyncHome(c) \/ Lock(c) \/ ClearMarker(c) \/ MakeMarker(c)
    \/ ChmodMarker(c) \/ WriteMarker(c) \/ SealMarker(c) \/ Recover(c) \/ ReadKey(c)
    \/ Stage(c) \/ WriteSeed(c) \/ SyncSeed(c) \/ Publish(c) \/ SyncDirectory(c)
    \/ Own(c) \/ Exit(c)

KeyNext ==
    \/ \E c \in KeyCallers : KeyStep(c) \/ Stops(c)
    \/ LegacyCreates \/ LegacyFinishes \/ PowerLoss

KeySpec == KeyInit /\ [][KeyNext]_keyVars

KeyTypeOK ==
    /\ home \in {"none", "made", "kept"}
    /\ marker.is \in {"none", "bare", "empty", "prefix", "full"} /\ marker.is \in marker.may
    /\ \A n \in {"pending", "key"} : name[n] \in 0 .. Seeds /\ name[n] \in may[n]
    /\ answered \subseteq Inodes /\ refusals \subseteq {"state", "length"}

-----------------------------------------------------------------------------
\* One identity per path: every caller that was ever handed a seed, an older
\* program included, was handed the same one, whatever was killed, lost power or
\* raced in between (transaction_file; the directory itself is AnsweredIsDurable's).
OneKey == Cardinality(answered \cup loose) <= 1

\* No crash leaves state that the next call refuses: only an older program's
\* half-written key does (seal_marker's InvalidState, read_key's InvalidLength).
NoCrashBricks == refusals \subseteq (IF used.legacy > 0 THEN {"length"} ELSE {})

\* What a caller was handed is not lost with the directory that holds it.
AnsweredIsDurable == forgotten = {}

-----------------------------------------------------------------------------
(***************************************************************************)
(* The offline import of a format-2 record catalog into a new sibling      *)
(* directory (rds-discovery, records/migration.rs): the source is locked   *)
(* and copied, the copy is validated, a new catalog of revision floors is  *)
(* staged under a pending marker in a private audit directory, reopened,   *)
(* receipted, unmarked and renamed into place.                             *)
(*                                                                         *)
(* disk is what the file system shows and kept the set of states a power   *)
(* loss may leave: a change applies to each of them or not, and a          *)
(* synchronization discards those that differ in the directory it names.   *)
(* An old server may still own the source, crash between its database and  *)
(* its anchor, and start again after a migration failed.                   *)
(***************************************************************************)

CONSTANTS
    MaxRevision,   \* bound of a row's revision
    MaxAttempts,   \* bound of the calls of migrate_v2
    MaxMishaps     \* bound of the crashes and power losses

VARIABLES
    source,    \* [meta, rows]: the committed format-2 database
    anchored,  \* the metadata in the source's records.anchor
    lock,      \* who holds the source: "none", "server", "migration"
    disk,      \* [audit, staged, marker, db, anchor, receipt, other]
    kept,      \* what a power loss may leave of it
    copy,      \* the anchor read, and source.redb in the audit directory
    step,      \* where the migration stands
    attempts,
    mishaps,
    commits,   \* history: every state the source's database has had
    unfit,     \* history: read_v2 refused the source
    told       \* history: migrate_v2 returned success

migVars == <<source, anchored, lock, disk, kept, copy, step, attempts, mishaps, commits,
             unfit, told>>

Rows == {"a", "b"}
Count(rows) == Cardinality({k \in Rows : rows[k] > 0})
Meta(gen, rows) == [generation |-> gen, identities |-> Count(rows)]
NoRows == [k \in Rows |-> 0]
Blank == [audit |-> FALSE, staged |-> "none", marker |-> FALSE, db |-> NoRows, built |-> FALSE,
          anchor |-> FALSE, receipt |-> FALSE, other |-> FALSE]

MigInit ==
    /\ source = [meta |-> Meta(1, NoRows), rows |-> NoRows]
    /\ anchored = source.meta
    /\ lock = "none"
    /\ disk = Blank /\ kept = {Blank}
    /\ copy = [anchor |-> Meta(1, NoRows), meta |-> Meta(1, NoRows), rows |-> NoRows]
    /\ step = "idle" /\ attempts = 0 /\ mishaps = 0
    /\ commits = {source.rows} /\ unfit = FALSE /\ told = FALSE

ours == <<disk, kept, copy, step, attempts, unfit, told>>
theirs == <<source, anchored, commits>>

-----------------------------------------------------------------------------
(* The server that owns the source.                                          *)

ServerOpens ==
    /\ lock = "none" /\ ~told
    /\ lock' = "server" /\ anchored' = source.meta
    /\ UNCHANGED <<source, commits, mishaps, ours>>

ServerCommits(k) ==
    /\ lock = "server" /\ anchored = source.meta /\ source.rows[k] < MaxRevision
    /\ LET rows == [source.rows EXCEPT ![k] = @ + 1]
       IN  /\ source' = [meta |-> Meta(source.meta.generation + 1, rows), rows |-> rows]
           /\ commits' = commits \cup {rows}
    /\ UNCHANGED <<anchored, lock, mishaps, ours>>

ServerAnchors ==
    /\ lock = "server" /\ anchored # source.meta
    /\ anchored' = source.meta
    /\ UNCHANGED <<source, commits, lock, mishaps, ours>>

ServerStops ==
    /\ lock = "server"
    /\ \/ anchored = source.meta /\ UNCHANGED mishaps
       \/ anchored # source.meta /\ mishaps < MaxMishaps /\ mishaps' = mishaps + 1
    /\ lock' = "none"
    /\ UNCHANGED <<theirs, ours>>

-----------------------------------------------------------------------------
(* The file system.                                                          *)

Change(f(_)) ==
    /\ disk' = f(disk)
    /\ kept' = kept \cup {f(d) : d \in kept}

\* A change and the synchronization of the directories that name these fields.
ChangeSynced(f(_), fields) ==
    /\ disk' = f(disk)
    /\ kept' = {d \in kept \cup {f(e) : e \in kept} : \A x \in fields : d[x] = f(disk)[x]}

To(s) == step' = s
rest == <<copy, attempts, mishaps, unfit, told>>

-----------------------------------------------------------------------------
(* migrate.                                                                  *)

\* (Unlocked: the source is copied without being owned.)
Unlocked == UNCHANGED lock
TakeSource == lock = "none" /\ lock' = "migration"

\* The destination is absent, the source is initialized and its anchor is read
\* under its locks; a new audit directory has a name nothing had before.
Begin ==
    /\ step = "idle" /\ attempts < MaxAttempts /\ ~told
    /\ disk.staged # "dest" /\ ~disk.other
    /\ TakeSource
    /\ attempts' = attempts + 1
    /\ disk' = Blank /\ kept' = {Blank}
    /\ copy' = [anchor |-> anchored, meta |-> Meta(1, NoRows), rows |-> NoRows]
    /\ To("owned")
    /\ UNCHANGED <<theirs, mishaps, unfit, told>>

MakeAudit ==
    /\ step = "owned"
    /\ LET f(d) == [d EXCEPT !.audit = TRUE] IN ChangeSynced(f, {"audit"})
    /\ To("audited")
    /\ UNCHANGED <<theirs, lock, rest>>

\* intent.json, the staged directory and its pending marker, all synchronized.
StageMarked ==
    /\ step = "audited"
    /\ LET f(d) == [d EXCEPT !.staged = "audit", !.marker = TRUE] IN ChangeSynced(f, {"staged", "marker"})
    /\ To("copy1")
    /\ UNCHANGED <<theirs, lock, rest>>

\* Two chunks of the source's file, read one after the other.
CopyFirst ==
    /\ step = "copy1"
    /\ copy' = [copy EXCEPT !.meta = source.meta, !.rows["a"] = source.rows["a"]]
    /\ To("copy2")
    /\ UNCHANGED <<theirs, lock, disk, kept, attempts, mishaps, unfit, told>>

CopySecond ==
    /\ step = "copy2"
    /\ copy' = [copy EXCEPT !.rows["b"] = source.rows["b"]]
    /\ To("copied")
    /\ UNCHANGED <<theirs, lock, disk, kept, attempts, mishaps, unfit, told>>

AgreesWithSource(m) ==
    /\ m.generation \in {copy.anchor.generation, copy.anchor.generation + 1}
    /\ m.generation = copy.anchor.generation => m = copy.anchor

\* read_v2: the metadata agrees with the anchor and the rows with the metadata.
Validate ==
    /\ step = "copied"
    /\ IF AgreesWithSource(copy.meta) /\ copy.meta.identities = Count(copy.rows)
       THEN To("validated") /\ UNCHANGED <<lock, unfit>>
       ELSE To("idle") /\ lock' = "none" /\ unfit' = TRUE
    /\ UNCHANGED <<theirs, disk, kept, copy, attempts, mishaps, told>>

\* One durable transaction; its file's name is not synchronized yet.
BuildDatabase ==
    /\ step = "validated"
    /\ LET f(d) == [d EXCEPT !.db = copy.rows, !.built = TRUE] IN Change(f)
    /\ To("built")
    /\ UNCHANGED <<theirs, lock, rest>>

\* AtomicFile::write and seal synchronize the staged directory.
WriteAnchor ==
    /\ step = "built"
    /\ LET f(d) == [d EXCEPT !.anchor = TRUE] IN ChangeSynced(f, {"anchor", "db", "built", "marker"})
    /\ To("anchored")
    /\ UNCHANGED <<theirs, lock, rest>>

\* FileStore::open_owned accepts the staged catalog, and the receipt is durable.
WriteReceipt ==
    /\ step = "anchored" /\ disk.built /\ disk.anchor
    /\ LET f(d) == [d EXCEPT !.receipt = TRUE] IN ChangeSynced(f, {"receipt", "staged"})
    /\ To("receipted")
    /\ UNCHANGED <<theirs, lock, rest>>

Unmarked == {"marker", "db", "built", "anchor"}

Unmark ==
    /\ step = "receipted"
    /\ LET f(d) == [d EXCEPT !.marker = FALSE] IN ChangeSynced(f, Unmarked)
    /\ To("unmarked")
    /\ UNCHANGED <<theirs, lock, rest>>

\* RENAME_NOREPLACE: a destination created meanwhile is not touched.
Rename ==
    /\ step = "unmarked"
    /\ IF disk.other THEN To("idle") /\ lock' = "none" /\ UNCHANGED <<disk, kept>>
       ELSE /\ LET f(d) == [d EXCEPT !.staged = IF @ = "audit" THEN "dest" ELSE @] IN Change(f)
            /\ To("renamed") /\ UNCHANGED lock
    /\ UNCHANGED <<theirs, rest>>

SyncParents == kept' = {d \in kept : d.staged = disk.staged}

Succeed ==
    /\ step = "renamed"
    /\ SyncParents
    /\ told' = TRUE /\ lock' = "none"
    /\ To("idle")
    /\ UNCHANGED <<theirs, disk, copy, attempts, mishaps, unfit>>

-----------------------------------------------------------------------------
(* What goes wrong.                                                          *)

\* A kill or an error of any call: every artifact stays, the locks go.
Fails ==
    /\ step # "idle" /\ mishaps < MaxMishaps
    /\ mishaps' = mishaps + 1
    /\ step' = "idle" /\ lock' = "none"
    /\ UNCHANGED <<theirs, disk, kept, copy, attempts, unfit, told>>

PowerFails ==
    /\ mishaps < MaxMishaps
    /\ mishaps' = mishaps + 1
    /\ step' = "idle" /\ lock' = "none"
    /\ \E d \in kept : disk' = d /\ kept' = {d}
    /\ UNCHANGED <<theirs, copy, attempts, unfit, told>>

\* An operator creates the destination while a migration runs.
OtherCreates ==
    /\ step # "idle" /\ disk.staged # "dest" /\ ~disk.other
    /\ disk' = [disk EXCEPT !.other = TRUE]
    /\ kept' = {[d EXCEPT !.other = TRUE] : d \in kept}
    /\ UNCHANGED <<theirs, lock, step, rest>>

MigNext ==
    \/ ServerOpens \/ ServerAnchors \/ ServerStops \/ \E k \in Rows : ServerCommits(k)
    \/ Begin \/ MakeAudit \/ StageMarked \/ CopyFirst \/ CopySecond \/ Validate
    \/ BuildDatabase \/ WriteAnchor \/ WriteReceipt \/ Unmark \/ Rename \/ Succeed
    \/ Fails \/ PowerFails \/ OtherCreates

MigSpec == MigInit /\ [][MigNext]_migVars

MigTypeOK ==
    /\ lock \in {"none", "server", "migration"}
    /\ disk \in kept
    /\ disk.staged \in {"none", "audit", "dest"}
    /\ attempts \in 0 .. MaxAttempts /\ mishaps \in 0 .. MaxMishaps

-----------------------------------------------------------------------------
\* FileStore::new on the staged directory, wherever it is: a marker or a sealed
\* store without its database refuses, anything else is opened, or initialized.
Opens(d) == d.staged # "none" /\ ~d.marker

\* Whatever a crash or a power loss leaves, a directory that normal startup opens
\* is the receipted import of one committed state of the source: a revision floor
\* is never silently missing (migrate's marker, anchor, receipt and rename order).
OpenedIsComplete ==
    \A d \in kept : Opens(d) => d.built /\ d.anchor /\ d.receipt /\ d.db \in commits

\* Once migrate_v2 has returned, no power loss takes the destination back.
ReturnedSurvives == told => \A d \in kept : d.staged = "dest" /\ Opens(d)

\* A source whose server only crashed is importable: its database may be one
\* commit ahead of its anchor (read_v2).
CrashedIsImportable == ~unfit
=============================================================================
