---------------------------- MODULE DirectoryScan -----------------------------
(***************************************************************************)
(* The scan that turns a directory into a manifest while other programs    *)
(* may change it (rds-sync directory/scanner.rs over confined.rs).  Every  *)
(* directory and file is held open and walked by handle: an entry is       *)
(* looked at, opened, read and looked at again, and each directory is      *)
(* checked once more after its children.  A difference ends the scan.      *)
(*                                                                         *)
(* Inodes carry a stamp that every change of the inode or of its place     *)
(* renews (size, mtime and ctime; the resolution of the clock is taken to  *)
(* suffice).  A file is two blocks, read one at a time.  "state" is the    *)
(* private journal directory; "STATE" is a name that only the filesystem   *)
(* takes for the same.                                                     *)
(***************************************************************************)
EXTENDS Naturals, Sequences, FiniteSets, SequencesExt

CONSTANTS Trees,        \* initial file systems
          MaxEntries,   \* ScanLimits::max_entries
          MaxDepth,     \* ScanLimits::max_depth
          MaxChanges    \* bound on what other programs do

VARIABLES inode,    \* the file system: kind, stamp, blocks, entries of every inode
          changes,  \* changes made so far
          had,      \* every content a file had (history)
          stack,    \* directories being scanned, innermost last
          entry,    \* the entry being scanned
          visited,  \* Scanner::visited
          found,    \* Scanner::entries: path, inode, kind, content
          counted,  \* Scanner::enumerated_entries
          result    \* "running", "ok", or why the scan failed

scanVars == <<inode, changes, had, stack, entry, visited, found, counted, result>>
scanner == <<stack, entry, visited, found, counted, result>>

Root == 1
STATE_DIR == "state"
Names == {"a", "b", STATE_DIR, "STATE"}
Order == <<"STATE", "a", "b", STATE_DIR>>     \* the sorted order of the names
Inodes == DOMAIN inode
NoEntry == [step |-> "none"]
StateNames == {STATE_DIR, "STATE"}

(* openat and statat: the inode a name stands for, 0: none. *)
Same(n, m) == n = m \/ {n, m} \subseteq StateNames
Lookup(d, n) == LET E == {m \in DOMAIN inode[d].entries : Same(n, m)}
                IN IF E = {} THEN 0 ELSE inode[d].entries[CHOOSE m \in E : TRUE]

ScanInit ==
  /\ inode \in Trees
  /\ changes = 0
  /\ had = [i \in DOMAIN inode |-> {inode[i].blocks}]
  /\ stack = <<[dir |-> Root, path |-> <<>>, before |-> 0, todo |-> <<>>, step |-> "stamp",
                via |-> [name |-> STATE_DIR, stamp |-> 0]]>>
  /\ entry = NoEntry
  /\ visited = {Root}
  /\ found = {}
  /\ counted = 0
  /\ result = "running"

-----------------------------------------------------------------------------
(* Other programs. *)
Touch(fs, I) == [i \in DOMAIN fs |-> IF i \in I THEN [fs[i] EXCEPT !.stamp = @ + 1] ELSE fs[i]]
Bind(fs, d, n, i) == [fs EXCEPT ![d].entries = [m \in DOMAIN @ \cup {n} |-> IF m = n THEN i ELSE @[m]]]
Unbind(fs, d, n) == [fs EXCEPT ![d].entries = [m \in DOMAIN @ \ {n} |-> @[m]]]
Dirs == {i \in Inodes : inode[i].kind = "dir" /\ inode[i].linked}
Changed(fs) ==
  /\ result = "running" /\ changes < MaxChanges
  /\ changes' = changes + 1
  /\ inode' = fs
  /\ had' = [i \in Inodes |-> had[i] \cup {fs[i].blocks}]
  /\ UNCHANGED scanner

WriteBlock ==
  \E i \in Inodes, k \in 1 .. 2 :
    /\ inode[i].kind = "file" /\ inode[i].linked
    /\ Changed(Touch([inode EXCEPT ![i].blocks[k] = @ + 1], {i}))
Create ==
  \E i \in Inodes, d \in Dirs, n \in Names :
    /\ ~inode[i].linked /\ Lookup(d, n) = 0 /\ d # i
    /\ n \in StateNames => inode[i].kind = "dir"
    /\ Changed(Touch(Bind([inode EXCEPT ![i].linked = TRUE], d, n, i), {d, i}))
Unlink ==
  \E d \in Dirs : \E n \in DOMAIN inode[d].entries \ StateNames :
    LET i == inode[d].entries[n]
    IN /\ DOMAIN inode[i].entries = {}
       /\ Changed(Touch(Unbind([inode EXCEPT ![i].linked = FALSE], d, n), {d, i}))
Rename ==
  \E d, e \in Dirs : \E n \in DOMAIN inode[d].entries \ StateNames, m \in Names \ StateNames :
    LET i == inode[d].entries[n]
    IN /\ e # i /\ Lookup(e, m) = 0
       /\ e \notin {inode[i].entries[k] : k \in DOMAIN inode[i].entries}
       /\ Changed(Touch(Bind(Unbind(inode, d, n), e, m, i), {d, e, i}))

-----------------------------------------------------------------------------
(* The scanner. *)
Times(i) == inode[i].stamp
LengthOnly(i) == 0                           \* mutant: sizes are compared, not times
metadata_stamp(i) == Times(i)
Top == stack[Len(stack)]
Fails(why) == /\ result' = why /\ stack' = <<>> /\ entry' = NoEntry
              /\ UNCHANGED <<visited, found, counted>>
Scanning == result = "running" /\ UNCHANGED <<inode, changes, had>>
At(frame) == stack' = [stack EXCEPT ![Len(stack)] = frame]

(* The caller's stop is looked at between entries and blocks. *)
Cancelled == Scanning /\ Fails("interrupted")

(* scan_dir: stamp, list, and the children in order. *)
StampDir ==
  /\ Scanning /\ Top.step = "stamp"
  /\ IF Len(stack) - 1 > MaxDepth THEN Fails("depth")
     ELSE /\ At([Top EXCEPT !.before = metadata_stamp(Top.dir), !.step = "list"])
          /\ UNCHANGED <<entry, visited, found, counted, result>>

Private == {STATE_DIR}
Listed(d) == SelectSeq(Order, LAMBDA n : n \in DOMAIN inode[d].entries \ Private)
ListChildren ==
  /\ Scanning /\ Top.step = "list"
  /\ LET names == Listed(Top.dir)
     IN IF counted + Len(names) > MaxEntries THEN Fails("entries")
        ELSE /\ counted' = counted + Len(names)
             /\ At([Top EXCEPT !.todo = names, !.step = "children"])
             /\ UNCHANGED <<entry, visited, found, result>>

StatEntry ==
  /\ Scanning /\ Top.step = "children" /\ entry = NoEntry /\ Top.todo # <<>>
  /\ LET n == Head(Top.todo)
         i == Lookup(Top.dir, n)
     IN IF Len(Top.path) + 1 > MaxDepth THEN Fails("depth")
        ELSE IF i = 0 THEN Fails("not found")
        ELSE /\ entry' = [step |-> inode[i].kind, name |-> n, inode |-> i, stamp |-> metadata_stamp(i),
                          open |-> 0, file_before |-> 0, blocks |-> <<>>]
             /\ At([Top EXCEPT !.todo = Tail(@)])
             /\ UNCHANGED <<visited, found, counted, result>>

(* ensure_entry_unchanged: the name still stands for the same, unchanged     *)
(* inode.                                                                    *)
SameEntry(d, n, i, stamp) == Lookup(d, n) = i /\ metadata_stamp(i) = stamp
Push(kind, content) ==
  found' = found \cup {[path |-> Append(Top.path, entry.name), inode |-> entry.open, kind |-> kind,
                        content |-> content]}

(* scan_file *)
OpenFile ==
  /\ Scanning /\ entry.step = "file"
  /\ LET i == Lookup(Top.dir, entry.name)
     IN IF i = 0 THEN Fails("not found")
        ELSE IF inode[i].kind # "file" THEN Fails("not a file")
        ELSE /\ entry' = [entry EXCEPT !.open = i, !.file_before = metadata_stamp(i), !.step = "read"]
             /\ UNCHANGED <<stack, visited, found, counted, result>>
ReadBlock ==
  /\ Scanning /\ entry.step = "read" /\ Len(entry.blocks) < 2
  /\ entry' = [entry EXCEPT !.blocks = Append(@, inode[entry.open].blocks[Len(@) + 1])]
  /\ UNCHANGED <<stack, visited, found, counted, result>>
FileUnchanged == metadata_stamp(entry.open) = entry.file_before
CheckFile ==
  /\ Scanning /\ entry.step = "read" /\ Len(entry.blocks) = 2
  /\ IF FileUnchanged THEN entry' = [entry EXCEPT !.step = "check"] /\ UNCHANGED <<stack, visited, found, counted, result>>
     ELSE Fails("file changed")

(* A symlink's target is read by name, and the name is looked at again.      *)
ReadLink ==
  /\ Scanning /\ entry.step = "link"
  /\ LET i == Lookup(Top.dir, entry.name)
     IN IF i = 0 \/ inode[i].kind # "link" THEN Fails("not a link")
        ELSE /\ entry' = [entry EXCEPT !.open = i, !.step = "check"]
             /\ UNCHANGED <<stack, visited, found, counted, result>>

CheckEntry ==
  /\ Scanning /\ entry.step = "check"
  /\ IF ~SameEntry(Top.dir, entry.name, entry.inode, entry.stamp) THEN Fails("entry changed")
     ELSE /\ Push(inode[entry.open].kind, entry.blocks)
          /\ entry' = NoEntry
          /\ UNCHANGED <<stack, visited, counted, result>>

(* scan_directory *)
OpenChild ==
  /\ Scanning /\ entry.step = "dir"
  /\ LET i == Lookup(Top.dir, entry.name)
     IN IF i = 0 \/ inode[i].kind # "dir" THEN Fails("not a directory")
        ELSE IF ~SameEntry(Top.dir, entry.name, entry.inode, entry.stamp) THEN Fails("directory changed")
        ELSE /\ entry' = [entry EXCEPT !.open = i, !.step = "enter"]
             /\ UNCHANGED <<stack, visited, found, counted, result>>

IsPrivate == Lookup(Top.dir, STATE_DIR) = entry.open
EntersState == IsPrivate
Again == entry.open \in visited
Revisits == Again
EnterChild ==
  /\ Scanning /\ entry.step = "enter"
  /\ IF EntersState THEN entry' = NoEntry /\ UNCHANGED <<stack, visited, found, counted, result>>
     ELSE IF Revisits THEN Fails("visited twice")
     ELSE /\ visited' = visited \cup {entry.open}
          /\ Push("dir", <<>>)
          /\ stack' = Append(stack, [dir |-> entry.open, path |-> Append(Top.path, entry.name), before |-> 0,
                                     todo |-> <<>>, step |-> "stamp",
                                     via |-> [name |-> entry.name, stamp |-> entry.stamp]])
          /\ entry' = NoEntry
          /\ UNCHANGED <<counted, result>>

(* The end of scan_dir, and the check of its entry in the parent.            *)
DirUnchanged == metadata_stamp(Top.dir) = Top.before
Stable == DirUnchanged
EndDir ==
  /\ Scanning /\ Top.step = "children" /\ entry = NoEntry /\ Top.todo = <<>>
  /\ IF ~Stable THEN Fails("directory changed")
     ELSE /\ IF Len(stack) = 1 THEN result' = "ok" /\ stack' = <<>>
             ELSE At([Top EXCEPT !.step = "leave"]) /\ UNCHANGED result
          /\ UNCHANGED <<entry, visited, found, counted>>
LeaveDir ==
  /\ Scanning /\ Top.step = "leave"
  /\ LET parent == stack[Len(stack) - 1]
     IN IF ~SameEntry(parent.dir, Top.via.name, Top.dir, Top.via.stamp) THEN Fails("entry changed")
        ELSE /\ stack' = Front(stack)
             /\ UNCHANGED <<entry, visited, found, counted, result>>

ScanStep == \/ StampDir \/ ListChildren \/ StatEntry \/ OpenFile \/ ReadBlock \/ CheckFile \/ ReadLink
            \/ CheckEntry \/ OpenChild \/ EnterChild \/ EndDir \/ LeaveDir
ScanNext == ScanStep \/ Cancelled \/ WriteBlock \/ Create \/ Unlink \/ Rename
ScanSpec == ScanInit /\ [][ScanNext]_scanVars

-----------------------------------------------------------------------------
(* Type invariant. *)
ScanTypeOK ==
  /\ Len(stack) <= MaxDepth + 2
  /\ counted \in 0 .. MaxEntries
  /\ \A e \in found : e.kind \in {"file", "dir", "link"} /\ Len(e.path) \in 1 .. MaxDepth
  /\ visited \subseteq Inodes

(* scan_file: whatever is written meanwhile, the content recorded for a file *)
(* is one it had as a whole, never blocks of two versions.                   *)
FilesWhole == \A e \in found : e.kind = "file" => e.content \in had[e.inode]

(* scanner.rs 236: a directory that is moved during the scan is not listed   *)
(* under two paths.                                                          *)
DirectoriesOnce == \A e, f \in found : e.kind = "dir" /\ e.inode = f.inode => e = f

(* scanner.rs 116-121 and 229-234: nothing of the private journal is listed, *)
(* whatever name the filesystem shows it under.                              *)
StateHidden == \A e \in found : \A k \in 1 .. Len(e.path) : e.path[k] \notin StateNames

(* The end of scan_dir: a directory that the scan accepts was listed exactly. *)
(* At its final check its recorded children are its entries but the private  *)
(* state, each the inode that was read, whatever was changed meanwhile in it *)
(* or elsewhere.  Each directory has a moment of its own: the whole listing  *)
(* is no snapshot.                                                           *)
Recorded(path) == {<<Last(e.path), e.inode>> : e \in {f \in found : Front(f.path) = path}}
Present(d) == {<<n, inode[d].entries[n]>> : n \in DOMAIN inode[d].entries \ StateNames}
Accepted ==
  /\ stack # <<>> /\ Top.step = "children"
  /\ \/ result' = "ok"
     \/ Len(stack') = Len(stack) /\ stack'[Len(stack)].step = "leave"
DirectoriesExact == [][Accepted => Recorded(Top.path) = Present(Top.dir)]_scanVars

(* A scan that nothing disturbs ends with exactly the tree, or because the   *)
(* tree exceeds a limit; it never reports a change.                          *)
Children(S) ==
  UNION {{[path |-> Append(e.path, n), inode |-> inode[e.inode].entries[n]] :
             n \in DOMAIN inode[e.inode].entries \ StateNames} : e \in S}
Tree == [k \in 0 .. MaxDepth + 1 |->
           LET T[j \in 0 .. MaxDepth + 1] == IF j = 0 THEN {[path |-> <<>>, inode |-> Root]} ELSE Children(T[j - 1])
           IN T[k]]
QuietScanExact ==
  changes = 0 /\ result \notin {"running", "interrupted"}
    => \/ /\ result = "ok"
          /\ {[path |-> e.path, inode |-> e.inode] : e \in found} = UNION {Tree[k] : k \in 1 .. MaxDepth + 1}
       \/ result = "depth" /\ Tree[MaxDepth + 1] # {}
       \/ result = "entries" /\ Cardinality(UNION {Tree[k] : k \in 1 .. MaxDepth + 1}) > MaxEntries

-----------------------------------------------------------------------------
(***************************************************************************)
(* A directory manifest on the wire (rds-sync directory/wire.rs): a header *)
(* that announces root, count and metadata bytes, then bounded parts of    *)
(* the sorted entries, assembled and verified on the other side.           *)
(*                                                                         *)
(* An entry is a path number, in byte order, with a content; its size is   *)
(* that of its metadata.  The root digest is the sequence of entries       *)
(* itself.  Between the two ends parts may be lost, repeated or exchanged, *)
(* and the sender may start anew with a changed directory.                 *)
(***************************************************************************)

CONSTANTS Paths,            \* path numbers
          Contents,
          Size,             \* path -> its metadata bytes
          Overhead,         \* bytes an encoded entry adds to its metadata
          PartEntries,      \* MAX_DIRECTORY_PART_ENTRIES
          PartBytes,        \* MAX_DIRECTORY_PART_BYTES
          MaxFaults

VARIABLES manifest,  \* what the header announces
          remaining, \* DirectorySnapshotParts
          link,      \* parts under way
          got,       \* DirectorySnapshotAssembler::entries
          faults, phase

wireVars == <<manifest, remaining, link, got, faults, phase>>

Manifests == UNION {{[i \in 1 .. Cardinality(S) |-> [path |-> SetToSortSeq(S, <)[i], content |-> f[SetToSortSeq(S, <)[i]]]] :
                        f \in [S -> Contents]} : S \in SUBSET Paths}
SumOf(s) == LET T[i \in 0 .. Len(s)] == IF i = 0 THEN 0 ELSE T[i - 1] + s[i] IN T[Len(s)]
MetadataBytes(entries) == SumOf([i \in DOMAIN entries |-> Size[entries[i].path]])
(* One byte for the length of the sequence. *)
Prefix == 1
EncodedLen(entries) == 1 + MetadataBytes(entries) + Overhead * Len(entries)

WireInit ==
  /\ manifest \in Manifests
  /\ remaining = manifest
  /\ link = <<>> /\ got = <<>> /\ faults = 0 /\ phase = "sending"

(* DirectorySnapshotParts::next: as many entries as fit. *)
LengthByte == Prefix
Reserved == LengthByte
Fitting(s) == {n \in 1 .. Len(s) : n <= PartEntries /\ EncodedLen(SubSeq(s, 1, n)) - Prefix + Reserved <= PartBytes}
SendPart ==
  /\ phase = "sending" /\ remaining # <<>>
  /\ IF Fitting(remaining) = {} THEN remaining' = <<>> /\ phase' = "refused" /\ UNCHANGED link
     ELSE LET n == CHOOSE n \in Fitting(remaining) : \A m \in Fitting(remaining) : m <= n
          IN /\ link' = Append(link, SubSeq(remaining, 1, n))
             /\ remaining' = SubSeq(remaining, n + 1, Len(remaining))
             /\ UNCHANGED phase
  /\ UNCHANGED <<manifest, got, faults>>

Faulty == faults < MaxFaults /\ phase = "sending" /\ faults' = faults + 1 /\ UNCHANGED <<manifest, got, phase>>
LosePart == Faulty /\ \E i \in DOMAIN link : link' = RemoveAt(link, i) /\ UNCHANGED remaining
RepeatPart == Faulty /\ \E i \in DOMAIN link : link' = InsertAt(link, i, link[i]) /\ UNCHANGED remaining
SwapParts == Faulty /\ Len(link) > 1 /\ link' = Reverse(link) /\ UNCHANGED remaining
(* The rest of the parts comes from a later state of the directory. *)
Changes == Faulty /\ remaining # <<>> /\ remaining' \in (Manifests \ {remaining}) /\ UNCHANGED link

(* validate_part and push_part *)
Ordered(entries) == \A i \in 1 .. Len(entries) - 1 : entries[i].path < entries[i + 1].path
ValidPart(part) == part # <<>> /\ Len(part) <= PartEntries /\ EncodedLen(part) <= PartBytes
Sequel(part) == Ordered(got \o part)
Acceptable(part) ==
  /\ ValidPart(part) /\ Sequel(part)
  /\ Len(got) + Len(part) <= Len(manifest)
  /\ MetadataBytes(got) + MetadataBytes(part) <= MetadataBytes(manifest)
push_part ==
  /\ phase = "sending" /\ link # <<>>
  /\ link' = Tail(link)
  /\ IF Acceptable(Head(link)) THEN got' = got \o Head(link) /\ UNCHANGED phase
     ELSE phase' = "failed" /\ UNCHANGED got
  /\ UNCHANGED <<manifest, remaining, faults>>

(* finish: complete, and the root of what was announced *)
Complete == Len(got) = Len(manifest) /\ MetadataBytes(got) = MetadataBytes(manifest)
Verified == Complete /\ got = manifest
Accepts == Verified
finish ==
  /\ phase = "sending" /\ remaining = <<>> /\ link = <<>>
  /\ phase' = IF Accepts THEN "assembled" ELSE "failed"
  /\ UNCHANGED <<manifest, remaining, link, got, faults>>

WireNext == SendPart \/ LosePart \/ RepeatPart \/ SwapParts \/ Changes \/ push_part \/ finish
WireSpec == WireInit /\ [][WireNext]_wireVars

-----------------------------------------------------------------------------
(* Type invariant. *)
WireTypeOK == Len(got) <= Len(manifest) /\ phase \in {"sending", "refused", "failed", "assembled"}

(* wire.rs 60-62: what is assembled is the announced manifest, whatever      *)
(* happened to the parts.                                                    *)
AssembledIsSent == phase = "assembled" => got = manifest

(* Without faults every manifest arrives, unless one entry alone exceeds a   *)
(* part: the sender never makes a part that the receiver refuses, at the     *)
(* byte bound included.                                                      *)
CleanArrives ==
  faults = 0 => /\ phase # "failed"
                /\ phase = "refused" => \E i \in DOMAIN manifest : EncodedLen(<<manifest[i]>>) > PartBytes
=============================================================================
