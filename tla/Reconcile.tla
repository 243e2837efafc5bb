------------------------------ MODULE Reconcile -------------------------------
(***************************************************************************)
(* Directory manifests (rds-sync, directory.rs): a canonical snapshot of a *)
(* directory tree and the difference of two snapshots.                     *)
(*                                                                         *)
(* A manifest is a function from the paths it lists to their identities:   *)
(* the code keeps the entries sorted by path without duplicates, which is  *)
(* what a function says, and its root digest is equal exactly when the     *)
(* entries are, so equality of functions stands for equality of roots.     *)
(* Count, byte and depth budgets refuse an input as a whole and are left   *)
(* out.                                                                    *)
(***************************************************************************)
EXTENDS Naturals, Sequences, SequencesExt, FiniteSets

CONSTANTS
  PathOrder,  \* the paths in byte order, without repetition
  Parent,     \* the prefix of a path before its last "/", NoParent at the top
  NoParent,
  Contents    \* contents of regular files

Paths == ToSet(PathOrder)

ASSUME TreeAssumption ==
  /\ IsInjective(PathOrder)
  /\ Parent \in [Paths -> Paths \union {NoParent}]
  /\ NoParent \notin Paths
  /\ "directory" \notin Contents

\* EntryIdentity: a regular file or symlink is its content, every directory
\* has the same identity.
Directory == "directory"
Identities == Contents \union {Directory}

\* Position of a path in byte order.
Index(p) == CHOOSE i \in 1..Len(PathOrder) : PathOrder[i] = p

InOrder(S) == SelectSeq(PathOrder, LAMBDA p : p \in S)

Ancestors[p \in Paths] ==
  IF Parent[p] = NoParent THEN {} ELSE {Parent[p]} \union Ancestors[Parent[p]]

Depth(p) == Cardinality(Ancestors[p]) + 1

IsDirectory(tree, p) == p \in DOMAIN tree /\ tree[p] = Directory

\* validate_hierarchy: the parent of every entry is listed, as a directory.
ValidateHierarchy(tree) ==
  \A p \in DOMAIN tree : Parent[p] # NoParent => IsDirectory(tree, Parent[p])

Manifests ==
  {tree \in UNION {[S -> Identities] : S \in SUBSET Paths} : ValidateHierarchy(tree)}

\* The value of a path in a map, with a marker for None.
Absent == "absent"
Get(tree, p) == IF p \in DOMAIN tree THEN tree[p] ELSE Absent

----------------------------------------------------------------------------
(* diff, with self = left and other = right *)

Added(left, right) == DOMAIN right \ DOMAIN left
Removed(left, right) == DOMAIN left \ DOMAIN right
Modified(left, right) ==
  {p \in DOMAIN left \intersect DOMAIN right : left[p] # right[p]}

\* rename_candidates: the added entries, in path order, each take the last
\* removed entry of their identity that is left. Directories never pair.
Renamed(left, right) ==
  UNION {
    LET to == InOrder({p \in Added(left, right) : right[p] = i})
        from == InOrder({p \in Removed(left, right) : left[p] = i})
    IN {[from |-> from[Len(from) + 1 - k], to |-> to[k]] :
          k \in {k \in DOMAIN to : k <= Len(from)}} : i \in Contents}

-----------------------------------------------------------------------------
(***************************************************************************)
(* One-way reconcile planning (rds-sync, directory/reconcile.rs).          *)
(*                                                                         *)
(* A plan is derived from a source and a destination snapshot; its         *)
(* operations are then applied, one at a time and in order, to the current *)
(* destination, which may have changed since. The code applies them to a   *)
(* map (project_destination); each operation is a step here, because the   *)
(* order is meant for a tree: parents are created before their children    *)
(* and removals run children first.                                        *)
(***************************************************************************)

CONSTANT
  Bases  \* the manifests compared with as a common base

ASSUME BasesAssumption == Bases \subseteq Manifests

VARIABLES
  source, destination,  \* the two snapshots
  policy,               \* delete_policy of the plan
  plan,                 \* its operations in canonical order
  entries,              \* the map project_destination works on
  next,                 \* the operation to apply
  phase                 \* "planning" "planned" "applying" "done", or why not

vars == <<source, destination, policy, plan, entries, next, phase>>

Put(p, i) == [op |-> "put", path |-> p, from |-> p, before |-> Absent, after |-> i]
Replace(p, i, j) == [op |-> "replace", path |-> p, from |-> p, before |-> i, after |-> j]
Move(f, t, i) == [op |-> "move", path |-> t, from |-> f, before |-> i, after |-> i]
Delete(p, i) == [op |-> "delete", path |-> p, from |-> p, before |-> i, after |-> Absent]

\* ReconcileOperation::validate: directories are neither replaced nor moved.
Validate(o) ==
  CASE o.op = "replace" -> o.before # o.after /\ Directory \notin {o.before, o.after}
    [] o.op = "move" -> o.before # Directory /\ o.from # o.path /\ o.before = o.after
    [] OTHER -> TRUE

\* The rank of operation_sort_key: directories, moves, other additions,
\* replacements, removals of files, removals of directories.
Rank(o) ==
  CASE o.op = "put" /\ o.after = Directory -> 0
    [] o.op = "move" -> 1
    [] o.op = "put" -> 2
    [] o.op = "replace" -> 3
    [] o.op = "delete" /\ o.before # Directory -> 4
    [] OTHER -> 5

DeleteDepth(o) == IF Rank(o) >= 4 THEN Depth(o.path) ELSE 0

\* Mutant: the key does not contain the depth of a removal.
SortsBeforeByRankAndPath(a, b) ==
  \/ Rank(a) < Rank(b)
  \/ Rank(a) = Rank(b) /\ Index(a.path) < Index(b.path)
\* operation_sort_key compared: rank, deepest removal first, path bytes.
SortsBefore(a, b) ==
  \/ Rank(a) < Rank(b)
  \/ Rank(a) = Rank(b) /\ DeleteDepth(a) > DeleteDepth(b)
  \/ Rank(a) = Rank(b) /\ DeleteDepth(a) = DeleteDepth(b) /\ Index(a.path) < Index(b.path)

\* The operations one_way emits from the difference of the two snapshots.
Operations(src, dst, keep) ==
  LET renamed == Renamed(dst, src)
      added == Added(dst, src) \ {r.to : r \in renamed}
      removed == Removed(dst, src) \ {r.from : r \in renamed}
  IN {IF keep THEN Put(r.to, src[r.to]) ELSE Move(r.from, r.to, src[r.to]) : r \in renamed}
       \union {Put(p, src[p]) : p \in added}
       \union {Replace(p, dst[p], src[p]) : p \in Modified(dst, src)}
       \union (IF keep THEN {} ELSE {Delete(p, dst[p]) : p \in removed})

\* verify, over the operations in order: each is valid, targets are distinct,
\* no move source is a target or is used twice, moves and removals only
\* under Delete, and the order is canonical.
Verify(ops, keep) ==
  LET moves == {i \in DOMAIN ops : ops[i].op = "move"}
  IN /\ \A i \in DOMAIN ops : Validate(ops[i])
     /\ \A i, j \in DOMAIN ops : i # j => ops[i].path # ops[j].path
     /\ \A i, j \in moves : i # j => ops[i].from # ops[j].from
     /\ \A i \in moves, j \in DOMAIN ops : ops[i].from # ops[j].path
     /\ keep => \A i \in DOMAIN ops : ops[i].op \notin {"move", "delete"}
     /\ \A i \in 1..(Len(ops) - 1) : ~ SortsBefore(ops[i + 1], ops[i])

\* canonicalize_and_verify sorts the operations.
Canonical(ops) == SetToSortSeq(ops, SortsBefore)

----------------------------------------------------------------------------
(* conflicts(): three-way comparison with a common base.                    *)

\* Paths below a directory of the base that one side kept and the other
\* removed or replaced, where the keeping side changed something.
Undercut(base, side, other) ==
  {d \in Paths :
     /\ IsDirectory(base, d) /\ IsDirectory(side, d) /\ ~IsDirectory(other, d)
     /\ \E p \in Paths : d \in Ancestors[p] /\ Get(base, p) # Get(side, p)}

Conflicts(base, local, remote) ==
  {p \in Paths : /\ Get(base, p) # Get(local, p)
                 /\ Get(base, p) # Get(remote, p)
                 /\ Get(local, p) # Get(remote, p)}
    \union Undercut(base, local, remote)
    \union Undercut(base, remote, local)

----------------------------------------------------------------------------

Init ==
  /\ source \in Manifests
  /\ destination \in Manifests
  /\ policy = "Delete"
  /\ plan = <<>>
  /\ entries = destination
  /\ next = 1
  /\ phase = "planning"

\* ReconcilePlan::one_way; expected_destination_revision is the destination
\* the plan is derived from.
OneWay(keep) ==
  /\ phase = "planning"
  /\ LET ops == Canonical(Operations(source, destination, keep))
     IN IF Verify(ops, keep)
          THEN plan' = ops /\ phase' = "planned"
          ELSE plan' = <<>> /\ phase' = "refused"
  /\ policy' = IF keep THEN "Keep" ELSE "Delete"
  /\ UNCHANGED <<source, destination, entries, next>>

\* The destination tree changes between planning and application.
DestinationChanges ==
  /\ phase = "planned"
  /\ entries = destination
  /\ \E p \in Paths, i \in Contents :
       entries' = [q \in DOMAIN destination \union {p} |->
                     IF q = p THEN i ELSE destination[q]]
  /\ ValidateHierarchy(entries')
  /\ UNCHANGED <<source, destination, policy, plan, next, phase>>

\* The start of project_destination: the revision precondition.
CheckRevision ==
  /\ phase = "planned"
  /\ phase' = IF entries = destination THEN "applying" ELSE "changed"
  /\ UNCHANGED <<source, destination, policy, plan, entries, next>>

\* The precondition of one operation: Put and Move need a free target,
\* Replace, Move and Delete the exact previous entry (require_previous).
Applicable(o) ==
  /\ o.op \in {"put", "move"} => o.path \notin DOMAIN entries
  /\ o.op # "put" => Get(entries, o.from) = o.before

\* The effect of one operation on the map.
Applied(o) ==
  LET left == IF o.op = "put" THEN DOMAIN entries ELSE DOMAIN entries \ {o.from}
  IN IF o.op = "delete"
       THEN [q \in left |-> entries[q]]
       ELSE [q \in left \union {o.path} |-> IF q = o.path THEN o.after ELSE entries[q]]

\* One round of the loop of project_destination.
Apply ==
  /\ phase = "applying"
  /\ next <= Len(plan)
  /\ IF Applicable(plan[next])
       THEN entries' = Applied(plan[next]) /\ next' = next + 1 /\ phase' = phase
       ELSE phase' = "failed" /\ UNCHANGED <<entries, next>>
  /\ UNCHANGED <<source, destination, policy, plan>>

\* The end of project_destination: the result must be a valid manifest.
Finish ==
  /\ phase = "applying"
  /\ next > Len(plan)
  /\ phase' = IF ValidateHierarchy(entries) THEN "done" ELSE "failed"
  /\ UNCHANGED <<source, destination, policy, plan, entries, next>>

Next ==
  \/ \E keep \in BOOLEAN : OneWay(keep)
  \/ DestinationChanges
  \/ CheckRevision
  \/ Apply
  \/ Finish

Spec == Init /\ [][Next]_vars

----------------------------------------------------------------------------
(* Properties *)

TypeOK ==
  /\ source \in Manifests /\ destination \in Manifests
  /\ policy \in {"Keep", "Delete"}
  /\ \A i \in DOMAIN plan : plan[i].op \in {"put", "replace", "move", "delete"}
  /\ next \in 1..(Len(plan) + 1)
  /\ phase \in {"planning", "planned", "refused", "applying", "changed", "done", "failed"}

(* The canonical order is an order a file system can follow: after every
   prefix of the operations the destination is still a tree, each entry below
   a listed directory, although no operation looks at parents or children
   (directory-sync.md: "Created parents precede new children and removals run
   children first"). *)
EveryPrefixIsATree == ValidateHierarchy(entries)

(* A plan that one_way returned is never stopped by a precondition of
   project_destination, and achieves what it is for. Under Delete the
   destination equals the source. Under Keep it has every source entry, and
   every entry only the destination had is still there, renames included. *)
Converged ==
  phase \in {"done", "failed"} =>
    /\ phase = "done"
    /\ policy = "Delete" => entries = source
    /\ policy = "Keep" =>
         /\ \A p \in DOMAIN source : Get(entries, p) = source[p]
         /\ \A p \in DOMAIN destination \ DOMAIN source :
              Get(entries, p) = destination[p]
         /\ DOMAIN entries = DOMAIN source \union DOMAIN destination

(* A plan touches nothing it does not have to: an entry equal on both sides
   keeps its value through every step, and an operation never removes a file
   whose content the destination then lacks although the source has it at a
   path of its own (a rename keeps the content at every moment). *)
NothingLostOnTheWay ==
  phase \in {"applying", "done"} =>
    /\ \A p \in DOMAIN source \intersect DOMAIN destination :
         source[p] = destination[p] => Get(entries, p) = source[p]
    /\ \A i \in Contents :
         (\E p \in Paths : Get(source, p) = i /\ Get(destination, p) = Absent)
           /\ (\E p \in Paths : Get(destination, p) = i /\ Get(source, p) = Absent)
         => \E p \in Paths : Get(entries, p) = i

(* Sides without a conflict can be merged path by path: taking from each side
   what it changed gives a tree that has everything either side changed and
   no entry without its directory, whatever the common base was. *)
ConflictFreeMerges ==
  phase = "planning" =>
    \A base \in Bases :
      Conflicts(base, source, destination) = {} =>
        LET change(p) == IF Get(source, p) # Get(base, p) THEN Get(source, p)
                         ELSE Get(destination, p)
        IN ValidateHierarchy([p \in {q \in Paths : change(q) # Absent} |-> change(p)])
=============================================================================
