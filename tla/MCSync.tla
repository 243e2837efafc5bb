---------------------------- MODULE MCSync ----------------------------
(***************************************************************************)
(* Synchronization.  "tree": trees of at most five paths, three levels     *)
(* deep; "d-x" sorts between a directory and its children.  "scan": a tree *)
(* that changes twice while it is scanned.  "wire": a listing of up to     *)
(* four paths in parts of two, and a fault on the way.  "journal": two     *)
(* versions of a file, the second with a repeated chunk; two receivers     *)
(* write one destination through roots that contain each other             *)
(* ("overlap"), or one receiver replaces versions of "f" beside "g", which *)
(* has journals of the older naming ("history").  "transfer": a manifest   *)
(* of two parts and two chunks, which fits with its offer a queue of three *)
(* frames as seven parts fit the queue of eight.                           *)
(***************************************************************************)
EXTENDS Reconcile, TLC

CONSTANTS Receivers, None

VARIABLES
    workload, exercise, requests, inode, changes, had, stack, entry, visited,
    found, counted, result, manifest, remaining, link, got, faults,
    wirePhase, parts, meta, dest, dparts, dmeta, ddest, assembly, locks,
    wanted, at, journal, have, staged, deferred, acked, journalFaults,
    caller, transferAt, transferResult, wire, stopped, reader, queue,
    cause, conn, offered, transferGot, transferWanted, sent, arrived,
    stored, early, job, abandoned, transferDest, guard, transferFaults

MCBases == {tree \in Manifests : DOMAIN tree \subseteq {"d", "d/a", "d/a/c"}}
MCPathOrder == <<"d", "d-x", "d/a", "d/a/c", "d/b">>
MCParent == "d" :> "" @@ "d-x" :> "" @@ "d/a" :> "d" @@ "d/a/c" :> "d/a" @@ "d/b" :> "d"

Dir(children) ==
    [kind |-> "dir", stamp |-> 0, linked |-> TRUE, blocks |-> <<>>, entries |-> children]
File == [kind |-> "file", stamp |-> 0, linked |-> TRUE, blocks |-> <<0, 0>>, entries |-> <<>>]
Link == [kind |-> "link", stamp |-> 0, linked |-> TRUE, blocks |-> <<>>, entries |-> <<>>]
Spare(inodeOf) == [inodeOf EXCEPT !.linked = FALSE]
MCTrees ==
    {<<Dir(<<>>)>>,
     <<Dir([a |-> 2, b |-> 3]), Dir([a |-> 4]), Dir(<<>>), File, Spare(Dir(<<>>))>>,
     <<Dir([a |-> 2] @@ ("STATE" :> 3)), Dir([a |-> 4, state |-> 5]), Dir(<<>>), Link,
       Dir([b |-> 6]), File>>}

MCManifest == "v1" :> <<"a", "b">> @@ "v2" :> <<"b", "b">>
Outer == {[state |-> "outer", rel |-> "sub/f", dest |-> "f", dstate |-> "sub", version |-> "v1"]}
Inner(rel, v) == [state |-> "sub", rel |-> rel, dest |-> rel, dstate |-> "sub", version |-> v]
MCOffers == Outer \cup {Inner("f", "v1"), Inner("f", "v2"), Inner("g", "v1")}

Exercised ==
    [overlap |-> [offers |-> {[r |-> "r1", o |-> o] : o \in Outer}
                               \cup {[r |-> "r2", o |-> Inner("f", "v2")]},
                  legacy |-> {}],
     history |-> [offers |-> {[r |-> "r1", o |-> Inner(rel, v)] :
                                rel \in {"f", "g"}, v \in {"v1", "v2"}},
                  legacy |-> {"f", "g"}]]

\* Two requests, among the offers of the exercise.
Within(w) ==
    /\ requests <= 2
    /\ requests = 0 =>
          /\ dest["g"] = <<>>
          /\ \A j \in DOMAIN meta : meta[j] # None =>
                j.state = "sub" /\ j.version = "v1" /\ meta[j] \in w.legacy
    /\ \A r \in Receivers : wanted[r] # None => [r |-> r, o |-> wanted[r]] \in w.offers

Scan ==
    INSTANCE DirectoryScan WITH
        Trees <- MCTrees, MaxEntries <- 4, MaxDepth <- 2, MaxChanges <- 2,
        Paths <- {1, 2, 3, 4}, Contents <- {"x", "y"},
        Size <- <<1, 2, 1, 3>>, Overhead <- 1, PartEntries <- 2,
        PartBytes <- 6, MaxFaults <- 1, phase <- wirePhase

Receiving ==
    INSTANCE Journal WITH
        Offers <- MCOffers, Manifest <- MCManifest, Old <- {<<>>, <<"b">>},
        MaxFaults <- 2, Legacy <- "legacy", Bare <- "bare",
        faults <- journalFaults

Call ==
    INSTANCE Transfer WITH
        Parts <- 2, Chunks <- {1, 2}, QueueSize <- 3, MaxFaults <- 3,
        at <- transferAt, result <- transferResult,
        got <- transferGot, wanted <- transferWanted,
        dest <- transferDest, faults <- transferFaults

scanVars ==
    <<inode, changes, had, stack, entry, visited, found, counted, result>>
wireVars ==
    <<manifest, remaining, link, got, faults, wirePhase>>
journalVars ==
    <<parts, meta, dest, dparts, dmeta, ddest, assembly, locks, wanted, at,
      journal, have, staged, deferred, acked, journalFaults>>
transferVars ==
    <<caller, transferAt, transferResult, wire, stopped, reader, queue, cause,
      conn, offered, transferGot, transferWanted, sent, arrived, stored,
      early, job, abandoned, transferDest, guard, transferFaults>>

MCInit ==
    /\ workload \in {"tree", "scan", "wire", "journal", "transfer"}
    /\ exercise \in IF workload = "journal" THEN DOMAIN Exercised ELSE {"all"}
    /\ requests = 0
    /\ Scan!ScanInit
    /\ workload # "scan" => inode = <<Dir(<<>>)>>
    /\ workload # "wire" => manifest = <<>>
    /\ Scan!WireInit
    /\ workload # "journal" => dest = [d \in Receiving!Dests |-> <<>>] /\ meta = [j \in Receiving!Journals |-> None]
    /\ Receiving!Init
    /\ workload = "journal" => Within(Exercised[exercise])
    /\ Call!Init
    /\ workload # "transfer" => caller = "holder"
    /\ workload # "tree" => source = <<>> /\ destination = <<>>
    /\ Init
    /\ \A tree \in {source, destination} : Cardinality(DOMAIN tree) <= 4

MCNext ==
    /\ UNCHANGED <<workload, exercise>>
    /\ \/ workload = "tree" /\ Next
           /\ UNCHANGED <<requests, scanVars, wireVars, journalVars, transferVars>>
       \/ workload = "scan" /\ Scan!ScanNext
           /\ UNCHANGED <<requests, vars, wireVars, journalVars, transferVars>>
       \/ workload = "wire" /\ Scan!WireNext
           /\ UNCHANGED <<requests, vars, scanVars, journalVars, transferVars>>
       \/ workload = "journal" /\ Receiving!Next
           /\ requests' = requests + Cardinality({r \in Receivers : wanted[r] = None /\ wanted'[r] # None})
           /\ Within(Exercised[exercise])'
           /\ UNCHANGED <<vars, scanVars, wireVars, transferVars>>
       \/ workload = "transfer" /\ Call!Next
           /\ UNCHANGED <<requests, vars, scanVars, wireVars, journalVars>>

MCSpec ==
    /\ MCInit
    /\ [][MCNext]_<<workload, exercise, requests, vars, scanVars, wireVars, journalVars, transferVars>>

\* Every state a directory passes through on the way to its source is a tree,
\* the last one is the source, content that the plan moves is somewhere until an
\* operation deletes or replaces it, and a merge without conflicts keeps what
\* both sides changed (ReconcilePlan::verify, project_destination, conflicts).
PlansAreSound ==
    workload = "tree" =>
        EveryPrefixIsATree /\ NothingLostOnTheWay /\ Converged /\ ConflictFreeMerges

\* A listing is true piece by piece, although other programs change the tree
\* meanwhile: a file's content is one it had as a whole, every directory's
\* children are those it had when it was checked last, no directory is listed
\* twice, the private state never, and an undisturbed scan lists exactly the tree.
\* What the peer assembles is the listing that was sent (scan_dir, scan_file,
\* scan_directory, DirectorySnapshotAssembler::finish).
ListingIsTrue ==
    /\ [](workload = "scan" =>
          Scan!FilesWhole /\ Scan!DirectoriesOnce /\ Scan!StateHidden /\ Scan!QuietScanExact)
    /\ Scan!DirectoriesExact
    /\ [](workload = "wire" => Scan!AssembledIsSent /\ Scan!CleanArrives)

\* Whatever crashes, a destination holds a whole version of its file, an
\* assembly that replaces it is on disk, and stored chunks belong to one
\* journal (Journal::assemble_cancellable, select_journal).
DestinationComplete ==
    workload = "journal" =>
        /\ Receiving!DestinationComplete
        /\ Receiving!AssembledIsDurable
        /\ Receiving!PartsAttributable

\* Both ends of a transfer tell what happened: success means that the
\* destination is installed, a run without faults of a manifest that fits the
\* queue succeeds, disk work that outlives its call is told to stop, and the
\* server's slot is free before the caller returns (push_chunks, receive,
\* DiskWorkCancellation, serve_with_guard).
SuccessIsInstalled ==
    workload = "transfer" =>
        /\ Call!SuccessIsInstalled
        /\ Call!FaultlessSucceeds
        /\ Call!LeftoverWorkIsTold
        /\ Call!SlotReleasedFirst
=============================================================================
