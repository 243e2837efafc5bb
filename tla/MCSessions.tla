---------------------------- MODULE MCSessions ----------------------------
(***************************************************************************)
(* The client's side of sessions.  "manager": two local processes, three   *)
(* workers and two sessions to one peer, with and without a grant.         *)
(* "socket": two processes that start a manager under one name.  "relayed":*)
(* a desktop that the manager relays, with more events than its queue      *)
(* holds.  "tcp": a forwarded connection, hop by hop.  "workspace": a      *)
(* window of at most two tabs whose computer is renamed.                   *)
(***************************************************************************)
EXTENDS Naturals

VARIABLES
    workload, entries, selected, server, open, issued, workers, requested,
    spurious, lock, name, private, listening, socketServer, starts,
    reached, mode, owner, sub, route, stop, remote, channel, video, wire,
    viewer, got, sent, hop, cut, party, app, target, failed, ui, tasks,
    actor, sessions, binding, workspaceName, workspaceTarget, met,
    lookups, renames, mishaps, exited

Local ==
    INSTANCE LocalManager WITH
        Clients <- {"c", "d"}, Workers <- {1, 2, 3}, Peers <- {"p"},
        Creds <- {0, 1}, MaxSessions <- 2, MaxStreams <- 1,
        MaxTransfers <- 1, MaxRequests <- 3, Servers <- {"s", "t"},
        MaxStarts <- 4, sockServer <- socketServer

Managed ==
    INSTANCE ManagedStreams WITH
        EventCapacity <- 2, WireCap <- 1, MaxEvents <- 4, MaxFrames <- 2,
        HopCap <- 1, MaxChunks <- 2

Space ==
    INSTANCE Workspace WITH
        Displays <- {"l", "r"}, Peers <- {"X", "Y"}, First <- "X",
        MaxTabs <- 2, QueueCap <- 1, MaxOpens <- 2, MaxRestarts <- 1,
        MaxAsks <- 1, MaxRenames <- 1, MaxMishaps <- 1,
        name <- workspaceName, target <- workspaceTarget

managerVars ==
    <<entries, selected, server, open, issued, workers, requested, spurious>>
socketVars ==
    <<lock, name, private, listening, socketServer, starts, reached>>
relayedVars ==
    <<mode, owner, sub, route, stop, remote, channel, video, wire, viewer,
      got, sent>>
tcpVars ==
    <<hop, cut, party, app, target, failed>>
workspaceVars ==
    <<ui, tasks, actor, sessions, binding, workspaceName, workspaceTarget,
      met, lookups, renames, mishaps, exited>>

MCInit ==
    /\ workload \in {"manager", "socket", "relayed", "tcp", "workspace"}
    /\ Local!ManagerInit
    /\ Local!SocketInit
    /\ Managed!DeskInit
    /\ workload # "relayed" => mode = "separated"
    /\ Managed!TcpInit
    /\ Space!WsInit
    /\ workload # "workspace" => ui.spaces

MCNext ==
    /\ UNCHANGED workload
    /\ \/ workload = "manager" /\ Local!ManagerNext
           /\ UNCHANGED <<socketVars, relayedVars, tcpVars, workspaceVars>>
       \/ workload = "socket" /\ Local!SocketNext
           /\ UNCHANGED <<managerVars, relayedVars, tcpVars, workspaceVars>>
       \/ workload = "relayed" /\ Managed!DeskNext
           /\ UNCHANGED <<managerVars, socketVars, tcpVars, workspaceVars>>
       \/ workload = "tcp" /\ Managed!TcpNext
           /\ UNCHANGED <<managerVars, socketVars, relayedVars, workspaceVars>>
       \/ workload = "workspace" /\ Space!WsNext /\ (mishaps' = 0 \/ (renames' = 0 /\ ui'.asks = 0))
           /\ UNCHANGED <<managerVars, socketVars, relayedVars, tcpVars>>

MCSpec ==
    /\ MCInit
    /\ [][MCNext]_<<workload, managerVars, socketVars, relayedVars, tcpVars, workspaceVars>>

\* Sessions have one owner: no connection is left without a session or a dialing
\* worker, one peer has one session, a client never finds its own session busy,
\* and a manager that serves is the one its socket's name leads to (Reservation,
\* Entry, reserve, exchange; SocketOwner).
SessionsOwned ==
    /\ workload = "manager" =>
          /\ Local!NoOrphanConnection
          /\ Local!OneSessionPerPeer
          /\ Local!OwnSessionNeverBusy
    /\ workload = "socket" => Local!ServingIsNamed

\* No silent gap on the way: the agent shuts an upload down only after every byte
\* of it (a reset upload ends at the service as if it were complete,
\* TargetEndIsComplete), a caller that reads a clean end has every byte the agent
\* sent, and what a viewer has read of a relayed desktop's events is a prefix
\* without a gap (RequestStreams::drop, poll_read, serve_separated_io).
StreamsComplete ==
    /\ workload = "tcp" => Managed!UploadFinIsComplete /\ Managed!DownloadEofIsComplete
    /\ workload = "relayed" => Managed!EventsComplete

\* What a window shows is what runs: each tab has one view and, once the queue
\* is worked through, one task of its current revision, all of one device
\* (workspace_open, workspace_restart, SessionTask::finish, PeerBinding).
TabsConsistent ==
    workload = "workspace" =>
        /\ Space!ViewsMatchTabs
        /\ Space!NoDeadTab
        /\ Space!OneStreamPerTab
        /\ Space!OneIdentity
=============================================================================
