---------------------------- MODULE MCProgress ----------------------------
(***************************************************************************)
(* What keeps going.  "announce": two address sets, and a lifetime of      *)
(* three ticks, so that a record is renewed after each tick.  "feed": two  *)
(* revocation feeds and a snapshot that expires during the run.  "agent":  *)
(* one connection whose three streams compete for its lanes.  "waiters":   *)
(* two requests for one peer.  "service": the directory's task group with  *)
(* one place.  "call": a push with one fault.  "keys": a gesture and a     *)
(* lost focus, with one fault.  "tcp": a forwarded connection.  "tunnel"   *)
(* and "mux": a relay's loss, and two transports polled as one socket.     *)
(* "latency": a route that stalls.  "records": two keys of the in-memory   *)
(* store, collected one by one.                                            *)
(***************************************************************************)
EXTENDS Publication, RevocationFeed

CONSTANTS f1, f2

VARIABLES
    workload, deploy, runner, permits, conn, stream, dials, entries, selected,
    server, waitersOpen, issued, workers, requested, spurious,
    serviceConn, serviceJob, maint, serviceSealed, stop, due,
    serviceRunner, closer, holder, handle, outcome, caller, at,
    result, wire, stopped, reader, queue, cause, callConn, offered, got,
    wanted, sent, arrived, callStored, early, callJob, abandoned, dest,
    guard, callFaults, srv, keysWire, eof, cur, waiting, lost, worker,
    owners, down, pointer, clicks, trouble, phys, focused, flags, held,
    aim, keysQueue, view, keysNet, sess, gestures, hop, cut, party, app,
    target, tcpFailed, table, lease, inbox, tunnel, bit, reported, older,
    ready, broken, live, backoff, cursor, receiver, listens, sender,
    errors, storeWall, storeContinuous, sets, recordsEntries,
    recordsObserved, recordsLive, recordsCursor, recordsAcked, link,
    route, news, standbys, usual, pick, wait, spent

\* Stands for the state of a machine of an instantiated module that takes no
\* step here.
Absent == 0

MCExpiry == <<1, 2>>

\* Of the competing streams only the first renews or asks for a desktop, and
\* transfers compete where there are lanes for two.
MCPolicies ==
    {[required |-> p[1], lanes |-> p[2], services |-> {}, dir |-> TRUE, bound |-> FALSE] :
        p \in {<<TRUE, 2>>, <<FALSE, 2>>, <<FALSE, 3>>}}
FewKinds ==
    \A s \in DOMAIN stream :
        stream[s].kind \in {"ping"} \cup
            (IF deploy.lanes = 3 THEN {"sync"}
             ELSE {"tcp"} \cup (IF s[2] = 1 THEN {"renew", "desktop"} ELSE {}))
MCEntries == {[kind |-> "record", revision |-> 1, issued |-> 0, expires |-> 1]}

Agent ==
    INSTANCE AgentService WITH
        Conns <- {"a"}, Streams <- {1, 2, 3}, MaxConns <- 1,
        Policies <- MCPolicies, MaxDials <- 1

Local ==
    INSTANCE LocalManager WITH
        Clients <- {"c", "d"}, Workers <- {1, 2}, Peers <- {"p"},
        Creds <- {0}, MaxSessions <- 1, MaxStreams <- 1,
        MaxTransfers <- 1, MaxRequests <- 2, open <- waitersOpen,
        lock <- Absent, name <- Absent, private <- Absent,
        listening <- Absent, sockServer <- Absent, starts <- Absent,
        reached <- Absent, Servers <- Absent, MaxStarts <- Absent

Service ==
    INSTANCE DirectoryService WITH
        MaxConns <- 1, MaxWorkers <- 1, Closers <- {1}, MaxPanics <- 0,
        conn <- serviceConn, job <- serviceJob,
        sealed <- serviceSealed, runner <- serviceRunner,
        call <- Absent, held <- Absent, spent <- Absent,
        stored <- Absent, trust <- Absent, trustLock <- Absent,
        acked <- Absent, named <- Absent, asked <- Absent,
        lapsed <- Absent, ApiSlots <- Absent, Requests <- Absent,
        ApiMaxWorkers <- Absent, MaxCalls <- Absent,
        MaxLapses <- Absent

Call ==
    INSTANCE Transfer WITH
        Parts <- 1, Chunks <- {1}, QueueSize <- 2, MaxFaults <- 1,
        conn <- callConn, stored <- callStored, job <- callJob,
        faults <- callFaults

Input ==
    INSTANCE ViewerInput WITH
        Keys <- {"k"}, Modifiers <- {}, Buttons <- {}, Positions <- {1},
        QueueCap <- 2, WireCap <- 1, MaxSessions <- 1,
        MaxWorkers <- 2, MaxTrouble <- 1, MaxGestures <- 2,
        wire <- keysWire, queue <- keysQueue, net <- keysNet

Managed ==
    INSTANCE ManagedStreams WITH
        HopCap <- 1, MaxChunks <- 1, failed <- tcpFailed, mode <- Absent,
        owner <- Absent, sub <- Absent, route <- Absent,
        stop <- Absent, remote <- Absent, channel <- Absent,
        video <- Absent, wire <- Absent, viewer <- Absent,
        got <- Absent, sent <- Absent, EventCapacity <- Absent,
        WireCap <- Absent, MaxEvents <- Absent, MaxFrames <- Absent

Tunnel ==
    INSTANCE RelayTunnel WITH
        TunnelPeers <- {"p"}, Synth <- [p |-> 1],
        Holders <- {1}, MaxPeers <- 1, Grace <- 1, QueueSize <- 1,
        N <- 2, MaxErrors <- 2

Store ==
    INSTANCE MemoryStore WITH
        Second <- 1, Endpoints <- {1, 2}, Entries <- MCEntries, Capacity <- 2,
        GcBatch <- 1, MaxStoreWall <- 2, MaxContinuous <- 2,
        MaxSets <- 1, entries <- recordsEntries,
        observed <- recordsObserved, live <- recordsLive,
        cursor <- recordsCursor, acked <- recordsAcked

Paths ==
    INSTANCE PathPolicy WITH
        Routes <- {"x", "y"}, StartRoute <- "x", Speed <- [x |-> 1, y |-> 5],
        StallAge <- 1, ProbeAge <- 2, ConfirmedFor <- 4,
        Interval <- 2, MaxFlips <- 1, MaxWork <- 1, path <- Absent,
        events <- Absent, lagged <- Absent, remote <- Absent,
        qnt <- Absent, qntLagged <- Absent, mask <- Absent,
        alive <- Absent, driver <- Absent, advert <- Absent,
        wired <- Absent, shown <- Absent, seen <- Absent,
        spentPath <- Absent, Direct <- Absent, RelaySlots <- Absent,
        Tickets <- Absent, First <- Absent, Rtt <- Absent,
        SwitchMin <- Absent, MaxPaths <- Absent, MaxPathId <- Absent,
        EventCap <- Absent, MaxOffers <- Absent, MaxFaults <- Absent

agentVars ==
    <<deploy, runner, permits, conn, stream, dials>>
waitersVars ==
    <<entries, selected, server, waitersOpen, issued, workers, requested,
      spurious>>
serviceVars ==
    <<serviceConn, serviceJob, maint, serviceSealed, stop, due, serviceRunner,
      closer, holder, handle, outcome>>
callVars ==
    <<caller, at, result, wire, stopped, reader, queue, cause, callConn,
      offered, got, wanted, sent, arrived, callStored, early, callJob,
      abandoned, dest, guard, callFaults>>
keysVars ==
    <<srv, keysWire, eof, cur, waiting, lost, worker, owners, down, pointer,
      clicks, trouble, phys, focused, flags, held, aim, keysQueue, view,
      keysNet, sess, gestures>>
tcpVars ==
    <<hop, cut, party, app, target, tcpFailed>>
tunnelVars ==
    <<table, lease, inbox, tunnel, bit, reported, older>>
muxVars ==
    <<ready, broken, live, backoff, cursor, receiver, listens, sender, errors>>
recordsVars ==
    <<storeWall, storeContinuous, sets, recordsEntries, recordsObserved,
      recordsLive, recordsCursor, recordsAcked>>
latencyVars ==
    <<link, route, news, standbys, usual, pick, wait, spent>>

MCInit ==
    /\ workload \in {"announce", "feed", "agent", "waiters", "service", "call", "keys", "tcp", "tunnel", "mux", "records", "latency"}
    /\ FeedInit
    /\ workload # "feed" => latest = 0
    /\ Agent!ServiceInit
    /\ workload # "agent" => deploy = (CHOOSE d \in MCPolicies : TRUE)
    /\ Local!ManagerInit
    /\ Service!DirInit
    /\ Call!Init
    /\ workload # "call" => caller = "holder"
    /\ Input!InputInit
    /\ Managed!TcpInit
    /\ Tunnel!TunnelInit
    /\ workload # "tunnel" => tunnel.available
    /\ Tunnel!MuxInit
    /\ Store!StoreInit
    /\ Paths!LatInit
    /\ PubInit
    /\ workload # "announce" => draft = (CHOOSE d \in Drafts : TRUE)

MCNext ==
    /\ UNCHANGED workload
    /\ \/ workload = "announce" /\ PubNext
           /\ UNCHANGED <<feedVars, agentVars, waitersVars, serviceVars, callVars, keysVars, tcpVars, tunnelVars, muxVars, recordsVars, latencyVars>>
       \/ workload = "feed" /\ FeedNext
           /\ UNCHANGED <<pubVars, agentVars, waitersVars, serviceVars, callVars, keysVars, tcpVars, tunnelVars, muxVars, recordsVars, latencyVars>>
       \/ workload = "agent" /\ Agent!ServiceNext /\ FewKinds'
           /\ UNCHANGED <<pubVars, feedVars, waitersVars, serviceVars, callVars, keysVars, tcpVars, tunnelVars, muxVars, recordsVars, latencyVars>>
       \/ workload = "waiters" /\ Local!ManagerNext
           /\ UNCHANGED <<pubVars, feedVars, agentVars, serviceVars, callVars, keysVars, tcpVars, tunnelVars, muxVars, recordsVars, latencyVars>>
       \/ workload = "service" /\ Service!DirNext
           /\ UNCHANGED <<pubVars, feedVars, agentVars, waitersVars, callVars, keysVars, tcpVars, tunnelVars, muxVars, recordsVars, latencyVars>>
       \/ workload = "call" /\ Call!Next
           /\ UNCHANGED <<pubVars, feedVars, agentVars, waitersVars, serviceVars, keysVars, tcpVars, tunnelVars, muxVars, recordsVars, latencyVars>>
       \/ workload = "keys" /\ Input!InputNext
           /\ UNCHANGED <<pubVars, feedVars, agentVars, waitersVars, serviceVars, callVars, tcpVars, tunnelVars, muxVars, recordsVars, latencyVars>>
       \/ workload = "tcp" /\ Managed!TcpNext
           /\ UNCHANGED <<pubVars, feedVars, agentVars, waitersVars, serviceVars, callVars, keysVars, tunnelVars, muxVars, recordsVars, latencyVars>>
       \/ workload = "tunnel" /\ Tunnel!TunnelNext
           /\ UNCHANGED <<pubVars, feedVars, agentVars, waitersVars, serviceVars, callVars, keysVars, tcpVars, muxVars, recordsVars, latencyVars>>
       \/ workload = "mux" /\ Tunnel!MuxNext
           /\ UNCHANGED <<pubVars, feedVars, agentVars, waitersVars, serviceVars, callVars, keysVars, tcpVars, tunnelVars, recordsVars, latencyVars>>
       \/ workload = "records" /\ Store!StoreNext
           /\ UNCHANGED <<pubVars, feedVars, agentVars, waitersVars, serviceVars, callVars, keysVars, tcpVars, tunnelVars, muxVars, latencyVars>>
       \/ workload = "latency" /\ Paths!LatNext
           /\ UNCHANGED <<pubVars, feedVars, agentVars, waitersVars, serviceVars, callVars, keysVars, tcpVars, tunnelVars, muxVars, recordsVars>>

MCSpec ==
    /\ MCInit
    /\ [][MCNext]_<<workload, pubVars, feedVars, agentVars, waitersVars, serviceVars, callVars, keysVars, tcpVars, tunnelVars, muxVars, recordsVars, latencyVars>>
    /\ WF_pubVars(workload = "announce" /\ \E o \in Outcomes : o.result = "ok" /\ Start(o))
    /\ WF_pubVars(workload = "announce" /\ \E o \in Outcomes : o.result = "ok" /\ (Recover(o) \/ Issue(o)))
    /\ WF_pubVars(workload = "announce" /\ Refuse)
    /\ WF_pubVars(workload = "announce" /\ Send)
    /\ WF_pubVars(workload = "announce" /\ \E r \in net : r.awaited /\ Process(r))
    /\ WF_pubVars(workload = "announce" /\ phase = "stopped" /\ Die)
    /\ WF_pubVars(workload = "announce" /\ Advance)
    /\ \A f \in {f1, f2} :
          /\ WF_feedVars(workload = "feed" /\ (Claim(f) \/ Load(f) \/ RunJob(f) \/ Finish(f)))
          /\ SF_feedVars(workload = "feed" /\ latest # 0 /\ Fetch(f, latest))
    /\ WF_agentVars(workload = "agent" /\ Agent!Run) /\ WF_agentVars(workload = "agent" /\ Agent!RunReturns)
    /\ WF_agentVars(workload = "agent" /\ Agent!Loop("a"))
    /\ \A s \in {1, 2, 3} :
          /\ WF_agentVars(workload = "agent" /\ Agent!Task(<<"a", s>>))
          /\ WF_agentVars(workload = "agent" /\ Agent!AcceptStream("a", s))
    /\ WF_tcpVars(workload = "tcp" /\ Managed!WatchCaller) /\ WF_tcpVars(workload = "tcp" /\ Managed!TargetReads)
    /\ \A p \in {"pump", "manager", "agent"} : WF_tcpVars(workload = "tcp" /\ Managed!Moves(p))
    /\ WF_tunnelVars(workload = "tunnel" /\ Tunnel!DatagramsEnd)
    /\ WF_tunnelVars(workload = "tunnel" /\ Tunnel!WatchDead)
    /\ WF_tunnelVars(workload = "tunnel" /\ Tunnel!WatchDrain)
    /\ WF_muxVars(workload = "mux" /\ Tunnel!PollRecv) /\ WF_muxVars(workload = "mux" /\ Tunnel!PollSend)
    /\ WF_muxVars(workload = "mux" /\ Tunnel!SendTimer) /\ WF_muxVars(workload = "mux" /\ Tunnel!Writable)
    /\ \A c \in {0, 1} : WF_muxVars(workload = "mux" /\ Tunnel!RetryFires(c))
    /\ WF_latencyVars(workload = "latency" /\ Paths!Elapse) /\ WF_latencyVars(workload = "latency" /\ Paths!Turn)
    /\ \A a \in {"x", "y"} :
          WF_latencyVars(workload = "latency" /\ Paths!Answer(a)) /\ WF_latencyVars(workload = "latency" /\ Paths!Validated(a))
    /\ WF_recordsVars(workload = "records" /\ Store!Collect) /\ WF_recordsVars(workload = "records" /\ Store!StoreTick)
    /\ WF_waitersVars(workload = "waiters" /\ Local!Shutdown)
    /\ \A w \in {1, 2} : WF_waitersVars(workload = "waiters" /\ Local!Progress(w))
    /\ WF_serviceVars(workload = "service" /\ Service!RunnerStep) /\ WF_serviceVars(workload = "service" /\ Service!TickElapses)
    /\ \A s \in Service!Slots : WF_serviceVars(workload = "service" /\ Service!ConnEnds(s))
    /\ \A w \in Service!Workers : WF_serviceVars(workload = "service" /\ Service!JobStarts(w))
    /\ WF_serviceVars(workload = "service" /\ Service!MaintStarts) /\ WF_serviceVars(workload = "service" /\ Service!MaintEnds)
    /\ WF_serviceVars(workload = "service" /\ Service!CloserStep(1))
    /\ WF_callVars(workload = "call" /\ Call!HolderStep) /\ WF_callVars(workload = "call" /\ Call!ReceiverStep)
    /\ WF_callVars(workload = "call" /\ Call!DiskStep)
    /\ \A x \in Call!Sides : WF_callVars(workload = "call" /\ Call!ReaderStep(x))
    /\ WF_keysVars(workload = "keys" /\ Input!Machine)

\* The loops never work without their ground: the directory holds no revision its
\* issuer has not committed, an outage never ends the announce loop, and no stream
\* outlives its connection (announce, serve_connection).
LoopsAreSound ==
    /\ workload = "announce" => OutagesNeverFatal /\ DirectoryBehindIssuer
    /\ workload = "agent" => Agent!NoOrphanStream

\* What was started comes to its end: a feed that keeps the value converges to the
\* newest snapshot, unless that expires first; once faults end, the directory holds
\* the current addresses; both ends of a transfer end without a deadline, and no
\* key stays down after the viewer lost the focus (watch_revocations, announce
\* loop, serve_with_guard, Focused(false) of the viewer).
Settles ==
    /\ Converges
    /\ <>[](workload = "announce" => Published)
    /\ <>[](workload = "call" => Call!BothEnded)
    /\ Input!NoKeyStuck

\* Nobody waits for ever, neither for what is gone nor beside a busier one: a
\* request behind another one's dial and the manager of a caller that left notice,
\* and the watcher of a relay's link while its endpoint is not shut down; a control
\* stream finds a lane unless the peer leaves answers unread, each transport of a
\* socket is heard, a blocked sender goes on, stalled work moves to an established
\* route that answers, the collection of expired records gets its turn beside new
\* connections, and it comes to every key (Pending::wait, serve of local/tcp.rs,
\* pump, serve_stream, poll_recv, Polled, reselect, run of the directory service,
\* collect_at).
EveryWaitEnds ==
    /\ Local!WaitersFollow
    /\ Managed!CallerLossIsSeen
    /\ Tunnel!LossIsNoticed
    /\ Agent!ControlLane
    /\ Tunnel!EveryChildHeard /\ Tunnel!SendersResume
    /\ Paths!StalledWorkMoves
    /\ []<>(workload = "service" => Service!Collecting) /\ Store!ExpiredIsCollected
=============================================================================
