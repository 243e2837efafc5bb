---------------------------- MODULE MCNetwork ----------------------------
(***************************************************************************)
(* The network.  "relay": a relay with two identities and a third          *)
(* connection that replaces one of them.  "paths": the path policy of one  *)
(* connection with a direct and a relayed way.  "latency": the same task's *)
(* choice between two standby routes.  "tunnel": three peers behind one    *)
(* relay, two of which share a synthetic address, in a table for one.      *)
(* "dial": a dialled and an accepted connection of an endpoint that        *)
(* closes.  "uni": the inboxes of a connection's unidirectional streams.   *)
(***************************************************************************)
EXTENDS Naturals

VARIABLES
    workload, table, recent, draining, phase, seen, loop, task, open, frame,
    notice, told, joiner, spent, owed, path, events, lagged, remote, qnt,
    qntLagged, mask, alive, driver, advert, wired, shown, pathsSeen,
    spentPath, link, route, news, standbys, usual, pick, wait, latencySpent, tunnelTable,
    lease, inbox, tunnel, bit, reported, older, attempt, call, winner,
    policy, leased, handles, endpoint, exhausted, conn, uniDriver, routes,
    uniInbox, facade, uniTask, lost

\* Stands for the state of a machine of an instantiated module that takes no
\* step here.
Absent == 0

\* A third connection arrives in a behaviour whose runner does not fail and in
\* which no frame is read once a drain was asked for.
Together ==
    \/ task[3] = "none" /\ (spent.frames = 0 \/ spent.failures = 0)
    \/ spent.failures = 0 /\ (spent.frames = 0 \/ joiner["drain"] = "idle")

Relay ==
    INSTANCE RelayServer WITH
        Ids <- {"a", "b"}, RelayConns <- {1, 2, 3}, IdOf <- <<"a", "b", "a">>,
        AllowList <- {"a", "b"}, MaxConnections <- 3, MaxRecent <- 2,
        MaxFrames <- 1, MaxFailures <- 1

Paths ==
    INSTANCE PathPolicy WITH
        Direct <- {"d"}, RelaySlots <- {"r"}, Tickets <- {"r", "d"},
        First <- "r", Rtt <- [d |-> 20, r |-> 10, s |-> 40],
        SwitchMin <- 5, MaxPaths <- 2, MaxPathId <- 2, EventCap <- 1,
        MaxOffers <- 1, MaxFaults <- 2, seen <- pathsSeen,
        Routes <- {"x", "y"}, StartRoute <- "x",
        Speed <- [x |-> 1, y |-> 5], StallAge <- 1, ProbeAge <- 2,
        ConfirmedFor <- 4, Interval <- 2, MaxFlips <- 2, MaxWork <- 2,
        spent <- latencySpent

Tunnel ==
    INSTANCE RelayTunnel WITH
        TunnelPeers <- {"p", "q", "r"}, Synth <- [p |-> 1, q |-> 1, r |-> 2],
        Holders <- {1, 2}, MaxPeers <- 1, Grace <- 1, QueueSize <- 1,
        table <- tunnelTable, ready <- Absent, broken <- Absent,
        live <- Absent, backoff <- Absent, cursor <- Absent,
        receiver <- Absent, listens <- Absent, sender <- Absent,
        errors <- Absent, N <- Absent, MaxErrors <- Absent

Noq ==
    INSTANCE NoqEndpoint WITH
        Dialled <- {"d"}, Accepted <- {"a"}, Candidates <- {1, 2},
        Kinds <- {"x"}, Inboxes <- {1, 2, 3}, Streams <- {1, 2},
        QueueDepth <- 1, MaxPending <- 1, driver <- uniDriver,
        inbox <- uniInbox, task <- uniTask

relayVars ==
    <<table, recent, draining, phase, seen, loop, task, open, frame, notice,
      told, joiner, spent, owed>>
pathsVars ==
    <<path, events, lagged, remote, qnt, qntLagged, mask, alive, driver,
      advert, wired, shown, pathsSeen, spentPath>>
latencyVars ==
    <<link, route, news, standbys, usual, pick, wait, latencySpent>>
tunnelVars ==
    <<tunnelTable, lease, inbox, tunnel, bit, reported, older>>
dialVars ==
    <<attempt, call, winner, policy, leased, handles, endpoint, exhausted>>
uniVars ==
    <<conn, uniDriver, routes, uniInbox, facade, uniTask, lost>>

MCInit ==
    /\ workload \in {"relay", "paths", "latency", "tunnel", "dial", "uni"}
    /\ Relay!RelayInit
    /\ Paths!PathInit
    /\ workload # "paths" => mask.drain = {}
    /\ Paths!LatInit
    /\ Tunnel!TunnelInit
    /\ workload # "tunnel" => tunnel.available
    /\ Noq!EpInit
    /\ Noq!UniInit

\* A tunnel ends in other ways than by the endpoint's own shutdown here.
MCNext ==
    /\ UNCHANGED workload
    /\ \/ workload = "relay" /\ Relay!RelayNext /\ Together'
           /\ UNCHANGED <<pathsVars, latencyVars, tunnelVars, dialVars, uniVars>>
       \/ workload = "paths" /\ Paths!PathNext
           /\ UNCHANGED <<relayVars, latencyVars, tunnelVars, dialVars, uniVars>>
       \/ workload = "latency" /\ Paths!LatNext
           /\ UNCHANGED <<relayVars, pathsVars, tunnelVars, dialVars, uniVars>>
       \/ workload = "tunnel" /\ Tunnel!TunnelNext /\ bit'.shut = "no"
           /\ UNCHANGED <<relayVars, pathsVars, latencyVars, dialVars, uniVars>>
       \/ workload = "dial" /\ Noq!EpNext
           /\ UNCHANGED <<relayVars, pathsVars, latencyVars, tunnelVars, uniVars>>
       \/ workload = "uni" /\ Noq!UniNext
           /\ UNCHANGED <<relayVars, pathsVars, latencyVars, tunnelVars, dialVars>>

MCSpec ==
    /\ MCInit
    /\ [][MCNext]_<<workload, relayVars, pathsVars, latencyVars, tunnelVars, dialVars, uniVars>>

\* Whoever is attached to a relay is reached and told: the newest connection of
\* an identity is the one that is served, sources hear that a destination left,
\* a drain reaches everybody, and the history names attached identities only
\* (attach, detach, remove_registration, broadcast).
AttachedIsTold ==
    workload = "relay" =>
        /\ Relay!NewestServed
        /\ Relay!GoneIsTold
        /\ Relay!DrainReachesAll
        /\ Relay!HistoryOwned

\* Nothing is left behind a close that returned: no connection or task of a
\* relay, no policy task or connection of an endpoint, no route task that could
\* still fill an inbox (Relay::close, Endpoint::close, Demux in uni.rs).
CloseIsFinal ==
    /\ workload = "relay" => Relay!ReturnedIsQuiet
    /\ workload = "dial" => Noq!CloseIsFinal
    /\ workload = "uni" => Noq!NoLateSender

\* What is in use is kept: the pins of a route are its leases, an open connection
\* keeps its routes leased, a dial keeps one winner, and a live inbox its route
\* (PeerTable, Endpoint::dial, Demux::claim).  Peers that were ever reported
\* gone are excepted: their routes may go while they are leased (LeaseStaysPinned).
InUseIsKept ==
    /\ workload = "tunnel" => Tunnel!PinsExact
    /\ workload = "dial" => Noq!LeasedWhileOpen /\ Noq!SoleWinner
    /\ workload = "uni" => Noq!LiveIsRouted

\* The driver serves the connection: a live path is hidden from it only by lost
\* events that the telemetry shows, and only with an identifier beyond the rescan
\* (LiveIsSelectable is the unrestricted claim of policy.rs), a draining relay is
\* used only when nothing else can serve, no path is opened into a relay that
\* retires, and none is closed for a sibling that has not worked since
\* (connection_driver_observed, reselect, Pending::retain, can_replace).
PathsServe ==
    /\ [](workload = "paths" => Paths!HiddenOnlyByLoss /\ Paths!DrainIsLastResort)
    /\ Paths!NoPathIntoRetiring
    /\ Paths!NeverStrands
=============================================================================
