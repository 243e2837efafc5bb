--------------------------- MODULE ManagedStreams -----------------------------
(***************************************************************************)
(* A desktop that the local manager relays to a viewer process             *)
(* (rds-client/src/local/desktop.rs, desktop_events.rs).  The worker that  *)
(* owns the remote session ("owner") sends frames down the viewer's first  *)
(* socket.  Events (acknowledgements, heartbeat echoes) have a socket of   *)
(* their own, which the viewer attaches by a route; its worker is the      *)
(* subscriber.  In combined mode both share the first socket.              *)
(*                                                                         *)
(* Events are numbered by the remote session; frames are only counted.     *)
(***************************************************************************)
EXTENDS Naturals, Sequences, SequencesExt

CONSTANTS
    EventCapacity, \* EVENT_CAPACITY
    WireCap,       \* what a socket buffers
    MaxEvents,     \* bound: events of the remote session
    MaxFrames      \* bound: its frames

VARIABLES
    mode,     \* "separated" or "combined"
    owner,    \* "attach", "pump" or "ended"
    sub,      \* the subscriber: "none", "taken", "serving" or "ended"
    route,    \* the registry's entry: "pending", "claimed" or "gone"
    stop,     \* Registration.stop
    remote,   \* what the session still has: [events, frames, over]
    channel,  \* Registration.sender -> Subscription.events
    video,    \* the first socket: 0 is a frame, n > 0 event n
    wire,     \* the event socket
    viewer,   \* [video, events]: "open", "closed"; events also "none", "asking"
    got,      \* events the viewer has read
    sent      \* events the remote session has produced

deskVars == <<mode, owner, sub, route, stop, remote, channel, video, wire, viewer, got, sent>>
Live == owner # "ended"

DeskInit ==
    /\ mode \in {"separated", "combined"}
    /\ owner = IF mode = "separated" THEN "attach" ELSE "pump"
    /\ sub = "none" /\ stop = FALSE
    /\ route = IF mode = "separated" THEN "pending" ELSE "gone"
    /\ remote = [events |-> <<>>, frames |-> 0, made |-> 0, over |-> FALSE]
    /\ channel = <<>> /\ video = <<>> /\ wire = <<>> /\ got = <<>> /\ sent = 0
    /\ viewer = [video |-> "open", events |-> "none"]

(***************************************************************************)
(* The remote session                                                      *)
(***************************************************************************)
Produce ==
    /\ ~remote.over /\ Live
    /\ \/ /\ sent < MaxEvents /\ sent' = sent + 1
          /\ remote' = [remote EXCEPT !.events = Append(@, sent + 1)]
       \/ /\ remote.made < MaxFrames /\ UNCHANGED sent
          /\ remote' = [remote EXCEPT !.frames = @ + 1, !.made = @ + 1]
       \/ remote' = [remote EXCEPT !.over = TRUE] /\ UNCHANGED sent
    /\ UNCHANGED <<mode, owner, sub, route, stop, channel, video, wire, viewer, got>>

(***************************************************************************)
(* The owner                                                               *)
(***************************************************************************)
\* The drop of Registration and of the session.
OwnerEnds ==
    /\ owner' = "ended" /\ stop' = TRUE /\ route' = "gone"
    /\ UNCHANGED <<mode, sub, remote, channel, video, wire, viewer, got, sent>>

\* The viewer's end of the first socket, the subscriber's end, a late
\* attachment, or the end of the remote session and of its last frame.
OwnerStops ==
    /\ Live
    /\ \/ viewer.video = "closed"
       \/ stop
       \/ owner = "attach" /\ sub # "serving"
       \/ /\ owner = "pump" /\ remote.over
          /\ \/ mode = "separated" /\ (remote.events = <<>> \/ remote.frames = 0)
             \/ mode = "combined" /\ remote.events = <<>> /\ remote.frames = 0
    /\ OwnerEnds

OwnerAttached ==
    /\ owner = "attach" /\ sub = "serving" /\ ~stop
    /\ owner' = "pump"
    /\ UNCHANGED <<mode, sub, route, stop, remote, channel, video, wire, viewer, got, sent>>

\* try_send: a full or abandoned queue ends the desktop.
RelayEvent ==
    /\ owner = "pump" /\ mode = "separated" /\ remote.events # <<>>
    /\ IF Len(channel) >= EventCapacity \/ sub = "ended" THEN OwnerEnds
       ELSE /\ remote' = [remote EXCEPT !.events = Tail(@)]
            /\ channel' = Append(channel, Head(remote.events))
            /\ UNCHANGED <<mode, owner, sub, route, stop, video, wire, viewer, got, sent>>

RelayFrame ==
    /\ owner = "pump" /\ remote.frames > 0 /\ Len(video) < WireCap
    /\ remote' = [remote EXCEPT !.frames = @ - 1]
    /\ video' = Append(video, 0)
    /\ UNCHANGED <<mode, owner, sub, route, stop, channel, wire, viewer, got, sent>>

RelayCombined ==
    /\ owner = "pump" /\ mode = "combined" /\ remote.events # <<>> /\ Len(video) < WireCap
    /\ remote' = [remote EXCEPT !.events = Tail(@)]
    /\ video' = Append(video, Head(remote.events))
    /\ UNCHANGED <<mode, owner, sub, route, stop, channel, wire, viewer, got, sent>>

(***************************************************************************)
(* The subscriber                                                          *)
(***************************************************************************)
\* Registry::take: one claim for each route.
TakeRoute ==
    /\ viewer.events = "asking"
    /\ IF route = "pending"
       THEN /\ route' = "claimed" /\ sub' = "taken"
            /\ viewer' = [viewer EXCEPT !.events = "open"]
       ELSE viewer' = [video |-> "closed", events |-> "closed"] /\ UNCHANGED <<route, sub>>
    /\ UNCHANGED <<mode, owner, stop, remote, channel, video, wire, got, sent>>

\* Subscription's drop cancels its desktop.
SubEnds ==
    /\ sub' = "ended" /\ stop' = TRUE
    /\ UNCHANGED <<mode, owner, route, remote, channel, video, wire, viewer, got, sent>>

\* The reply is written, and then the owner hears of it, if there still is one.
SubReady ==
    /\ sub = "taken"
    /\ \/ SubEnds
       \/ /\ Live /\ sub' = "serving"
          /\ UNCHANGED <<mode, owner, route, stop, remote, channel, video, wire, viewer, got, sent>>

\* stop, the viewer's end, the end of the queue, or a write that is blocked.
SubStops ==
    /\ sub = "serving"
    /\ \/ stop \/ viewer.events = "closed"
       \/ channel # <<>> /\ Len(wire) >= WireCap
    /\ SubEnds

WriteEvent ==
    /\ sub = "serving" /\ ~stop /\ channel # <<>> /\ Len(wire) < WireCap
    /\ wire' = Append(wire, Head(channel)) /\ channel' = Tail(channel)
    /\ UNCHANGED <<mode, owner, sub, route, stop, remote, video, viewer, got, sent>>

(***************************************************************************)
(* The viewer: Client::desktop_separated_mode and ManagedDesktop           *)
(***************************************************************************)
AskEvents ==
    /\ mode = "separated" /\ viewer.events = "none" /\ viewer.video = "open"
    /\ viewer' = [viewer EXCEPT !.events = "asking"]
    /\ UNCHANGED <<mode, owner, sub, route, stop, remote, channel, video, wire, got, sent>>

ReadEvent ==
    /\ wire # <<>> /\ viewer.events = "open"
    /\ wire' = Tail(wire) /\ got' = Append(got, Head(wire))
    /\ UNCHANGED <<mode, owner, sub, route, stop, remote, channel, video, viewer, sent>>

ReadVideo ==
    /\ video # <<>> /\ viewer.video = "open"
    /\ video' = Tail(video)
    /\ got' = IF Head(video) = 0 THEN got ELSE Append(got, Head(video))
    /\ UNCHANGED <<mode, owner, sub, route, stop, remote, channel, wire, viewer, sent>>

\* The viewer drops its desktop, or sees the end of a socket that it has read.
ViewerCloses ==
    /\ viewer.video = "open"
    /\ viewer' = [video |-> "closed", events |-> "closed"]
    /\ UNCHANGED <<mode, owner, sub, route, stop, remote, channel, video, wire, got, sent>>

Work == OwnerStops \/ OwnerAttached \/ RelayEvent \/ RelayCombined \/ TakeRoute \/ SubReady \/ SubStops \/ WriteEvent

DeskNext == Produce \/ Work \/ RelayFrame \/ AskEvents \/ ReadEvent \/ ReadVideo \/ ViewerCloses

\* The manager's tasks run; the viewer attaches and reads its events.  Nobody
\* has to read the video.
DeskFairness ==
    /\ WF_deskVars(Live /\ owner = "pump" /\ RelayEvent) /\ WF_deskVars(WriteEvent)
    /\ WF_deskVars(OwnerStops /\ (stop \/ viewer.video = "closed")) /\ WF_deskVars(OwnerAttached)
    /\ WF_deskVars(SubStops /\ stop) /\ WF_deskVars(SubReady) /\ WF_deskVars(TakeRoute)
    /\ WF_deskVars(AskEvents) /\ WF_deskVars(ReadEvent)
DeskSpec == DeskInit /\ [][DeskNext]_deskVars /\ DeskFairness

(***************************************************************************)
(* Properties                                                              *)
(***************************************************************************)
\* No acknowledgement is skipped: what the viewer has read is what the remote
\* session said first, in that order (serve_separated_io: a full queue ends the
\* desktop).
EventsComplete == got = [i \in 1..Len(got) |-> i]

-----------------------------------------------------------------------------
(***************************************************************************)
(* One TCP stream that the local manager forwards to a peer's network      *)
(* (rds-client/src/local/tcp.rs, request.rs; the TcpConnect service of     *)
(* rds-agent/src/lib.rs).  The bytes pass five parties:                    *)
(*                                                                         *)
(*   app -duplex- pump -ipc- manager -quic- agent -tcp- target             *)
(*                                                                         *)
(* A direction ends by a FIN of its own; on the local socket that is a     *)
(* Finish frame, so that the socket's end always means that the caller is  *)
(* lost.  Chunks are numbered in each direction, and 0 is the FIN.         *)
(***************************************************************************)

CONSTANTS
    HopCap,    \* chunks a hop buffers
    MaxChunks  \* bound: chunks each end writes

VARIABLES
    hop,       \* link -> [up, down]: the chunks under way
    cut,       \* <<link, direction>>: reset, stopped, or its socket closed
    party,     \* pump, manager, agent -> [run, up, down]; up/down: FIN passed
    app,       \* [run, wrote, shut, read, eof]
    target,    \* [run, wrote, shut, read, eof]
    failed     \* TcpStream.failed

tcpVars == <<hop, cut, party, app, target, failed>>

Links == {"duplex", "ipc", "quic", "tcp"}
Parties == {"pump", "manager", "agent"}
Left(p) == CASE p = "pump" -> "duplex" [] p = "manager" -> "ipc" [] p = "agent" -> "quic"
Right(p) == CASE p = "pump" -> "ipc" [] p = "manager" -> "quic" [] p = "agent" -> "tcp"
In(p, d) == IF d = "up" THEN Left(p) ELSE Right(p)
Out(p, d) == IF d = "up" THEN Right(p) ELSE Left(p)
Both(l) == {<<l, "up">>, <<l, "down">>}
Fin == 0
End == [run |-> TRUE, wrote |-> 0, shut |-> FALSE, read |-> 0, eof |-> "no"]

TcpInit ==
    /\ hop = [l \in Links |-> [up |-> <<>>, down |-> <<>>]]
    /\ cut = {} /\ failed = FALSE
    /\ party = [p \in Parties |-> [run |-> TRUE, up |-> FALSE, down |-> FALSE]]
    /\ app = End /\ target = End

(***************************************************************************)
(* The two ends                                                            *)
(***************************************************************************)
\* What the end e, as a record, does to the hop l in its direction d.
Writes(e, l, d) ==
    /\ e.run /\ ~e.shut /\ <<l, d>> \notin cut /\ Len(hop[l][d]) < HopCap
    /\ hop' = [hop EXCEPT ![l][d] = Append(@, IF e.wrote < MaxChunks THEN e.wrote + 1 ELSE Fin)]

AppWrites ==
    /\ \/ /\ app.wrote < MaxChunks /\ Writes(app, "duplex", "up")
          /\ app' = [app EXCEPT !.wrote = @ + 1]
       \/ /\ Writes([app EXCEPT !.wrote = MaxChunks], "duplex", "up")
          /\ app' = [app EXCEPT !.shut = TRUE]
    /\ UNCHANGED <<cut, party, target, failed>>

TargetWrites ==
    /\ \/ /\ target.wrote < MaxChunks /\ Writes(target, "tcp", "down")
          /\ target' = [target EXCEPT !.wrote = @ + 1]
       \/ /\ Writes([target EXCEPT !.wrote = MaxChunks], "tcp", "down")
          /\ target' = [target EXCEPT !.shut = TRUE]
    /\ UNCHANGED <<cut, party, app, failed>>

\* TcpStream::poll_read: an end after the pump's failure is an error.
AppReads ==
    LET q == hop["duplex"].down
        end == IF failed THEN "error" ELSE "clean"
    IN  /\ app.run /\ app.eof = "no"
        /\ \/ /\ q # <<>> /\ hop' = [hop EXCEPT !["duplex"].down = Tail(@)]
              /\ app' = IF Head(q) = Fin THEN [app EXCEPT !.eof = end] ELSE [app EXCEPT !.read = @ + 1]
           \/ /\ q = <<>> /\ <<"duplex", "down">> \in cut /\ app' = [app EXCEPT !.eof = end] /\ UNCHANGED hop
        /\ UNCHANGED <<cut, party, target, failed>>

TargetReads ==
    LET q == hop["tcp"].up
    IN  /\ target.run /\ target.eof = "no"
        /\ \/ /\ q # <<>> /\ hop' = [hop EXCEPT !["tcp"].up = Tail(@)]
              /\ target' = IF Head(q) = Fin THEN [target EXCEPT !.eof = "clean"] ELSE [target EXCEPT !.read = @ + 1]
           \/ /\ q = <<>> /\ <<"tcp", "up">> \in cut /\ target' = [target EXCEPT !.eof = "clean"] /\ UNCHANGED hop
        /\ UNCHANGED <<cut, party, app, failed>>

(***************************************************************************)
(* How a party's streams end                                               *)
(***************************************************************************)
Stopped(p) == party' = [party EXCEPT ![p].run = FALSE]

\* TcpStream is dropped: its pump is aborted, and both sockets end.
AppDrops ==
    /\ app.run /\ app' = [app EXCEPT !.run = FALSE]
    /\ Stopped("pump") /\ cut' = cut \cup Both("duplex") \cup Both("ipc")
    /\ UNCHANGED <<hop, target, failed>>

\* The pump ends, by itself: an error is noted before the sockets go.
PumpEnds(err) ==
    /\ Stopped("pump") /\ failed' = (failed \/ err)
    /\ cut' = cut \cup Both("duplex") \cup Both("ipc")
    /\ UNCHANGED <<hop, app, target>>

\* The manager's streams as a bug would leave them: dropping a send stream
\* finishes it.
ManagerFinishes(err) ==
    /\ Stopped("manager") /\ cut' = cut \cup Both("ipc")
    /\ hop' = [hop EXCEPT !["quic"].up = IF err THEN Append(@, Fin) ELSE @]
    /\ UNCHANGED <<app, target, failed>>

\* RequestStreams: reset and stop, unless both directions ended by a FIN.
ManagerEnds(err) ==
    /\ Stopped("manager")
    /\ cut' = cut \cup Both("ipc") \cup (IF err THEN Both("quic") ELSE {})
    /\ hop' = [hop EXCEPT !["quic"].up = IF err THEN <<>> ELSE @]
    /\ UNCHANGED <<app, target, failed>>

\* The agent drops its socket and its streams: a send stream that is dropped is
\* finished, a receive stream is stopped, and the target reads an end.
AgentEnds ==
    /\ Stopped("agent") /\ cut' = cut \cup {<<"quic", "up">>} \cup Both("tcp")
    /\ hop' = [hop EXCEPT !["quic"].down =
         IF party["agent"].down \/ <<"quic", "down">> \in cut THEN @ ELSE Append(@, Fin)]
    /\ UNCHANGED <<app, target, failed>>

Ends(p, err) ==
    CASE p = "pump" -> PumpEnds(err) [] p = "manager" -> ManagerEnds(err) [] p = "agent" -> AgentEnds

(***************************************************************************)
(* The copy loops: encode, decode and copy_bidirectional                   *)
(***************************************************************************)
Copy(p, d) ==
    LET q == hop[In(p, d)][d]
    IN  /\ party[p].run /\ ~party[p][d] /\ q # <<>>
        /\ Len(hop[Out(p, d)][d]) < HopCap /\ <<Out(p, d), d>> \notin cut
        /\ hop' = [hop EXCEPT ![In(p, d)][d] = Tail(@), ![Out(p, d)][d] = Append(@, Head(q))]
        /\ party' = [party EXCEPT ![p][d] = Head(q) = Fin]
        /\ UNCHANGED <<cut, app, target, failed>>

\* A stream that ends without its FIN, or that cannot be written any more.
Breaks(p) ==
    /\ party[p].run
    /\ \E d \in {"up", "down"} :
         /\ ~party[p][d]
         /\ \/ <<In(p, d), d>> \in cut /\ hop[In(p, d)][d] = <<>>
            \/ <<Out(p, d), d>> \in cut /\ hop[In(p, d)][d] # <<>>
    /\ Ends(p, TRUE)

Completes(p) == party[p].run /\ party[p].up /\ party[p].down /\ Ends(p, FALSE)

\* serve, after the upload's FIN: the socket's end is the caller's.
WatchCaller ==
    /\ party["manager"].run /\ party["manager"].up /\ ~party["manager"].down
    /\ <<"ipc", "up">> \in cut /\ hop["ipc"].up = <<>>
    /\ ManagerEnds(TRUE)

(***************************************************************************)
(* Faults: the worker is cancelled, the target's connection is reset       *)
(***************************************************************************)
ManagerCancelled == party["manager"].run /\ ManagerEnds(TRUE)
TargetResets ==
    /\ target.run /\ target' = [target EXCEPT !.run = FALSE]
    /\ cut' = cut \cup Both("tcp") /\ hop' = [hop EXCEPT !["tcp"] = [up |-> <<>>, down |-> <<>>]]
    /\ UNCHANGED <<party, app, failed>>

Moves(p) == (\E d \in {"up", "down"} : Copy(p, d)) \/ Breaks(p) \/ Completes(p)

TcpNext ==
    \/ AppWrites \/ AppReads \/ AppDrops \/ TargetWrites \/ TargetReads \/ TargetResets
    \/ \E p \in Parties : Moves(p)
    \/ WatchCaller \/ ManagerCancelled

\* The copying tasks run and the remote service reads what it is sent; neither
\* end is obliged to write or to leave.
TcpFairness ==
    /\ WF_tcpVars(WatchCaller) /\ WF_tcpVars(TargetReads)
    /\ \A p \in Parties : WF_tcpVars(Moves(p))
TcpSpec == TcpInit /\ [][TcpNext]_tcpVars /\ TcpFairness

(***************************************************************************)
(* Properties                                                              *)
(***************************************************************************)
\* The agent shuts an upload down only after every chunk the caller wrote before
\* its own shutdown: a lost or cancelled caller resets the stream, it does not
\* finish it (RequestStreams::drop, encode and decode).
UploadFinIsComplete ==
    party["agent"].up =>
        /\ app.shut
        /\ target.run => app.wrote = target.read + Len(SelectSeq(hop["tcp"].up, LAMBDA x : x # Fin))

\* The same of the end that the remote service reads: a reset upload makes the
\* agent drop its socket, which the service takes for an orderly end.
TargetEndIsComplete == target.eof = "clean" => app.shut /\ target.read = app.wrote

\* When the caller reads a clean end, nothing that the agent sent is lost: the
\* failure of the pump turns every other end into an error (TcpStream::poll_read).
DownloadEofIsComplete ==
    app.eof = "clean" =>
        /\ \A l \in Links \ {"tcp"} : hop[l].down = <<>>
        /\ ~party["agent"].run \/ party["agent"].down

\* A caller that is lost frees its worker and its streams, even when it has
\* finished its upload and the remote service stays silent (serve).
CallerLossIsSeen == []<>(app.run \/ ~party["manager"].run)
=============================================================================
