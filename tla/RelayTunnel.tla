----------------------------- MODULE RelayTunnel ------------------------------
(* An endpoint's attachment to one relay (rds-net/src/backends/noq/relay.rs and   *)
(* relay/peers.rs, with the watchers of mod.rs): the table that maps synthetic    *)
(* addresses to peers, the leases that pin its entries, the pumps that feed it    *)
(* and the two signals, lost and draining, that the endpoint's policies follow.   *)
(* The tunnel's QUIC connection and the relay at its far end are external.        *)
EXTENDS Integers, Sequences, FiniteSets

CONSTANTS
    TunnelPeers,  \* identities of peers behind the relay
    Synth,        \* synthetic_for: the address of each peer; addresses may collide
    Holders,      \* connections that may hold a lease
    MaxPeers,     \* capacity of the table
    Grace,        \* lifetime of an entry nobody pins
    QueueSize     \* datagram_queue

VARIABLES
    table,    \* the entries by address: [peer, pins, left], left = expires - now
    lease,    \* the peer each holder's lease is for
    inbox,    \* datagrams decoded and not yet received by the mux
    tunnel,   \* [open, available, drained, datagrams, control, detach]
    bit,      \* the endpoint's mask: [dead, drain, watchDead, watchDrain, shut]
    reported, \* ghost: peers the relay ever reported gone
    older     \* ghost: holders whose lease is older than a report about its peer

tunnelVars == <<table, lease, inbox, tunnel, bit, reported, older>>

Vacant == [peer |-> "none", pins |-> 0, left |-> 0]
Places == {Synth[p] : p \in TunnelPeers}
Used(t) == {a \in Places : t[a] # Vacant}
Stale(e) == e.pins = 0 /\ e.left = 0

\* connect_with_limits and bind_socket: a tunnel without datagrams is dead at once.
TunnelInit ==
    /\ table = [a \in Places |-> Vacant]
    /\ lease = [h \in Holders |-> "none"]
    /\ inbox = <<>>
    /\ \E ok \in BOOLEAN :
        /\ tunnel = [open |-> TRUE, available |-> ok, drained |-> FALSE,
                     datagrams |-> TRUE, control |-> TRUE, detach |-> TRUE]
        /\ bit = [dead |-> ~ok, drain |-> FALSE, watchDead |-> ok, watchDrain |-> ok,
                  shut |-> "no"]
    /\ reported = {} /\ older = {}

-----------------------------------------------------------------------------
(* PeerRegistry.                                                             *)

\* State::admit's room for a new entry: expired entries go, then the unpinned one
\* that would expire first.
\* (MakeRoomAny: whatever would expire first goes, pinned or not.)
MakeRoomAny(t) ==
    IF Cardinality(Used(t)) < MaxPeers THEN {t}
    ELSE {[t EXCEPT ![a] = Vacant] : a \in {b \in Used(t) : \A c \in Used(t) : t[b].left <= t[c].left}}
MakeRoom(t) ==
    LET kept == [a \in Places |-> IF Stale(t[a]) THEN Vacant ELSE t[a]]
        loose == {a \in Used(kept) : kept[a].pins = 0}
        first == {a \in loose : \A b \in loose : kept[a].left <= kept[b].left}
    IN  IF Cardinality(Used(t)) < MaxPeers THEN {t}
        ELSE IF Cardinality(Used(kept)) < MaxPeers THEN {kept}
        ELSE {[kept EXCEPT ![a] = Vacant] : a \in first}

\* The tables State::admit may leave; none when it refuses (collision, capacity).
Admitted(t, p, pin) ==
    LET a == Synth[p]
        s == IF Stale(t[a]) THEN [t EXCEPT ![a] = Vacant] ELSE t
    IN  IF s[a] # Vacant
        THEN IF s[a].peer = p
             THEN {[s EXCEPT ![a] = [peer |-> p, pins |-> @.pins + pin, left |-> Grace]]}
             ELSE {}
        ELSE {[r EXCEPT ![a] = [peer |-> p, pins |-> pin, left |-> Grace]] : r \in MakeRoom(s)}

\* A refused admit may still have dropped the expired entries.
Swept(t, p) ==
    LET s == IF Stale(t[Synth[p]]) THEN [t EXCEPT ![Synth[p]] = Vacant] ELSE t
    IN  IF s[Synth[p]] # Vacant THEN s
        ELSE [a \in Places |-> IF Stale(s[a]) THEN Vacant ELSE s[a]]

\* connect and Incoming reserve the peer's route; when it is refused the
\* connection goes on without this relay.
Acquire(h, p) ==
    /\ lease[h] = "none"
    /\ \/ /\ table' \in Admitted(table, p, 1)
          /\ lease' = [lease EXCEPT ![h] = p]
       \/ /\ Admitted(table, p, 1) = {}
          /\ table' = Swept(table, p)
          /\ UNCHANGED lease
    /\ UNCHANGED <<inbox, tunnel, bit, reported, older>>

\* PeerLease::drop. (Unpin: whoever has the address loses the pin.)
Unpin(t, p) ==
    IF t[Synth[p]].pins > 0
    THEN [t EXCEPT ![Synth[p]].pins = @ - 1, ![Synth[p]].left = IF t[Synth[p]].pins = 1 THEN Grace ELSE @]
    ELSE t
Release(t, p) == IF t[Synth[p]].peer = p THEN Unpin(t, p) ELSE t

DropLease(h) ==
    /\ lease[h] # "none"
    /\ table' = Release(table, lease[h])
    /\ lease' = [lease EXCEPT ![h] = "none"]
    /\ older' = older \ {h}
    /\ UNCHANGED <<inbox, tunnel, bit, reported>>

\* RelaySender::poll_send: a synthetic destination is looked up and its entry
\* refreshed; an expired one is forgotten and the datagram is lost.
Transmit(a) ==
    /\ table[a] # Vacant
    /\ table' = IF Stale(table[a]) THEN [table EXCEPT ![a] = Vacant]
                ELSE [table EXCEPT ![a].left = Grace]
    /\ UNCHANGED <<lease, inbox, tunnel, bit, reported, older>>

Passing ==
    /\ \E a \in Places : table[a].left > 0
    /\ table' = [a \in Places |-> [table[a] EXCEPT !.left = IF @ = 0 THEN 0 ELSE @ - 1]]
    /\ UNCHANGED <<lease, inbox, tunnel, bit, reported, older>>

-----------------------------------------------------------------------------
(* The pumps.                                                                *)

\* The datagram pump: observe the sender, then queue or count the loss.
Receive(p) ==
    /\ tunnel.open /\ tunnel.datagrams
    /\ \/ /\ table' \in Admitted(table, p, 0)
          /\ inbox' = IF Len(inbox) < QueueSize THEN Append(inbox, Synth[p]) ELSE inbox
       \/ /\ Admitted(table, p, 0) = {}
          /\ table' = Swept(table, p) /\ UNCHANGED inbox
    /\ UNCHANGED <<lease, tunnel, bit, reported, older>>

\* poll_recv; a datagram larger than the caller's buffer is dropped here.
Deliver ==
    /\ inbox # <<>>
    /\ inbox' = Tail(inbox)
    /\ UNCHANGED <<table, lease, tunnel, bit, reported, older>>

PeerGone(p) ==
    /\ tunnel.open /\ tunnel.control
    /\ table' = [a \in Places |-> IF table[a].peer = p THEN Vacant ELSE table[a]]
    /\ reported' = reported \cup {p}
    /\ older' = older \cup {h \in Holders : lease[h] = p}
    /\ UNCHANGED <<lease, inbox, tunnel, bit>>

Drain ==
    /\ tunnel.open /\ tunnel.control /\ ~tunnel.drained
    /\ tunnel' = [tunnel EXCEPT !.drained = TRUE]
    /\ UNCHANGED <<table, lease, inbox, bit, reported, older>>

\* The connection is lost: timeout, or the relay's close.
Lost ==
    /\ tunnel.open
    /\ tunnel' = [tunnel EXCEPT !.open = FALSE]
    /\ UNCHANGED <<table, lease, inbox, bit, reported, older>>

\* A pump's end drops its LinkLifetime, which is the signal that the link is lost.
PumpDone(l) == [l EXCEPT !.datagrams = FALSE, !.available = FALSE]

DatagramsEnd ==
    /\ ~tunnel.open /\ tunnel.datagrams
    /\ tunnel' = PumpDone(tunnel)
    /\ UNCHANGED <<table, lease, inbox, bit, reported, older>>

\* The control pump ends on a bad or missing message, or an unwritable pong, and
\* closes the connection.
ControlEnds ==
    /\ tunnel.control
    /\ tunnel' = [tunnel EXCEPT !.control = FALSE, !.available = FALSE, !.open = FALSE]
    /\ UNCHANGED <<table, lease, inbox, bit, reported, older>>

\* Endpoint::close cancels the attachments, then the watchers.
Close ==
    /\ bit' = CASE bit.shut = "no" -> [bit EXCEPT !.shut = "detached"]
                [] bit.shut = "detached" -> [bit EXCEPT !.shut = "shut"]
                [] OTHER -> bit
    /\ bit' # bit
    /\ UNCHANGED <<table, lease, inbox, tunnel, reported, older>>

\* The attachment's task sees that it is cancelled.
Detach ==
    /\ tunnel.detach /\ bit.shut # "no"
    /\ tunnel' = [tunnel EXCEPT !.detach = FALSE, !.available = FALSE, !.open = FALSE]
    /\ UNCHANGED <<table, lease, inbox, bit, reported, older>>

\* RelaySocket::close or drop: closed, and the pumps aborted.
CloseSocket ==
    /\ tunnel.datagrams \/ tunnel.control \/ tunnel.detach
    /\ tunnel' = [tunnel EXCEPT !.open = FALSE, !.available = FALSE, !.datagrams = FALSE,
                                !.control = FALSE, !.detach = FALSE]
    /\ UNCHANGED <<table, lease, inbox, bit, reported, older>>

\* The endpoint's two watchers.
WatchDead ==
    /\ bit.watchDead /\ ~tunnel.available
    /\ bit' = [bit EXCEPT !.dead = TRUE, !.watchDead = FALSE]
    /\ UNCHANGED <<table, lease, inbox, tunnel, reported, older>>

\* drain_observed ends on either signal; when both are there either may be seen.
WatchDrain ==
    /\ bit.watchDrain
    /\ \/ tunnel.drained /\ bit' = [bit EXCEPT !.drain = TRUE, !.watchDrain = FALSE]
       \/ ~tunnel.available /\ bit' = [bit EXCEPT !.watchDrain = FALSE]
    /\ UNCHANGED <<table, lease, inbox, tunnel, reported, older>>

\* The shutdown cancels a watcher, which then marks nothing.
WatchCancelled ==
    /\ bit.shut = "shut"
    /\ \/ bit.watchDead /\ bit' = [bit EXCEPT !.watchDead = FALSE]
       \/ bit.watchDrain /\ bit' = [bit EXCEPT !.watchDrain = FALSE]
    /\ UNCHANGED <<table, lease, inbox, tunnel, reported, older>>

TunnelNext ==
    \/ \E h \in Holders : DropLease(h) \/ \E p \in TunnelPeers : Acquire(h, p)
    \/ \E a \in Places : Transmit(a)
    \/ \E p \in TunnelPeers : Receive(p) \/ PeerGone(p)
    \/ Passing \/ Deliver \/ Drain \/ Lost \/ DatagramsEnd \/ ControlEnds \/ Detach
    \/ Close \/ CloseSocket \/ WatchDead \/ WatchDrain \/ WatchCancelled

\* Pumps and watchers are tasks: what they wait for, once there, is handled, or
\* the task was cancelled.
TunnelFairness ==
    WF_tunnelVars(DatagramsEnd) /\ WF_tunnelVars(WatchDead) /\ WF_tunnelVars(WatchDrain)

TunnelSpec == TunnelInit /\ [][TunnelNext]_tunnelVars /\ TunnelFairness

-----------------------------------------------------------------------------

TunnelTypeOK ==
    /\ \A a \in Places : table[a].pins \in 0 .. Cardinality(Holders) /\ table[a].left \in 0 .. Grace
    /\ Cardinality(Used(table)) <= MaxPeers
    /\ Len(inbox) <= QueueSize

LeasesOf(p) == {h \in Holders : lease[h] = p}

\* As long as the relay never reported a peer gone, its entry's pins are exactly
\* its leases: a colliding peer, expiry and eviction under a full table never take
\* a leased route, and no dropped lease keeps an entry pinned.
PinsExact ==
    \A p \in TunnelPeers \ reported :
        IF table[Synth[p]].peer = p THEN table[Synth[p]].pins = Cardinality(LeasesOf(p))
        ELSE LeasesOf(p) = {}

\* However the tunnel ends, the endpoint's mask marks the slot dead, even when the
\* relay had announced a drain before; unless the endpoint itself is shut down,
\* which may cancel the watcher of a tunnel it has just detached.
LossIsNoticed == []<>(tunnel.open \/ bit.dead \/ bit.shut = "shut")

\* PeerLease's promise, for leases acquired after the last report about the peer:
\* the mapping is pinned while the lease is held. Dropping a lease that is older
\* than the report takes the pin of the newer one.
LeaseStaysPinned ==
    \A h \in Holders \ older : lease[h] # "none" =>
        table[Synth[lease[h]]].peer = lease[h] /\ table[Synth[lease[h]]].pins > 0

-----------------------------------------------------------------------------
(* The endpoint's logical socket (rds-net/src/backends/noq/socket.rs and          *)
(* socket/health.rs): one receiver scans the children from a cursor, each sender  *)
(* routes a datagram to one child, and an error that is not about a packet        *)
(* retires its child for good. What matters is who wakes a parked task: every     *)
(* wake-up a poll registers is part of the state. The children and the kernel     *)
(* behind them are external.                                                      *)

CONSTANTS
    N,          \* number of children, numbered from 0
    MaxErrors   \* bound on errors of the children

VARIABLES
    ready,      \* children with a datagram to read
    broken,     \* the error each child's next read reports: "none", "packet", "fatal"
    live,       \* children that are not retired
    backoff,    \* children whose receive retry timer is running
    cursor,     \* where the next scan starts
    receiver,   \* "run", "parked" or "ended"
    listens,    \* children whose readiness would wake the receiver
    sender,     \* [st, to, timer, child]: "idle", "parked", "run"
    errors

muxVars == <<ready, broken, live, backoff, cursor, receiver, listens, sender, errors>>

Kids == 0 .. N - 1

MuxInit ==
    /\ ready = {} /\ broken = [c \in Kids |-> "none"]
    /\ live = Kids /\ backoff = {} /\ cursor = 0
    /\ receiver = "run" /\ listens = {}
    /\ sender = [st |-> "idle", to |-> 0, timer |-> FALSE, child |-> FALSE]
    /\ errors = 0

-----------------------------------------------------------------------------
(* The kernel.                                                                *)

WakeReceiver(c) == receiver' = IF receiver = "parked" /\ c \in listens THEN "run" ELSE receiver

Arrive(c) ==
    /\ c \notin ready
    /\ ready' = ready \cup {c}
    /\ WakeReceiver(c)
    /\ UNCHANGED <<broken, live, backoff, cursor, listens, sender, errors>>

Breaks(c, kind) ==
    /\ broken[c] = "none" /\ errors < MaxErrors
    /\ broken' = [broken EXCEPT ![c] = kind]
    /\ errors' = errors + 1
    /\ WakeReceiver(c)
    /\ UNCHANGED <<ready, live, backoff, cursor, listens, sender>>

-----------------------------------------------------------------------------
(* Health::error retires a child; Changes wakes the receiver and the sender.  *)

WakeSender(s, before, after) == IF before # after /\ s.st = "parked" THEN [s EXCEPT !.st = "run"] ELSE s

\* Mux::poll_recv. The scan passes children that failed, back off or have nothing,
\* retires or backs off those that report an error, and stops at a datagram.
Order == [i \in 0 .. N - 1 |-> (cursor + i) % N]
Polled == {c \in live : c \notin backoff}
Stop == {i \in 0 .. N - 1 : Order[i] \in Polled /\ broken[Order[i]] = "none" /\ Order[i] \in ready}
Reached == IF Stop = {} THEN Polled
           ELSE LET last == CHOOSE i \in Stop : \A j \in Stop : i <= j
                IN  {Order[i] : i \in 0 .. last} \cap Polled

\* (CursorStays: every scan starts at the same child.)
CursorStays(c) == cursor
NextCursor(c) == (c + 1) % N

Backoff(S) == backoff \cup S

PollRecv ==
    /\ receiver = "run"
    /\ LET failed == {c \in Reached : broken[c] = "fatal"}
           annoyed == {c \in Reached : broken[c] = "packet"}
           rest == live \ failed
       IN  /\ live' = rest
           /\ broken' = [c \in Kids |-> IF c \in annoyed THEN "none" ELSE broken[c]]
           /\ backoff' = Backoff(annoyed)
           /\ listens' = (listens \cup Reached) \ (failed \cup annoyed)
           /\ sender' = WakeSender(sender, live, rest)
           /\ IF Stop # {}
              THEN LET c == Order[CHOOSE i \in Stop : \A j \in Stop : i <= j]
                   IN  ready' = ready \ {c} /\ cursor' = NextCursor(c) /\ UNCHANGED receiver
              ELSE /\ receiver' = IF rest = {} THEN "ended"
                                  ELSE IF rest # live THEN "run" ELSE "parked"
                   /\ UNCHANGED <<ready, cursor>>
    /\ UNCHANGED errors

\* The 10 ms timer of a child that reported a packet error.
RetryFires(c) ==
    /\ c \in backoff
    /\ backoff' = backoff \ {c}
    /\ receiver' = IF receiver = "parked" THEN "run" ELSE receiver
    /\ UNCHANGED <<ready, broken, live, cursor, listens, sender, errors>>

-----------------------------------------------------------------------------
(* MuxSender::poll_send.                                                      *)

Transmits(c) ==
    /\ sender.st = "idle" /\ receiver # "ended"
    /\ sender' = [sender EXCEPT !.st = "run", !.to = c]
    /\ UNCHANGED <<ready, broken, live, backoff, cursor, receiver, listens, errors>>

Done == [sender EXCEPT !.st = "idle", !.timer = FALSE, !.child = FALSE]

\* A retired route loses the datagram, all routes retired is the engine's error; a
\* child may take it, lose it, be full, or fail.
PollSend ==
    /\ sender.st = "run"
    /\ \/ /\ sender.to \notin live
          /\ sender' = Done
          /\ UNCHANGED <<live, receiver, errors>>
       \/ /\ sender.to \in live /\ sender.timer
          /\ sender' = [sender EXCEPT !.st = "parked"]
          /\ UNCHANGED <<live, receiver, errors>>
       \/ /\ sender.to \in live /\ ~sender.timer
          /\ \/ sender' = Done /\ UNCHANGED <<live, receiver, errors>>
             \/ /\ errors < MaxErrors /\ errors' = errors + 1
                /\ \/ /\ sender' = [sender EXCEPT !.st = "parked", !.timer = TRUE]
                      /\ UNCHANGED <<live, receiver>>
                   \/ /\ sender' = [sender EXCEPT !.st = "parked", !.child = TRUE]
                      /\ UNCHANGED <<live, receiver>>
                   \/ /\ live' = live \ {sender.to}
                      /\ sender' = Done
                      /\ receiver' = IF receiver = "parked" THEN "run" ELSE receiver
    /\ UNCHANGED <<ready, broken, backoff, cursor, listens>>

\* The 1 ms timer after Interrupted or WouldBlock.
SendTimer ==
    /\ sender.timer
    /\ sender' = [sender EXCEPT !.timer = FALSE, !.st = IF @ = "parked" THEN "run" ELSE @]
    /\ UNCHANGED <<ready, broken, live, backoff, cursor, receiver, listens, errors>>

\* A working child becomes writable; a failed one never does.
Writable ==
    /\ sender.st = "parked" /\ sender.child /\ sender.to \in live /\ broken[sender.to] # "fatal"
    /\ sender' = [sender EXCEPT !.st = "run", !.child = FALSE]
    /\ UNCHANGED <<ready, broken, live, backoff, cursor, receiver, listens, errors>>

MuxNext ==
    \/ \E c \in Kids : Arrive(c) \/ RetryFires(c) \/ Transmits(c)
    \/ \E c \in Kids, k \in {"packet", "fatal"} : Breaks(c, k)
    \/ PollRecv \/ PollSend \/ SendTimer \/ Writable

\* Woken tasks run, armed timers fire, and a working child takes what it is sent.
MuxFairness ==
    /\ WF_muxVars(PollRecv) /\ WF_muxVars(PollSend)
    /\ WF_muxVars(SendTimer) /\ WF_muxVars(Writable)
    /\ \A c \in Kids : WF_muxVars(RetryFires(c))

MuxSpec == MuxInit /\ [][MuxNext]_muxVars /\ MuxFairness

-----------------------------------------------------------------------------

MuxTypeOK ==
    /\ ready \subseteq Kids /\ live \subseteq Kids /\ backoff \subseteq Kids
    /\ cursor \in Kids /\ receiver \in {"run", "parked", "ended"}
    /\ (receiver = "ended") => live = {}

\* A datagram that reached a child is received, however busy or faulty the other
\* children are, unless its own child is retired.
EveryChildHeard == \A c \in Kids : []<>(c \notin ready \/ c \notin live)

\* A sender parked on one child goes on when that child is retired: it never waits
\* for a readiness that cannot come.
SendersResume == []<>(sender.st = "idle")

=============================================================================
