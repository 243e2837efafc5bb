----------------------------- MODULE NoqEndpoint ------------------------------
(* The life of the owned backend's endpoint and its connections (rds-net/src/     *)
(* backends/noq/mod.rs, dial.rs and drivers.rs): a dial races its candidates and  *)
(* keeps one connection, a policy task is admitted for every connection that is   *)
(* handed out and holds its relay leases, and close() leaves nothing behind. The  *)
(* QUIC engine, and the peers at the other end, are external.                     *)
EXTENDS Integers, FiniteSets, Naturals, Sequences

CONSTANTS
    Dialled,     \* calls of connect
    Accepted,    \* incoming connections
    Candidates   \* the candidates of a dial; an incoming connection has one

VARIABLES
    attempt,   \* each call's candidates: "none", "pending", "open" or "closed"
    call,      \* "idle", "racing", "draining", "wiring", "up" or "ended"
    winner,    \* the candidate that won
    policy,    \* the policy task of each call: "none", "run" or "ended"
    leased,    \* whether the call's relay leases are held
    handles,   \* strong handles: the Connection facade and streams taken from it
    endpoint,  \* "open", "admission", "closed" or "returned"
    exhausted  \* all local transports failed, and the engine's I/O with them

epVars == <<attempt, call, winner, policy, leased, handles, endpoint, exhausted>>

Calls == Dialled \cup Accepted
Of(d) == IF d \in Dialled THEN Candidates ELSE {CHOOSE k \in Candidates : TRUE}

EpInit ==
    /\ attempt = [d \in Calls |-> [k \in Candidates |-> "none"]]
    /\ call = [d \in Calls |-> "idle"]
    /\ winner = [d \in Calls |-> CHOOSE k \in Candidates : TRUE]
    /\ policy = [d \in Calls |-> "none"]
    /\ leased = [d \in Calls |-> FALSE]
    /\ handles = [d \in Calls |-> {}]
    /\ endpoint = "open" /\ exhausted = FALSE

Stopped == endpoint \in {"closed", "returned"}
Shutdown == endpoint # "open"
AllClosed(d) == [k \in Candidates |-> IF attempt[d][k] = "none" THEN "none" ELSE "closed"]

-----------------------------------------------------------------------------
(* connect, accept and dial::race.                                            *)

\* A dial leases first, an incoming connection once it is known; the engine refuses candidates once it is closed.
Start(d) ==
    /\ call[d] = "idle"
    /\ IF exhausted THEN call' = [call EXCEPT ![d] = "ended"] /\ UNCHANGED <<attempt, leased>>
       ELSE /\ call' = [call EXCEPT ![d] = "racing"]
            /\ attempt' = [attempt EXCEPT ![d] = [k \in Candidates |->
                                IF k \notin Of(d) THEN "none"
                                ELSE IF Stopped THEN "closed" ELSE "pending"]]
            /\ leased' = [leased EXCEPT ![d] = d \in Dialled]
    /\ UNCHANGED <<winner, policy, handles, endpoint, exhausted>>

Handshake(d, k) ==
    /\ attempt[d][k] = "pending" /\ ~exhausted
    /\ attempt' = [attempt EXCEPT ![d][k] = "open"]
    /\ UNCHANGED <<call, winner, policy, leased, handles, endpoint, exhausted>>

\* Refused, timed out, or aborted while it waits.
Fails(d, k) ==
    /\ attempt[d][k] = "pending"
    /\ attempt' = [attempt EXCEPT ![d][k] = "closed"]
    /\ UNCHANGED <<call, winner, policy, leased, handles, endpoint, exhausted>>

\* The first completed handshake that is joined wins; a failure cancels nobody.
Win(d, k) ==
    /\ call[d] = "racing" /\ attempt[d][k] = "open"
    /\ call' = [call EXCEPT ![d] = "draining"]
    /\ winner' = [winner EXCEPT ![d] = k]
    /\ leased' = [leased EXCEPT ![d] = TRUE]
    /\ UNCHANGED <<attempt, policy, handles, endpoint, exhausted>>

\* The attempts that the winner of a race ends.
Rivals(d) == {k \in Candidates \ {winner[d]} : attempt[d][k] \in {"pending", "open"}}

\* abort_all, then every loser that completed all the same is closed.
DrainLoser(d, k) ==
    /\ call[d] = "draining" /\ k \in Rivals(d)
    /\ attempt' = [attempt EXCEPT ![d][k] = "closed"]
    /\ UNCHANGED <<call, winner, policy, leased, handles, endpoint, exhausted>>

Drained(d) ==
    /\ call[d] = "draining" /\ Rivals(d) = {}
    /\ call' = [call EXCEPT ![d] = "wiring"]
    /\ UNCHANGED <<attempt, winner, policy, leased, handles, endpoint, exhausted>>

NoneLeft(d) ==
    /\ call[d] = "racing" /\ \A k \in Of(d) : attempt[d][k] = "closed"
    /\ call' = [call EXCEPT ![d] = "ended"]
    /\ leased' = [leased EXCEPT ![d] = FALSE]
    /\ UNCHANGED <<attempt, winner, policy, handles, endpoint, exhausted>>

\* The caller drops the future: the JoinSet aborts, dropped handshakes close.
Cancel(d) ==
    /\ call[d] \in {"racing", "draining"}
    /\ call' = [call EXCEPT ![d] = "ended"]
    /\ attempt' = [attempt EXCEPT ![d] = AllClosed(d)]
    /\ leased' = [leased EXCEPT ![d] = FALSE]
    /\ UNCHANGED <<winner, policy, handles, endpoint, exhausted>>

-----------------------------------------------------------------------------
(* Drivers.                                                                   *)

\* spawn, under the admission lock. (AdmitLate: the tracker alone takes any task.)
AdmitLate == TRUE
Admits == ~Shutdown /\ ~exhausted

Wire(d) ==
    /\ call[d] = "wiring"
    /\ IF Admits
       THEN /\ call' = [call EXCEPT ![d] = "up"]
            /\ policy' = [policy EXCEPT ![d] = "run"]
            /\ handles' = [handles EXCEPT ![d] = {"facade"}]
            /\ UNCHANGED <<attempt, leased>>
       ELSE /\ call' = [call EXCEPT ![d] = "ended"]
            /\ attempt' = [attempt EXCEPT ![d] = AllClosed(d)]
            /\ leased' = [leased EXCEPT ![d] = FALSE]
            /\ UNCHANGED <<policy, handles>>
    /\ UNCHANGED <<winner, endpoint, exhausted>>

OpenStream(d) ==
    /\ "facade" \in handles[d]
    /\ handles' = [handles EXCEPT ![d] = @ \cup {"stream"}]
    /\ UNCHANGED <<attempt, call, winner, policy, leased, endpoint, exhausted>>

\* The last strong handle closes the connection.
LeaseAfterDrop(d, h) == leased[d]

DropHandle(d, h) ==
    /\ h \in handles[d]
    /\ handles' = [handles EXCEPT ![d] = @ \ {h}]
    /\ attempt' = IF handles[d] = {h} THEN [attempt EXCEPT ![d] = AllClosed(d)] ELSE attempt
    /\ leased' = [leased EXCEPT ![d] = LeaseAfterDrop(d, h)]
    /\ UNCHANGED <<call, winner, policy, endpoint, exhausted>>

PeerCloses(d) ==
    /\ call[d] \in {"draining", "wiring", "up"} /\ attempt[d][winner[d]] = "open" /\ ~exhausted
    /\ attempt' = [attempt EXCEPT ![d][winner[d]] = "closed"]
    /\ UNCHANGED <<call, winner, policy, leased, handles, endpoint, exhausted>>

\* The policy sees the connection's end; with no transport left it closes it.
PolicyEnds(d) ==
    /\ policy[d] = "run" /\ (exhausted \/ attempt[d][winner[d]] = "closed")
    /\ attempt' = [attempt EXCEPT ![d] = AllClosed(d)]
    /\ policy' = [policy EXCEPT ![d] = "ended"]
    /\ leased' = [leased EXCEPT ![d] = FALSE]
    /\ UNCHANGED <<call, winner, handles, endpoint, exhausted>>

\* Shutdown is seen first, and closes the connection directly: the engine may have
\* stopped.
ShutDirectly(d) == AllClosed(d)

PolicyShut(d) ==
    /\ policy[d] = "run" /\ Shutdown
    /\ attempt' = [attempt EXCEPT ![d] = ShutDirectly(d)]
    /\ policy' = [policy EXCEPT ![d] = "ended"]
    /\ leased' = [leased EXCEPT ![d] = FALSE]
    /\ UNCHANGED <<call, winner, handles, endpoint, exhausted>>

-----------------------------------------------------------------------------
(* Endpoint::close, step by step, and the loss of every transport.            *)

CloseAdmission ==
    /\ endpoint = "open"
    /\ endpoint' = "admission"
    /\ UNCHANGED <<attempt, call, winner, policy, leased, handles, exhausted>>

\* inner.close reaches every connection whose engine task still runs.
EngineClose ==
    /\ endpoint = "admission"
    /\ endpoint' = "closed"
    /\ attempt' = IF exhausted THEN [d \in Calls |-> [k \in Candidates |->
                                        IF attempt[d][k] = "pending" THEN "closed" ELSE attempt[d][k]]]
                  ELSE [d \in Calls |-> AllClosed(d)]
    /\ UNCHANGED <<call, winner, policy, leased, handles, exhausted>>

CloseReturns ==
    /\ endpoint = "closed" /\ \A d \in Calls : policy[d] # "run"
    /\ endpoint' = "returned"
    /\ UNCHANGED <<attempt, call, winner, policy, leased, handles, exhausted>>

TransportsFail ==
    /\ ~exhausted
    /\ exhausted' = TRUE
    /\ UNCHANGED <<attempt, call, winner, policy, leased, handles, endpoint>>

EpNext ==
    \/ \E d \in Calls :
        \/ Start(d) \/ Drained(d) \/ NoneLeft(d) \/ Cancel(d) \/ Wire(d) \/ OpenStream(d)
        \/ PeerCloses(d) \/ PolicyEnds(d) \/ PolicyShut(d)
        \/ \E k \in Candidates : Handshake(d, k) \/ Fails(d, k) \/ Win(d, k) \/ DrainLoser(d, k)
        \/ \E h \in {"facade", "stream"} : DropHandle(d, h)
    \/ CloseAdmission \/ EngineClose \/ CloseReturns \/ TransportsFail

\* Handshakes have a deadline, tasks run, and close() once called goes on.
EpFairness ==
    /\ \A d \in Calls :
        /\ WF_epVars(Drained(d)) /\ WF_epVars(NoneLeft(d)) /\ WF_epVars(Wire(d))
        /\ WF_epVars(PolicyEnds(d)) /\ WF_epVars(PolicyShut(d))
        /\ \A k \in Candidates :
            WF_epVars(Fails(d, k)) /\ WF_epVars(Win(d, k)) /\ WF_epVars(DrainLoser(d, k))
    /\ WF_epVars(EngineClose) /\ WF_epVars(CloseReturns)

EpSpec == EpInit /\ [][EpNext]_epVars /\ EpFairness

-----------------------------------------------------------------------------

EpTypeOK ==
    /\ \A d \in Calls : call[d] \in {"idle", "racing", "draining", "wiring", "up", "ended"}
                        /\ policy[d] \in {"none", "run", "ended"}
    /\ endpoint \in {"open", "admission", "closed", "returned"}

\* Whatever close() races with, once it has returned no policy task runs, and no
\* connection that was handed out is open, also when the engine had stopped.
CloseIsFinal ==
    endpoint = "returned" =>
        \A d \in Calls : policy[d] # "run" /\ (call[d] = "up" => attempt[d][winner[d]] = "closed")

\* A dial exposes one connection: when it returns, every other candidate is over.
SoleWinner ==
    \A d \in Calls : call[d] \in {"wiring", "up"} =>
        \A k \in Candidates \ {winner[d]} : attempt[d][k] \notin {"pending", "open"}

\* A connection's relay routes stay leased as long as it is open, also when only a
\* stream of it is left.
LeasedWhileOpen ==
    \A d \in Calls : call[d] = "up" /\ attempt[d][winner[d]] = "open" => leased[d]

-----------------------------------------------------------------------------
(***************************************************************************)
(* Routing of tagged one-way streams on one connection (rds-net uni.rs).   *)
(* A service claims a kind and gets an inbox; one driver task accepts      *)
(* streams and starts a route task for each, which reads the tag and hands *)
(* the stream to the inbox, waiting while it is full.  Claims, drops of    *)
(* inboxes, the end of the connection and route tasks meet at one lock.    *)
(*                                                                         *)
(* A channel is an inbox number; its senders are the route map and the     *)
(* route tasks that hold a clone.  One stream kind is claimed again and    *)
(* again, a second one keeps the driver busy.                              *)
(***************************************************************************)

CONSTANTS Kinds,        \* UniHello values
          Inboxes,      \* inbox numbers, claimed in order
          Streams,      \* streams the peer opens
          QueueDepth,   \* QUEUE_DEPTH
          MaxPending    \* MAX_PENDING

VARIABLES conn,     \* "open" or "closed"
          driver,   \* "none", "running", "draining": joining its tasks, "clearing"
          routes,   \* Demux::State::routes: kind -> inbox, 0: none
          inbox,    \* inbox -> [kind, state, queue]
          facade,   \* the Connection handle is still held
          task,     \* stream -> [step, kind, tx]: its route task
          lost      \* streams refused although a live inbox wanted them (history)

uniVars == <<conn, driver, routes, inbox, facade, task, lost>>

NoInbox == 0
Fresh == [kind |-> "none", state |-> "unused", queue |-> <<>>]
Waiting == [step |-> "unsent", kind |-> "none", tx |-> NoInbox]

UniInit ==
  /\ conn = "open"
  /\ driver = "none"
  /\ routes = [k \in Kinds |-> NoInbox]
  /\ inbox = [i \in Inboxes |-> Fresh]
  /\ facade = TRUE
  /\ task = [s \in Streams |-> Waiting]
  /\ lost = {}

Pending == {s \in Streams : task[s].step \in {"tag", "lookup", "send", "failed"}}
IsClosed(i) == i = NoInbox \/ inbox[i].state \in {"closing", "dropped"}
Live(k) == {i \in Inboxes : inbox[i].kind = k /\ inbox[i].state = "open"}

-----------------------------------------------------------------------------
(* claim: is_closed is looked at before the lock is taken. *)
Claim(i) ==
  /\ facade /\ inbox[i].state = "unused" /\ \A j \in Inboxes : j < i => inbox[j].state # "unused"
  /\ \E k \in Kinds :
       inbox' = [inbox EXCEPT ![i] = [kind |-> k, queue |-> <<>>,
                                      state |-> IF conn = "open" THEN "claiming" ELSE "open"]]
  /\ UNCHANGED <<facade, conn, driver, routes, task, lost>>

Retained == [k \in Kinds |-> IF IsClosed(routes[k]) THEN NoInbox ELSE routes[k]]
Register(i) ==
  /\ inbox[i].state = "claiming"
  /\ LET k == inbox[i].kind
     IN IF Retained[k] # NoInbox
        THEN /\ routes' = Retained
             /\ inbox' = [inbox EXCEPT ![i].state = "dropped"]
             /\ UNCHANGED driver
        ELSE /\ routes' = [Retained EXCEPT ![k] = i]
             /\ inbox' = [inbox EXCEPT ![i].state = "open"]
             /\ driver' = IF driver = "none" THEN "running" ELSE driver
  /\ UNCHANGED <<facade, conn, task, lost>>

(* UniStreams::drop closes the channel, then removes the route unless a new  *)
(* claim has taken it.                                                       *)
CloseInbox(i) ==
  /\ inbox[i].state \in {"open", "ended"}
  /\ inbox' = [inbox EXCEPT ![i].state = "closing", ![i].queue = <<>>]
  /\ UNCHANGED <<facade, conn, driver, routes, task, lost>>
OfClosed(i) == IsClosed(routes[inbox[i].kind])
Removable(i) == OfClosed(i)
DropInbox(i) ==
  /\ inbox[i].state = "closing"
  /\ routes' = IF Removable(i) THEN [routes EXCEPT ![inbox[i].kind] = NoInbox] ELSE routes
  /\ inbox' = [inbox EXCEPT ![i].state = "dropped"]
  /\ UNCHANGED <<facade, conn, driver, task, lost>>

(* recv: the next stream; the end once no sender is left. *)
HasSender(i) == (\E k \in Kinds : routes[k] = i) \/ (\E s \in Streams : task[s].tx = i)
Recv(i) ==
  /\ inbox[i].state = "open"
  /\ IF inbox[i].queue # <<>> THEN inbox' = [inbox EXCEPT ![i].queue = Tail(@)]
     ELSE ~HasSender(i) /\ inbox' = [inbox EXCEPT ![i].state = "ended"]
  /\ UNCHANGED <<facade, conn, driver, routes, task, lost>>

-----------------------------------------------------------------------------
(* run: the driver. *)
Accept(s) ==
  /\ driver = "running" /\ conn = "open"
  /\ task[s].step = "unsent" /\ Cardinality(Pending) < MaxPending
  /\ task' = [task EXCEPT ![s].step = "tag"]
  /\ UNCHANGED <<facade, conn, driver, routes, inbox, lost>>

ConnectionCloses ==
  /\ conn = "open" /\ conn' = "closed"
  /\ UNCHANGED <<facade, driver, routes, inbox, task, lost>>
DriverSees ==
  /\ driver = "running" /\ conn = "closed"
  /\ driver' = "draining"
  /\ UNCHANGED <<facade, conn, routes, inbox, task, lost>>

(* routes.shutdown aborts and joins the route tasks before Lifetime's drop   *)
(* ends the inboxes.                                                         *)
Done == [step |-> "done", kind |-> "none", tx |-> NoInbox]
Joined == [s \in Streams |-> IF s \in Pending THEN Done ELSE task[s]]
ShutDown == Joined
Drain ==
  /\ driver = "draining"
  /\ driver' = "clearing"
  /\ task' = ShutDown
  /\ UNCHANGED <<facade, conn, routes, inbox, lost>>
ClearAll == [k \in Kinds |-> NoInbox]
Cleared == ClearAll
LifetimeEnds ==
  /\ driver = "clearing"
  /\ driver' = "none"
  /\ routes' = Cleared
  /\ UNCHANGED <<facade, conn, inbox, task, lost>>

(* Inboxes and the facade own the Demux; its drop aborts the driver.         *)
DropFacade ==
  /\ facade /\ facade' = FALSE
  /\ UNCHANGED <<conn, driver, routes, inbox, task, lost>>
DemuxDrops ==
  /\ ~facade /\ \A i \in Inboxes : inbox[i].state \in {"unused", "dropped"}
  /\ driver # "none"
  /\ driver' = "none" /\ routes' = ClearAll /\ task' = Joined
  /\ UNCHANGED <<conn, facade, inbox, lost>>

-----------------------------------------------------------------------------
(* route: one stream. *)
ReadTag(s) ==
  /\ task[s].step = "tag"
  /\ \/ \E k \in Kinds : task' = [task EXCEPT ![s] = [@ EXCEPT !.step = "lookup", !.kind = k]]
     \/ task' = [task EXCEPT ![s] = Done]                   \* unreadable, or no tag in time
  /\ UNCHANGED <<facade, conn, driver, routes, inbox, lost>>
Lookup(s) ==
  /\ task[s].step = "lookup"
  /\ LET i == routes[task[s].kind]
     IN IF i = NoInbox
        THEN /\ task' = [task EXCEPT ![s] = Done]
             /\ lost' = IF conn = "open" /\ Live(task[s].kind) # {} THEN lost \cup {s} ELSE lost
        ELSE /\ task' = [task EXCEPT ![s].step = "send", ![s].tx = i]
             /\ UNCHANGED lost
  /\ UNCHANGED <<facade, conn, driver, routes, inbox>>
Send(s) ==
  /\ task[s].step = "send"
  /\ LET i == task[s].tx
     IN IF IsClosed(i) THEN task' = [task EXCEPT ![s].step = "failed"] /\ UNCHANGED inbox
        ELSE /\ Len(inbox[i].queue) < QueueDepth
             /\ inbox' = [inbox EXCEPT ![i].queue = Append(@, s)]
             /\ task' = [task EXCEPT ![s] = Done]
  /\ UNCHANGED <<facade, conn, driver, routes, lost>>
SameChannel(s) == routes[task[s].kind] = task[s].tx
Stale(s) == SameChannel(s)
Withdraw(s) ==
  /\ task[s].step = "failed"
  /\ routes' = IF Stale(s) THEN [routes EXCEPT ![task[s].kind] = NoInbox] ELSE routes
  /\ task' = [task EXCEPT ![s] = Done]
  /\ UNCHANGED <<facade, conn, driver, inbox, lost>>

Driver == DriverSees \/ Drain \/ LifetimeEnds \/ DemuxDrops
Route == \E s \in Streams : ReadTag(s) \/ Lookup(s) \/ Send(s) \/ Withdraw(s)
UniNext ==
  \/ \E i \in Inboxes : Claim(i) \/ Register(i) \/ CloseInbox(i) \/ DropInbox(i) \/ Recv(i)
  \/ \E s \in Streams : Accept(s)
  \/ Route \/ Driver \/ ConnectionCloses \/ DropFacade
UniSpec == /\ UniInit /\ [][UniNext]_uniVars
           /\ WF_uniVars(Driver) /\ WF_uniVars(Route)
           /\ \A i \in Inboxes : WF_uniVars(Register(i)) /\ WF_uniVars(DropInbox(i)) /\ WF_uniVars(Recv(i))

-----------------------------------------------------------------------------
(* Type invariant. *)
UniTypeOK ==
  /\ routes \in [Kinds -> Inboxes \cup {NoInbox}]
  /\ \A i \in Inboxes : Len(inbox[i].queue) <= QueueDepth
  /\ Cardinality(Pending) <= MaxPending

(* uni.rs 58 and 229: while the connection is open a live inbox keeps its    *)
(* route, however the drop of an earlier inbox and late route tasks          *)
(* interleave with the new claim; no stream of its kind is thrown away.      *)
LiveIsRouted ==
  /\ conn = "open" => \A i \in Inboxes : inbox[i].state = "open" => routes[inbox[i].kind] = i
  /\ lost = {}

(* uni.rs 191-192: once the driver has ended the inboxes no route task is    *)
(* left to put a stream into one.                                            *)
NoLateSender == driver = "none" => Pending = {}

=============================================================================
