---------------------------- MODULE AgentService ----------------------------
(***************************************************************************)
(* The agent's accept loop, its connections and their streams              *)
(* (rds-agent/src/lib.rs, limits.rs).  A connection holds an admission     *)
(* slot from its handshake to the join of its tasks; its streams share a   *)
(* set of task lanes, all but one of which the long-lived services may     *)
(* take, so that a ping, an info or a renewal always finds one.            *)
(*                                                                         *)
(* What a grant says, and when it ends, is the subject of ConnAuthz; here  *)
(* an authorization is pending, under way, granted or closed.              *)
(***************************************************************************)
EXTENDS Naturals, FiniteSets

CONSTANTS
    Conns,      \* peers' connections, one at a time each
    Streams,    \* numbers of the streams a peer may open on a connection, each once
    MaxConns,   \* AgentLimits.connections
    Policies,   \* [required, lanes, services, dir, bound]: deployments to try
    MaxDials    \* bound: connections ever admitted

Services == {"tcp", "desktop", "sync", "audio"}
Controls == {"ping", "renew"}  \* Ping and Info; Authz and RenewAuthz

VARIABLES
    deploy,   \* the AgentPolicy and AgentLimits of this run
    runner,   \* "new", "accepting", "draining", "aborting", "returned", "refused"
    permits,  \* Agent.admission
    conn,     \* connection -> [at, closed, authz, slots, sync]
    stream,   \* <<connection, stream>> -> [at, kind, slot]
    dials

agentVars == <<deploy, runner, permits, conn, stream, dials>>

NoConn == [at |-> "none", closed |-> FALSE, authz |-> "closed", slots |-> 0, sync |-> FALSE]
NoStream == [at |-> "none", kind |-> "ping", slot |-> FALSE]
Done == [NoStream EXCEPT !.at = "done"]

ServiceInit ==
    /\ deploy \in Policies
    /\ runner = "new" /\ permits = MaxConns /\ dials = 0
    /\ conn = [c \in Conns |-> NoConn]
    /\ stream = [s \in Conns \X Streams |-> NoStream]

(***************************************************************************)
(* The deployment's policy                                                 *)
(***************************************************************************)
\* effective_services: {} of explicit services stands for the implicit set.
Enabled(kind) ==
    \/ kind = "ping"
    \/ IF deploy.services = {} THEN kind \in {"tcp", "desktop"} \/ (kind = "sync" /\ deploy.dir)
       ELSE kind \in deploy.services \cap {"tcp", "desktop", "sync"}

\* validate, and the lanes that grant mode needs.
ValidPolicy ==
    /\ deploy.services \subseteq {"tcp", "desktop", "sync"}
    /\ "sync" \in deploy.services => deploy.dir
    /\ deploy.bound => deploy.required
    /\ deploy.required => deploy.lanes >= 2

\* ConnAuthz::new: the lanes long-lived services may take.
ServiceSlots == deploy.lanes - (IF deploy.required \/ deploy.lanes > 1 THEN 1 ELSE 0)

(***************************************************************************)
(* The accept loop                                                         *)
(***************************************************************************)
Run ==
    /\ runner = "new" /\ runner' = IF ValidPolicy THEN "accepting" ELSE "refused"
    /\ UNCHANGED <<deploy, permits, conn, stream, dials>>

\* A handshake that finds the process within its budget and a free slot; every
\* other one is refused without a trace.
Incoming(c) ==
    /\ runner = "accepting" /\ conn[c].at = "none" /\ dials < MaxDials
    /\ permits > 0
    /\ permits' = permits - 1 /\ dials' = dials + 1
    /\ conn' = [conn EXCEPT ![c] = [NoConn EXCEPT !.at = "handshake"]]
    /\ UNCHANGED <<deploy, runner, stream>>

Served(c) ==
    [at |-> "serving", authz |-> IF deploy.required THEN "pending" ELSE "open",
     closed |-> conn[c].closed, slots |-> ServiceSlots, sync |-> FALSE]

\* The handshake ends in time, of an allowed peer; or the task ends.
Handshake(c) ==
    /\ conn[c].at = "handshake"
    /\ \/ conn' = [conn EXCEPT ![c] = Served(c)] /\ UNCHANGED permits
       \/ conn' = [conn EXCEPT ![c] = NoConn] /\ permits' = permits + 1
    /\ UNCHANGED <<deploy, runner, stream, dials>>

(***************************************************************************)
(* serve_connection                                                        *)
(***************************************************************************)
Idle == {"none", "queued", "done"}
Tasks(c) == {s \in Streams : stream[<<c, s>>].at \notin Idle}

Closes(c) ==
    /\ conn[c].at \in {"serving", "handshake"} /\ ~conn[c].closed
    /\ conn' = [conn EXCEPT ![c].closed = TRUE]
    /\ UNCHANGED <<deploy, runner, permits, stream, dials>>

\* The streams of a connection are numbered in the order they are opened.
PeerOpens(c, s, kind) ==
    /\ conn[c].at = "serving" /\ ~conn[c].closed /\ stream[<<c, s>>] = NoStream
    /\ \A t \in Streams : t < s => stream[<<c, t>>] # NoStream
    /\ stream' = [stream EXCEPT ![<<c, s>>] = [NoStream EXCEPT !.at = "queued", !.kind = kind]]
    /\ UNCHANGED <<deploy, runner, permits, conn, dials>>

AcceptStream(c, s) ==
    /\ conn[c].at = "serving" /\ ~conn[c].closed
    /\ stream[<<c, s>>].at = "queued" /\ Cardinality(Tasks(c)) < deploy.lanes
    /\ stream' = [stream EXCEPT ![<<c, s>>].at = "hello"]
    /\ UNCHANGED <<deploy, runner, permits, conn, dials>>

\* The loop ends: authorization closes first, and the streams are aborted.
Teardown(c) ==
    /\ conn[c].at = "serving" /\ conn[c].closed
    /\ conn' = [conn EXCEPT ![c].at = "joining", ![c].authz = "closed"]
    /\ stream' = [s \in DOMAIN stream |->
         IF s[1] # c THEN stream[s]
         ELSE IF stream[s].at \in Idle THEN NoStream ELSE [stream[s] EXCEPT !.at = "aborted"]]
    /\ UNCHANGED <<deploy, runner, permits, dials>>

\* streams.shutdown has joined them all; the slot goes with the task.
ConnectionEnds(c) ==
    /\ conn[c].at = "joining" /\ Tasks(c) = {}
    /\ conn' = [conn EXCEPT ![c] = NoConn] /\ permits' = permits + 1
    /\ UNCHANGED <<deploy, runner, stream, dials>>

(***************************************************************************)
(* serve_stream                                                            *)
(***************************************************************************)
At(s, at) == stream' = [stream EXCEPT ![s].at = at]

\* What is dropped with the task of stream s.
Freed(s) ==
    [conn EXCEPT ![s[1]].slots = @ + (IF stream[s].slot THEN 1 ELSE 0),
                 ![s[1]].sync = @ /\ ~(stream[s].slot /\ stream[s].kind = "sync")]
StreamEnds(s) ==
    /\ stream' = [stream EXCEPT ![s] = IF @.at = "aborted" THEN NoStream ELSE Done] /\ conn' = Freed(s)
    /\ UNCHANGED <<deploy, runner, permits, dials>>

\* The deadline of the greeting, or a broken one.
HelloFails(s) == stream[s].at = "hello" /\ StreamEnds(s)

\* The greeting is read, and answered up to the service itself.  A refusal has a
\* deadline and ends the task; the one of a desktop's height has none.
Hello(s) ==
    /\ stream[s].at = "hello"
    /\ \/ stream[s].kind = "desktop" /\ At(s, "height")
       \/ stream[s].kind = "renew" /\ At(s, "authorize")
       \/ stream[s].kind # "renew" /\ ~Enabled(stream[s].kind) /\ At(s, "refuse")
       \/ stream[s].kind # "renew" /\ Enabled(stream[s].kind) /\ At(s, "scope")
    /\ UNCHANGED <<deploy, runner, permits, conn, dials>>

\* service_scope: it waits while an authorization is under way; an answer
\* that ends the grant closes the connection.
Scope(s) ==
    /\ stream[s].at = "scope" /\ conn[s[1]].authz # "authorizing"
    /\ \/ /\ conn[s[1]].authz \in {"open", "granted"} /\ At(s, "slot") /\ UNCHANGED conn
       \/ /\ conn[s[1]].authz # "open" /\ At(s, "refuse")
          /\ conn' = IF conn[s[1]].authz = "granted" THEN [conn EXCEPT ![s[1]].closed = TRUE] ELSE conn
    /\ UNCHANGED <<deploy, runner, permits, dials>>

\* The authorization did not end in time, or the target is not permitted.
ScopeRefuses(s) ==
    /\ stream[s].at = "scope" \/ (stream[s].at = "slot" /\ stream[s].kind # "ping")
    /\ At(s, "refuse")
    /\ UNCHANGED <<deploy, runner, permits, conn, dials>>

\* A long-lived service takes a slot, and a transfer the connection's sync slot.
TakeSlot(s) ==
    LET c == s[1]
        k == stream[s].kind
    IN  /\ stream[s].at = "slot"
        /\ \/ k = "ping" /\ At(s, "body") /\ UNCHANGED conn
           \/ k # "ping" /\ conn[c].slots = 0 /\ At(s, "refuse") /\ UNCHANGED conn
           \/ /\ k # "ping" /\ conn[c].slots > 0
              /\ stream' = [stream EXCEPT ![s].slot = TRUE, ![s].at =
                              IF k = "sync" /\ (~deploy.dir \/ conn[c].sync) THEN "busy" ELSE "body"]
              /\ conn' = [conn EXCEPT ![c].slots = @ - 1, ![c].sync = @ \/ (k = "sync" /\ deploy.dir)]
        /\ UNCHANGED <<deploy, runner, permits, dials>>

\* A refusal after the slot was taken, without a deadline; it holds no sync slot
\* of its own.
BusyEnds(s) ==
    /\ stream[s].at = "busy"
    /\ stream' = [stream EXCEPT ![s] = Done]
    /\ conn' = [conn EXCEPT ![s[1]].slots = @ + 1]
    /\ UNCHANGED <<deploy, runner, permits, dials>>

\* A refusal is written, or its deadline passes.
Refuses(s) == stream[s].at = "refuse" /\ StreamEnds(s)

\* An answer to a ping or an info, and the refusal of a height, have no deadline:
\* they wait until the peer grants the stream credit.
Unread(s) == stream[s].at = "height" \/ (stream[s].at = "body" /\ stream[s].kind = "ping")
Answers(s) == Unread(s) /\ StreamEnds(s)

\* A service ends with its peer, its target or its own deadline.
ServiceEnds(s) == stream[s].at = "body" /\ stream[s].kind # "ping" /\ StreamEnds(s)

\* authorize: the transaction, and a failure that closes the connection.
Authorize(s) ==
    LET c == s[1]
    IN  /\ stream[s].at = "authorize"
        /\ \/ /\ conn[c].authz \in {"pending", "granted"} /\ At(s, "authorizing")
              /\ conn' = [conn EXCEPT ![c].authz = IF @ = "pending" THEN "authorizing" ELSE @]
           \/ At(s, "refuse") /\ conn' = [conn EXCEPT ![c].closed = @ \/ conn[c].authz # "open"]
        /\ UNCHANGED <<deploy, runner, permits, dials>>

Authorized(s) ==
    LET c == s[1]
    IN  /\ stream[s].at = "authorizing"
        /\ \/ conn' = [conn EXCEPT ![c].authz = IF @ = "authorizing" THEN "granted" ELSE @]
           \/ conn' = [conn EXCEPT ![c].authz = "closed", ![c].closed = TRUE]
        /\ At(s, "refuse")
        /\ UNCHANGED <<deploy, runner, permits, dials>>

Aborted(s) == stream[s].at = "aborted" /\ StreamEnds(s)

(***************************************************************************)
(* The end of the agent                                                    *)
(***************************************************************************)
\* The endpoint closes: every connection is closed with it.
EndpointCloses ==
    /\ runner = "accepting" /\ runner' = "draining"
    /\ conn' = [c \in Conns |-> IF conn[c].at = "none" THEN conn[c] ELSE [conn[c] EXCEPT !.closed = TRUE]]
    /\ UNCHANGED <<deploy, permits, stream, dials>>

\* The shutdown budget: the connection tasks are aborted, and their streams are
\* only told to stop.
BudgetExpires ==
    /\ runner = "draining" /\ runner' = "aborting"
    /\ conn' = [c \in Conns |-> NoConn] /\ permits' = MaxConns
    /\ stream' = [s \in DOMAIN stream |->
         IF stream[s].at \in Idle THEN NoStream
         ELSE [stream[s] EXCEPT !.at = "aborted", !.slot = FALSE]]
    /\ UNCHANGED <<deploy, dials>>

RunReturns ==
    /\ \/ runner = "aborting"
       \/ runner = "draining" /\ \A c \in Conns : conn[c].at = "none"
    /\ runner' = "returned"
    /\ UNCHANGED <<deploy, permits, conn, stream, dials>>

Loop(c) == Handshake(c) \/ Teardown(c) \/ ConnectionEnds(c) \/ (\E s \in Streams : AcceptStream(c, s))
Task(s) ==
    \/ HelloFails(s) \/ Scope(s) \/ ScopeRefuses(s) \/ TakeSlot(s) \/ Refuses(s)
    \/ Authorize(s) \/ Authorized(s) \/ Aborted(s)

ServiceNext ==
    \/ Run \/ EndpointCloses \/ BudgetExpires \/ RunReturns
    \/ \E c \in Conns : Incoming(c) \/ Closes(c) \/ Loop(c)
    \/ \E c \in Conns, s \in Streams, k \in Services \cup Controls : PeerOpens(c, s, k)
    \/ \E s \in Conns \X Streams : Task(s) \/ Hello(s) \/ Answers(s) \/ BusyEnds(s) \/ ServiceEnds(s)

\* Tasks run, and the waits of Task have a deadline.  Nobody has to greet or to
\* read an answer, and services need not end.
ServiceFairness ==
    /\ WF_agentVars(Run) /\ WF_agentVars(RunReturns)
    /\ \A c \in Conns : WF_agentVars(Loop(c))
    /\ \A s \in Conns \X Streams : WF_agentVars(Task(s)) /\ WF_agentVars(AcceptStream(s[1], s[2]))
ServiceSpec == ServiceInit /\ [][ServiceNext]_agentVars /\ ServiceFairness

(***************************************************************************)
(* Properties                                                              *)
(***************************************************************************)
\* A ping or a renewal that a peer opens is taken up by a task, whatever the
\* services of its connection do and however silent its other streams are, as
\* long as the deployment has more than one lane and the peer does not leave an
\* answer unread (ConnAuthz::new, the slots of serve_stream, its deadlines).
ControlLane ==
    deploy.lanes > 1 => \A s \in Conns \X Streams :
        []<>(\/ ~(stream[s].at = "queued" /\ stream[s].kind \in Controls)
             \/ \E t \in Streams : Unread(<<s[1], t>>))

\* The promise of serve_stream's service pool, "a full pool drains back to one free
\* JoinSet lane": unread answers to pings fill the lanes for as long as the
\* connection lives.
LaneAlwaysFrees ==
    deploy.lanes > 1 => \A s \in Conns \X Streams :
        []<>~(stream[s].at = "queued" /\ stream[s].kind \in Controls)

\* No stream task outlives the task of its connection, and with it the slot that
\* admits the next connection, but after the shutdown budget (serve_connection).
NoOrphanStream ==
    /\ permits + Cardinality({c \in Conns : conn[c].at # "none"}) = MaxConns
    /\ runner \notin {"aborting", "returned"} =>
         \A s \in Conns \X Streams : stream[s].at \notin Idle => conn[s[1]].at # "none"
    /\ \A c \in Conns : conn[c].at = "serving" =>
         conn[c].slots + Cardinality({s \in Streams : stream[<<c, s>>].slot}) = ServiceSlots
=============================================================================
