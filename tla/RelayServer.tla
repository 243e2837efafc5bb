------------------------------ MODULE RelayServer ------------------------------
(* The owned relay (rds-relay/src/server.rs): endpoints attach over QUIC, the   *)
(* newest attachment of an identity replaces the older one, frames are          *)
(* forwarded by identity, sources of a departed destination are told PeerGone,  *)
(* and a drain tells everybody attached before the listener closes.             *)
EXTENDS Integers, FiniteSets

CONSTANTS
    Ids,              \* endpoint identities
    RelayConns,       \* connections, dialled in this order: 1 .. n
    IdOf,             \* the identity each connection authenticates
    AllowList,        \* the identities that may attach
    MaxConnections,   \* ServerLimits::max_connections
    MaxRecent,        \* MAX_RECENT_PEERS
    MaxFrames,        \* bound on datagrams read
    MaxFailures       \* bound on failures of the runner

VARIABLES
    table,     \* State::conns: identity -> attached connection (0: none)
    recent,    \* State::recent: destination -> sources that sent to it
    draining,  \* State::draining
    phase,     \* the shutdown watch
    seen,      \* the phase the runner last saw
    loop,      \* where the runner is
    task,      \* the task of every connection
    open,      \* whether a connection's transport is still open
    frame,     \* the destination of the frame a forward loop has in hand
    notice,    \* control writes in flight: [by, to, about]
    told,      \* what each client read on its control stream
    joiner,    \* the callers of drain and close
    spent,     \* counts: frames read, failures of the runner
    owed       \* ghost: identities each connection sent to and is not told of

relayVars == <<table, recent, draining, phase, seen, loop, task, open, frame, notice,
               told, joiner, spent, owed>>

Callers == {"drain", "close"}
Runner == 0

RelayInit ==
    /\ table = [i \in Ids |-> 0]
    /\ recent = [i \in Ids |-> {}]
    /\ draining = FALSE
    /\ phase = "running" /\ seen = "running"
    /\ loop = "accept"
    /\ task = [c \in RelayConns |-> "none"]
    /\ open = [c \in RelayConns |-> FALSE]
    /\ frame = [c \in RelayConns |-> {}]
    /\ notice = {}
    /\ told = [c \in RelayConns |-> {}]
    /\ joiner = [j \in Callers |-> "idle"]
    /\ spent = [frames |-> 0, failures |-> 0]
    /\ owed = [c \in RelayConns |-> {}]

Live(c) == task[c] \in {"handshake", "register", "acked", "attached", "notifying"}
Active == {c \in RelayConns : Live(c)}
Attached == {i \in Ids : table[i] # 0}
Shut(C) == [c \in RelayConns |-> open[c] /\ c \notin C]

ServerFrame == UNCHANGED <<draining, phase, seen, loop, joiner>>

-----------------------------------------------------------------------------
(* accept_loop's admission and serve_conn up to the attachment.              *)

Dial(c) ==
    /\ task[c] = "none" /\ \A d \in RelayConns : d < c => task[d] # "none"
    /\ loop \in {"accept", "grace"}
    /\ task' = [task EXCEPT ![c] = "dialled"]
    /\ open' = [open EXCEPT ![c] = TRUE]
    /\ ServerFrame /\ UNCHANGED <<table, recent, frame, notice, told, spent, owed>>

\* The select is biased: a pending shutdown is seen before a connection. An
\* attempt is dropped while draining and when no permit is left.
Admit(c) ==
    /\ task[c] = "dialled" /\ loop \in {"accept", "grace"} /\ phase = seen
    /\ IF draining \/ Cardinality(Active) >= MaxConnections
       THEN task' = [task EXCEPT ![c] = "ended"] /\ open' = Shut({c})
       ELSE task' = [task EXCEPT ![c] = "handshake"] /\ UNCHANGED open
    /\ ServerFrame /\ UNCHANGED <<table, recent, frame, notice, told, spent, owed>>

\* The handshake's end: refused while draining or off the allowlist. It may also
\* fail or time out.
Handshake(c) ==
    /\ task[c] = "handshake"
    /\ \/ /\ open[c] /\ ~draining /\ IdOf[c] \in AllowList
          /\ task' = [task EXCEPT ![c] = "register"] /\ UNCHANGED open
       \/ task' = [task EXCEPT ![c] = "ended"] /\ open' = Shut({c})
    /\ ServerFrame /\ UNCHANGED <<table, recent, frame, notice, told, spent, owed>>

\* The control stream, Register and the acknowledgement share one timeout.
Register(c) ==
    /\ task[c] = "register"
    /\ \/ /\ open[c]
          /\ task' = [task EXCEPT ![c] = "acked"] /\ UNCHANGED open
       \/ task' = [task EXCEPT ![c] = "ended"] /\ open' = Shut({c})
    /\ ServerFrame /\ UNCHANGED <<table, recent, frame, notice, told, spent, owed>>

Refuse(c) ==
    /\ task' = [task EXCEPT ![c] = "ended"] /\ open' = Shut({c})
    /\ UNCHANGED table

Insert(c) ==
    /\ table' = [table EXCEPT ![IdOf[c]] = c]
    /\ open' = Shut({table[IdOf[c]]})
    /\ task' = [task EXCEPT ![c] = "attached"]

\* The slot is inserted under the table's lock, where draining is read again; an
\* older connection of the identity is closed.
Attach(c) == IF draining THEN Refuse(c) ELSE Insert(c)

AttachStep(c) ==
    /\ task[c] = "acked"
    /\ Attach(c)
    /\ ServerFrame /\ UNCHANGED <<recent, frame, notice, told, spent, owed>>

-----------------------------------------------------------------------------
(* forward_loop.                                                             *)

ReadFrame(c, i) ==
    /\ task[c] = "attached" /\ open[c] /\ frame[c] = {} /\ spent.frames < MaxFrames
    /\ frame' = [frame EXCEPT ![c] = {i}]
    /\ spent' = [spent EXCEPT !.frames = @ + 1]
    /\ ServerFrame /\ UNCHANGED <<table, recent, task, open, notice, told, owed>>

\* Only the current slot of the source may forward; an attached destination gets
\* the source in its history, under the same locks.
MayForward(c) == table[IdOf[c]] = c

Record(i, src) == table[i] # 0 /\ Cardinality(recent[i]) < MaxRecent

Route(c) ==
    /\ task[c] = "attached" /\ frame[c] # {}
    /\ LET i == CHOOSE d \in frame[c] : TRUE
           takes == MayForward(c) /\ Record(i, IdOf[c])
       IN  /\ recent' = IF takes THEN [recent EXCEPT ![i] = @ \cup {IdOf[c]}] ELSE recent
           /\ owed' = IF takes /\ i # IdOf[c] THEN [owed EXCEPT ![c] = @ \cup {i}] ELSE owed
    /\ frame' = [frame EXCEPT ![c] = {}]
    /\ ServerFrame /\ UNCHANGED <<table, task, open, notice, told, spent>>

-----------------------------------------------------------------------------
(* detach, remove_registration and the notices.                              *)

Owns(c) == table[IdOf[c]] = c

\* remove_registration: the recipients are the attached sources of the history.
Recipients(c) ==
    IF Owns(c) THEN {table[s] : s \in (recent[IdOf[c]] \cap Attached) \ {IdOf[c]}} ELSE {}

Unlinked(c) ==
    IF Owns(c) THEN [i \in Ids |-> IF i = IdOf[c] THEN {} ELSE recent[i] \ {IdOf[c]}]
    ELSE recent

Unlink(c) ==
    /\ table' = IF Owns(c) THEN [table EXCEPT ![IdOf[c]] = 0] ELSE table
    /\ recent' = Unlinked(c)

\* The client or the network ends a connection.
Lose(c) ==
    /\ open[c]
    /\ open' = Shut({c})
    /\ ServerFrame
    /\ UNCHANGED <<table, recent, task, frame, notice, told, spent, owed>>

\* A closed connection, or a control message that cannot be read or answered,
\* ends the select; the connection is closed and detached.
Detach(c) ==
    /\ task[c] = "attached" /\ frame[c] = {}
    /\ open' = Shut({c})
    /\ Unlink(c)
    /\ notice' = notice \cup {[by |-> c, to |-> t, about |-> IdOf[c]] : t \in Recipients(c)}
    /\ task' = [task EXCEPT ![c] = "notifying"]
    /\ ServerFrame /\ UNCHANGED <<frame, told, spent, owed>>

\* write_notice: written whole, or the recipient's connection is closed.
Written(n) ==
    /\ n \in notice /\ open[n.to]
    /\ notice' = notice \ {n}
    /\ told' = [told EXCEPT ![n.to] = @ \cup {n.about}]
    /\ owed' = [owed EXCEPT ![n.to] = @ \ {n.about}]
    /\ ServerFrame /\ UNCHANGED <<table, recent, task, open, frame, spent>>

\* (GiveUp: a write that times out is only forgotten.)
GiveUp(N) == open
CloseFor(N) == Shut({n.to : n \in N})

Unwritten(n) ==
    /\ n \in notice
    /\ notice' = notice \ {n}
    /\ open' = CloseFor({n})
    /\ ServerFrame /\ UNCHANGED <<table, recent, task, frame, told, spent, owed>>

TaskEnds(c) ==
    /\ task[c] = "notifying" /\ \A n \in notice : n.by # c
    /\ task' = [task EXCEPT ![c] = "ended"]
    /\ ServerFrame /\ UNCHANGED <<table, recent, open, frame, notice, told, spent, owed>>

ConnStep(c) ==
    \/ Admit(c) \/ Handshake(c) \/ Register(c) \/ AttachStep(c) \/ Route(c)
    \/ (~open[c] /\ Detach(c)) \/ TaskEnds(c)
    \/ \E n \in notice : n.by = c /\ (Written(n) \/ Unwritten(n))

-----------------------------------------------------------------------------
(* Shutdown.                                                                 *)

\* State::stop.
StopState ==
    /\ draining' = TRUE
    /\ table' = [i \in Ids |-> 0]
    /\ recent' = [i \in Ids |-> {}]

Unattached == Shut({table[i] : i \in Attached})
NoConnOpen == [c \in RelayConns |-> FALSE]
ByRunner == {n \in notice : n.by = Runner}

\* Relay::drain and Relay::close; a Stop is never taken back.
AskDrain ==
    /\ joiner["drain"] = "idle"
    /\ joiner' = [joiner EXCEPT !["drain"] = "waiting"]
    /\ draining' = TRUE
    /\ phase' = IF phase = "running" THEN "drain" ELSE phase
    /\ UNCHANGED <<table, recent, seen, loop, task, open, frame, notice, told, spent, owed>>

AskClose ==
    /\ joiner["close"] = "idle"
    /\ joiner' = [joiner EXCEPT !["close"] = "waiting"]
    /\ open' = Unattached
    /\ StopState
    /\ phase' = "stop"
    /\ UNCHANGED <<seen, loop, task, frame, notice, told, spent, owed>>

\* The caller is canceled; the runner goes on.
Cancel(j) ==
    /\ joiner[j] = "waiting"
    /\ joiner' = [joiner EXCEPT ![j] = "canceled"]
    /\ UNCHANGED <<table, recent, draining, phase, seen, loop, task, open, frame, notice,
                   told, spent, owed>>

\* The runner sees the watch change: Stop leaves the loop, Drain takes the
\* snapshot of everybody attached and starts telling them.
Sees ==
    /\ loop \in {"accept", "grace"} /\ phase # seen
    /\ seen' = phase
    /\ IF phase = "stop"
       THEN loop' = "stop" /\ UNCHANGED notice
       ELSE /\ loop' = "grace"
            /\ notice' = notice \cup {[by |-> Runner, to |-> table[i], about |-> "drain"] :
                                        i \in Attached}
    /\ UNCHANGED <<table, recent, draining, phase, task, open, frame, told, joiner, spent, owed>>

GraceEnds ==
    /\ loop = "grace" /\ phase = seen
    /\ loop' = "stop"
    /\ UNCHANGED <<table, recent, draining, phase, seen, task, open, frame, notice, told,
                   joiner, spent, owed>>

\* After the loop: the drain's writers are dropped, the state is stopped and the
\* endpoint closed, which closes every connection.
StopRunner ==
    /\ loop = "stop"
    /\ loop' = "join"
    /\ notice' = notice \ ByRunner
    /\ StopState
    /\ open' = NoConnOpen
    /\ UNCHANGED <<phase, seen, task, frame, told, joiner, spent, owed>>

AllJoined == \A c \in RelayConns : ~Live(c)

RunnerEnds ==
    /\ loop = "join" /\ AllJoined
    /\ loop' = "ended"
    /\ StopState
    /\ UNCHANGED <<phase, seen, task, open, frame, notice, told, joiner, spent, owed>>

\* A panic of the runner drops the drain's writers, each closing its connection.
RunnerFails ==
    /\ loop \in {"accept", "grace", "stop"} /\ spent.failures < MaxFailures
    /\ loop' = "failed"
    /\ spent' = [spent EXCEPT !.failures = @ + 1]
    /\ open' = CloseFor(ByRunner)
    /\ notice' = notice \ ByRunner
    /\ UNCHANGED <<table, recent, draining, phase, seen, task, frame, told, joiner, owed>>

\* join_runner once the runner is over: stop and close again, then the children.
JoinRunner(j) ==
    /\ joiner' = [joiner EXCEPT ![j] = "finishing"]
    /\ StopState
    /\ open' = NoConnOpen

JoinStep(j) ==
    /\ joiner[j] = "waiting" /\ loop \in {"ended", "failed"}
    /\ JoinRunner(j)
    /\ UNCHANGED <<phase, seen, loop, task, frame, notice, told, spent, owed>>

Return(j) ==
    /\ joiner[j] = "finishing" /\ AllJoined
    /\ joiner' = [joiner EXCEPT ![j] = "returned"]
    /\ StopState
    /\ UNCHANGED <<phase, seen, loop, task, open, frame, notice, told, spent, owed>>

\* finish_connections' timeout aborts a task: its guards unlink its registration,
\* close its connection and those it was writing notices to.
Abort(c) ==
    /\ Live(c) /\ (loop = "join" \/ \E j \in Callers : joiner[j] = "finishing")
    /\ Unlink(c)
    /\ open' = Shut({c} \cup {n.to : n \in {m \in notice : m.by = c}})
    /\ notice' = {n \in notice : n.by # c}
    /\ frame' = [frame EXCEPT ![c] = {}]
    /\ task' = [task EXCEPT ![c] = "ended"]
    /\ UNCHANGED <<draining, phase, seen, loop, told, joiner, spent, owed>>

RunnerStep ==
    \/ Sees \/ GraceEnds \/ StopRunner \/ RunnerEnds
    \/ \E n \in notice : n.by = Runner /\ (Written(n) \/ Unwritten(n))

RelayNext ==
    \/ \E c \in RelayConns : Dial(c) \/ ConnStep(c) \/ Detach(c) \/ Lose(c) \/ Abort(c)
    \/ \E c \in RelayConns, i \in Ids : ReadFrame(c, i)
    \/ AskDrain \/ AskClose \/ RunnerStep \/ RunnerFails
    \/ \E j \in Callers : Cancel(j) \/ JoinStep(j) \/ Return(j)

RelaySpec == RelayInit /\ [][RelayNext]_relayVars

-----------------------------------------------------------------------------
(* Properties.                                                               *)

RelayTypeOK ==
    /\ table \in [Ids -> RelayConns \cup {0}]
    /\ recent \in [Ids -> SUBSET Ids]
    /\ loop \in {"accept", "grace", "stop", "join", "ended", "failed"}
    /\ open \in [RelayConns -> BOOLEAN]

Stopped == phase = "stop" \/ loop \notin {"accept", "grace"}

\* A source that forwarded to a destination and is still attached is told when
\* the destination departs, whatever replaced whom in between: it was told, or
\* the notice is being written (recent, remove_registration, write_notice).
GoneIsTold ==
    ~Stopped =>
        \A c \in RelayConns, i \in Ids :
            (i \in owed[c] /\ table[IdOf[c]] = c /\ open[c] /\ table[i] = 0) =>
                \E n \in notice : n.to = c /\ n.about = i

\* An attachment that is open is the one its identity is reached by: the cleanup
\* of an older connection never evicts its successor, and a replaced one is
\* closed (detach, Registration::drop).
NewestServed ==
    ~Stopped => \A c \in RelayConns : (task[c] = "attached" /\ open[c]) => table[IdOf[c]] = c

\* Everybody attached during the grace of a drain was told to migrate, or is
\* being told: no registration slips in behind the snapshot.
DrainReachesAll ==
    (loop = "grace" /\ ~Stopped) =>
        \A i \in Attached :
            open[table[i]] =>
                \/ "drain" \in told[table[i]]
                \/ \E n \in notice : n.to = table[i] /\ n.about = "drain"

\* Nothing of the server is left when drain or close returns, even when the
\* runner failed before its own cleanup.
ReturnedIsQuiet ==
    (\E j \in Callers : joiner[j] = "returned") =>
        /\ AllJoined /\ Attached = {}
        /\ \A c \in RelayConns : task[c] # "dialled" => ~open[c]

\* The history names attached identities only: it cannot grow with those that
\* came and went.
HistoryOwned ==
    \A i \in Ids : recent[i] # {} => i \in Attached /\ recent[i] \subseteq Attached

=============================================================================
