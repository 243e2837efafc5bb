---------------------------- MODULE LocalManager ------------------------------
(***************************************************************************)
(* The agent's manager of outgoing sessions and its keyless local clients  *)
(* (rds-client/src/local).  Every request has a socket and a worker of its *)
(* own; the workers share one table of sessions.  A new connection, and a  *)
(* renewal of its grant, is reserved in the table first and is committed   *)
(* only when the client was told; until then dropping the worker undoes it *)
(* (Reservation, DialGuard, Authorization).                                *)
(*                                                                         *)
(* A session has one connection, which the model names by the session.     *)
(***************************************************************************)
EXTENDS Integers, FiniteSets, Functions, FiniteSetsExt, TLC, Naturals

CONSTANTS
    Clients,      \* local processes; each waits for one answer at a time
    Workers,      \* MAX_WORKERS
    Peers,
    Creds,        \* credentials; 0 is no grant
    MaxSessions,
    MaxStreams,
    MaxTransfers,
    MaxRequests   \* bound: requests ever made

VARIABLES
    entries,   \* State.entries: id -> [peer, cred, renewing, conn, ready]
    selected,  \* State.selected
    server,    \* "running", "sealed" (State.stopped) or "closed"
    open,      \* connections that are not closed
    issued,    \* session ids drawn so far
    workers,   \* worker -> the request it serves
    requested,
    spurious   \* a client met its own answered request as "busy"

tableVars == <<entries, selected, open>>
managerVars == <<entries, selected, server, open, issued, workers, requested, spurious>>

Nobody == 0
Idle ==
    [phase |-> "idle", client |-> CHOOSE c \in Clients : TRUE, gone |-> FALSE, kind |-> "select",
     id |-> Nobody, peer |-> CHOOSE p \in Peers : TRUE, cred |-> 0,
     guard |-> FALSE, reserved |-> FALSE, held |-> FALSE]
Sealed == server # "running"

ManagerInit ==
    /\ entries = <<>> /\ selected = Nobody /\ server = "running"
    /\ open = {} /\ issued = 0 /\ requested = 0 /\ spurious = FALSE
    /\ workers = [w \in Workers |-> Idle]

(***************************************************************************)
(* The table, as a value [e, sel, open]                                    *)
(***************************************************************************)
Table == [e |-> entries, sel |-> selected, open |-> open]
Becomes(t) == entries' = t.e /\ selected' = t.sel /\ open' = t.open

\* State::remove: the entry's drop closes its connection.
Remove(t, ids) ==
    [e |-> Restrict(t.e, DOMAIN t.e \ ids),
     sel |-> IF t.sel \in ids THEN Nobody ELSE t.sel,
     open |-> t.open \ {i \in ids \cap DOMAIN t.e : t.e[i].conn}]

\* lock: what it finds, closed connections pruned.  A sealed table is empty,
\* and each use of it fails as for a session that is not found.
Locked == Remove(Table, {i \in DOMAIN entries : entries[i].conn /\ i \notin open})

\* Dropping the future of request r before its commit, as a bug would write it:
\* the connection that is not in the table yet stays open.
UnwindEntry(t, r) == IF r.reserved THEN Remove(t, {r.id}) ELSE t

\* Dropping the future of request r before its commit.
Unwind(t, r) ==
    LET closed == IF r.guard THEN [t EXCEPT !.open = @ \ {r.id}] ELSE t
    IN  IF r.reserved THEN Remove(closed, {r.id}) ELSE closed

Now(w, r) == workers' = [workers EXCEPT ![w] = r]
Goes(w, phase) == Now(w, [workers[w] EXCEPT !.phase = phase])

\* The request ends with an answer that leaves nothing to be done.
Ends(t, w) == Becomes(t) /\ Now(w, Idle) /\ UNCHANGED spurious
Drops(t, w) == Ends(Unwind(t, workers[w]), w)

\* ErrorCode::Busy because of session i.  Its reservation must not be one that
\* was answered to the same client already.
Busy(t, w, r, i) ==
    /\ Becomes(t) /\ Now(w, Idle)
    /\ spurious' = (spurious \/ (~r.gone /\ \A v \in Workers :
         (workers[v].reserved /\ workers[v].id = i) => (workers[v].client = r.client /\ ~workers[v].gone)))

\* State::connection
Usable(t, i) == i \in DOMAIN t.e /\ t.e[i].ready /\ t.e[i].conn

\* Workers that hold a stream permit, or a transfer's; and the entry's own slot.
Holding(kind) == {w \in Workers : workers[w].held /\ workers[w].kind = kind}
SlotTaken(i) == \E w \in Holding("sync") : workers[w].id = i

(***************************************************************************)
(* Connecting                                                              *)
(***************************************************************************)
\* existing_in: the peer has a session; it is reused, awaited or refused.
Existing(t, w, r) ==
    \E i \in {i \in DOMAIN t.e : t.e[i].peer = r.peer} :
        IF t.e[i].renewing THEN Busy(t, w, r, i)
        ELSE IF t.e[i].cred # r.cred \/ Usable(t, i) THEN Ends(t, w)
        ELSE /\ Becomes(t) /\ UNCHANGED spurious
             /\ Now(w, [Idle EXCEPT !.phase = "wait", !.client = r.client, !.gone = r.gone, !.id = i])
Unknown(t, r) == \A i \in DOMAIN t.e : t.e[i].peer # r.peer

\* Only a pinned target is looked up before the resolution, and a preferred
\* one is reserved before it.
BeginConnect(w, r) ==
    IF r.kind = "named"
    THEN Becomes(Table) /\ Now(w, [r EXCEPT !.phase = "resolve", !.kind = "select"]) /\ UNCHANGED spurious
    ELSE \E t \in {Locked} :
           \/ Existing(t, w, r)
           \/ /\ Unknown(t, r) /\ Becomes(t) /\ UNCHANGED spurious
              /\ Now(w, [r EXCEPT !.phase = IF r.kind = "pinned" THEN "resolve" ELSE "reserve", !.kind = "select"])

Resolve(w) ==
    /\ workers[w].phase = "resolve"
    /\ \/ UNCHANGED <<tableVars, spurious>> /\ Goes(w, "reserve")
       \/ Drops(Table, w)
    /\ UNCHANGED <<issued, server, requested>>

\* A fresh entry, still without a connection.
Insert(t, w) ==
    LET r == workers[w]
        entry == [peer |-> r.peer, cred |-> r.cred, renewing |-> FALSE, conn |-> FALSE, ready |-> FALSE]
    IN  /\ issued' = issued + 1 /\ UNCHANGED spurious
        /\ Becomes([t EXCEPT !.e = @ @@ (issued + 1 :> entry)])
        /\ Now(w, [Idle EXCEPT !.phase = "dial", !.client = r.client, !.gone = r.gone,
                               !.id = issued + 1, !.reserved = TRUE])

Reserve(w) ==
    /\ workers[w].phase = "reserve"
    /\ \E t \in {Locked} :
         \/ Existing(t, w, workers[w]) /\ UNCHANGED issued
         \/ /\ Unknown(t, workers[w])
            /\ IF Sealed \/ Cardinality(DOMAIN t.e) >= MaxSessions
               THEN Ends(t, w) /\ UNCHANGED issued
               ELSE Insert(t, w)
    /\ UNCHANGED <<server, requested>>

Cancelled(w) == workers[w].id \notin DOMAIN entries

\* The dial ends; a reservation that was cancelled wins.
Dial(w) ==
    /\ workers[w].phase = "dial"
    /\ \/ /\ ~Cancelled(w)
          /\ Becomes([Table EXCEPT !.open = @ \cup {workers[w].id}]) /\ UNCHANGED spurious
          /\ Now(w, [workers[w] EXCEPT !.phase = "admit", !.guard = TRUE])
       \/ Drops(Table, w)
    /\ UNCHANGED <<issued, server, requested>>

\* The peer admits the connection: authorize_connection, or a ping.
Admit(w) ==
    /\ workers[w].phase = "admit"
    /\ \/ ~Cancelled(w) /\ workers[w].id \in open /\ UNCHANGED <<tableVars, spurious>> /\ Goes(w, "install")
       \/ Drops(Table, w)
    /\ UNCHANGED <<issued, server, requested>>

\* The table takes the connection over from the guard.
Install(w) ==
    LET i == workers[w].id
    IN  /\ workers[w].phase = "install"
        /\ \E t \in {Locked} :
             IF i \notin DOMAIN t.e THEN Drops(t, w)
             ELSE /\ Becomes([t EXCEPT !.e = [@ EXCEPT ![i].conn = TRUE],
                                       !.sel = IF @ = Nobody THEN i ELSE @])
                  /\ Now(w, [workers[w] EXCEPT !.phase = "reply", !.guard = FALSE]) /\ UNCHANGED spurious
        /\ UNCHANGED <<issued, server, requested>>

\* Pending::wait: the other worker's commit, or the end of its entry.
Wait(w) ==
    /\ workers[w].phase = "wait"
    /\ (~Cancelled(w) => entries[workers[w].id].ready)
    /\ Ends(Locked, w)
    /\ UNCHANGED <<issued, server, requested>>

(***************************************************************************)
(* The other commands                                                      *)
(***************************************************************************)
BeginRenew(w, r) ==
    \E t \in {Locked} :
        IF r.id \notin DOMAIN t.e THEN Ends(t, w)
        ELSE IF ~t.e[r.id].ready \/ t.e[r.id].renewing THEN Busy(t, w, r, r.id)
        ELSE IF t.e[r.id].cred = 0 THEN Ends(t, w)
        ELSE /\ Becomes([t EXCEPT !.e = [@ EXCEPT ![r.id].renewing = TRUE]]) /\ UNCHANGED spurious
             /\ Now(w, [r EXCEPT !.phase = "renewing", !.reserved = TRUE])

\* The peer's answer to renew_authorization; a failure closes the connection.
Renewed(w) ==
    LET i == workers[w].id
    IN  /\ workers[w].phase = "renewing"
        /\ \/ Drops([Table EXCEPT !.open = @ \ {i}], w)
           \/ /\ ~Cancelled(w) /\ i \in open /\ UNCHANGED spurious
              /\ Becomes([Locked EXCEPT !.e = [@ EXCEPT ![i].cred = workers[w].cred]])
              /\ Now(w, [workers[w] EXCEPT !.phase = "reply", !.cred = 0])
        /\ UNCHANGED <<issued, server, requested>>

Select(w, r) ==
    \E t \in {Locked} : Ends(IF Usable(t, r.id) THEN [t EXCEPT !.sel = r.id] ELSE t, w)
Disconnect(w, r) == Ends(Remove(Locked, {r.id}), w)

\* Ping, Info, OpenTcp and Desktop ("stream") and Sync: a permit, then the
\* connection; the transfers of one session exclude each other.
BeginRemote(w, r) ==
    \E t \in {Locked} : \E i \in {IF r.id = Nobody THEN t.sel ELSE r.id} :
        IF Cardinality(Holding(r.kind)) >= (IF r.kind = "sync" THEN MaxTransfers ELSE MaxStreams)
        THEN Ends(Table, w)
        ELSE IF i \in DOMAIN t.e /\ ~Usable(t, i) THEN Busy(t, w, r, i)
        ELSE IF i \notin DOMAIN t.e \/ (r.kind = "sync" /\ SlotTaken(i)) THEN Ends(t, w)
        ELSE /\ Becomes(t) /\ UNCHANGED spurious
             /\ Now(w, [r EXCEPT !.phase = "remote", !.id = i, !.held = TRUE])

Remote(w) ==
    /\ workers[w].phase = "remote"
    /\ \/ workers[w].id \in open /\ UNCHANGED <<tableVars, spurious>> /\ workers[w].kind = "stream" /\ Goes(w, "reply")
       \/ Drops(Table, w)
    /\ UNCHANGED <<issued, server, requested>>

(***************************************************************************)
(* Clients, the accept loop and serve                                      *)
(***************************************************************************)

\* Client::exchange: the next request waits for the end of the stream.
Free(c) == \A w \in Workers : (workers[w].client = c /\ ~workers[w].gone) => workers[w].phase = "idle"

\* run accepts while a worker is left; execute starts the command.
Request(r) ==
    /\ requested' = requested + 1 /\ UNCHANGED <<issued, server>>
    /\ \E w \in {Min({w \in Workers : workers[w] = Idle})} :
         CASE r.kind \in {"named", "pinned", "preferred"} -> BeginConnect(w, r)
           [] r.kind = "renew" -> BeginRenew(w, [r EXCEPT !.kind = "select"])
           [] r.kind = "select" -> Select(w, r)
           [] r.kind = "disconnect" -> Disconnect(w, r)
           [] r.kind \in {"stream", "sync"} -> BeginRemote(w, r)

Asks(c) ==
    LET r == [Idle EXCEPT !.client = c]
    IN  /\ server = "running" /\ requested < MaxRequests /\ Free(c)
        /\ \E w \in Workers : workers[w] = Idle
        /\ \/ \E k \in {"named", "pinned", "preferred"}, p \in Peers, g \in Creds :
                 Request([r EXCEPT !.kind = k, !.peer = p, !.cred = g])
           \/ \E i \in 1..issued, g \in Creds \ {0} :
                 Request([r EXCEPT !.kind = "renew", !.id = i, !.cred = g])
           \/ \E k \in {"select", "disconnect", "stream", "sync"}, i \in 1..issued :
                 Request([r EXCEPT !.kind = k, !.id = i])
           \/ Request([r EXCEPT !.kind = "stream"])

\* The client is dropped or gives up; its socket ends.
Leaves(w) ==
    /\ workers[w].phase \notin {"idle", "body"} /\ ~workers[w].gone
    /\ Now(w, [workers[w] EXCEPT !.gone = TRUE, !.client = Idle.client])
    /\ UNCHANGED <<tableVars, issued, server, requested, spurious>>

\* The end of the caller's socket, and the deadline of the operation.
Abandon(w) ==
    /\ workers[w].phase \notin {"idle", "reply", "commit", "body"}
    /\ Drops(Table, w)
    /\ UNCHANGED <<issued, server, requested>>

\* The write of the reply may fail, or succeed though nobody reads it.
Reply(w) ==
    /\ workers[w].phase = "reply"
    /\ \/ Drops(Table, w)
       \/ /\ Goes(w, IF workers[w].reserved THEN "commit" ELSE "body")
          /\ UNCHANGED <<tableVars, spurious>>
    /\ UNCHANGED <<issued, server, requested>>

\* Reservation::commit: the session is ready and no longer renewing.
Commit(w) ==
    LET i == workers[w].id
    IN  /\ workers[w].phase = "commit"
        /\ \E t \in {Locked} :
             IF i \notin DOMAIN t.e THEN Drops(t, w)
             ELSE Ends([t EXCEPT !.e = [@ EXCEPT ![i].renewing = FALSE, ![i].ready = TRUE]], w)
        /\ UNCHANGED <<issued, server, requested>>

\* A forwarded stream or a desktop ends with its caller or its peer.
BodyEnds(w) ==
    /\ workers[w].phase = "body" /\ Drops(Table, w)
    /\ UNCHANGED <<issued, server, requested>>

(***************************************************************************)
(* Peers and the end of the manager                                        *)
(***************************************************************************)
PeerCloses(i) ==
    /\ i \in open /\ open' = open \ {i}
    /\ UNCHANGED <<entries, selected, issued, workers, server, requested, spurious>>

\* run breaks its loop and drops the owner, which seals and clears the table.
Stop ==
    /\ server = "running" /\ server' = "sealed"
    /\ Becomes(Remove(Table, DOMAIN entries))
    /\ UNCHANGED <<issued, workers, requested, spurious>>

\* workers.shutdown: the workers that did not end are aborted, and joined.
Shutdown ==
    /\ server = "sealed"
    /\ \/ /\ \E w \in Workers : workers[w] # Idle /\ Drops(Table, w)
          /\ UNCHANGED server
       \/ /\ \A w \in Workers : workers[w] = Idle
          /\ server' = "closed"
          /\ UNCHANGED <<tableVars, workers, spurious>>
    /\ UNCHANGED <<issued, requested>>

Progress(w) ==
    \/ Resolve(w) \/ Reserve(w) \/ Dial(w) \/ Admit(w) \/ Install(w) \/ Wait(w)
    \/ Renewed(w) \/ Remote(w) \/ Reply(w) \/ Commit(w)

ManagerNext ==
    \/ \E c \in Clients : Asks(c)
    \/ \E w \in Workers : Progress(w) \/ Leaves(w) \/ Abandon(w) \/ BodyEnds(w)
    \/ \E i \in open : PeerCloses(i)
    \/ Stop \/ Shutdown

\* Every wait of a worker but the one for another worker's commit has a
\* deadline of its own.
ManagerFairness == WF_managerVars(Shutdown) /\ \A w \in Workers : WF_managerVars(Progress(w))
ManagerSpec == ManagerInit /\ [][ManagerNext]_managerVars /\ ManagerFairness

(***************************************************************************)
(* Properties                                                              *)
(***************************************************************************)
\* Every connection that is open belongs to a session of the table or to the
\* worker that dials it, whoever left, timed out, was disconnected or aborted
\* (Reservation, DialGuard and Entry drops); a closed manager has none.
NoOrphanConnection ==
    /\ \A i \in open : \/ i \in DOMAIN entries /\ entries[i].conn
                       \/ \E w \in Workers : workers[w].guard /\ workers[w].id = i
    /\ server = "closed" => open = {}

\* Monitor windows that connect to one computer share one session: no two
\* sessions lead to the same peer, although the resolution of its name runs
\* between the look and the reservation (existing, reserve).
OneSessionPerPeer ==
    \A i, j \in DOMAIN entries : entries[i].peer = entries[j].peer => i = j

\* A client that was answered never finds its own session still reserved: it is
\* told "busy" only because of another client, or of a request it gave up
\* (exchange: the end of the stream is the commit barrier).
OwnSessionNeverBusy == ~spurious

\* A request that waits for another one's dial ends when that dial does, even
\* without its own deadline (Pending::wait).
WaitersFollow == \A w \in Workers : []<>(workers[w].phase # "wait")

-----------------------------------------------------------------------------
(***************************************************************************)
(* The ownership of a manager's control socket                             *)
(* (rds-client/src/local/socket.rs).  Servers that share a directory       *)
(* exclude each other by a lock on it, which the kernel drops when its     *)
(* holder dies; the name of the socket outlives its server, and the next   *)
(* one removes it after a connection to it was refused.                    *)
(***************************************************************************)

CONSTANTS
    Servers,   \* processes that may start a manager
    MaxStarts  \* bound: starts, so sockets ever bound

VARIABLES
    lock,      \* {} or {the server that holds the directory}
    name,      \* the inode that control.sock names, 0 when there is none
    private,   \* the name has mode 0600
    listening, \* inodes that a live process listens on
    sockServer,    \* server -> [at, old, inode]
    starts,
    reached    \* a client's connection: [inode, at]: "no", "checked", "open"

socketVars == <<lock, name, private, listening, sockServer, starts, reached>>
SockNone == 0
Down == [at |-> "down", old |-> SockNone, inode |-> SockNone]

SocketInit ==
    /\ lock = {} /\ name = SockNone /\ private = FALSE /\ starts = 0
    /\ listening = {} /\ sockServer = [s \in Servers |-> Down]
    /\ reached = [at |-> "no", inode |-> SockNone]

At(s, r) == sockServer' = [sockServer EXCEPT ![s] = r]
Listens(i) == i \in listening

(***************************************************************************)
(* SocketOwner::bind                                                       *)
(***************************************************************************)
Start(s) ==
    /\ sockServer[s].at = "down" /\ starts < MaxStarts /\ starts' = starts + 1
    /\ IF lock = {} THEN lock' = {s} /\ At(s, [Down EXCEPT !.at = "locked"])
       ELSE UNCHANGED <<lock, sockServer>>
    /\ UNCHANGED <<name, private, listening, reached>>

Look(s) ==
    /\ sockServer[s].at = "locked"
    /\ At(s, [sockServer[s] EXCEPT !.at = IF name = SockNone THEN "bind" ELSE "probe", !.old = name])
    /\ UNCHANGED <<lock, name, private, listening, starts, reached>>

\* A listener that answers is not ours to unlink, nor one that vanished.
Probe(s) ==
    /\ sockServer[s].at = "probe"
    /\ IF name = sockServer[s].old /\ ~Listens(name)
       THEN At(s, [sockServer[s] EXCEPT !.at = "unlink"]) /\ UNCHANGED lock
       ELSE At(s, Down) /\ lock' = {}
    /\ UNCHANGED <<name, private, listening, starts, reached>>

RemoveStale(s) ==
    /\ sockServer[s].at = "unlink"
    /\ name' = SockNone /\ private' = FALSE
    /\ At(s, [sockServer[s] EXCEPT !.at = "bind", !.old = SockNone])
    /\ UNCHANGED <<lock, listening, starts, reached>>

\* bind(2) fails on a name that exists; a fresh inode otherwise.
Bind(s) ==
    /\ sockServer[s].at = "bind"
    /\ IF name # SockNone THEN At(s, Down) /\ lock' = {} /\ UNCHANGED <<name, listening>>
       ELSE /\ name' = starts /\ listening' = listening \cup {starts}
            /\ At(s, [sockServer[s] EXCEPT !.at = "bound", !.inode = starts]) /\ UNCHANGED lock
    /\ UNCHANGED <<private, starts, reached>>

Restrict600(s) ==
    /\ sockServer[s].at = "bound"
    /\ private' = TRUE /\ At(s, [sockServer[s] EXCEPT !.at = "serving"])
    /\ UNCHANGED <<lock, name, listening, starts, reached>>

(***************************************************************************)
(* The end of a server                                                     *)
(***************************************************************************)
\* The owner's drop: the listener may be gone before it or not.
Close(s) ==
    /\ sockServer[s].at \in {"bound", "serving"}
    /\ listening' = listening \ {sockServer[s].inode}
    /\ At(s, [sockServer[s] EXCEPT !.at = "check"])
    /\ UNCHANGED <<lock, name, private, starts, reached>>

\* SocketOwner::drop: is the name still ours?
CheckName(s) ==
    /\ sockServer[s].at = "check"
    /\ At(s, [sockServer[s] EXCEPT !.at = IF name = sockServer[s].inode THEN "drop" ELSE "unlock"])
    /\ UNCHANGED <<lock, name, private, listening, starts, reached>>

DropName(s) ==
    /\ sockServer[s].at = "drop"
    /\ name' = SockNone /\ private' = FALSE
    /\ At(s, [sockServer[s] EXCEPT !.at = "unlock"])
    /\ UNCHANGED <<lock, listening, starts, reached>>

Unlock(s) ==
    /\ sockServer[s].at = "unlock" /\ lock' = lock \ {s} /\ At(s, Down)
    /\ UNCHANGED <<name, private, listening, starts, reached>>

\* The process dies: the kernel closes its listener and drops its lock.
Killed(s) ==
    /\ sockServer[s].at # "down"
    /\ listening' = listening \ {sockServer[s].inode} /\ lock' = lock \ {s}
    /\ At(s, Down)
    /\ UNCHANGED <<name, private, starts, reached>>

(***************************************************************************)
(* A client: connect                                                       *)
(***************************************************************************)
ClientChecks ==
    /\ reached.at = "no" /\ name # SockNone /\ private
    /\ reached' = [reached EXCEPT !.at = "checked"]
    /\ UNCHANGED <<lock, name, private, listening, sockServer, starts>>

ClientConnects ==
    /\ reached.at = "checked"
    /\ reached' = IF Listens(name) THEN [at |-> "open", inode |-> name] ELSE [at |-> "no", inode |-> SockNone]
    /\ UNCHANGED <<lock, name, private, listening, sockServer, starts>>

Binds(s) == Start(s) \/ Look(s) \/ Probe(s) \/ RemoveStale(s) \/ Bind(s) \/ Restrict600(s)
SockDrops(s) == Close(s) \/ CheckName(s) \/ DropName(s) \/ Unlock(s) \/ Killed(s)
SocketNext == (\E s \in Servers : Binds(s) \/ SockDrops(s)) \/ ClientChecks \/ ClientConnects
SocketSpec == SocketInit /\ [][SocketNext]_socketVars

\* A server that serves is always reached by its name, and it alone: neither the
\* late drop of its predecessor nor another start takes the name away
\* (SocketOwner::bind and drop under the directory's lock).
ServingIsNamed ==
    \A s \in Servers : sockServer[s].at \in {"bound", "serving"} => name = sockServer[s].inode /\ lock = {s}
=============================================================================
