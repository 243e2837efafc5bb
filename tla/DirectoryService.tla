-------------------------- MODULE DirectoryService ----------------------------
(* The directory's HTTP service (rds-discovery/src/service.rs, service/tasks.rs *)
(* and http.rs): a runner accepts connections and reaps what ended, each        *)
(* connection hands one request to a blocking worker under an absolute timeout, *)
(* expired records are collected by a job of its own, and close joins it all.   *)
(* The stores the jobs work on are modelled elsewhere (FileStore, PolicyStore). *)
EXTENDS Integers, FiniteSets, Naturals

CONSTANTS
    MaxConns, MaxWorkers,   \* Limits of the two task groups
    Closers,                \* callers of close and wait_stopped
    MaxPanics               \* bound on failures of the runner

VARIABLES
    conn,      \* the connection tasks
    job,       \* the blocking jobs: connections' requests
    maint,     \* the collection job
    sealed,    \* the groups that were sealed
    stop,      \* the shutdown watch
    due,       \* the maintenance tick has elapsed
    runner,    \* where the runner's task is
    closer,    \* the callers
    holder,    \* who holds the runner mutex (0: nobody)
    handle,    \* whether the mutex still holds the runner's join handle
    outcome    \* what the runner's handle returned

dirVars == <<conn, job, maint, sealed, stop, due, runner, closer, holder, handle,
             outcome>>

Slots == 1 .. MaxConns
Workers == 1 .. MaxWorkers
Groups == {"connections", "workers", "maintenance"}

NoConn == [st |-> "none", reply |-> "none"]
NoJob == [st |-> "none", for |-> 0]
NoCloser == [st |-> "idle", closing |-> FALSE, result |-> "none"]

DirInit ==
    /\ conn = [s \in Slots |-> NoConn]
    /\ job = [w \in Workers |-> NoJob]
    /\ maint = "none"
    /\ sealed = {}
    /\ stop = FALSE
    /\ due = TRUE
    /\ runner = "loop"
    /\ closer = [c \in Closers |-> NoCloser]
    /\ holder = 0
    /\ handle = TRUE
    /\ outcome = "none"

-----------------------------------------------------------------------------
(* TaskGroup.                                                                *)

\* TaskGroup::admit reaps what finished before it counts the tasks.
Reaped(jobs) == [w \in DOMAIN jobs |-> IF jobs[w].st = "finished" THEN NoJob ELSE jobs[w]]
ReapedConns == [s \in Slots |-> IF conn[s].st = "done" THEN NoConn ELSE conn[s]]

FreeJob(jobs) == {w \in Workers : jobs[w] = NoJob}
FreeSlot(conns) == {s \in Slots : conns[s] = NoConn}
Least(S) == CHOOSE n \in S : \A m \in S : n <= m

\* abort_all: a blocking job that has not started ends without an answer; an
\* asynchronous task is dropped at its next await (ConnEnds).
AbortedJobs ==
    [w \in Workers |-> IF job[w].st = "queued" THEN [NoJob EXCEPT !.st = "finished"] ELSE job[w]]
Unanswered(conns) ==
    [s \in Slots |-> IF \E w \in Workers : job[w].st = "queued" /\ job[w].for = s
                     THEN [conns[s] EXCEPT !.reply = "ended"] ELSE conns[s]]

\* TaskGroup::seal of each group.
SealConnections ==
    /\ sealed' = sealed \cup {"connections"}
    /\ UNCHANGED <<conn, job, maint>>

SealWorkers ==
    /\ sealed' = sealed \cup {"workers"}
    /\ job' = AbortedJobs
    /\ conn' = Unanswered(conn)
    /\ UNCHANGED maint

SealMaintenance ==
    /\ sealed' = sealed \cup {"maintenance"}
    /\ maint' = IF maint = "queued" THEN "finished" ELSE maint
    /\ UNCHANGED <<conn, job>>

-----------------------------------------------------------------------------
(* The connection task: serve_request under conn_timeout.                    *)

Live(s) == conn[s].st \in {"reading", "waiting", "replying"}
ConnFrame == UNCHANGED <<maint, sealed, stop, due, runner, closer, holder, handle, outcome>>

\* read_request: a clean idle close ends the task; what cannot be read is
\* answered with 400 or 413.
ReadNothing(s) ==
    /\ conn[s].st = "reading"
    /\ conn' = [conn EXCEPT ![s].st = "done"]
    /\ ConnFrame /\ UNCHANGED job

ReadMalformed(s) ==
    /\ conn[s].st = "reading"
    /\ conn' = [conn EXCEPT ![s].st = "replying"]
    /\ ConnFrame /\ UNCHANGED job

\* A whole request was read: TaskGroup::request, or 429.
Dispatch(s) ==
    /\ conn[s].st = "reading"
    /\ LET jobs == Reaped(job)
       IN  IF "workers" \in sealed \/ FreeJob(jobs) = {}
           THEN /\ job' = jobs
                /\ conn' = [conn EXCEPT ![s].st = "replying"]
           ELSE /\ job' = [jobs EXCEPT ![Least(FreeJob(jobs))] = [st |-> "queued", for |-> s]]
                /\ conn' = [conn EXCEPT ![s].st = "waiting"]
    /\ ConnFrame

\* The oneshot answers, or 500 when the worker ended without a response.
Answered(s) ==
    /\ conn[s].st = "waiting" /\ conn[s].reply # "none"
    /\ conn' = [conn EXCEPT ![s].st = "replying", ![s].reply = "none"]
    /\ ConnFrame /\ UNCHANGED job

\* write_response and shutdown.
Replied(s) ==
    /\ conn[s].st = "replying"
    /\ conn' = [conn EXCEPT ![s].st = "done"]
    /\ ConnFrame /\ UNCHANGED job

\* The receiver of the answer goes away with the task, its job runs on.
Detached(s) == [w \in Workers |-> IF job[w].for = s THEN [job[w] EXCEPT !.for = 0] ELSE job[w]]

\* The absolute timeout, or the abort of a sealed group.
ConnEnds(s) ==
    /\ Live(s)
    /\ conn' = [conn EXCEPT ![s] = [NoConn EXCEPT !.st = "done"]]
    /\ job' = Detached(s)
    /\ ConnFrame

ConnStep(s) ==
    \/ ReadNothing(s) \/ ReadMalformed(s) \/ Dispatch(s)
    \/ Answered(s) \/ Replied(s) \/ ConnEnds(s)

-----------------------------------------------------------------------------
(* The blocking jobs: route, and collect_expired.                            *)

JobFrame == UNCHANGED <<sealed, stop, due, runner, closer, holder, handle, outcome>>

JobStarts(w) ==
    /\ job[w].st = "queued"
    /\ job' = [job EXCEPT ![w].st = "running"]
    /\ JobFrame /\ UNCHANGED <<conn, maint>>

\* The job sends its response, or panics and drops the sender.
JobEnds(w, answer) ==
    /\ job[w].st = "running"
    /\ job' = [job EXCEPT ![w] = [NoJob EXCEPT !.st = "finished"]]
    /\ conn' = IF job[w].for = 0 THEN conn ELSE [conn EXCEPT ![job[w].for].reply = answer]
    /\ JobFrame /\ UNCHANGED maint

MaintStarts ==
    /\ maint = "queued" /\ maint' = "running"
    /\ JobFrame /\ UNCHANGED <<conn, job>>

MaintEnds ==
    /\ maint = "running" /\ maint' = "finished"
    /\ JobFrame /\ UNCHANGED <<conn, job>>

-----------------------------------------------------------------------------
(* The runner: a biased select, so that an arm waits for those above it.     *)

RunnerFrame == UNCHANGED <<stop, closer, holder, handle, outcome>>

ConnReady == \E s \in Slots : conn[s].st = "done"
JobReady == \E w \in Workers : job[w].st = "finished"
MaintReady == maint = "finished"
TickReady == due /\ maint = "none"

ReapConn ==
    /\ runner = "loop" /\ ~stop /\ ConnReady
    /\ \E s \in Slots : conn[s].st = "done" /\ conn' = [conn EXCEPT ![s] = NoConn]
    /\ UNCHANGED <<job, maint, sealed, due, runner>>

ReapJob ==
    /\ runner = "loop" /\ ~stop /\ ~ConnReady
    /\ \E w \in Workers : job[w].st = "finished" /\ job' = [job EXCEPT ![w] = NoJob]
    /\ UNCHANGED <<conn, maint, sealed, due, runner>>

ReapMaint ==
    /\ runner = "loop" /\ ~stop /\ ~ConnReady /\ ~JobReady /\ MaintReady
    /\ maint' = "none"
    /\ UNCHANGED <<conn, job, sealed, due, runner>>

\* The tick of the collection interval: TaskGroup::collect.
Tick ==
    /\ runner = "loop" /\ ~stop /\ ~ConnReady /\ ~JobReady /\ ~MaintReady /\ TickReady
    /\ due' = FALSE
    /\ maint' = IF "maintenance" \in sealed THEN maint ELSE "queued"
    /\ UNCHANGED <<conn, job, sealed, runner>>

AcceptTurn == ~ConnReady /\ ~JobReady /\ ~MaintReady /\ ~TickReady

\* accept: the connection is spawned, or dropped when the group is full or sealed.
Accept ==
    /\ runner = "loop" /\ ~stop /\ AcceptTurn
    /\ LET conns == ReapedConns
       IN  IF "connections" \in sealed \/ FreeSlot(conns) = {}
           THEN conn' = conns
           ELSE conn' = [conns EXCEPT ![Least(FreeSlot(conns))] = [NoConn EXCEPT !.st = "reading"]]
    /\ UNCHANGED <<job, maint, sealed, due, runner>>

\* accept fails: the runner pauses, unless it is stopped.
AcceptFails ==
    /\ runner = "loop" /\ ~stop /\ AcceptTurn
    /\ runner' = "pause"
    /\ UNCHANGED <<conn, job, maint, sealed, due>>

PauseEnds ==
    /\ runner = "pause" /\ ~stop
    /\ runner' = "loop"
    /\ UNCHANGED <<conn, job, maint, sealed, due>>

\* The shutdown watch breaks the loop: the listener goes, workers are sealed.
Stopped ==
    /\ runner \in {"loop", "pause"} /\ stop
    /\ runner' = "drainConns"
    /\ SealWorkers
    /\ UNCHANGED due

\* connections.drain(), then the drains of workers and maintenance together.
Joined(conns, jobs, m) ==
    /\ \A s \in Slots : conns[s].st \in {"none", "done"}
    /\ \A w \in Workers : jobs[w].st \in {"none", "finished"}
    /\ m \in {"none", "finished"}

DrainConns ==
    /\ runner = "drainConns"
    /\ \A s \in Slots : conn[s].st \in {"none", "done"}
    /\ conn' = [s \in Slots |-> NoConn]
    /\ sealed' = sealed \cup {"connections"}
    /\ runner' = "drainJobs"
    /\ UNCHANGED <<job, maint, due>>

DrainJobs ==
    /\ runner = "drainJobs"
    /\ Joined(conn, job, maint)
    /\ job' = [w \in Workers |-> NoJob]
    /\ maint' = "none"
    /\ sealed' = Groups
    /\ runner' = "ended"
    /\ UNCHANGED <<conn, due>>

RunnerStep ==
    /\ \/ ReapConn \/ ReapJob \/ ReapMaint \/ Tick \/ Accept \/ AcceptFails
       \/ PauseEnds \/ Stopped \/ DrainConns \/ DrainJobs
    /\ RunnerFrame

\* The runner's task fails before its cleanup; nothing it owned is joined.
RunnerPanics ==
    /\ MaxPanics > 0
    /\ runner \in {"loop", "pause"}
    /\ runner' = "panicked"
    /\ UNCHANGED <<conn, job, maint, sealed, due>> /\ RunnerFrame

TickElapses ==
    /\ ~due /\ due' = TRUE
    /\ UNCHANGED <<conn, job, maint, sealed, stop, runner, closer, holder, handle, outcome>>

-----------------------------------------------------------------------------
(* Directory: close, wait_stopped, drop.                                     *)

CloserFrame == UNCHANGED <<due, runner>>
At(c, st) == closer[c].st = st
Moved(c, st) == [closer EXCEPT ![c].st = st]

CloseBegins(c) ==
    /\ At(c, "idle")
    /\ closer' = [closer EXCEPT ![c] = [NoCloser EXCEPT !.st = "sealC", !.closing = TRUE]]
    /\ UNCHANGED <<conn, job, maint, sealed, stop, holder, handle, outcome>>

ObserveBegins(c) ==
    /\ At(c, "idle")
    /\ closer' = [closer EXCEPT ![c] = [NoCloser EXCEPT !.st = "lock"]]
    /\ UNCHANGED <<conn, job, maint, sealed, stop, holder, handle, outcome>>

\* request_shutdown: three seals, each under its group's lock, then the watch.
RequestShutdown(c) ==
    /\ \/ At(c, "sealC") /\ SealConnections /\ closer' = Moved(c, "sealW") /\ UNCHANGED stop
       \/ At(c, "sealW") /\ SealWorkers /\ closer' = Moved(c, "sealM") /\ UNCHANGED stop
       \/ At(c, "sealM") /\ SealMaintenance /\ closer' = Moved(c, "send") /\ UNCHANGED stop
       \/ /\ At(c, "send") /\ stop' = TRUE /\ closer' = Moved(c, "lock")
          /\ UNCHANGED <<conn, job, maint, sealed>>
    /\ UNCHANGED <<holder, handle, outcome>>

LockRunner(c) ==
    /\ At(c, "lock") /\ holder = 0
    /\ holder' = c
    /\ closer' = Moved(c, "wait")
    /\ UNCHANGED <<conn, job, maint, sealed, stop, handle, outcome>>

RunnerOver == runner \in {"ended", "panicked"}

\* Runner::wait: the handle is kept until it has answered.
KeepHandle(c) ==
    /\ handle => RunnerOver
    /\ outcome' = IF handle THEN runner ELSE outcome
    /\ handle' = FALSE
    /\ closer' = Moved(c, "drain")

AwaitRunner(c) ==
    /\ At(c, "wait")
    /\ KeepHandle(c)
    /\ UNCHANGED <<conn, job, maint, sealed, stop, holder>>

\* Runner::result.
Result == IF outcome = "none" THEN "missing" ELSE outcome

Observed(c) ==
    /\ At(c, "drain") /\ ~closer[c].closing
    /\ closer' = [closer EXCEPT ![c] = [NoCloser EXCEPT !.st = "closed", !.result = Result]]
    /\ holder' = 0
    /\ UNCHANGED <<conn, job, maint, sealed, stop, handle, outcome>>

\* The drains of close, which join what a failed runner left behind.
\* (SkipDrain: close trusts the runner to have joined everything.)
SkipDrain == UNCHANGED <<conn, job, maint, sealed>>
FallbackDrain ==
    /\ Joined(conn, job, maint)
    /\ conn' = [s \in Slots |-> NoConn]
    /\ job' = [w \in Workers |-> NoJob]
    /\ maint' = "none"
    /\ sealed' = Groups

Closed(c) ==
    /\ At(c, "drain") /\ closer[c].closing
    /\ FallbackDrain
    /\ closer' = [closer EXCEPT ![c].st = "closed", ![c].result = Result]
    /\ holder' = 0
    /\ UNCHANGED <<stop, handle, outcome>>

\* A waiter is dropped at one of its awaits; dropping the Directory is a close
\* whose caller never waits.
Canceled(c) ==
    /\ closer[c].st \in {"lock", "wait", "drain"}
    /\ closer' = [closer EXCEPT ![c] = NoCloser]
    /\ holder' = IF holder = c THEN 0 ELSE holder
    /\ UNCHANGED <<conn, job, maint, sealed, stop, handle, outcome>>

CloserStep(c) ==
    /\ \/ RequestShutdown(c) \/ LockRunner(c) \/ AwaitRunner(c) \/ Observed(c) \/ Closed(c)
    /\ CloserFrame

CloserStarts(c) ==
    /\ CloseBegins(c) \/ ObserveBegins(c) \/ Canceled(c)
    /\ CloserFrame

DirNext ==
    \/ \E s \in Slots : ConnStep(s)
    \/ \E w \in Workers : JobStarts(w)
    \/ \E w \in Workers, answer \in {"sent", "ended"} : JobEnds(w, answer)
    \/ MaintStarts \/ MaintEnds
    \/ RunnerStep \/ RunnerPanics \/ TickElapses
    \/ \E c \in Closers : CloserStep(c) \/ CloserStarts(c)

\* The executor runs the runner, timers fire, connections end by their timeout
\* and collections return.  A request's job may sit in the filesystem for ever.
DirFairness ==
    /\ WF_dirVars(RunnerStep)
    /\ WF_dirVars(TickElapses)
    /\ \A s \in Slots : WF_dirVars(ConnEnds(s))
    /\ \A w \in Workers : WF_dirVars(JobStarts(w))
    /\ WF_dirVars(MaintStarts) /\ WF_dirVars(MaintEnds)
    /\ \A c \in Closers : WF_dirVars(CloserStep(c))

DirSpec == DirInit /\ [][DirNext]_dirVars /\ DirFairness

-----------------------------------------------------------------------------
\* Once close has returned nothing of the service is left: no connection, no
\* storage job, no collection, even when the runner failed before its cleanup
\* or an earlier close was canceled (Directory::close, TaskGroup::drain).
NothingAfterClose ==
    \A c \in Closers : At(c, "closed") /\ closer[c].closing =>
        /\ RunnerOver
        /\ conn = [s \in Slots |-> NoConn]
        /\ job = [w \in Workers |-> NoJob]
        /\ maint = "none"

\* Every close and every observation reports how the runner really ended, also
\* when an earlier waiter was canceled while it held the mutex (Runner::wait).
OutcomeKept ==
    \A c \in Closers : At(c, "closed") => closer[c].result = runner

\* Expired records keep being collected while the service runs, however many
\* connections arrive and however long request jobs hold every worker: the tick
\* stands above accept, and collections have a capacity of their own.
Collecting == maint = "running" \/ sealed # {} \/ RunnerOver

-----------------------------------------------------------------------------
(***************************************************************************)
(* The directory's HTTP interface from both ends: Client (rds-discovery    *)
(* client.rs) and the handlers of service.rs over the record store and the *)
(* policy store.  A request that times out at the client, or at the        *)
(* server's connection, leaves its worker job behind: the job still runs,  *)
(* and may run after later requests did.  Name answers are accepted        *)
(* through a trust store that several callers, in several processes, share.*)
(*                                                                         *)
(* One endpoint key, one name and one denylist: the three streams of       *)
(* revisions.  Leases are a flag (Lapse), the write budget a               *)
(* nondeterministic refusal (AdmissionBudget models it), store faults are  *)
(* in FileStore and PolicyStore.                                           *)
(***************************************************************************)

CONSTANTS ApiSlots,        \* requests in flight, of all clients
          Requests,     \* what may be asked: a set of Write and Read
          ApiMaxWorkers,   \* Limits::max_workers
          MaxCalls,     \* bound on requests
          MaxLapses     \* bound on leases that run out

VARIABLES call,      \* slot -> the request and where it is
          held,      \* stream -> what the directory stores
          spent,     \* stream -> mutations charged to the write budget
          stored,    \* mutations ever committed
          trust,     \* revision the shared trust store accepted last
          trustLock, \* slot whose accept holds the trust store, 0: none
          acked,     \* stream -> newest revision a caller was told is stored
          named,     \* newest revision a caller's name lookup returned
          asked, lapsed

apiVars == <<call, held, spent, stored, trust, trustLock, acked, named, asked, lapsed>>

Streams == {"record", "registry", "revocations"}
Write(s, r, form) == [op |-> "write", stream |-> s, rev |-> r, form |-> form]
Read(s) == [op |-> "read", stream |-> s, rev |-> 0, form |-> "none"]

Nothing == [rev |-> 0, form |-> "none"]
NoCall == [req |-> Read("record"), at |-> "idle", job |-> FALSE, status |-> 0,
           body |-> 0, floor |-> 0, seen |-> 0]

ApiInit ==
  /\ call = [c \in ApiSlots |-> NoCall]
  /\ held = [s \in Streams |-> Nothing]
  /\ spent = [s \in Streams |-> 0]
  /\ stored = {}
  /\ trust = 0
  /\ trustLock = 0
  /\ acked = [s \in Streams |-> 0]
  /\ named = 0
  /\ asked = 0
  /\ lapsed = 0

-----------------------------------------------------------------------------
(* What a mutation does to its stream.  A newer revision replaces, the same *)
(* mutation is acknowledged without being charged, the rest is refused.     *)
Newer(h, q) == q.rev > h.rev
Supersedes(h, q) == Newer(h, q)

Lapsed(h) == h.form \in {"expired", "erased"}
Same(h, q) == h.rev = q.rev /\ h.form \in (IF q.form = "live" THEN {"live", "expired"}
                                                              ELSE {"deleted", "erased"})

Outcome(h, status, charge, body) == [held |-> h, status |-> status, charge |-> charge, body |-> body]

(* The write budget is asked only for a mutation that will be committed, and *)
(* may refuse it.                                                            *)
ChargeNew(h, q) ==
  IF Supersedes(h, q)
  THEN {Outcome([rev |-> q.rev, form |-> q.form], 200, 1, 0), Outcome(h, 429, 0, 0)}
  ELSE {}
Charged(h, q) == ChargeNew(h, q)

(* put_record and delete_record: a retired revision's exact retry is Gone,   *)
(* and a mutation whose own lifetime ran out on the way is refused.          *)
put_record(h, q) ==
  Charged(h, q)
    \cup (IF Supersedes(h, q) THEN {}
          ELSE IF Same(h, q) THEN {Outcome(h, IF Lapsed(h) THEN 410 ELSE 200, 0, 0)}
          ELSE {Outcome(h, 409, 0, 0)})
    \cup {Outcome(h, 410, 0, 0)}
delete_record(h, q) == put_record(h, q)

(* put_registry and put_revocations: the exact retry is acknowledged as      *)
(* unchanged while the snapshot's lifetime lasts.                            *)
put_registry(h, q) ==
  Charged(h, q)
    \cup (IF Supersedes(h, q) THEN {}
          ELSE IF Same(h, q) /\ ~Lapsed(h) THEN {Outcome(h, 200, 0, 0)}
          ELSE IF Same(h, q) THEN {}
          ELSE {Outcome(h, 409, 0, 0)})
    \cup {Outcome(h, 410, 0, 0)}
put_revocations(h, q) == put_registry(h, q)

get_record(h) == {Outcome(h, CASE h.form = "live" -> 200
                               [] h.form = "expired" -> 410
                               [] OTHER -> 404, 0, h.rev)}
get_name(h) == get_record(h)
get_revocations(h) == get_record(h)

route(h, q) ==
  CASE q.op = "write" /\ q.stream = "record" /\ q.form = "live" -> put_record(h, q)
    [] q.op = "write" /\ q.stream = "record" /\ q.form = "deleted" -> delete_record(h, q)
    [] q.op = "write" /\ q.stream = "registry" -> put_registry(h, q)
    [] q.op = "write" /\ q.stream = "revocations" -> put_revocations(h, q)
    [] q.op = "read" /\ q.stream = "record" -> get_record(h)
    [] q.op = "read" /\ q.stream = "registry" -> get_name(h)
    [] OTHER -> get_revocations(h)

-----------------------------------------------------------------------------
ApiAt(c, a) == call' = [call EXCEPT ![c].at = a]

(* A failed call's slot is free once its job, or its accept, is over. *)
Fails(c, k) == IF k.job \/ trustLock = c
               THEN [NoCall EXCEPT !.at = "failed", !.req = k.req, !.job = k.job, !.body = k.body]
               ELSE NoCall
Jobs == {c \in ApiSlots : call[c].job}

(* A caller starts a request in a free slot; a slot is free when its call is *)
(* over and its worker job has ended.  Retries are further requests.         *)
Free(c) == call[c].at \in {"idle", "ok"}
request(c, q) ==
  /\ Free(c)
  /\ asked < MaxCalls
  /\ asked' = asked + 1
  /\ call' = [call EXCEPT ![c] = [NoCall EXCEPT !.req = q, !.at = "connecting", !.floor = acked[q.stream]]]
  /\ UNCHANGED <<held, spent, stored, trust, trustLock, acked, named, lapsed>>

(* The socket, the TLS handshake and the written request succeed, or none of *)
(* it reaches the server's handler.                                          *)
connect(c) ==
  /\ call[c].at = "connecting"
  /\ \/ ApiAt(c, "sent")
     \/ call' = [call EXCEPT ![c] = NoCall]
  /\ UNCHANGED <<held, spent, stored, trust, trustLock, acked, named, asked, lapsed>>

(* A request reaches a handler only as a whole: head, headers and all the    *)
(* body its length promises.  A caller that gave up before left nothing.     *)
read_request(c) == call[c].at = "sent"

(* serve_request: the request becomes a worker job, or the pool is full.     *)
serve_request(c) ==
  /\ read_request(c)
  /\ call' = [call EXCEPT ![c] =
       IF Cardinality(Jobs) < ApiMaxWorkers THEN [@ EXCEPT !.at = "working", !.job = TRUE]
                                         ELSE [@ EXCEPT !.at = "answered", !.status = 429]]
  /\ UNCHANGED <<held, spent, stored, trust, trustLock, acked, named, asked, lapsed>>

(* The job runs whether or not its requester is still there; a job that      *)
(* panics answers 500.                                                       *)
write_response(k, status, body) ==
  IF k.at = "working" THEN [k EXCEPT !.job = FALSE, !.at = "answered", !.status = status, !.body = body]
                      ELSE NoCall
RunJob(c) ==
  LET q == call[c].req IN
  /\ call[c].job
  /\ \E o \in route(held[q.stream], q) :
       /\ held' = [held EXCEPT ![q.stream] = o.held]
       /\ spent' = [spent EXCEPT ![q.stream] = @ + o.charge]
       /\ stored' = IF o.held # held[q.stream] THEN stored \cup {q} ELSE stored
       /\ call' = [call EXCEPT ![c] = write_response(@, o.status, o.body)]
  /\ UNCHANGED <<trust, trustLock, acked, named, asked, lapsed>>

Panic(c) ==
  /\ call[c].job
  /\ call' = [call EXCEPT ![c] = write_response(@, 500, 0)]
  /\ UNCHANGED <<held, spent, stored, trust, trustLock, acked, named, asked, lapsed>>

(* read_response and expect: only a complete response with status 200 is a   *)
(* success; a name's answer still has to be accepted by the trust store.     *)
expect(c) == call[c].status = 200
NeedsTrust(q) == q.op = "read" /\ q.stream = "registry"
read_response(c) ==
  /\ call[c].at = "answered"
  /\ IF expect(c) THEN ApiAt(c, IF NeedsTrust(call[c].req) THEN "trusting" ELSE "ok")
                  ELSE call' = [call EXCEPT ![c] = NoCall]
  /\ LET q == call[c].req IN
     acked' = IF expect(c) /\ q.op = "write" /\ q.rev > acked[q.stream]
              THEN [acked EXCEPT ![q.stream] = q.rev] ELSE acked
  /\ UNCHANGED <<held, spent, stored, trust, trustLock, named, asked, lapsed>>

(* A response whose head or body is cut short is an error, whatever its      *)
(* status line said.                                                         *)
Truncated(c) ==
  /\ call[c].at = "answered"
  /\ call' = [call EXCEPT ![c] = NoCall]
  /\ UNCHANGED <<held, spent, stored, trust, trustLock, acked, named, asked, lapsed>>

(* The client's deadline or the server's connection deadline ends the call;  *)
(* the job, if one was started, is still there.                              *)
TimesOut(c) ==
  /\ call[c].at \in {"connecting", "sent", "working", "trusting", "accepted"}
  /\ call' = [call EXCEPT ![c] = Fails(c, @)]
  /\ UNCHANGED <<held, spent, stored, trust, trustLock, acked, named, asked, lapsed>>

-----------------------------------------------------------------------------
(* NameTrust::accept opens the store exclusively (Busy is retried until the  *)
(* two-second deadline) and then accepts or refuses the answer.  The         *)
(* blocking task is not stopped by the deadline.                             *)
OpenTrust(c) ==
  /\ call[c].at = "trusting"
  /\ trustLock = 0
  /\ trustLock' = c
  /\ call' = [call EXCEPT ![c].seen = named]
  /\ UNCHANGED <<held, spent, stored, trust, acked, named, asked, lapsed>>

NotOlder(r) == r >= trust
NotCompared(r) == TRUE                  \* mutant: newer_than is not asked
accept_name(r) == NotOlder(r)
accept(c) ==
  /\ trustLock = c
  /\ trustLock' = 0
  /\ LET ok == accept_name(call[c].body) IN
     /\ trust' = IF ok THEN call[c].body ELSE trust
     /\ \E leased \in BOOLEAN :            \* check_name_lease
          IF ok /\ leased /\ call[c].at = "trusting" THEN ApiAt(c, "accepted")
          ELSE call' = [call EXCEPT ![c] = NoCall]
  /\ UNCHANGED <<held, spent, stored, acked, named, asked, lapsed>>

(* The caller's task takes the blocking task's result, after the store was   *)
(* released: another lookup may have been accepted and returned in between.  *)
resolve_name(c) ==
  /\ call[c].at = "accepted"
  /\ ApiAt(c, "ok")
  /\ named' = IF call[c].body > named THEN call[c].body ELSE named
  /\ UNCHANGED <<held, spent, stored, trust, trustLock, acked, asked, lapsed>>

(* A stored lease runs out; retired entries keep their revision. *)
Lapse(s) ==
  /\ lapsed < MaxLapses
  /\ held[s].form \in {"live", "deleted"}
  /\ held' = [held EXCEPT ![s].form = IF @ = "live" THEN "expired" ELSE "erased"]
  /\ lapsed' = lapsed + 1
  /\ UNCHANGED <<call, spent, stored, trust, trustLock, acked, named, asked>>

ApiNext ==
  \/ \E c \in ApiSlots :
       \/ \E q \in Requests : request(c, q)
       \/ connect(c) \/ serve_request(c) \/ RunJob(c) \/ Panic(c)
       \/ read_response(c) \/ Truncated(c) \/ TimesOut(c) \/ OpenTrust(c) \/ accept(c)
       \/ resolve_name(c)
  \/ \E s \in Streams : Lapse(s)

ApiSpec == ApiInit /\ [][ApiNext]_apiVars

-----------------------------------------------------------------------------
ApiTypeOK ==
  /\ \A c \in ApiSlots :
       /\ call[c].at \in {"idle", "connecting", "sent", "working", "answered", "trusting", "accepted", "ok", "failed"}
       /\ call[c].job => call[c].at \in {"working", "failed"}
  /\ \A s \in Streams : held[s].rev \in Nat
  /\ trustLock \in ApiSlots \cup {0}

(* Exact retries, also retries of a mutation whose first answer was lost and *)
(* whose job ran late, are never charged to the write budget: what was spent *)
(* is the number of mutations that were stored (service.rs put_record        *)
(* charges inside put_admitted, after the revision was decided).             *)
RetryIsFree ==
  \A s \in Streams : spent[s] = Cardinality({q \in stored : q.stream = s})

(* A read that starts after a write was acknowledged never answers from      *)
(* before that write, although jobs of requests that timed out earlier are   *)
(* still to run.                                                             *)
ReadsFollowAcks ==
  \A c \in ApiSlots : call[c].at = "ok" /\ call[c].req.op = "read" => call[c].body >= call[c].floor

(* A lookup whose answer goes to the trust store after some lookup over the  *)
(* same store returned a newer binding does not return the older one, however *)
(* late its answer came and whoever else is accepting (NameTrust::accept).    *)
(* Two lookups under way together may return in either order.                *)
NamesForward ==
  \A c \in ApiSlots : call[c].at = "ok" /\ NeedsTrust(call[c].req) => call[c].body >= call[c].seen
=============================================================================
