------------------------------- MODULE Daemons --------------------------------
(***************************************************************************)
(* The agent process (rds-agent/src/main.rs: run): what it acquires, in    *)
(* which order, the way it is released when a step fails, and how the      *)
(* tasks it watches end it.                                                *)
(*                                                                         *)
(* A Rust scope drops its locals in the reverse order of declaration, one  *)
(* after the other, while the tasks they own are still there: `held` is    *)
(* that stack.                                                             *)
(***************************************************************************)
EXTENDS Integers, Sequences, SequencesExt, FiniteSets

CONSTANT Options    \* the optional parts that may be configured

\* run()'s steps, in order; those of Locals leave something behind.
Steps == <<"admin", "settings", "control", "key", "registry", "revocations",
           "issuer", "portal", "endpoint", "announce">>
Locals == ToSet(Steps) \ {"settings"}
Optional == {"admin", "control", "registry", "revocations", "issuer", "portal", "announce"}

\* What signs, or acts, with the agent's identity key.
KeyUsers == {"issuer", "endpoint", "announce"}

\* The tasks the final select watches.
AgentTasks == {"run", "control", "admin", "announce"}

VARIABLES
  chosen,           \* the optional parts of this configuration
  at,               \* "start", "serving", "closing", "unwinding", "gone"
  next,             \* index of the step to take
  held,             \* the acquired locals, oldest first
  live,             \* tasks that run
  issuing,          \* the announcer's disk job, which has the issuer, runs
  done,             \* per task: "none" or how it ended
  handlers,         \* shutdown_signal() was polled: handlers are installed
  signalled,        \* a termination signal was handled
  verdict,          \* the value run() is about to return
  status            \* "none", "ok", "err", "killed"

agentVars == <<chosen, at, next, held, live, issuing, done, handlers, signalled, verdict,
               status>>

AgentInit ==
  /\ chosen \in SUBSET (Options \cap Optional)
  /\ ("announce" \in chosen) = ("issuer" \in chosen)
  /\ at = "start" /\ next = 1 /\ held = <<>>
  /\ live = {} /\ issuing = FALSE /\ done = [t \in AgentTasks |-> "none"]
  /\ handlers = FALSE /\ signalled = FALSE
  /\ verdict = "none" /\ status = "none"

Wanted(s) == s \notin Optional \/ s \in chosen

Acquired(s) == IF s \in Locals THEN Append(held, s) ELSE held

\* A step succeeds.  The announcer takes the issuer with it; opening the
\* portal polls the shutdown future for the first time.
Acquire ==
  /\ at = "start" /\ next <= Len(Steps)
  /\ LET s == Steps[next]
     IN /\ held' = IF Wanted(s) THEN Acquired(s) ELSE held
        /\ live' = IF s = "announce" /\ Wanted(s) THEN live \cup {s} ELSE live
        /\ handlers' = (handlers \/ (s = "portal" /\ Wanted(s)))
  /\ next' = next + 1
  /\ UNCHANGED <<chosen, at, issuing, done, signalled, verdict, status>>

\* A step fails with `?`; a refused announcement closes the endpoint first.
StepFails ==
  /\ at = "start" /\ next <= Len(Steps) /\ Wanted(Steps[next])
  /\ at' = "unwinding"
  /\ verdict' = "err"
  /\ handlers' = (handlers \/ Steps[next] = "portal")
  /\ UNCHANGED <<chosen, next, held, live, issuing, done, signalled, status>>

\* The agent takes the endpoint, the control and admin servers start with
\* their prepared listeners; then the select.
Started == <<"endpoint">> \o SelectSeq(<<"control", "admin">>, Wanted)

Serve ==
  /\ at = "start" /\ next > Len(Steps)
  /\ at' = "serving"
  /\ live' = live \cup {"run"} \cup (chosen \cap {"control", "admin"})
  /\ held' = SelectSeq(held, LAMBDA x : x \notin ToSet(Started)) \o Started
  /\ handlers' = TRUE
  /\ UNCHANGED <<chosen, next, issuing, done, signalled, verdict, status>>

\* The announcer hands the issuer to a blocking job, which signs a record and
\* commits it, and waits for it: there is at most one.
IssueBegins ==
  /\ "announce" \in live /\ ~ issuing /\ status = "none"
  /\ issuing' = TRUE
  /\ UNCHANGED <<chosen, at, next, held, live, done, handlers, signalled, verdict, status>>

IssueEnds ==
  /\ issuing
  /\ issuing' = FALSE
  /\ UNCHANGED <<chosen, at, next, held, live, done, handlers, signalled, verdict, status>>

\* A watched task ends by itself, or because it was closed.
TaskEnds(t) ==
  /\ t \in live /\ status = "none"
  /\ t = "announce" => ~ issuing
  /\ live' = live \ {t}
  /\ \E r \in {"ok", "err"} : done' = [done EXCEPT ![t] = r]
  /\ UNCHANGED <<chosen, at, next, held, issuing, handlers, signalled, verdict, status>>

\* SIGTERM or SIGINT.  While the portal asks for consent it cancels the
\* request; without handlers it kills the process.
Signal ==
  /\ status = "none" /\ ~ signalled
  /\ IF handlers
     THEN signalled' = TRUE /\ UNCHANGED <<status, held, live, issuing>>
     ELSE /\ status' = "killed" /\ held' = <<>> /\ live' = {} /\ issuing' = FALSE
          /\ UNCHANGED signalled
  /\ at' = IF handlers THEN at ELSE "gone"
  /\ UNCHANGED <<chosen, next, done, handlers, verdict>>

CancelPortal ==
  /\ at = "start" /\ next <= Len(Steps)
  /\ Steps[next] = "portal" /\ Wanted("portal")
  /\ ~ signalled
  /\ signalled' = TRUE /\ handlers' = TRUE
  /\ at' = "unwinding" /\ verdict' = "err"
  /\ UNCHANGED <<chosen, next, held, live, issuing, done, status>>

\* The select: control and admin must not end, not even cleanly; run and
\* announce pass their result on.  The announcer is aborted at once; a disk job
\* it waits for runs on, with the issuer.
Stopped(t) == IF t \in {"control", "admin"} THEN "err" ELSE done[t]

Pick ==
  /\ at = "serving"
  /\ \/ signalled /\ verdict' = "ok"
     \/ \E t \in AgentTasks : done[t] # "none" /\ verdict' = Stopped(t)
  /\ at' = "closing"
  /\ live' = live \ {"announce", "run"}
  /\ held' = SelectSeq(held, LAMBDA x : x \notin {"announce", "issuer"})
  /\ UNCHANGED <<chosen, next, issuing, done, handlers, signalled, status>>

\* join!(endpoint.close(), admin.close(), control.close()), portal.close():
\* a server's own failure is added to the verdict.
Combined == IF done["admin"] = "err" \/ done["control"] = "err" THEN "err" ELSE verdict

CloseAll ==
  /\ at = "closing" /\ live = {}
  /\ verdict' = Combined
  /\ held' = SelectSeq(held, LAMBDA x : x \notin {"portal"})
  /\ at' = "unwinding"
  /\ UNCHANGED <<chosen, next, live, issuing, done, handlers, signalled, status>>

\* Leaving the scope: the youngest local goes first, its task with it.
Unwind ==
  /\ at = "unwinding" /\ status = "none" /\ held # <<>>
  /\ held' = Front(held)
  /\ live' = live \ {Last(held)}
  /\ UNCHANGED <<chosen, at, next, issuing, done, handlers, signalled, verdict, status>>

Return ==
  /\ at = "unwinding" /\ status = "none" /\ held = <<>>
  /\ status' = verdict /\ at' = "gone"
  /\ UNCHANGED <<chosen, next, held, live, issuing, done, handlers, signalled, verdict>>

Main == Acquire \/ StepFails \/ Serve \/ Pick \/ CloseAll \/ Unwind \/ Return

AgentNext ==
  Main \/ Signal \/ CancelPortal \/ IssueBegins \/ IssueEnds \/ \E t \in AgentTasks : TaskEnds(t)

\* The main task is polled, and closed servers end (AdminServer, LocalManager).
AgentFairness ==
  /\ WF_agentVars(Pick) /\ WF_agentVars(CloseAll) /\ WF_agentVars(Unwind \/ Return)
  /\ \A t \in {"control", "admin"} : WF_agentVars(at = "closing" /\ TaskEnds(t))

AgentSpec == AgentInit /\ [][AgentNext]_agentVars /\ AgentFairness

-----------------------------------------------------------------------------

\* "Retained through endpoint and service shutdown, including startup errors":
\* on every path out of run() the endpoint, the issuer and announcer run() still
\* owns and the services go before the key owner, so no second process can
\* acquire the key while this one still serves under it.  An announcer that was
\* aborted may leave its last disk job behind (KeyOutlastsJob).
KeyOutlastsUse ==
  (ToSet(held) \cap KeyUsers) \cup (live \cap {"run", "control", "announce"}) # {} =>
    "key" \in ToSet(held)

\* The same of that job, which still signs with the key: it may end after run()
\* has returned and released the key.  Its result is never published.
KeyOutlastsJob == issuing => "key" \in ToSet(held)

\* A failure of the metrics or the session server is never lost, also when a
\* signal or another task ended the select first, and nothing is left behind;
\* without a signal run() succeeds only when the connection loop or the announcer
\* ended well.  A failure of those two that a signal overtakes is not told.
ServerFailureIsTold ==
  status = "ok" => /\ done["admin"] # "err" /\ done["control"] # "err"
                   /\ signalled \/ done["run"] = "ok" \/ done["announce"] = "ok"
                   /\ live = {}

\* The process ends after a signal or the end of any watched task.
AgentEnds ==
  (at = "serving" /\ (signalled \/ \E t \in AgentTasks : done[t] # "none")) ~> (status # "none")

-----------------------------------------------------------------------------
(***************************************************************************)
(* The composed server process (rds-server/src/main.rs: run) with the      *)
(* relay runtime it starts (rds-relay/src/runtime.rs): the order in which  *)
(* configuration, durable state and listeners come up, what is undone when *)
(* one of them fails, and what the process reports at its end.             *)
(***************************************************************************)

ServerTasks == {"relay", "directory", "admin"}

VARIABLES
  setup,            \* [backend, policy, admin]: what the flags select
  step,             \* where run() is
  durable,          \* identity, catalog and policy files created or opened
  up,               \* services that run
  over,             \* per service: "none", or how its runner ended
  early,            \* ghost: services that ended before they were asked to
  asked,            \* services told to stop
  kept,             \* services whose task an observer already consumed
  signal,           \* SIGTERM or SIGINT was received
  unexpected,       \* <<>> or the service the select reported
  exit              \* "none", "ok", "err", "killed"

serverVars == <<setup, step, durable, up, over, early, asked, kept, signal,
                unexpected, exit>>

ServerInit ==
  /\ setup \in [backend : {"iroh", "noq"}, policy : BOOLEAN, admin : BOOLEAN]
  /\ step = "admin"
  /\ durable = {} /\ up = {} /\ early = {} /\ asked = {} /\ kept = {}
  /\ over = [s \in ServerTasks |-> "none"]
  /\ signal = FALSE /\ unexpected = <<>>
  /\ exit = "none"

At(s) == step = s /\ exit = "none"
Goto(s) == step' = s /\ UNCHANGED exit
ServerReturn(result) == exit' = result /\ UNCHANGED step

Running(s) == up' = up \cup {s}

-----------------------------------------------------------------------------
(* Startup.  Until the directory listens, an error simply returns: nothing  *)
(* runs yet, and dropping a prepared listener releases it.                  *)

\* cli.admin.bind(): the address is reserved, not served.
BindAdmin ==
  /\ At("admin")
  /\ Goto("config") \/ ServerReturn("err")
  /\ UNCHANGED <<setup, durable, up, over, early, asked, kept, signal, unexpected>>

\* Enrollment, RelayArgs::prepare, keys, snapshot, rotations, TLS files.
ReadConfig ==
  /\ At("config")
  /\ Goto("identity") \/ ServerReturn("err")
  /\ UNCHANGED <<setup, durable, up, over, early, asked, kept, signal, unexpected>>

\* PreparedRelay::initialize: the owned relay's identity.
InitializeRelay ==
  /\ At("identity")
  /\ \/ /\ Goto("catalog")
        /\ durable' = IF setup.backend = "noq" THEN durable \cup {"identity"} ELSE durable
     \/ setup.backend = "noq" /\ ServerReturn("err") /\ UNCHANGED durable
  /\ UNCHANGED <<setup, up, over, early, asked, kept, signal, unexpected>>

OpenCatalog ==
  /\ At("catalog")
  /\ \/ Goto("policy") /\ durable' = durable \cup {"catalog"}
     \/ ServerReturn("err") /\ UNCHANGED durable
  /\ UNCHANGED <<setup, up, over, early, asked, kept, signal, unexpected>>

OpenPolicy ==
  /\ At("policy")
  /\ \/ Goto("directory") /\ durable' = IF setup.policy THEN durable \cup {"policy"} ELSE durable
     \/ setup.policy /\ ServerReturn("err") /\ UNCHANGED durable
  /\ UNCHANGED <<setup, up, over, early, asked, kept, signal, unexpected>>

ServeDirectory ==
  /\ At("directory")
  /\ \/ Goto("relay") /\ Running("directory")
     \/ ServerReturn("err") /\ UNCHANGED up
  /\ UNCHANGED <<setup, durable, over, early, asked, kept, signal, unexpected>>

\* ReadyRelay::bind; when it fails the directory is closed first.
CloseFirst(services) == Goto("abandon") /\ asked' = asked \cup services

BindRelay ==
  /\ At("relay")
  /\ \/ Goto("signals") /\ Running("relay") /\ UNCHANGED asked
     \/ CloseFirst({"directory"}) /\ UNCHANGED up
  /\ UNCHANGED <<setup, durable, over, early, kept, signal, unexpected>>

\* shutdown_signal(), then the admin server and readiness.
InstallSignals ==
  /\ At("signals")
  /\ \/ /\ Goto("serving")
        /\ IF setup.admin THEN Running("admin") ELSE UNCHANGED up
        /\ UNCHANGED asked
     \/ CloseFirst({"relay", "directory"}) /\ UNCHANGED up
  /\ UNCHANGED <<setup, durable, over, early, kept, signal, unexpected>>

\* Both services of a failed startup have joined.
Abandon ==
  /\ At("abandon") /\ asked \cap up = {}
  /\ ServerReturn("err")
  /\ UNCHANGED <<setup, durable, up, over, early, asked, kept, signal, unexpected>>

-----------------------------------------------------------------------------
(* Running and shutting down.                                              *)

\* A runner returns: because it was told to, or by itself.
RunnerEnds(s) ==
  /\ s \in up /\ exit = "none"
  /\ \E result \in {"ok", "err"} : over' = [over EXCEPT ![s] = result]
  /\ up' = up \ {s}
  /\ early' = IF s \in asked THEN early ELSE early \cup {s}
  /\ UNCHANGED <<setup, step, durable, asked, kept, signal, unexpected, exit>>

\* A termination signal; before the handlers exist it kills the process.
SignalArrives ==
  /\ exit = "none" /\ ~ signal
  /\ signal' = TRUE
  /\ IF step \in {"serving", "closing"} THEN UNCHANGED exit ELSE exit' = "killed"
  /\ UNCHANGED <<setup, step, durable, up, over, early, asked, kept, unexpected>>

Ended(s) == over[s] # "none"

\* The biased select: a service that stopped is reported before the signal.
\* Mutant: the signal is looked at first.
SignalFirst ==
  IF signal THEN {<<>>} ELSE {<<s>> : s \in {t \in ServerTasks : Ended(t)}}
Ready ==
  IF Ended("relay") THEN {<<"relay">>}
  ELSE IF Ended("directory") THEN {<<"directory">>}
  ELSE IF Ended("admin") THEN {<<"admin">>}
  ELSE IF signal THEN {<<>>} ELSE {}

\* stopped(), wait_stopped() and admin.stopped() consume the task they saw.
Select ==
  /\ At("serving")
  /\ unexpected' \in Ready
  /\ kept' = kept \cup {unexpected'[i] : i \in DOMAIN unexpected'}
  /\ asked' = {"relay", "directory", "admin"}
  /\ Goto("closing")
  /\ UNCHANGED <<setup, durable, up, over, early, signal>>

\* What shutdown() and close() return: the retained outcome of an observed
\* runner (IrohRuntime::shutdown), or the task's own.
Outcome(s) == IF over[s] = "none" THEN "ok" ELSE over[s]

\* check_shutdown over both services.
check_shutdown ==
  IF Outcome("relay") = "err" \/ Outcome("directory") = "err" \/ unexpected # <<>>
  THEN "err" ELSE "ok"

\* finish_admin adds the metrics listener's outcome.
finish_admin(product) == IF Outcome("admin") = "err" THEN "err" ELSE product

\* join!(relay.shutdown(), dir.close(), admin.close()).
Finish ==
  /\ At("closing") /\ up = {}
  /\ ServerReturn(finish_admin(check_shutdown))
  /\ UNCHANGED <<setup, durable, up, over, early, asked, kept, signal, unexpected>>

Startup ==
  \/ BindAdmin \/ ReadConfig \/ InitializeRelay \/ OpenCatalog \/ OpenPolicy
  \/ ServeDirectory \/ BindRelay \/ InstallSignals

ServerNext ==
  \/ Startup \/ Abandon \/ SignalArrives \/ Select \/ Finish
  \/ \E s \in ServerTasks : RunnerEnds(s)

\* Every service ends once it is told to (DirectoryService, RelayServer and
\* AdminServer); the main task is polled.
ServerFairness ==
  /\ WF_serverVars(Startup) /\ WF_serverVars(Select)
  /\ WF_serverVars(Finish) /\ WF_serverVars(Abandon)
  /\ \A s \in ServerTasks : WF_serverVars(s \in asked /\ RunnerEnds(s))

ServerSpec == ServerInit /\ [][ServerNext]_serverVars /\ ServerFairness

-----------------------------------------------------------------------------

\* The process ends successfully only when it was asked to and every service
\* ended well after that: neither an unexpected clean exit nor a failure seen
\* by an observer, nor one while shutting down, is lost (check_shutdown,
\* finish_admin and the biased select).
FailureIsTold ==
  exit = "ok" => signal /\ early = {} /\ \A s \in ServerTasks : over[s] # "err"

\* run() never returns, on any path, while a service it started still runs:
\* a failed startup closes what already listens.
NothingLeftRunning == exit \in {"ok", "err"} => up = {}

-----------------------------------------------------------------------------
(***************************************************************************)
(* The loopback metrics listener of the daemons (rds-observe/src/admin):   *)
(* one runner task that owns every request task, and an owner that may     *)
(* watch it (`stopped`, abandoned whenever another branch of the daemon's  *)
(* select wins), close it, or drop it.                                     *)
(***************************************************************************)

CONSTANTS
  Asks,             \* the connections clients make
  MaxConnections    \* MAX_CONNECTIONS

VARIABLES
  enabled,          \* a Prepared listener was handed to start()
  runner,           \* "idle", "loop", "draining", "done" or "aborted"
  stop,             \* the watch channel's value
  ended,            \* what run() returns: "none", "ok", "err"
  ask,              \* per connection: its request task's state
  active,           \* Counters::active
  owner,            \* "idle", "observing", "closing", "closed", "dropped"
  task,             \* the JoinHandle is still there
  outcome,          \* the retained outcome
  answer            \* what the last stopped() or close() returned

adminVars == <<enabled, runner, stop, ended, ask, active, owner, task, outcome, answer>>

AdminRunning == {a \in Asks : ask[a] \in {"reading", "answering", "lingering"}}
Owned == AdminRunning \cup {a \in Asks : ask[a] \in {"finished", "panicked"}}

AdminInit ==
  /\ enabled \in BOOLEAN
  /\ runner = IF enabled THEN "loop" ELSE "idle"
  /\ task = enabled
  /\ stop = FALSE /\ ended = "none" /\ outcome = "none" /\ answer = "none"
  /\ ask = [a \in Asks |-> "new"]
  /\ active = 0
  /\ owner = "idle"

-----------------------------------------------------------------------------
(* The runner.  The select is biased: stop, then finished requests, then    *)
(* the listener.                                                            *)

Leave(result) == runner' = "draining" /\ ended' = result

SeeStop ==
  /\ runner = "loop" /\ stop
  /\ Leave("ok")
  /\ UNCHANGED <<enabled, stop, ask, active, owner, task, outcome, answer>>

Reap(a) ==
  /\ runner = "loop" /\ ~ stop
  /\ ask[a] \in {"finished", "panicked"}
  /\ ask' = [ask EXCEPT ![a] = "gone"]
  /\ IF ask[a] = "panicked" THEN Leave("err") ELSE UNCHANGED <<runner, ended>>
  /\ UNCHANGED <<enabled, stop, active, owner, task, outcome, answer>>

\* A full set or a foreign address drops the socket.
Accept(a) ==
  /\ runner = "loop" /\ ~ stop /\ Owned = AdminRunning
  /\ ask[a] = "new"
  /\ IF Cardinality(Owned) >= MaxConnections
     THEN ask' = [ask EXCEPT ![a] = "gone"] /\ UNCHANGED active
     ELSE ask' = [ask EXCEPT ![a] = "reading"] /\ active' = active + 1
  /\ UNCHANGED <<enabled, runner, stop, ended, owner, task, outcome, answer>>

AcceptFails ==
  /\ runner = "loop" /\ ~ stop /\ Owned = AdminRunning
  /\ Leave("err")
  /\ UNCHANGED <<enabled, stop, ask, active, owner, task, outcome, answer>>

\* drop(listener); requests.shutdown(): every task is aborted and joined.
Released(n) == active - n

Drain ==
  /\ runner = "draining"
  /\ runner' = "done"
  /\ active' = Released(Cardinality(AdminRunning))
  /\ ask' = [a \in Asks |-> IF a \in Owned THEN "gone" ELSE ask[a]]
  /\ UNCHANGED <<enabled, stop, ended, owner, task, outcome, answer>>

-----------------------------------------------------------------------------
(* A request task: http::serve under REQUEST_TIMEOUT.                      *)

Move(a, from, to) ==
  /\ ask[a] = from
  /\ ask' = [ask EXCEPT ![a] = to]
  /\ active' = IF to \in {"finished", "panicked"} THEN active - 1 ELSE active
  /\ UNCHANGED <<enabled, runner, stop, ended, owner, task, outcome, answer>>

\* A whole header arrives (or too much of one), or the client closes.
Read(a) == Move(a, "reading", "answering") \/ Move(a, "reading", "finished")

\* The response is written and the socket half closed, or writing fails, or
\* a metrics source panics.
Answer(a) ==
  \/ Move(a, "answering", "lingering")
  \/ Move(a, "answering", "finished")
  \/ Move(a, "answering", "panicked")

\* The bounded discard of what the client still sends.
Linger(a) == Move(a, "lingering", "finished")

\* The request's deadline.
Expire(a) == Move(a, "reading", "finished") \/ Move(a, "answering", "finished")

-----------------------------------------------------------------------------
(* The owner.                                                              *)

Observe ==
  /\ owner = "idle" /\ enabled
  /\ owner' = "observing"
  /\ UNCHANGED <<enabled, runner, stop, ended, ask, active, task, outcome, answer>>

CancelObserve ==
  /\ owner = "observing"
  /\ owner' = "idle"
  /\ UNCHANGED <<enabled, runner, stop, ended, ask, active, task, outcome, answer>>

Close ==
  /\ owner = "idle"
  /\ owner' = "closing"
  /\ stop' = TRUE
  /\ UNCHANGED <<enabled, runner, ended, ask, active, task, outcome, answer>>

\* join(): the handle is awaited at most once, its result kept for the next
\* caller.
Retain(result) == result

Join ==
  /\ owner \in {"observing", "closing"}
  /\ task => runner = "done"
  /\ IF task
     THEN /\ task' = FALSE
          /\ outcome' = Retain(ended)
          /\ answer' = ended
     ELSE /\ answer' = IF outcome = "none" THEN "ok" ELSE outcome
          /\ UNCHANGED <<task, outcome>>
  /\ owner' = IF owner = "closing" THEN "closed" ELSE "idle"
  /\ UNCHANGED <<enabled, runner, stop, ended, ask, active>>

\* Drop for Server: the runner is aborted, and its requests with it.
DropServer ==
  /\ owner = "idle"
  /\ owner' = "dropped"
  /\ stop' = TRUE
  /\ runner' = IF runner = "loop" \/ runner = "draining" THEN "aborted" ELSE runner
  /\ IF runner' = "aborted"
     THEN /\ active' = Released(Cardinality(AdminRunning))
          /\ ask' = [a \in Asks |-> IF a \in Owned THEN "gone" ELSE ask[a]]
     ELSE UNCHANGED <<active, ask>>
  /\ UNCHANGED <<enabled, ended, task, outcome, answer>>

RunnerStep == SeeStop \/ (\E a \in Asks : Reap(a) \/ Accept(a)) \/ AcceptFails \/ Drain

AdminNext ==
  \/ RunnerStep
  \/ \E a \in Asks : Read(a) \/ Answer(a) \/ Linger(a) \/ Expire(a)
  \/ Observe \/ CancelObserve \/ Close \/ Join \/ DropServer

\* The runtime polls the runner and the owner's join.
AdminFairness ==
  /\ WF_adminVars(SeeStop) /\ WF_adminVars(Drain) /\ WF_adminVars(Join)

AdminSpec == AdminInit /\ [][AdminNext]_adminVars /\ AdminFairness

-----------------------------------------------------------------------------

\* The gauge counts the requests being served, also after one was aborted,
\* timed out or panicked (Active's drop).
ActiveExact == active = Cardinality(AdminRunning)

\* "Canceled/repeated observers preserve the runner result for subsequent
\* close": close() reports how the runner really ended, although an earlier
\* stopped() already consumed the task, and leaves no request behind.
CloseTellsAll ==
  owner = "closed" =>
    /\ AdminRunning = {}
    /\ answer = IF enabled THEN ended ELSE "ok"

=============================================================================
