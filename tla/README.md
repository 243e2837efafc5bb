# Formal models of remote-device-sync

TLA+ modules for the parts of this repository whose correctness rests on
interleavings, crashes, clocks and lost messages; TLC configurations that check
them on small instances; and TLAPS proofs of the results that matter most.
`PROJECT.json` lists every component, run, mutant, source line, finding, hazard
and theorem; this file explains them.

    tlc -workers 2 -config MCSync.cfg MCSync     # one run
    tlapm ConnAuthzProofs.tla                    # the proofs of one module

## 1. The system

An *agent* on a device accepts QUIC connections from *clients*. It finds its
peers, and is found, through a *directory* (rds-discovery) that stores signed
address records, and it admits connections by signed *grants* under a policy of
revocations that an estate authority signs. Over an admitted connection run
services: file and directory synchronisation (rds-sync), remote desktop
(rds-desktop, rds-audio), ssh and TCP forwarding. A *relay* carries traffic of
peers that cannot reach each other. On the client's machine a *local manager*
(rds-client) keeps the connections and lends them to keyless programs, among
them the native viewer with its workspace of tabs.

How the parts interact: the announce loop runs over the issuer and publishes into
a record store; stores, policy store and grants build on leases; the revocation
feed commits into a policy store, and its value decides in authorization; the
transfer engine runs over the receive journal; an endpoint races dials over the
path policy, which follows the relay tunnel and the multiplexed socket; the local
manager reserves sessions on endpoints and relays desktops and forwarded
connections; the viewer's input, clipboard and watchdogs run over the control
stream and the frame pipeline of a desktop session, and those over X11 or a
desktop portal.

## 2. Modules

| Module | Models (crate, files) | Where it is hard |
|---|---|---|
| `RecordIssuer` | issuer over its atomic file (`publisher.rs`, `persist.rs`) | death and power loss inside a write, a clock that moves back |
| `Leases`, `LeaseClock` | lease arithmetic; one lease under moving clocks (`clock.rs`) | clock changes in both directions, sub-second times |
| `RecordEntry`, `RecordStore` | decision on one cell; *what a record store promises* | abstract specification of the two stores |
| `FileStore`, `MemoryStore` | durable and ephemeral record store (`records.rs`, `records/memory.rs`) | two files committed one after the other, an anchor that power loss undoes, older files put back |
| `PolicyStore` | rotations, snapshots, names (`policy.rs`, `authority.rs`) | failed writes, renames that power loss undoes, competing rotations |
| `StateFiles` | endpoint identity on disk (`identity/unix.rs`), with `CatalogMigration` (`records/migration.rs`) | power loss between staged file, link and marker; interrupted imports |
| `AdmissionBudget` | mutation budgets of the directory (`admission.rs`) | shared budgets against reserved renewals |
| `DirectoryService` | accept loop, task group, maintenance, close; with `DirectoryApi`, the requests themselves (`service.rs`, `tasks.rs`, `http.rs`) | late jobs against close, retries of answered requests |
| `Publication` | announce loop + `RecordIssuer` + lossy network + `RecordStore` | late requests, lost replies, lapsed leases |
| `RevocationFeed` | feeds, blocking jobs, the value that admits (`revocations.rs`) | jobs that outlive their feed, successors on one file |
| `Grants` | capability grants (`grant.rs`) and the checks made on them | skewed clocks, renewals in any order |
| `ConnAuthz` | authorization, renewal, watchdog, waiting services (`authz.rs`) | concurrent tasks, failing replies, time against retries |
| `AgentService` | connections, streams and task lanes of the agent (`lib.rs`, `limits.rs`) | counters under cancellation, answers that a peer leaves unread |
| `Daemons` | agent and server processes, administration listener (`main.rs`, `runtime.rs`, `admin/`) | order of release, a signal beside a failure, a disk job that outlives its task |
| `Reconcile` | manifests, differences, plans, conflicts (`directory.rs`, `reconcile.rs`) | order of operations, type changes, renames |
| `DirectoryScan` | scan of a tree that changes, parts of its listing (`scanner.rs`, `wire.rs`) | entries replaced between two looks |
| `Journal` | receive journal (`journal.rs`, `confined.rs`) | power loss between renames and syncs, several processes |
| `Transfer` | both sides of a transfer (`engine.rs`) | two peers, two readers, uninterruptible disk work |
| `LocalManager` | session table, reservations, transfers, control socket (`local/`) | callers that go away half-way |
| `ManagedStreams` | relayed desktops; with `ForwardedTcp`, forwarded connections | an upload's end that must follow every byte |
| `Workspace` | tabs, session tasks, event queue (`render/workspace.rs`, `viewer/`) | dropped events, renamed computers |
| `NoqEndpoint` | dials, drivers, close; with `UniRouter`, one-way streams (`noq/`, `uni.rs`) | a dial that wins while the endpoint closes |
| `PathPolicy` | paths, candidates, draining relays; with `LatencyPaths`, the latency preference | events lost by a lagging driver |
| `RelayTunnel` | peer table, link, watchers; with `MuxSocket`, the socket (`relay.rs`, `peers.rs`, `socket.rs`) | full tables, starving transports |
| `RelayServer` | registration, replacement, forwarding, drain (`server.rs`) | a replaced connection that cleans up late |
| `DesktopMedia` | repair word and frame pipeline (`session.rs`, `client.rs`, `order.rs`, `media_repair.rs`) | late and missing frames |
| `MediaFlow` | bitrate pacing; with `AudioPlayout`, the jitter buffer | several signs of one congestion |
| `ControlPlane` | control stream; with `ReplyWatch` and `ViewerSession`, snapshots of its reader and the viewer's watchdogs | two bounded queues that can stop each other |
| `ViewerInput` | viewer input, workers, held keys (`viewer.rs`, `input/`) | workers that hang and are replaced |
| `Clipboards` | X11 clipboard and viewer clipboard (`clipboard/x11.rs`, `render/clipboard.rs`, `viewer.rs`) | owners that change while text arrives, or between two accesses of one handler |
| `PortalSession` | portal session, screen cast, emulated input, portal clipboard (`portal/`) | requests that time out while queued, or between check and flush |

A module that names a second part has a section for each, with variables, `Init`
and `Next` of its own; the `MC…` modules instantiate them. `ConnAuthzProofs`,
`ExposureProofs` and `RecordIssuerProofs` hold proofs; five other modules hold
theirs at the end. How state and actions correspond to the code is noted at every
variable and action, and the `map` of `PROJECT.json` names the lines.

*Granularity.* A section under one mutex, or a call through `&mut self`, is one
step; tasks interleave at their awaits; disk work is split wherever a crash leaves
a different disk. *Data* is reduced to what the properties tell apart: a signed
document is a record whose equality is equality of its bytes, a digest is the
thing it digests, a chunk is a name. Signatures and encodings are taken as
correct; the QUIC engine, X server, compositor and portal are external and may do
what the code has to be prepared for.

Notes on faithfulness that a reader should know:

- `RecordIssuer.RenameSurvives` says whether a rename that is visible after a
  restart also survives power loss. The passing run and the theorems take it as
  true; `issuer_unsynced_rename` shows what happens otherwise.
- `FileStore` and `PolicyStore` keep, beside the file that is visible, the set of
  files a power loss may leave (`kept`): a rename joins it, and only a directory
  sync, of a later write or of the seal, replaces it. What an open relied on
  without syncing it is remembered in `adopted`, what was answered from it in
  `tentative`; the two exceptions of the durable properties are stated with them.
  `FileStore` also lets an older copy of the database be put back. `Journal` and
  `StateFiles` let power loss undo every unsynced rename and removal, separately
  by name. Creating a directory is one durable step in `Journal`, although
  `confined.rs` does not sync the parent when the name already exists.
- `ConnAuthz` takes signature, subject, audience and tenant checks as passed;
  `Grants` has them as the first binding that does not hold. No time passes while
  a watchdog can run (`Settled`): the bound of one second is on the code's timers,
  not on its scheduler.
- `Publication` assumes one clock for agent and directory and does not time
  backoff. Skew, which makes the directory refuse a record or shortens its lease,
  is left out.
- `Transfer` models the managed routes. Stall bounds and the session deadline
  are failures that may strike at any time, and nothing relies on them.
- `Clipboards` runs the handlers of the viewer's event loop (`handler`) as the steps
  between two accesses to the pasteboard: read and decide, write, read and tell,
  and, for a deferred paste, compare and read. Programs on the same desktop and the
  network may step in between; another handler may not, as the loop is one thread.
- `PortalSession` checks the request in flight in one step and flushes in the next,
  as `run` does; its deadline may pass in between.
- `Daemons` lets the announcer's blocking job run on when the announcer is aborted.
- `MediaFlow` has rates on a coarse scale, round-trip times as levels.
  `PathPolicy` is the default preference; the acknowledgement progress of the
  iroh backend (`iroh/latency.rs`) is not modelled.

## 3. Runs

Nine passing runs, one per group of parts that answer one question together. Each
`MC…` module has a variable `workload`, chosen initially and never changed: a
behaviour exercises one of the instances below, and a property is the conjunction
of what is claimed of each of them.

| Run | Workloads | Shows |
|---|---|---|
| `durable` | issuer, catalog, policy, identity, migration | what was committed and answered survives power loss, a crash leaves files that open (with the exceptions of section 4), nothing mixes two states, `FileStore` implements `RecordStore` |
| `directory` | lease, store, budget, api, service | a lease never outlives its signed time, an enrolled publisher keeps its renewal, concurrent requests answer what was done, nothing runs after close, `MemoryStore` implements `RecordStore` |
| `admission` | timed, streams, slots, rights, agentd, serverd, admin | a dead grant is noticed within a second, ids in use are those of held grants, a renewal keeps its scope and its deadline, a process ends with the outcome of what it ran |
| `sync` | tree, scan, wire, journal, transfer | plans converge through trees only, a listing was true at one moment, a destination is always a whole version, success means installed |
| `sessions` | manager, socket, relayed, tcp, workspace | every connection has an owner, an upload is finished and a download ends cleanly only after every byte, what a tab shows is what runs |
| `network` | relay, paths, latency, tunnel, dial, uni | sources hear that a destination left, close is final, what is in use is kept, a live path is hidden only by lost events and beyond the rescan |
| `desktop` | media, pacing, audio, plane, replies, watch | no frame is decoded without its reference, one tick takes one cut and a media cut is not repeated at once, replies are true and the two queues never stop each other for good, watchdogs wait for repair |
| `seat` | input, aim, x11, copy, selection, ei, portal | a key is down only while it is held, a click lands where it was aimed, texts are whole and never echoed, a portal's numbers and locks are consistent |
| `progress` | announce, feed, agent, waiters, service, call, keys, tcp, tunnel, mux, latency, records | freshness is owned and never steps back; under fairness everything started ends and nobody waits for ever |
| `issuer_unsynced_rename`, `transfer_flood`, `transfer_cancel` | | *violated*: see section 4 |

**Bounds.** Counters are capped in guards: revisions, generations, reboots, clock
values, faults, and each `MC…` module names its values. Two of anything that
competes (drafts, rotations, receivers, streams, feeds, sessions) is the least that
exhibits the races; three keys for two slots, three peers in a table for one, two
tabs in a window for two are the least that exhaust a capacity. Lifetimes and
limits are chosen so that both sides of every comparison occur; a second is two
ticks where sub-second times matter. In `sync` the offer and the manifest just fit
the queue, as seven parts fit the queue of eight; the eight and the 512 parts that a
manifest may have are scaled down together in `transfer_flood`. The pacing scale of
`desktop` leaves room for a cut and a second cut above its floor, so that a repeated
cut shows. `aim` has two positions and a queue that holds a whole click, with no
fault, so that moves and presses meet in it; `input` has the faults.

Some workloads also restrict which rare events meet in one behaviour, by a named
condition on the next state (`Within`, `Concerns`, `Apart`, `Together`, `OneThing`,
`FewKinds`, and conditions on fault counters in `identity`, `workspace`, `watch`,
`input`, `aim` and `portal`; in `network` the endpoint of a tunnel is not shut down,
which `progress` has). Each kind of event still happens, and so do its races with
the ordinary steps; what is not explored is the combination of two kinds of fault
that the condition names.

**Fairness** is stated in `MCProgress` and only where the code schedules: tasks that
can run do (announce loop, agent, transfer, local manager, directory service, path
driver, relay watchers), blocking jobs finish, timers fire, and the service's
interval collects. The feed polls for ever, so a snapshot that stays newest is
eventually fetched: strong fairness, as other polls may come between. `Publication`
also assumes that writes are eventually tried without an error, that a supervisor
restarts a loop that stopped (`Restart=on-failure` in
`deploy/systemd/rds-agent.service`), that an awaited request is answered once the
bounded faults are used up, and that time passes. In `latency` the other route
answers its probes. No fairness is put on failures, on peers, or on users: a peer
need not read its answers, so the agent's control lane is promised only while it
does, and the watcher of a link notices a loss only while its endpoint is open.
`CHECK_DEADLOCK FALSE` is used where the system may stop: at the end of modelled
time, when calls have ended, and when a process has exited.

**Type invariants.** Each `…TypeOK` is the type invariant of its component. They are
proved for the issuer, the feed, the authorization of connections and the in-memory
store, where the other proofs need them; the budgets' and the lease's types are
conjuncts of `BudgetInv` and `LeaseInv`. The configured runs do not list them; each
held on the whole instance of its run when it was added to it as an invariant. The
agent service, daemons, policy store, publication, local manager, managed streams,
media, viewer input, clipboards and portal have none: their states are constrained
by the properties of their runs only.

**Mutants.** Every property of a passing run has a mutant, a plausible bug placed
before the definition it would replace, under which TLC finds the property
violated.

## 4. Findings

- `issuer_unsynced_rename`: `RecordIssuer::open` adopts a renamed but unsynced
  file and returns its pending mutation without writing again, although "every
  new mutation and its revision commit before it is returned".
- `transfer_flood`: the control queue holds eight frames, while the holder sends
  its offer and whole manifest unasked. A receiver that is busy with its
  preflight overflows and ends an honest transfer of a large file as flooded,
  although "a full queue means the peer flooded us with frames no phase accepts".
- `transfer_cancel`: the server's `select` looks at the stop of its control
  stream first. A caller that cancels stops that stream right after its Cancel
  frame, and if the stop is seen first the receive is dropped, not joined: the
  slot is released while the writer still owns the journal.

Seventeen more properties are stated beside the passing ones and no run checks
them, because what the code does refutes them on the instance of the run that has
their module. Each is what a comment or document says, or the unrestricted form of
a property that passes with an exception.

| Property | What the code does |
|---|---|
| `PublishedIsServed` (`PortalSession`) | a signal of an earlier owner that is handled after a publication clears the offered text, and the session's own signal does not restore it (`portal/clipboard.rs:217-218`) |
| `LiveIsSelectable` (`PathPolicy`) | the rescan looks at the first path identifiers only, and identifiers grow with every path opened (`noq/policy.rs:436-443`) |
| `RetiringWithdrawn` (`PathPolicy`) | the driver withdraws a retiring slot once, possibly before an offer made from an older reading (`noq/mod.rs:549-551`) |
| `LeaseStaysPinned` (`RelayTunnel`) | a lease that is older than a peer's departure takes, when dropped, the pin of the lease acquired since (`relay/peers.rs:21`, 45-58, 119-125) |
| `AnsweredIsDurable` (`StateFiles`) | a caller that finds the key's directory does not wait until its creator has synced the parent (`identity/unix.rs:392-398`, 426) |
| `NeverReplayed` (`ViewerInput`) | the drain comes before the next dial, so what is typed during that dial reaches the new session (`rds-cli/src/desktop.rs:448`) |
| `RepeatedSurvives` (`PolicyStore`) | a snapshot found in a file that was renamed and not synced is answered again without a write, and power loss takes it (`policy.rs:124-152`, `persist.rs:224-228`) |
| `PowerLossIsOpenable` (`FileStore`) | open finds the unsynced anchor equal to the database and does not write it; after the next commit of the database, power loss leaves an anchor two generations behind (`records.rs:286-299`) |
| `KeyOutlastsJob` (`Daemons`) | the disk job of an aborted announcer may still sign after `run` released the key; its result is not published (`announce.rs:142-144`) |
| `TargetEndIsComplete` (`ManagedStreams`) | a reset upload makes the agent drop its socket, which the remote service reads as an orderly end |
| `LaneAlwaysFrees` (`AgentService`) | answers to pings and a refused height are written without a deadline, and a peer that reads none keeps their lanes (`lib.rs:704-716`, 875-910) |
| `ReductionIsHeld` (`MediaFlow`) | a viewer's request raises the rate within the five seconds of the hold (`session.rs:546-547`) |
| `OneCutPerCongestion` (`MediaFlow`) | receipts that are late a tick after the path's cut cut again (`session.rs:579-580`) |
| `NoLateWrite` (`PortalSession`) | the deadline may pass between the check and the flush (`portal/input.rs:576-585`); the write is then the worker's last (`LateIsLast`) |
| `NoCopyOverwritten` (`Clipboards`) | a copy that another program makes between the decision and the write is overwritten (`render/viewer.rs:772-778`) |
| `PasteNeverForeign` (`Clipboards`) | a copy made between the write and the second read, or after a deferred paste has compared the generations, is pasted as the copied text (`render/viewer.rs:778-788`, `spaces/clipboard.rs:124-125`) |
| `OneWindow` (`Clipboards`) | a read that completes leaves its requestor window (`clipboard/x11.rs:489-491`) |

Observed while modelling, without a property of their own:

- *Agent.* `run` returns success when the endpoint ends by itself. A failure of
  the announcer at the moment of a signal is not reported. A panic that
  `TaskGroup::admit` reaps is not counted.
- *Relay.* `Registered` is acknowledged before the slot is inserted
  (`server.rs:551`, 565-574). A late departure notice can erase the mapping of a
  peer that attached again.
- *Forwarding.* The loss of a caller becomes a plain close, and the agent's task ends only when the target writes or closes.
- *Desktop.* A portal is not closed when a later step of its start fails, and its
  restore token is lost when a call fails after consent. An input worker is not
  probed again. Events are dropped when the owner of a managed desktop ends, and
  stop events when the workspace queue is full.
- *Journal.* `Directory::child` does not sync a parent when the name exists
  (`confined.rs:49`); this is the one listed hazard that no property covers.

## 5. Proofs

Eight modules hold theorems. Each theorem is for every value of the constants that
its module's assumptions allow: any number of connections, feeds, publishers,
endpoints, any limits, any clock.

| Theorem | Says | Checked in |
|---|---|---|
| `RecordIssuerProofs!IssuerSafety` | revisions are unique, what was returned is committed, issue times follow revisions, a failure is one write deep | `durable` |
| `RecordIssuerProofs!IssuerMonotone` | the committed revision never decreases and advances by one at most per step | `durable` |
| `LeaseClock!LeaseNeverOutlives` | a valid lease is younger than the signed time left at its acceptance | `directory` |
| `AdmissionBudget!RenewalAlwaysProtected` | an enrolled publisher that was idle for a window is never refused its renewal | `directory` |
| `MemoryStore!StoreRefines` | the in-memory store implements `RecordStore` | `directory` |
| `MemoryStore!LiveCounted` | its incremental count is the number of live records | `directory` |
| `Grants!RenewalsKeepScope` | however many renewals a session takes, its rights are those of the grant that opened it | `admission` |
| `ConnAuthzProofs!AuthorizationsOwned` | ids in use are exactly those of held grants, and a transaction in progress has one owner | `admission` |
| `ConnAuthzProofs!RenewalsStand` | a kept grant keeps its deadline, and the watchdog never closes a connection for a grant that was replaced | `admission` |
| `ExposureProofs!ExposuresBounded` | an open connection keeps a dead grant for one second at most | `admission` |
| `RevocationFeed!FreshnessHasAnOwner` | a fresh value is owned by the feed that installed it | `progress` |
| `RevocationFeed!RevisionsNeverGoBack` | no late fetch, load or claim installs an older revision over a newer one | `progress` |

*Assumptions.* All are named `ASSUME`s that TLC evaluates in the runs. They say that
times, revisions and bounds are natural numbers, that a second is at least a tick
(`SecondAssumption`), that the placeholder for an absent value is not a value
(`NoneAssumption`, `AbsenceAssumption`, `ClockAssumption`, `StoreAssumption`,
`FeedAssumption`), and, for the limits (`LimitsAssumption`), that the table of
writers has room for the enrolled ones, the minimal interval fits the window and a
publisher's share is not zero. The issuer's theorems also assume `RenameSurvives`.

*Issuer.* That everything returned is committed is not inductive: nothing in it says
that a mutation the issuer is about to return belongs to the file. `IssuerInv` adds
that the file is valid, that nothing was returned before a file existed, and that
memory and file differ only after a failed write and then by one mutation
(`FailureIsOneWriteDeep`). Three lemmas carry the cases: taking ownership of the file,
returning its pending mutation again, and committing a successor with any outcome.

*Leases.* `LeaseInv` relates the deadline to the continuous reading at acceptance, and
that reading to the age of the lease while the boot is the same. Of the wall
clock it says only its type, which is why setting it cannot help.

*Budgets.* A renewal is refused for the writer's own window, for the shared one, or
for want of a place in the table. `BudgetInv` relates every entry to the last
admission of its publisher (`WriterSound`): a window with something spent, or with its
reserve taken, began no later than that admission. A publisher idle for a whole window
therefore has a stale window and its reserve. `RoomForEnrolled` counts the table.

*In-memory store.* The mapping (`View`) shows of every cell its entry and whether its
lease was dropped. `StoreTypeOK` is inductive by itself: only what is no placeholder
can be told from an absent cell or a dropped lease. Each step is then shown to be a
step of the abstract store or a stutter: accepted mutations (`AcceptStep`), exact
retries (`RetryStep`), leases dropped by a call or a collection (`LapseStep`), and
everything else (`StutterStep`). A collection drops the leases of a whole batch in one
step, and `CollectFacts` says what it leaves. The count follows from two lemmas on
cardinality, one for a replaced key and one for a batch.

*Grants.* `ScopeInv` keeps the scope of the current grant equal to the first one's;
`RightsOfScope` says that rights depend on nothing else.

*Authorization.* `AuthzInv` names the owner of every stage of a transaction: a
connection that is authorizing or renewing has exactly one stream at work
(`OneOwner`), a held grant is in the table of ids (`Leased`, `SlotsExact`), the
watchdog's view is the current grant except between publication and commit, when it
is the next one (`Viewed`), and a renewal was prepared for the grant it replaces
(`Prepared`). `RenewalStands` is an action property and follows from it step by step.

*Exposure.* The bound needs to know why the watchdog cannot oversleep. `ExposureInv`
adds that an open connection with a grant has a watchdog (`Watched`), that it decides
by the current policy unless a newer one has been announced to it (`SnapKnown`), that
it sleeps for a second at most (`DueBound`), and that the time since an exposure began
and the time left to sleep add up to a second at most (`Timed`). Under the state lock
the watchdog judges the renewed grant while `scope()` still judges the old one, so
`Locked` says that the count is zero there or the exposure over. Three lemmas, for
streams, watchdogs and the environment, preserve it.

*Feeds.* `FeedInv` says that a fresh value is backed by an owner that is alive
(`OwnerBacked`), that the lock of the policy file has one holder and a running job
belongs to it (`OneWriter`), and that nothing in memory is newer than the file
(`NothingNewer`). A job that outlives its feed still holds the lock, which is why its
successor cannot be overtaken.

*Only model-checked.* Liveness under fairness (`Settles`, `EveryWaitEnds`) is beyond
the prover. So is what a recursive definition computes for every input: plans and
their application (`Reconcile`), assembly of listings (`DirectoryScan`). The
refinement of `RecordStore` by `FileStore`, whose two files need a mapping through
every commit boundary, and the invariants of the other components are checked on
their instances and not proved.

## 6. Not modelled

Encodings, signatures, TLS and HTTP; configuration and building of arguments; window
systems, codecs and rendering; metrics; command line, ssh and benchmarks; vendored
libraries; the iroh backend. The greeting of a negotiated transfer, the legacy route
and the path scope of a sync grant. `PROJECT.json` has the reason for each component.
