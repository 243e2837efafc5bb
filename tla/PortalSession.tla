---------------------------- MODULE PortalSession -----------------------------
(***************************************************************************)
(* A Wayland desktop prepared by the agent: the permission file, the       *)
(* consented portal session and the task that closes it, the PipeWire      *)
(* worker with the newest picture, and the coordinator that ends all of    *)
(* them together.  Remote sessions only borrow the prepared desktop.       *)
(*                                                                         *)
(* A preparation is one attempt n; its portal session and close owner may  *)
(* outlive it.  Permission tokens are numbered; the portal accepts the one *)
(* it gave last.  One monitor's picture stands for all of them.            *)
(***************************************************************************)
EXTENDS Naturals, Sequences, FiniteSets, SequencesExt, Integers

CONSTANTS
    Ids,          \* stable monitor identities
    MaxAttempts,  \* bound: preparations
    Permits,      \* portal sessions open at a time
    MaxCrashes,   \* bound: crashes of the agent
    MaxFormats    \* bound: announced extents of one stream

VARIABLES
    prep,      \* [at, n, fresh, file, token, monitors]: the running prepare()
    lock,      \* holder of the state lock: "free", "file", "prep" or "coord"
    store,     \* the Store in memory: [token, shown, next]
    visible, durable,   \* the permission file as seen and as it survives
    portalTok, \* the last token the portal gave
    own,       \* n -> [session, task, stop]: portal session and close owner
    slot,      \* [extent, image, failed]
    pipe,      \* capture worker: "none", "up", "copying" or "down"
    pipeStop,
    coord,     \* "none", "watch", "stopping", "joining", "closing" or "done"
    coordStop,
    closed,    \* the desktop's closed flag
    pictures,  \* the producer of a remote session: [at, extent]
    served,    \* <<monitor, index>> ever offered to a remote session
    lost,      \* a consent was given whose token was not stored
    crashes, formats

fileVars == <<lock, store, visible, durable>>
captureVars == <<slot, pipe, pipeStop, formats>>
desktopVars == <<coord, coordStop, closed, pictures>>
ghostVars == <<served, lost>>
pdVars == <<prep, fileVars, portalTok, own, captureVars, desktopVars, ghostVars, crashes>>

Attempts == 1..MaxAttempts
Blank == [token |-> 0, shown |-> <<>>, next |-> 0]
NoPrep == [at |-> "idle", n |-> 0, fresh |-> FALSE, file |-> "no", token |-> 0, monitors |-> {}]
NoOwner == [session |-> "none", task |-> "none", stop |-> FALSE]
NoSlot == [extent |-> 0, image |-> 0, failed |-> FALSE]

PdInit ==
    /\ prep = NoPrep /\ lock = "free" /\ store = Blank /\ visible = Blank /\ durable = Blank
    /\ portalTok = 0 /\ own = [n \in Attempts |-> NoOwner]
    /\ slot = NoSlot /\ pipe = "none" /\ pipeStop = FALSE /\ formats = 0
    /\ coord = "none" /\ coordStop = FALSE /\ closed = FALSE
    /\ pictures = [at |-> "none", extent |-> 0]
    /\ served = {} /\ lost = FALSE /\ crashes = 0

At(stage) == prep.at = stage
To(stage) == prep' = [prep EXCEPT !.at = stage]
\* prepare() returns an error; its Store is dropped.
Return == prep' = [NoPrep EXCEPT !.n = prep.n] /\ lock' = "free" /\ store' = Blank

(***************************************************************************)
(* The permission file                                                     *)
(***************************************************************************)
Prepare ==
    /\ At("idle") /\ prep.n < MaxAttempts /\ coord \in {"none", "done"}
    /\ \E fresh \in BOOLEAN : prep' = [NoPrep EXCEPT !.at = "opening", !.n = prep.n + 1, !.fresh = fresh, !.file = "running"]
    /\ UNCHANGED <<fileVars, portalTok, own, captureVars, desktopVars, ghostVars, crashes>>

\* Store::open on the file worker
FileOpens ==
    /\ prep.file = "running"
    /\ IF lock = "free"
       THEN lock' = "file" /\ store' = visible /\ prep' = [prep EXCEPT !.file = "opened"]
       ELSE prep' = [prep EXCEPT !.file = "refused"] /\ UNCHANGED <<lock, store>>
    /\ UNCHANGED <<visible, durable, portalTok, own, captureVars, desktopVars, ghostVars, crashes>>

Opened ==
    /\ At("opening")
    /\ \/ /\ prep.file = "opened" /\ lock' = "prep" /\ UNCHANGED store
          /\ prep' = [prep EXCEPT !.at = "admission", !.file = "no", !.token = IF prep.fresh THEN 0 ELSE store.token]
       \/ /\ prep.file = "refused" /\ prep' = [NoPrep EXCEPT !.n = prep.n] /\ UNCHANGED <<lock, store>>
    /\ UNCHANGED <<visible, durable, portalTok, own, captureVars, desktopVars, ghostVars, crashes>>

\* A plausible bug: a cancelled preparation leaves its file worker behind.
CancelDetached ==
    /\ At("opening") /\ prep.file = "running"
    /\ prep' = [NoPrep EXCEPT !.n = prep.n, !.file = "running"]
    /\ UNCHANGED <<fileVars, portalTok, own, captureVars, desktopVars, ghostVars, crashes>>

\* A cancelled preparation joins the file worker before it returns.
CancelOpening ==
    /\ At("opening") /\ prep.file # "running"
    /\ IF prep.file = "opened" THEN Return ELSE prep' = [NoPrep EXCEPT !.n = prep.n] /\ UNCHANGED <<lock, store>>
    /\ UNCHANGED <<visible, durable, portalTok, own, captureVars, desktopVars, ghostVars, crashes>>

\* Store::index: known monitors keep their number, new ones get the next.
Numbered(s, id) ==
    IF id \in DOMAIN s.shown THEN s
    ELSE [s EXCEPT !.shown = [i \in DOMAIN s.shown \cup {id} |-> IF i = id THEN s.next ELSE s.shown[i]], !.next = @ + 1]

NumberAll(s, ids) == FoldLeft(Numbered, s, ids)

(***************************************************************************)
(* The portal session                                                      *)
(***************************************************************************)
Mine == own[prep.n]
Live == {n \in Attempts : own[n].task \notin {"none", "done"}}
SetOwn(n, o) == own' = [own EXCEPT ![n] = o]

\* session::open: a permit, a connection and CreateSession
CreateSession ==
    /\ At("admission")
    /\ \/ /\ Cardinality(Live) < Permits
          /\ SetOwn(prep.n, [session |-> "open", task |-> "watch", stop |-> FALSE])
          /\ To("selecting") /\ UNCHANGED <<lock, store>>
       \/ Return /\ UNCHANGED own   \* busy, failed, cancelled
    /\ UNCHANGED <<visible, durable, portalTok, captureVars, desktopVars, ghostVars, crashes>>

\* start: the request is recorded with the owner, then the user is asked.
Start ==
    /\ At("selecting") /\ To("consent")
    /\ UNCHANGED <<fileVars, portalTok, own, captureVars, desktopVars, ghostVars, crashes>>

Orders == {o \in UNION {[1..k -> Ids] : k \in 1..Cardinality(Ids)} : IsInjective(o)}

\* The user agrees: the portal consumes the old token and gives a new one.
Consent ==
    /\ At("consent") /\ Mine.session = "open" /\ Mine.task = "watch"
    /\ portalTok' = portalTok + 1
    /\ \E o \in Orders : prep' = [prep EXCEPT !.at = "granted", !.token = portalTok + 1, !.monitors = o]
    /\ UNCHANGED <<fileVars, own, captureVars, desktopVars, ghostVars, crashes>>

\* Refused, cancelled, timed out or closed: the owner is closed and joined.
\* After a consent its token is lost.
Abandon ==
    /\ \/ At("selecting") \/ At("consent")
       \/ At("granted")
    /\ To("abandoning")
    /\ SetOwn(prep.n, [Mine EXCEPT !.stop = TRUE])
    /\ lost' = (lost \/ At("granted"))
    /\ UNCHANGED <<fileVars, portalTok, captureVars, desktopVars, served, crashes>>

Abandoned ==
    /\ At("abandoning") /\ Mine.task = "done"
    /\ Return
    /\ UNCHANGED <<visible, durable, portalTok, own, captureVars, desktopVars, ghostVars, crashes>>

\* own_session: the close owner ends when asked to, or when the portal closes
\* the session; it then closes the session and its connection.
OwnerSees(n) ==
    /\ own[n].task = "watch" /\ (own[n].stop \/ own[n].session = "closed")
    /\ SetOwn(n, [own[n] EXCEPT !.task = "closing"])
    /\ UNCHANGED <<prep, fileVars, portalTok, captureVars, desktopVars, ghostVars, crashes>>

OwnerCloses(n) ==
    /\ own[n].task = "closing"
    /\ SetOwn(n, [own[n] EXCEPT !.task = "done", !.session = "closed"])
    /\ UNCHANGED <<prep, fileVars, portalTok, captureVars, desktopVars, ghostVars, crashes>>

\* The user or the compositor ends the session.
Revoke(n) ==
    /\ own[n].session = "open"
    /\ SetOwn(n, [own[n] EXCEPT !.session = "closed"])
    /\ UNCHANGED <<prep, fileVars, portalTok, captureVars, desktopVars, ghostVars, crashes>>

\* Drop for Owner: the close is requested and not waited for.
ReleaseOwner == SetOwn(prep.n, [Mine EXCEPT !.stop = TRUE])

(***************************************************************************)
(* Saving the token and starting the native workers                        *)
(***************************************************************************)
Index ==
    /\ At("granted") /\ To("saving")
    /\ store' = NumberAll(store, prep.monitors)
    /\ UNCHANGED <<lock, visible, durable, portalTok, own, captureVars, desktopVars, ghostVars, crashes>>

Saved == [store EXCEPT !.token = prep.token]

\* Store::save: the rename, then the directory's fsync
SaveRenames ==
    /\ At("saving") /\ To("renamed")
    /\ store' = [store EXCEPT !.token = prep.token] /\ visible' = Saved
    /\ UNCHANGED <<lock, durable, portalTok, own, captureVars, desktopVars, ghostVars, crashes>>

SaveSyncs ==
    /\ At("renamed") /\ To("native")
    /\ durable' = visible
    /\ UNCHANGED <<lock, store, visible, portalTok, own, captureVars, desktopVars, ghostVars, crashes>>

\* An error between the consent and the coordinator drops what was prepared.
SetupFails ==
    /\ At("granted") \/ At("saving") \/ At("renamed") \/ At("native")
    /\ lost' = (lost \/ At("granted") \/ At("saving"))
    /\ Return /\ ReleaseOwner
    /\ UNCHANGED <<visible, durable, portalTok, captureVars, desktopVars, served, crashes>>

NativeStarts ==
    /\ At("native") /\ To("waiting") /\ lock' = "coord"
    /\ slot' = NoSlot /\ pipe' = "up" /\ pipeStop' = FALSE /\ formats' = 0
    /\ coord' = "watch" /\ coordStop' = FALSE /\ closed' = FALSE
    /\ pictures' = [at |-> "none", extent |-> 0]
    /\ UNCHANGED <<store, visible, durable, portalTok, own, ghostVars, crashes>>

Serve ==
    /\ At("waiting") /\ ~closed /\ ~slot.failed /\ slot.extent # 0
    /\ To("served")
    /\ served' = served \cup {<<prep.monitors[i], store.shown[prep.monitors[i]]>> : i \in DOMAIN prep.monitors}
    /\ UNCHANGED <<fileVars, portalTok, own, captureVars, desktopVars, lost, crashes>>

\* Not ready in time, cancelled, closed, or close() by the agent.
Close ==
    /\ At("waiting") \/ At("served")
    /\ To("closing") /\ coordStop' = TRUE
    /\ UNCHANGED <<fileVars, portalTok, own, captureVars, coord, closed, pictures, ghostVars, crashes>>

Closed ==
    /\ At("closing") /\ coord = "done"
    /\ prep' = [NoPrep EXCEPT !.n = prep.n]
    /\ UNCHANGED <<fileVars, portalTok, own, captureVars, desktopVars, ghostVars, crashes>>

(***************************************************************************)
(* The coordinator                                                         *)
(***************************************************************************)
Watch ==
    /\ coord = "watch"
    /\ coordStop \/ Mine.task # "watch" \/ slot.failed
    /\ coord' = "stopping" /\ closed' = TRUE
    /\ UNCHANGED <<prep, fileVars, portalTok, own, captureVars, coordStop, pictures, ghostVars, crashes>>

\* The EIS worker stops by itself: its group is stopped too.
InputStops ==
    /\ coord = "watch"
    /\ coord' = "stopping" /\ closed' = TRUE
    /\ UNCHANGED <<prep, fileVars, portalTok, own, captureVars, coordStop, pictures, ghostVars, crashes>>

Failed(s) == [s EXCEPT !.failed = TRUE, !.image = 0]

\* Group::stop of the capture and of the input
StopNative ==
    /\ coord = "stopping" /\ coord' = "joining"
    /\ pipeStop' = TRUE /\ slot' = Failed(slot)
    /\ UNCHANGED <<prep, fileVars, portalTok, own, pipe, formats, coordStop, closed, pictures, ghostVars, crashes>>

\* The workers are joined, or their five seconds pass; then the portal.
Joined ==
    /\ coord = "joining" /\ coord' = "closing"
    /\ ReleaseOwner
    /\ UNCHANGED <<prep, fileVars, portalTok, captureVars, coordStop, closed, pictures, ghostVars, crashes>>

Finish ==
    /\ coord = "closing" /\ Mine.task = "done"
    /\ coord' = "done" /\ lock' = "free" /\ store' = Blank
    /\ UNCHANGED <<prep, visible, durable, portalTok, own, captureVars, coordStop, closed, pictures, ghostVars, crashes>>

(***************************************************************************)
(* The PipeWire worker                                                     *)
(***************************************************************************)
\* param_changed: a new extent drops the old picture, an unusable one fails.
Format ==
    /\ pipe = "up" /\ formats < MaxFormats /\ formats' = formats + 1
    /\ \/ \E e \in {1, 2} : slot' = [slot EXCEPT !.extent = e, !.image = IF e = @ THEN @ ELSE 0]
       \/ slot' = Failed(slot)
    /\ UNCHANGED <<prep, fileVars, portalTok, own, pipe, pipeStop, desktopVars, ghostVars, crashes>>

\* process: a buffer is copied unless the slot failed or nobody looks.
Process ==
    /\ pipe = "up" /\ slot.extent # 0
    /\ ~slot.failed /\ (pictures.at # "none" \/ slot.image = 0)
    /\ pipe' = "copying"
    /\ UNCHANGED <<prep, fileVars, portalTok, own, slot, pipeStop, formats, desktopVars, ghostVars, crashes>>

Keep == slot' = IF slot.failed THEN slot ELSE [slot EXCEPT !.image = slot.extent]

Copied ==
    /\ pipe = "copying" /\ pipe' = "up"
    /\ Keep
    /\ UNCHANGED <<prep, fileVars, portalTok, own, pipeStop, formats, desktopVars, ghostVars, crashes>>

\* WorkerExit
FailSlots == slot' = Failed(slot)

\* The worker stops when told to, or with an error of its connection.
PipeExits ==
    /\ pipe = "up" /\ pipe' = "down"
    /\ FailSlots
    /\ UNCHANGED <<prep, fileVars, portalTok, own, pipeStop, formats, desktopVars, ghostVars, crashes>>

(***************************************************************************)
(* The producer of a remote session                                        *)
(***************************************************************************)
Produce ==
    /\ At("served") /\ pictures.at = "none" /\ ~closed /\ ~slot.failed /\ slot.extent # 0
    /\ pictures' = [at |-> "next", extent |-> slot.extent]
    /\ UNCHANGED <<prep, fileVars, portalTok, own, captureVars, coord, coordStop, closed, ghostVars, crashes>>

\* Producer::next: a picture of the admitted extent, or the session ends.
NextPicture ==
    /\ pictures.at = "next"
    /\ \/ slot.image = pictures.extent /\ ~slot.failed /\ UNCHANGED pictures
       \/ /\ slot.failed \/ slot.image \notin {0, pictures.extent}
          /\ pictures' = [at |-> "ended", extent |-> 0]
    /\ UNCHANGED <<prep, fileVars, portalTok, own, captureVars, coord, coordStop, closed, ghostVars, crashes>>

(***************************************************************************)
(* The agent dies: the portal sees its connection close, the file keeps    *)
(* what was synced and perhaps what was renamed.                           *)
(***************************************************************************)
Crash ==
    /\ crashes < MaxCrashes /\ prep.at # "idle" /\ crashes' = crashes + 1
    /\ prep' = [NoPrep EXCEPT !.n = prep.n]
    /\ lock' = "free" /\ store' = Blank
    /\ \E f \in {visible, durable} : visible' = f /\ durable' = f
    /\ lost' = (lost \/ At("granted") \/ At("saving") \/ (At("renamed") /\ visible' # visible))
    /\ own' = [n \in Attempts |-> IF own[n].task = "none" THEN NoOwner ELSE [session |-> "closed", task |-> "done", stop |-> TRUE]]
    /\ slot' = NoSlot /\ pipe' = "none" /\ pipeStop' = FALSE
    /\ coord' = "none" /\ coordStop' = FALSE /\ closed' = FALSE
    /\ pictures' = [at |-> "none", extent |-> 0]
    /\ UNCHANGED <<portalTok, formats, served>>

Preparation ==
    \/ FileOpens \/ Opened \/ CreateSession \/ Start \/ Abandoned \/ Index \/ SaveRenames \/ SaveSyncs
    \/ NativeStarts \/ Closed
Troubles == CancelOpening \/ Abandon \/ SetupFails \/ InputStops \/ Crash
Coordinator == Watch \/ StopNative \/ Joined \/ Finish
Capture == Format \/ Process \/ Copied \/ PipeExits
Owners == \E n \in Attempts : OwnerSees(n) \/ OwnerCloses(n)
PdNext ==
    \/ Prepare \/ Consent \/ Serve \/ Close \/ Preparation \/ Troubles \/ Coordinator \/ Capture
    \/ Owners \/ (\E n \in Attempts : Revoke(n)) \/ Produce \/ NextPicture

PdFairness ==
    /\ WF_pdVars(Preparation) /\ WF_pdVars(Coordinator) /\ WF_pdVars(NextPicture)
    /\ \A n \in Attempts : WF_pdVars(OwnerSees(n) \/ OwnerCloses(n))
PdSpec == PdInit /\ [][PdNext]_pdVars /\ PdFairness

(***************************************************************************)
(* Properties                                                              *)
(***************************************************************************)
\* A display number that a remote session was offered names the same monitor
\* for ever, over failed preparations, restarts and crashes.
NumbersStable == \A a, b \in served : a[1] = b[1] <=> a[2] = b[2]

\* "Completion is also the state-lock release boundary": a preparation that
\* follows a returned one never finds the lock taken.
NeverBusy == prep.file # "refused"

\* A failed slot or an ended worker leaves no picture behind: a copy that was
\* under way when the desktop closed is dropped.
NoStalePixels == slot.failed \/ pipe = "down" => slot.image = 0

-----------------------------------------------------------------------------
(***************************************************************************)
(* Input injection through a Wayland portal.  One worker owns the EIS      *)
(* connection to the compositor and the virtual devices on it; every       *)
(* desktop session holds a sink, whose requests the worker takes one at a  *)
(* time.  Keys and buttons are items, each on its device; an item is down  *)
(* as long as some lease holds it.                                         *)
(*                                                                         *)
(* The connection buffers what the worker writes until it flushes, and the *)
(* compositor may pause a device while actions for it are on their way.    *)
(***************************************************************************)

CONSTANTS
    Sinks,      \* the leases handed out by the group
    Items,      \* keys and buttons
    Devices,
    DeviceOf,   \* [Items -> Devices]
    WireCap,    \* unread actions that fill the socket
    QueueCap,   \* requests that wait for the worker
    MaxInputs,  \* bound: requests made
    MaxPauses   \* bound: times the compositor pauses or removes a device

VARIABLES
    eiWorker,   \* "top", "flush" or "body" of its loop, or the reason it ended
    eiStop,     \* Group.stop
    eiReady,    \* Group.ready
    era,
    resumed,    \* the devices the worker believes it may use
    holds,      \* s -> items held, for the leases the worker knows
    known,      \* leases with an entry in holds
    sink,       \* s -> [at, live, era, item, down, due]
    requests,   \* the queue of waiting sinks
    inFlight,   \* sink whose request was applied, 0 for none
    acked,      \* the compositor has answered the sync of that request
    unsent,     \* actions buffered on the connection
    toPeer, toUs,
    peer,       \* d -> "paused", "resumed" or "emulating" at the compositor
    pressed,    \* items down at the compositor
    inputs, pauses,
    lateWrite   \* an action was sent for a request its caller had given up

callVars == <<sink, requests, inputs>>
actorVars == <<resumed, holds, known, inFlight, acked, unsent>>
peerVars == <<peer, pressed, toPeer, toUs, pauses>>
eiVars == <<eiWorker, eiStop, eiReady, era, actorVars, callVars, peerVars, lateWrite>>

Fresh == [at |-> "none", live |-> FALSE, era |-> 0, item |-> "", down |-> FALSE, due |-> FALSE]
Gone == [Fresh EXCEPT !.at = "gone"]
Idle(k) == [Fresh EXCEPT !.at = "open", !.live = k.live, !.era = k.era]

EiInit ==
    /\ eiWorker = "top" /\ eiStop = FALSE /\ eiReady = FALSE /\ era = 0
    /\ resumed = {} /\ holds = [s \in Sinks |-> {}] /\ known = {}
    /\ sink = [s \in Sinks |-> Fresh] /\ requests = <<>> /\ inputs = 0
    /\ inFlight = 0 /\ acked = FALSE /\ unsent = <<>>
    /\ toUs = SetToSeq({<<"resumed", d>> : d \in Devices})
    /\ peer = [d \in Devices |-> "resumed"] /\ toPeer = <<>> /\ pressed = {} /\ pauses = 0 /\ lateWrite = FALSE

Running == eiWorker \in {"top", "flush", "body"}

\* The worker returns: WorkerExit clears ready and sets stop, its connection
\* closes and the compositor lets go of its devices.
Exit(why) ==
    /\ eiWorker' = why /\ eiStop' = TRUE /\ eiReady' = FALSE
    /\ resumed' = {} /\ holds' = [s \in Sinks |-> {}] /\ known' = {}
    /\ inFlight' = 0 /\ acked' = FALSE /\ unsent' = <<>>
    /\ toPeer' = <<>> /\ toUs' = <<>> /\ pressed' = {}
    /\ peer' = [d \in Devices |-> "paused"]
    /\ UNCHANGED <<era, callVars, pauses, lateWrite>>

(***************************************************************************)
(* The sinks                                                               *)
(***************************************************************************)
\* Group::sink
TakeSink(s) ==
    /\ sink[s].at = "none" /\ ~eiStop /\ eiReady
    /\ \A r \in Sinks : r < s => sink[r].at # "none"
    /\ sink' = [sink EXCEPT ![s] = [@ EXCEPT !.at = "open", !.live = TRUE, !.era = era]]
    /\ UNCHANGED <<eiWorker, eiStop, eiReady, era, actorVars, requests, inputs, peerVars, lateWrite>>

\* Sink::inject up to the wait for the reply.  A refusal changes nothing.
Inject(s) ==
    /\ sink[s].at = "open" /\ inputs < MaxInputs
    /\ sink[s].live /\ ~eiStop /\ eiReady /\ sink[s].era = era
    /\ Len(requests) < QueueCap
    /\ inputs' = inputs + 1 /\ requests' = Append(requests, s)
    /\ \E i \in Items, down \in BOOLEAN :
         sink' = [sink EXCEPT ![s] = [@ EXCEPT !.at = "waiting", !.item = i, !.down = down, !.due = FALSE]]
    /\ UNCHANGED <<eiWorker, eiStop, eiReady, era, actorVars, peerVars, lateWrite>>

\* The deadline of a request passes; its caller notices a moment later.
Passes(s) ==
    /\ sink[s].at = "waiting" /\ ~sink[s].due
    /\ sink' = [sink EXCEPT ![s].due = TRUE]
    /\ UNCHANGED <<eiWorker, eiStop, eiReady, era, actorVars, requests, inputs, peerVars, lateWrite>>

GivesUp(s) ==
    /\ sink[s].at = "waiting" /\ (sink[s].due \/ ~Running)
    /\ sink' = [sink EXCEPT ![s] = Gone]
    /\ UNCHANGED <<eiWorker, eiStop, eiReady, era, actorVars, requests, inputs, peerVars, lateWrite>>

\* The session ends.
DropSink(s) ==
    /\ sink[s].at = "open"
    /\ sink' = [sink EXCEPT ![s] = Gone]
    /\ UNCHANGED <<eiWorker, eiStop, eiReady, era, actorVars, requests, inputs, peerVars, lateWrite>>

(***************************************************************************)
(* The compositor (external)                                               *)
(***************************************************************************)
Resumes(d) ==
    /\ Running /\ peer[d] = "paused"
    /\ peer' = [peer EXCEPT ![d] = "resumed"]
    /\ toUs' = Append(toUs, <<"resumed", d>>)
    /\ UNCHANGED <<eiWorker, eiStop, eiReady, era, actorVars, callVars, pressed, toPeer, pauses, lateWrite>>

\* A paused device lets go of everything that is down on it.
Pauses(d) ==
    /\ Running /\ peer[d] # "paused" /\ pauses < MaxPauses
    /\ pauses' = pauses + 1
    /\ peer' = [peer EXCEPT ![d] = "paused"]
    /\ pressed' = {i \in pressed : DeviceOf[i] # d}
    /\ toUs' = Append(toUs, <<"paused", d>>)
    /\ UNCHANGED <<eiWorker, eiStop, eiReady, era, actorVars, callVars, toPeer, lateWrite>>

\* The connection breaks.
Disconnects == Running /\ Exit("disconnected")

\* Actions count only while their device is emulating.
PeerReads ==
    /\ Running /\ toPeer # <<>>
    /\ toPeer' = Tail(toPeer)
    /\ LET a == Head(toPeer) IN
         \/ /\ a[1] = "start"
            /\ peer' = [peer EXCEPT ![a[2]] = IF @ = "resumed" THEN "emulating" ELSE @]
            /\ UNCHANGED <<pressed, toUs>>
         \/ /\ a[1] = "down"
            /\ pressed' = IF peer[DeviceOf[a[2]]] = "emulating" THEN pressed \cup {a[2]} ELSE pressed
            /\ UNCHANGED <<peer, toUs>>
         \/ a[1] = "up" /\ pressed' = pressed \ {a[2]} /\ UNCHANGED <<peer, toUs>>
         \/ a[1] = "sync" /\ toUs' = Append(toUs, <<"done", "">>) /\ UNCHANGED <<peer, pressed>>
    /\ UNCHANGED <<eiWorker, eiStop, eiReady, era, actorVars, callVars, pauses, lateWrite>>

(***************************************************************************)
(* The worker                                                              *)
(***************************************************************************)
\* A request may still be acted on.
Valid(s) == sink[s].live /\ sink[s].era = era /\ ~sink[s].due

Expired == inFlight # 0 /\ ~Valid(inFlight)

\* The top of the loop: stop, then the request in flight; the deadline may still
\* run out before the flush.
ChecksPending ==
    /\ eiWorker = "top" /\ ~eiStop /\ ~Expired
    /\ eiWorker' = "flush"
    /\ UNCHANGED <<eiStop, eiReady, era, actorVars, callVars, peerVars, lateWrite>>

Flush ==
    /\ eiWorker = "flush" /\ Len(toPeer) < WireCap
    /\ eiWorker' = "body"
    /\ toPeer' = toPeer \o unsent /\ unsent' = <<>>
    /\ lateWrite' = (lateWrite \/ (unsent # <<>> /\ inFlight # 0 /\ sink[inFlight].at # "waiting"))
    /\ UNCHANGED <<eiStop, eiReady, era, resumed, holds, known, inFlight, acked, callVars, peer, pressed, toUs, pauses>>

\* The socket is full: the actions stay buffered.
FlushBlocks ==
    /\ eiWorker = "flush" /\ Len(toPeer) >= WireCap
    /\ eiWorker' = "body"
    /\ UNCHANGED <<eiStop, eiReady, era, actorVars, callVars, peerVars, lateWrite>>

EndsAtTop ==
    \/ eiWorker = "top" /\ eiStop /\ Exit("stopped")
    \/ eiWorker = "top" /\ ~eiStop /\ Expired /\ Exit("expired")

Global(h, i) == \E s \in Sinks : i \in h[s]

\* Actor::invalidate_device: every lease ends, and the paused device has
\* already let go of its items.
invalidate_device(d) == [s \in Sinks |-> {i \in holds[s] : DeviceOf[i] # d}]

\* Actor::release_closed: the items that only ended leases hold.
Released(h, ended) ==
    {i \in Items : (\E s \in ended : i \in h[s]) /\ ~\E s \in known \ ended : i \in h[s]}

\* release_closed fails when an item's device is not there.
CannotRelease(h, ended, devices) == \E i \in Released(h, ended) : DeviceOf[i] \notin devices
Cleared(h, ended) == [s \in Sinks |-> IF s \in ended THEN {} ELSE h[s]]
Ups(items) == SetToSeq({<<"up", i>> : i \in items})

\* Actor::events, one event at a time
DeviceResumed ==
    /\ eiWorker = "body" /\ toUs # <<>> /\ Head(toUs)[1] = "resumed"
    /\ toUs' = Tail(toUs)
    /\ resumed' = resumed \cup {Head(toUs)[2]}
    /\ unsent' = Append(unsent, <<"start", Head(toUs)[2]>>)
    /\ UNCHANGED <<eiWorker, eiStop, eiReady, era, holds, known, inFlight, acked, callVars, peer, pressed, toPeer, pauses, lateWrite>>

\* DevicePaused and DeviceRemoved: no lease survives, and a new era begins.
DevicePaused ==
    /\ eiWorker = "body" /\ toUs # <<>> /\ Head(toUs)[1] = "paused"
    /\ LET d == Head(toUs)[2]
           h == invalidate_device(d)
       IN IF CannotRelease(h, known, resumed \ {d})
          THEN Exit("release")
          ELSE /\ toUs' = Tail(toUs) /\ resumed' = resumed \ {d}
               /\ era' = era + 1
               /\ sink' = [s \in Sinks |-> IF s \in known THEN [sink[s] EXCEPT !.live = FALSE] ELSE sink[s]]
               /\ holds' = Cleared(h, known) /\ known' = {}
               /\ unsent' = unsent \o Ups(Released(h, known))
               /\ UNCHANGED <<eiWorker, eiStop, eiReady, inFlight, acked, requests, inputs, peer, pressed, toPeer, pauses, lateWrite>>

SyncDone ==
    /\ eiWorker = "body" /\ toUs # <<>> /\ Head(toUs)[1] = "done"
    /\ toUs' = Tail(toUs) /\ acked' = (inFlight # 0)
    /\ UNCHANGED <<eiWorker, eiStop, eiReady, era, resumed, holds, known, inFlight, unsent, callVars, peer, pressed, toPeer, pauses, lateWrite>>

Ended == {s \in known : ~sink[s].live}

\* The rest of the loop: the ended leases are released, the request in flight
\* is answered, and the next one is refused or applied.
BodyFails ==
    /\ eiWorker = "body" /\ toUs = <<>>
    /\ \/ CannotRelease(holds, Ended, resumed) /\ Exit("release")
       \/ ~CannotRelease(holds, Ended, resumed) /\ Expired /\ Exit("expired")

\* Actor::apply: the lease's own holds change, and the compositor is told when
\* that makes a difference over all leases.  Motion and scrolling hold nothing.
Apply(h, s) == [h EXCEPT ![s] = IF sink[s].down THEN @ \cup {sink[s].item} ELSE @ \ {sink[s].item}]
Turned(h, h2, i) ==
    IF Global(h, i) = Global(h2, i) THEN <<>> ELSE <<<<IF Global(h2, i) THEN "down" ELSE "up", i>>>>

Answered == IF inFlight # 0 /\ acked THEN {inFlight} ELSE {}

Body ==
    /\ eiWorker = "body" /\ toUs = <<>> /\ ~CannotRelease(holds, Ended, resumed) /\ ~Expired
    /\ eiWorker' = "top" /\ eiReady' = (resumed = Devices)
    /\ LET h == Cleared(holds, Ended)
           out == unsent \o Ups(Released(holds, Ended))
           free == inFlight = 0 \/ acked
           s == Head(requests)
           h2 == Apply(h, s)
       IN \/ /\ ~free \/ requests = <<>>
             /\ holds' = h /\ known' = known \ Ended /\ unsent' = out
             /\ inFlight' = IF free THEN 0 ELSE inFlight
             /\ sink' = [x \in Sinks |-> IF x \in Answered THEN Idle(sink[x]) ELSE sink[x]]
             /\ UNCHANGED requests
          \/ /\ free /\ requests # <<>> /\ ~(resumed = Devices /\ Valid(s))
             /\ holds' = h /\ known' = known \ Ended /\ unsent' = out /\ inFlight' = 0
             /\ requests' = Tail(requests)
             /\ sink' = [x \in Sinks |-> IF x \in Answered \/ (x = s /\ sink[x].at = "waiting")
                                         THEN Idle(sink[x]) ELSE sink[x]]
          \/ /\ free /\ requests # <<>> /\ resumed = Devices /\ Valid(s)
             /\ holds' = h2 /\ known' = (known \ Ended) \cup {s} /\ inFlight' = s
             /\ unsent' = out \o Turned(h, h2, sink[s].item) \o <<<<"sync", "">>>>
             /\ requests' = Tail(requests)
             /\ sink' = [x \in Sinks |-> IF x \in Answered THEN Idle(sink[x]) ELSE sink[x]]
    /\ acked' = IF inFlight = 0 \/ acked THEN FALSE ELSE acked
    /\ UNCHANGED <<eiStop, era, resumed, inputs, peerVars, lateWrite>>

\* Group::stop, from the desktop's coordinator.
StopGroup ==
    /\ ~eiStop /\ eiStop' = TRUE
    /\ UNCHANGED <<eiWorker, eiReady, era, actorVars, callVars, peerVars, lateWrite>>

EiWorker == ChecksPending \/ Flush \/ FlushBlocks \/ EndsAtTop \/ DeviceResumed \/ DevicePaused \/ SyncDone \/ BodyFails \/ Body
Calls == \E s \in Sinks : TakeSink(s) \/ Inject(s) \/ Passes(s) \/ GivesUp(s) \/ DropSink(s)
Compositor == PeerReads \/ Disconnects \/ \E d \in Devices : Resumes(d) \/ Pauses(d)
EiNext == EiWorker \/ Calls \/ Compositor \/ StopGroup

EiFairness ==
    /\ WF_eiVars(EiWorker)
    /\ WF_eiVars(PeerReads)
EiSpec == EiInit /\ [][EiNext]_eiVars /\ EiFairness

(***************************************************************************)
(* Properties                                                              *)
(***************************************************************************)
\* "No timed-out replay": an action that was sent for a request whose caller has
\* already been told that it failed is the last that the worker does.  It takes no
\* other request, and its end lets go of every item.
LateIsLast == lateWrite => ~Running \/ (eiWorker = "body" /\ Expired)

\* "Do not flush a buffered action after its caller/deadline expired" (input.rs
\* 576): the deadline may run out between the check and the flush.
NoLateWrite == ~lateWrite

\* Once everything has arrived, the items down at the compositor are the ones
\* that leases hold: a key that two sessions hold survives the end of one.
HoldsAgree ==
    Running /\ unsent = <<>> /\ toPeer = <<>> /\ toUs = <<>> => pressed = UNION {holds[s] : s \in Sinks}

\* The end of a lease and the pause of a device never take the worker, and
\* with it the whole desktop, down: what is to be released has its device.
ReleaseNeverFails == eiWorker # "release"

-----------------------------------------------------------------------------
(***************************************************************************)
(* The clipboard of a consented Wayland portal session.  One task owns the *)
(* selection for all desktop sessions: it publishes the text they paste,   *)
(* serves it to the programs that ask, and reads the text of every program *)
(* that takes the selection.  The sessions hold leases on it.              *)
(*                                                                         *)
(* Text k > 0 is the k-th copy of another program, text -p the p-th        *)
(* publication of a session.  The task's select is biased: it polls its    *)
(* branches in order, and the world may move between two polls.            *)
(***************************************************************************)

CONSTANTS
    Leases,      \* the sessions that may lease the clipboard
    MaxCopies,   \* bound: copies made by other programs
    MaxTexts,    \* bound: texts published by the sessions
    MaxPastes,   \* bound: pastes made by other programs
    MaxWriting,  \* transfers served at a time
    MaxTrouble   \* bound: calls and transfers that time out

VARIABLES
    portal,      \* [owner, kind, copies, texts, pastes, late]: late is a
                 \* publication whose call timed out before it was handled
    ownersQ,     \* SelectionOwnerChanged signals: "us", "text" or "other"
    transfersQ,  \* SelectionTransfer signals: who asks, "app" or "task"
    poll,        \* the branch the task polls next, "setting" or "ended"
    offered,     \* text advertised by the task, 0 for none
    previous,    \* the text to go back to when the publication fails
    generation,
    reading,     \* the one read: [at, seen, text]
    wanted,      \* generation of the selection to read, 0 for none
    writes,      \* texts being written to programs: a set of [to, text]
    writing,     \* transfers not yet joined
    snapshot,    \* [text, generation, closed]
    lease,       \* l -> [open, watching, seen, dirty, last]
    job,         \* the queued publication: [text, by], text 0 for none
    answer,      \* the last publication answered with success
    pasted,      \* the last text a program got from us
    owed,        \* leases that watched when the last copy was made
    trouble

taskVars == <<offered, previous, generation, wanted>>
pbVars == <<portal, ownersQ, transfersQ, poll, taskVars, reading, writes, writing,
            snapshot, lease, job, answer, pasted, owed, trouble>>

NoJob == [text |-> 0, by |-> 0]
NoRead == [at |-> "no", seen |-> 0, text |-> 0]
Nobody == [open |-> FALSE, watching |-> FALSE, seen |-> 0, dirty |-> FALSE, last |-> 0]
Watching == {l \in Leases : lease[l].open /\ lease[l].watching}

PbInit ==
    /\ portal = [owner |-> 0, kind |-> "text", copies |-> 0, texts |-> 0, pastes |-> 0, late |-> 0]
    /\ ownersQ = <<>> /\ transfersQ = <<>> /\ poll = "transfers"
    /\ offered = 0 /\ previous = 0 /\ generation = 0 /\ wanted = 0
    /\ reading = NoRead /\ writes = {} /\ writing = 0
    /\ snapshot = [text |-> 0, generation |-> 0, closed |-> FALSE]
    /\ lease = [l \in Leases |-> Nobody] /\ job = NoJob
    /\ answer = 0 /\ pasted = 0 /\ owed = {} /\ trouble = 0

(***************************************************************************)
(* The portal and the other programs                                       *)
(***************************************************************************)
\* A program takes the selection, with text or with something else.
Copies ==
    /\ portal.copies < MaxCopies
    /\ \E kind \in {"text", "other"} :
         /\ ownersQ' = Append(ownersQ, kind)
         /\ owed' = IF kind = "text" THEN Watching ELSE {}
         /\ portal' = [portal EXCEPT !.owner = portal.copies + 1, !.kind = kind, !.copies = @ + 1]
    /\ UNCHANGED <<transfersQ, poll, taskVars, reading, writes, writing, snapshot, lease, job, answer, pasted, trouble>>

\* A program pastes while the session owns the selection.
Pastes ==
    /\ portal.owner < 0 /\ portal.pastes < MaxPastes
    /\ portal' = [portal EXCEPT !.pastes = @ + 1]
    /\ transfersQ' = Append(transfersQ, "app")
    /\ UNCHANGED <<ownersQ, poll, taskVars, reading, writes, writing, snapshot, lease, job, answer, pasted, owed, trouble>>

\* The portal makes the session the owner and says so.
TakeSelection(text, late) ==
    /\ portal' = [portal EXCEPT !.owner = text, !.late = late]
    /\ ownersQ' = Append(ownersQ, "us")
    /\ owed' = {}

\* A call that has timed out is still handled by the portal.
AppliesLate ==
    /\ portal.late # 0
    /\ TakeSelection(portal.late, 0)
    /\ UNCHANGED <<transfersQ, poll, taskVars, reading, writes, writing, snapshot, lease, job, answer, pasted, trouble>>

(***************************************************************************)
(* The read of another program's text                                      *)
(***************************************************************************)
\* SelectionRead: the owner of this moment is asked, which may be ourselves.
ReadAsks ==
    /\ reading.at = "asked"
    /\ \/ /\ portal.owner > 0
          /\ reading' = [reading EXCEPT !.at = "done", !.text = IF portal.kind = "text" THEN portal.owner ELSE 0]
          /\ UNCHANGED transfersQ
       \/ /\ portal.owner < 0
          /\ transfersQ' = Append(transfersQ, "task")
          /\ reading' = [reading EXCEPT !.at = "waiting"]
    /\ UNCHANGED <<portal, ownersQ, poll, taskVars, writes, writing, snapshot, lease, job, answer, pasted, owed, trouble>>

ReadTimesOut ==
    /\ reading.at \in {"asked", "waiting"} /\ trouble < MaxTrouble
    /\ trouble' = trouble + 1 /\ owed' = {}
    /\ reading' = [reading EXCEPT !.at = "done", !.text = 0]
    /\ UNCHANGED <<portal, ownersQ, transfersQ, poll, taskVars, writes, writing, snapshot, lease, job, answer, pasted>>

\* One transfer ends: the bytes are written and SelectionWriteDone is sent.
WriteEnds ==
    /\ \E w \in writes :
         /\ writes' = writes \ {w}
         /\ pasted' = IF w.to = "app" THEN w.text ELSE pasted
         /\ reading' = IF w.to = "task" /\ reading.at = "waiting"
                       THEN [reading EXCEPT !.at = "done", !.text = w.text] ELSE reading
    /\ UNCHANGED <<portal, ownersQ, transfersQ, poll, taskVars, writing, snapshot, lease, job, answer, owed, trouble>>

(***************************************************************************)
(* The task                                                                *)
(***************************************************************************)
Order == <<"transfers", "owners", "joins", "reads", "cleanup", "jobs">>
After == [b \in {Order[i] : i \in 1..6} |->
            LET i == CHOOSE k \in 1..6 : Order[k] = b IN IF i = 6 THEN "transfers" ELSE Order[i + 1]]

\* A branch that is not ready: the next one is polled.
Ready(b) ==
    CASE b = "transfers" -> transfersQ # <<>>
      [] b = "owners" -> ownersQ # <<>>
      [] b = "joins" -> reading.at = "done" \/ writing > Cardinality(writes)
      [] b = "reads" -> wanted # 0 /\ reading.at = "no"
      [] b = "cleanup" -> Watching = {} /\ (wanted # 0 \/ snapshot.text # 0)
      [] b = "jobs" -> job # NoJob
      [] OTHER -> TRUE

PollOn ==
    /\ poll \in DOMAIN After /\ ~Ready(poll)
    /\ \E b \in DOMAIN After : Ready(b)   \* otherwise the task sleeps
    /\ poll' = After[poll]
    /\ UNCHANGED <<portal, ownersQ, transfersQ, taskVars, reading, writes, writing, snapshot, lease, job, answer, pasted, owed, trouble>>

\* SelectionTransfer: write the advertised text, or refuse.
PbServe ==
    /\ poll = "transfers" /\ transfersQ # <<>>
    /\ transfersQ' = Tail(transfersQ)
    /\ LET ok == writing < MaxWriting /\ offered # 0 IN
         /\ writing' = IF ok THEN writing + 1 ELSE writing
         /\ writes' = IF ok THEN writes \cup {[to |-> Head(transfersQ), text |-> offered]} ELSE writes
         /\ reading' = IF ~ok /\ Head(transfersQ) = "task" /\ reading.at = "waiting"
                       THEN [reading EXCEPT !.at = "done", !.text = 0] ELSE reading
    /\ UNCHANGED <<portal, ownersQ, poll, taskVars, snapshot, lease, job, answer, pasted, owed, trouble>>

\* send_replace wakes every lease.
Replace(s) ==
    /\ snapshot' = s
    /\ lease' = [l \in Leases |-> [lease[l] EXCEPT !.dirty = lease[l].open]]

invalidate_selection ==
    /\ generation' = generation + 1
    /\ Replace([text |-> 0, generation |-> generation + 1, closed |-> FALSE])

Invalidate == invalidate_selection

\* SelectionOwnerChanged
OwnerChanged ==
    /\ poll = "owners" /\ ownersQ # <<>>
    /\ ownersQ' = Tail(ownersQ) /\ poll' = "transfers"
    /\ Invalidate
    /\ offered' = IF Head(ownersQ) = "us" THEN offered ELSE 0
    /\ wanted' = IF Head(ownersQ) = "text" /\ Watching # {} THEN generation' ELSE 0
    /\ UNCHANGED <<portal, transfersQ, previous, reading, writes, writing, job, answer, pasted, owed, trouble>>

\* The read has ended: its text counts when the selection is still the one read.
JoinRead ==
    /\ poll = "joins" /\ reading.at = "done"
    /\ reading' = NoRead /\ poll' = "transfers"
    /\ IF reading.seen = generation /\ Watching # {} /\ reading.text # 0
       THEN Replace([text |-> reading.text, generation |-> generation, closed |-> FALSE])
       ELSE UNCHANGED <<snapshot, lease>>
    /\ UNCHANGED <<portal, ownersQ, transfersQ, taskVars, writes, writing, job, answer, pasted, owed, trouble>>

JoinWrite ==
    /\ poll = "joins" /\ writing > Cardinality(writes)
    /\ writing' = writing - 1 /\ poll' = "transfers"
    /\ UNCHANGED <<portal, ownersQ, transfersQ, taskVars, reading, writes, snapshot, lease, job, answer, pasted, owed, trouble>>

StartRead ==
    /\ poll = "reads" /\ Ready("reads")
    /\ wanted' = 0 /\ poll' = "transfers"
    /\ reading' = IF Watching = {} THEN reading ELSE [at |-> "asked", seen |-> wanted, text |-> 0]
    /\ UNCHANGED <<portal, ownersQ, transfersQ, offered, previous, generation, writes, writing, snapshot, lease, job, answer, pasted, owed, trouble>>

\* Every 250 ms: nobody watches, so nothing is kept for anybody.
Cleanup ==
    /\ poll = "cleanup" /\ Ready("cleanup")
    /\ wanted' = 0 /\ poll' = "transfers"
    /\ IF snapshot.text # 0
       THEN Replace([text |-> 0, generation |-> generation, closed |-> FALSE])
       ELSE UNCHANGED <<snapshot, lease>>
    /\ UNCHANGED <<portal, ownersQ, transfersQ, offered, previous, generation, reading, writes, writing, job, answer, pasted, owed, trouble>>

\* A publication: advertise the text, then take the selection and wait.
TakeJob ==
    /\ poll = "jobs" /\ job # NoJob
    /\ IF job.by = 0   \* the caller has given up
       THEN /\ job' = NoJob /\ poll' = "transfers" /\ UNCHANGED <<offered, previous>>
       ELSE /\ previous' = offered /\ offered' = job.text
            /\ poll' = "setting" /\ UNCHANGED job
    /\ UNCHANGED <<portal, ownersQ, transfersQ, generation, wanted, reading, writes, writing, snapshot, lease, answer, pasted, owed, trouble>>

SetSucceeds ==
    /\ poll = "setting"
    /\ TakeSelection(job.text, portal.late)
    /\ answer' = IF job.by = 0 THEN answer ELSE job.text
    /\ job' = NoJob /\ poll' = "transfers"
    /\ UNCHANGED <<transfersQ, taskVars, reading, writes, writing, snapshot, lease, pasted, trouble>>

\* The call fails or times out, and may still be handled later.
SetFails ==
    /\ poll = "setting" /\ trouble < MaxTrouble
    /\ trouble' = trouble + 1
    /\ offered' = previous /\ job' = NoJob /\ poll' = "transfers"
    /\ portal' \in {portal, [portal EXCEPT !.late = job.text]}
    /\ UNCHANGED <<ownersQ, transfersQ, previous, generation, wanted, reading, writes, writing, snapshot, lease, answer, pasted, owed>>

\* close(), or the signals end: the leases see the closed snapshot and every
\* transfer is aborted.
TaskEnds ==
    /\ poll \in DOMAIN After
    /\ poll' = "ended"
    /\ Replace([text |-> 0, generation |-> 0, closed |-> TRUE])
    /\ reading' = NoRead /\ writes' = {} /\ writing' = 0 /\ job' = NoJob
    /\ UNCHANGED <<portal, ownersQ, transfersQ, taskVars, answer, pasted, owed, trouble>>

(***************************************************************************)
(* The leases of the desktop sessions                                      *)
(***************************************************************************)
Open(l) ==
    /\ ~lease[l].open /\ lease[l].seen = 0 /\ poll # "ended"
    /\ \E w \in BOOLEAN :
         lease' = [lease EXCEPT ![l] = [open |-> TRUE, watching |-> w, seen |-> snapshot.generation,
                                        dirty |-> FALSE, last |-> 0]]
    /\ UNCHANGED <<portal, ownersQ, transfersQ, poll, taskVars, reading, writes, writing, snapshot, job, answer, pasted, owed, trouble>>

\* The session ends, or its clipboard does.
Drop(l) ==
    /\ lease[l].open
    /\ lease' = [lease EXCEPT ![l] = [Nobody EXCEPT !.seen = 1]]
    /\ owed' = owed \ {l}
    /\ job' = IF job.by = l THEN [job EXCEPT !.by = 0] ELSE job
    /\ UNCHANGED <<portal, ownersQ, transfersQ, poll, taskVars, reading, writes, writing, snapshot, answer, pasted, trouble>>

Publish(l) ==
    /\ lease[l].open /\ ~snapshot.closed /\ job = NoJob /\ portal.texts < MaxTexts
    /\ portal' = [portal EXCEPT !.texts = @ + 1]
    /\ job' = [text |-> -(portal.texts + 1), by |-> l]
    /\ UNCHANGED <<ownersQ, transfersQ, poll, taskVars, reading, writes, writing, snapshot, lease, answer, pasted, owed, trouble>>

\* The caller stops waiting for its publication.
PublishTimesOut ==
    /\ job.by # 0 /\ trouble < MaxTrouble
    /\ trouble' = trouble + 1 /\ job' = [job EXCEPT !.by = 0]
    /\ UNCHANGED <<portal, ownersQ, transfersQ, poll, taskVars, reading, writes, writing, snapshot, lease, answer, pasted, owed>>

\* next_change(): a text of a generation this lease has not seen.
Change(l) ==
    /\ lease[l].open /\ lease[l].watching /\ lease[l].dirty
    /\ IF snapshot.closed
       THEN /\ lease' = [lease EXCEPT ![l] = [Nobody EXCEPT !.seen = 1]] /\ owed' = owed \ {l}
       ELSE IF snapshot.generation # lease[l].seen /\ snapshot.text # 0
       THEN /\ lease' = [lease EXCEPT ![l].dirty = FALSE, ![l].seen = snapshot.generation,
                                      ![l].last = snapshot.text]
            /\ owed' = IF snapshot.text = portal.owner THEN owed \ {l} ELSE owed
       ELSE /\ lease' = [lease EXCEPT ![l].dirty = FALSE] /\ UNCHANGED owed
    /\ UNCHANGED <<portal, ownersQ, transfersQ, poll, taskVars, reading, writes, writing, snapshot, job, answer, pasted, trouble>>

Task == PollOn \/ PbServe \/ OwnerChanged \/ JoinRead \/ JoinWrite \/ StartRead \/ Cleanup \/ TakeJob
Answers == SetSucceeds \/ SetFails
Transfers == ReadAsks \/ ReadTimesOut \/ WriteEnds
World == Copies \/ Pastes \/ AppliesLate \/ TaskEnds
Sessions == \E l \in Leases : Open(l) \/ Drop(l) \/ Publish(l) \/ Change(l)
PbNext == Task \/ Answers \/ Transfers \/ World \/ Sessions \/ PublishTimesOut

PbFairness ==
    /\ WF_pbVars(Task) /\ WF_pbVars(Answers) /\ WF_pbVars(Transfers)
    /\ \A l \in Leases : WF_pbVars(Change(l))
PbSpec == PbInit /\ [][PbNext]_pbVars /\ PbFairness

(***************************************************************************)
(* Properties                                                              *)
(***************************************************************************)
\* A session is never told of a text that a session published: the read of a
\* selection that has become our own is discarded, because the owner signal
\* is polled before the read is joined and moves the generation on.
NoEcho == \A l \in Leases : lease[l].last >= 0

\* What the leases can still read is what the selection was at the last owner
\* signal the task has handled; a text is never kept beyond that.
NothingStale == snapshot.text # 0 /\ ownersQ = <<>> => snapshot.text = portal.owner

\* A publication that was answered with success is what programs can paste,
\* as long as the session owns the selection and no signal is outstanding.
PublishedIsServed ==
    answer # 0 /\ portal.owner = answer /\ ownersQ = <<>> /\ poll \in DOMAIN After => offered = answer
=============================================================================
