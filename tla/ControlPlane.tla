---------------------------- MODULE ControlPlane ------------------------------
(***************************************************************************)
(* The control stream of one desktop session, both ends: the viewer's      *)
(* writer, reader and supervisor (rds-desktop client.rs), and the serving  *)
(* side's frame reader and control loop (session.rs), joined by two        *)
(* flow-controlled directions.  Every queue is bounded and every reply is  *)
(* written by the loop that takes the next control, so each side can stop  *)
(* the other; deadlines are the only way out.                              *)
(*                                                                         *)
(* A control is "input", "ask" (heartbeat, bitrate, repair and clipboard,  *)
(* answered, taken silently or refused) or "receipt"; an event is an "ack" *)
(* of an input, with whether it was handled, or "other".  A deadline may   *)
(* expire only while what it bounds is blocked.                            *)
(***************************************************************************)
EXTENDS Naturals, Sequences, FiniteSets, FiniteSetsExt

CONSTANTS QueueCap,   \* ctrl_tx, receipt_tx, control_tx and events_tx
          WireCap     \* messages a direction holds

VARIABLES viewer,     \* "greeting", "live" or "ended": the viewer's session
          server,     \* "idle", "live" or "ended": the serving future
          negotiated, \* payload receipts were asked for
          queue,      \* ctrl_tx
          receipts,   \* receipt_tx
          writing,    \* the viewer's writer: a control or None
          up,         \* written controls
          half,       \* the serving reader has consumed part of Head(up)
          inbox,      \* control_tx on the serving side
          work,       \* the control loop
          down,       \* written events
          holding,    \* the viewer's reader: at most one event
          events,     \* events_tx
          frozen,     \* the application has stopped taking events
          torn        \* a control was read from its middle (history)

planeVars == <<viewer, server, negotiated, queue, receipts, writing, up, half, inbox, work, down, holding, events, frozen, torn>>

None == "none"
Idle == [at |-> "select"]
Injecting(hung) == [at |-> "inject", hung |-> hung]
Replying(event) == [at |-> "reply", event |-> event]
Ack(ok) == [kind |-> "ack", handled |-> ok]
Other == [kind |-> "other", handled |-> TRUE]

PlaneInit ==
  /\ viewer = "greeting" /\ server = "idle"
  /\ negotiated \in BOOLEAN
  /\ queue = <<>> /\ receipts = <<>> /\ writing = None
  /\ up = <<>> /\ half = FALSE /\ inbox = <<>> /\ work = Idle
  /\ down = <<>> /\ holding = <<>> /\ events = <<>>
  /\ frozen = FALSE /\ torn = FALSE

client == <<viewer, queue, receipts, writing, holding, events, frozen>>
serving == <<server, inbox, work, half, torn>>

-----------------------------------------------------------------------------
(* connect_opts: the greeting is answered, refused or times out; only an     *)
(* answer of the asked kind starts the session's tasks.                      *)
Connect ==
  /\ viewer = "greeting"
  /\ \/ viewer' = "live" /\ server' = "live"
     \/ viewer' = "ended" /\ server' \in {"idle", "ended"}
  /\ UNCHANGED <<negotiated, queue, receipts, writing, up, half, inbox, work, down, holding, events, frozen, torn>>

(* send_input, heartbeat and the frame readers' receipts *)
SendControl ==
  /\ viewer = "live" /\ Len(queue) < QueueCap
  /\ \E c \in {"input", "ask"} : queue' = Append(queue, c)
  /\ UNCHANGED <<viewer, receipts, writing, holding, events, frozen, negotiated, up, down>> /\ UNCHANGED serving
SendReceipt ==
  /\ viewer = "live" /\ negotiated /\ Len(receipts) < QueueCap
  /\ receipts' = Append(receipts, "receipt")
  /\ UNCHANGED <<viewer, queue, writing, holding, events, frozen, negotiated, up, down>> /\ UNCHANGED serving

(* The writer: a fair choice of the two queues, then one bounded write. *)
TakeControl ==
  /\ viewer = "live" /\ writing = None /\ queue # <<>>
  /\ writing' = Head(queue) /\ queue' = Tail(queue)
  /\ UNCHANGED <<viewer, receipts, holding, events, frozen, negotiated, up, down>> /\ UNCHANGED serving
Selected == TRUE
Polled == Selected
TakeReceipt ==
  /\ viewer = "live" /\ writing = None /\ receipts # <<>> /\ Polled
  /\ writing' = Head(receipts) /\ receipts' = Tail(receipts)
  /\ UNCHANGED <<viewer, queue, holding, events, frozen, negotiated, up, down>> /\ UNCHANGED serving
WriteControl ==
  /\ viewer = "live" /\ writing # None /\ Len(up) < WireCap
  /\ up' = Append(up, writing) /\ writing' = None
  /\ UNCHANGED <<viewer, queue, receipts, holding, events, frozen, negotiated, down>> /\ UNCHANGED serving

(* The reader: an event is handed to the application within its deadline. *)
ReadEvent ==
  /\ viewer = "live" /\ holding = <<>> /\ down # <<>>
  /\ holding' = <<Head(down)>> /\ down' = Tail(down)
  /\ UNCHANGED <<viewer, queue, receipts, writing, events, frozen, negotiated, up>> /\ UNCHANGED serving
HandEvent ==
  /\ viewer = "live" /\ holding # <<>> /\ Len(events) < QueueCap
  /\ events' = events \o holding /\ holding' = <<>>
  /\ UNCHANGED <<viewer, queue, receipts, writing, frozen, negotiated, up, down>> /\ UNCHANGED serving
TakeEvent ==
  /\ viewer = "live" /\ ~frozen /\ events # <<>>
  /\ events' = Tail(events)
  /\ UNCHANGED <<viewer, queue, receipts, writing, holding, frozen, negotiated, up, down>> /\ UNCHANGED serving
Freeze ==
  /\ viewer = "live" /\ ~frozen /\ frozen' = TRUE
  /\ UNCHANGED <<viewer, queue, receipts, writing, holding, events, negotiated, up, down>> /\ UNCHANGED serving

(* The supervisor: one leg's end, or the session's drop, ends them all and   *)
(* resets the streams.                                                       *)
EndViewer ==
  /\ viewer' = "ended"
  /\ queue' = <<>> /\ receipts' = <<>> /\ writing' = None /\ holding' = <<>> /\ events' = <<>>
  /\ up' = <<>> /\ down' = <<>>
  /\ UNCHANGED <<frozen, negotiated>> /\ UNCHANGED serving
WriteExpires == viewer = "live" /\ writing # None /\ Len(up) = WireCap /\ EndViewer
Bounded == holding # <<>> /\ Len(events) = QueueCap
HandExpired == Bounded
HandExpires == viewer = "live" /\ HandExpired /\ EndViewer
SeesServerEnd == viewer = "live" /\ server = "ended" /\ EndViewer
Close == viewer = "live" /\ EndViewer

-----------------------------------------------------------------------------
(* serve_desktop_with: the reader task owns a half-read control. *)
ReadHalf ==
  /\ server = "live" /\ viewer = "live" /\ up # <<>> /\ ~half /\ Len(inbox) < QueueCap
  /\ half' = TRUE
  /\ UNCHANGED <<server, inbox, work, torn, negotiated, up, down>> /\ UNCHANGED client
ReadRest ==
  /\ server = "live" /\ viewer = "live" /\ up # <<>> /\ half
  /\ half' = FALSE /\ up' = Tail(up) /\ inbox' = Append(inbox, Head(up))
  /\ UNCHANGED <<server, work, torn, negotiated, down>> /\ UNCHANGED client

(* The loop: controls, clipboard changes; a reply is written before the next *)
(* control is taken.                                                         *)
unserved == <<half, torn, negotiated, up, down>>
Stopped == server' = "ended" /\ work' = Idle /\ inbox' = <<>> /\ half' = FALSE
Serve ==
  /\ server = "live" /\ work.at = "select" /\ inbox # <<>>
  /\ inbox' = Tail(inbox)
  /\ CASE Head(inbox) = "input" -> \E hung \in BOOLEAN : work' = Injecting(hung)
       [] Head(inbox) = "ask" -> work' \in {Replying(Other), Idle}
       [] OTHER -> UNCHANGED work
  /\ UNCHANGED server /\ UNCHANGED unserved /\ UNCHANGED client
(* An exhausted repair, a refused or failed clipboard request or a receipt   *)
(* on a legacy session ends the loop.                                        *)
Refuse ==
  /\ server = "live" /\ work.at = "select" /\ inbox # <<>>
  /\ Head(inbox) = "ask" \/ (Head(inbox) = "receipt" /\ ~negotiated)
  /\ Stopped
  /\ UNCHANGED <<torn, negotiated, up, down>> /\ UNCHANGED client
Owned == FALSE
Discards == Owned
ClipboardChange ==
  /\ server = "live" /\ work.at = "select"
  /\ work' = Replying(Other)
  /\ half' = (half /\ ~Discards) /\ torn' = (torn \/ Discards)
  /\ UNCHANGED <<server, inbox, negotiated, up, down>> /\ UNCHANGED client

(* Input: acknowledged once handled; a failed or timed-out call is not.      *)
Injected ==
  /\ server = "live" /\ work.at = "inject" /\ ~work.hung
  /\ \/ work' = Replying(Ack(TRUE))
     \/ work' = Idle                       \* injection failed, or no acks were asked for
  /\ UNCHANGED <<server, half, inbox, torn, negotiated, up, down>> /\ UNCHANGED client
Unacked == Idle
AfterTimeout == Unacked
InjectExpires ==
  /\ server = "live" /\ work.at = "inject" /\ work.hung
  /\ work' = AfterTimeout
  /\ UNCHANGED <<server, half, inbox, torn, negotiated, up, down>> /\ UNCHANGED client

(* write_control_reply *)
Reply ==
  /\ server = "live" /\ viewer = "live" /\ work.at = "reply" /\ Len(down) < WireCap
  /\ down' = Append(down, work.event) /\ work' = Idle
  /\ UNCHANGED <<server, half, inbox, torn, negotiated, up>> /\ UNCHANGED client
EndServer ==
  /\ Stopped
  /\ UNCHANGED <<torn, negotiated, up, down>> /\ UNCHANGED client
ReplyBlocked == work.at = "reply" /\ Len(down) = WireCap
ReplyExpires == server = "live" /\ viewer = "live" /\ ReplyBlocked /\ EndServer
(* A reset stream fails the loop's read once it selects, or its write.       *)
SeesViewerEnd == server = "live" /\ viewer = "ended" /\ work.at \in {"select", "reply"} /\ EndServer

Viewer == SendControl \/ SendReceipt \/ TakeControl \/ TakeReceipt \/ WriteControl \/ ReadEvent \/ HandEvent
          \/ TakeEvent \/ WriteExpires \/ HandExpires \/ SeesServerEnd
Server == ReadHalf \/ ReadRest \/ Serve \/ Refuse \/ ClipboardChange \/ Injected \/ InjectExpires \/ Reply \/ ReplyExpires \/ SeesViewerEnd
PlaneNext == Connect \/ Viewer \/ Server \/ Freeze \/ Close

(* Every task runs; the writer's select takes each ready queue again and     *)
(* again, the loop's select a control among clipboard changes.               *)
PlaneFairness ==
  /\ WF_planeVars(WriteControl \/ WriteExpires) /\ WF_planeVars(TakeControl)
  /\ SF_planeVars(TakeReceipt) /\ SF_planeVars(Serve)
  /\ WF_planeVars(ReadEvent) /\ WF_planeVars(HandEvent \/ HandExpires) /\ WF_planeVars(TakeEvent)
  /\ WF_planeVars(SeesServerEnd) /\ WF_planeVars(ReadHalf \/ ReadRest)
  /\ WF_planeVars(Injected \/ InjectExpires) /\ WF_planeVars(Reply \/ ReplyExpires) /\ SF_planeVars(SeesViewerEnd)
PlaneSpec == PlaneInit /\ [][PlaneNext]_planeVars /\ PlaneFairness

-----------------------------------------------------------------------------
(* Type invariant. *)
PlaneTypeOK ==
  /\ viewer \in {"greeting", "live", "ended"} /\ server \in {"idle", "live", "ended"}
  /\ Len(queue) <= QueueCap /\ Len(receipts) <= QueueCap /\ Len(inbox) <= QueueCap
  /\ Len(events) <= QueueCap /\ Len(up) <= WireCap /\ Len(down) <= WireCap

(* session.rs 1276-1279, 1340-1341: no control is read from its middle, and  *)
(* an acknowledgement on its way or delivered is of an input that was        *)
(* handled.                                                                  *)
RepliesTruthful ==
  /\ ~torn
  /\ \A e \in {down[i] : i \in DOMAIN down} \cup {events[i] : i \in DOMAIN events} : e.handled

(* Nobody waits for everybody: while a control or an event is under way, one  *)
(* of the tasks can move it, or the deadline of the one that is blocked runs  *)
(* (client.rs writer, reader and supervisor; session.rs reader and loop).     *)
UnderWay == writing # None \/ up # <<>> \/ inbox # <<>> \/ work # Idle \/ down # <<>> \/ holding # <<>>
NoStandstill ==
  viewer = "live" /\ server = "live" /\ UnderWay =>
    ENABLED (\/ WriteControl \/ WriteExpires \/ ReadHalf \/ ReadRest \/ Serve \/ Refuse \/ Injected
             \/ InjectExpires \/ Reply \/ ReplyExpires \/ ReadEvent \/ HandEvent \/ HandExpires)

-----------------------------------------------------------------------------
(***************************************************************************)
(* The passive observer of a viewer's reply reads (rds-desktop             *)
(* control_read.rs): the reader publishes its progress in separate atomics *)
(* between two increments of a version, the observer samples them without  *)
(* ever waiting, and asks the heartbeat probes (client.rs) whether a reply *)
(* is overdue.                                                             *)
(*                                                                         *)
(* Every atomic is SeqCst: a step is one load or store.  Clock readings    *)
(* are left out; a probe that still counts is one that can be overdue.     *)
(***************************************************************************)

CONSTANTS PrefixLen,   \* the 4 bytes of a frame's length
          FrameLen,    \* bytes of one reply, its prefix included
          MaxReads,    \* replies read
          MaxProbes,   \* heartbeats sent
          MaxVersion   \* bounds the polls that bring nothing

VARIABLES version,     \* State::version
          fields,      \* the atomics of State
          todo,        \* stores left in the current update
          reader,      \* "idle", "updating" or "polling"
          observer,    \* [at, version, copy]: a snapshot being taken
          sample,      \* the last snapshot handed out, NoSample before
          settled,     \* fields between two updates (history)
          probes,      \* HeartbeatProbes::pending, in the order sent
          confirmed,   \* last_echoed_sent
          sent

watchVars == <<version, fields, todo, reader, observer, sample, settled, probes, confirmed, sent>>

NoSample == [taken |-> FALSE]
NoFields == [generation |-> 0, active |-> FALSE, inside |-> FALSE, bytes |-> 0, prefix |-> 0]
Asleep == [at |-> "tick", version |-> 0, copy |-> NoFields]

ReplyInit ==
  /\ version = 0 /\ fields = NoFields /\ settled = NoFields
  /\ todo = <<>> /\ reader = "idle"
  /\ observer = Asleep /\ sample = NoSample
  /\ probes = {} /\ confirmed = 0 /\ sent = 0

unsampled == <<observer, sample, probes, confirmed, sent>>

-----------------------------------------------------------------------------
(* State::update: odd while the stores are made. *)
Update(stores) ==
  /\ reader = "idle"
  /\ version' = version + 1
  /\ todo' = stores
  /\ reader' = "updating"
  /\ UNCHANGED <<fields, settled>> /\ UNCHANGED unsampled
Store ==
  /\ reader = "updating" /\ todo # <<>>
  /\ fields' = [fields EXCEPT ![Head(todo)[1]] = Head(todo)[2]]
  /\ todo' = Tail(todo)
  /\ UNCHANGED <<version, settled, reader>> /\ UNCHANGED unsampled
UpdateEnds ==
  /\ reader = "updating" /\ todo = <<>>
  /\ version' = version + 1
  /\ settled' = fields
  /\ reader' = "idle"
  /\ UNCHANGED <<fields, todo>> /\ UNCHANGED unsampled

begin ==
  /\ ~fields.active /\ fields.generation < MaxReads
  /\ Update(<< <<"generation", fields.generation + 1>>, <<"active", TRUE>>, <<"inside", FALSE>>,
               <<"bytes", 0>>, <<"prefix", 0>> >>)
end ==
  /\ fields.active /\ ~fields.inside /\ fields.bytes = FrameLen
  /\ Update(<< <<"active", FALSE>> >>)

(* ObservedRead::poll_read: before and after the poll; some bytes or none. *)
EnterPoll ==
  /\ fields.active /\ ~fields.inside /\ fields.bytes < FrameLen /\ version < MaxVersion
  /\ Update(<< <<"inside", TRUE>> >>)
LesserOf(a, b) == IF a < b THEN a ELSE b
LeavePoll ==
  /\ fields.active /\ fields.inside
  /\ \/ Update(<< <<"inside", FALSE>> >>)
     \/ \E n \in 1 .. FrameLen - fields.bytes :
          Update(<< <<"inside", FALSE>>, <<"prefix", LesserOf(PrefixLen, fields.bytes + n)>>, <<"bytes", fields.bytes + n>> >>)

-----------------------------------------------------------------------------
(* snapshot: an odd version is skipped, and one that has changed. *)
unread == <<version, fields, todo, reader, settled, probes, confirmed, sent>>
LooksStable == version % 2 = 0
MayStart == LooksStable
Begins ==
  /\ observer.at = "tick"
  /\ IF MayStart THEN observer' = [Asleep EXCEPT !.at = "bytes", !.version = version]
     ELSE UNCHANGED observer
  /\ sample' = NoSample /\ UNCHANGED unread
Load(here, field, next) ==
  /\ observer.at = here
  /\ observer' = [observer EXCEPT !.at = next, !.copy[field] = fields[field]]
  /\ UNCHANGED sample /\ UNCHANGED unread
Loads ==
  \/ Load("bytes", "bytes", "generation")
  \/ Load("generation", "generation", "active")
  \/ Load("active", "active", "inside")
  \/ Load("inside", "inside", "prefix")
  \/ Load("prefix", "prefix", "check")
SameVersion == version = observer.version
Accepts == SameVersion
Overdue == {p \in probes : p > confirmed}
Observe ==
  /\ observer.at = "check"
  /\ observer' = Asleep
  /\ sample' = IF Accepts
               THEN [taken |-> TRUE, copy |-> observer.copy, truth |-> settled,
                     warned |-> observer.copy.active /\ Overdue # {}]
               ELSE sample
  /\ UNCHANGED unread

-----------------------------------------------------------------------------
(* HeartbeatProbes: echoes may be lost. *)
unmoved == <<version, fields, todo, reader, observer, sample, settled>>
Sent ==
  /\ sent < MaxProbes
  /\ sent' = sent + 1 /\ probes' = probes \cup {sent + 1}
  /\ UNCHANGED confirmed /\ UNCHANGED unmoved
NewestEcho(p) == IF p > confirmed THEN p ELSE confirmed
LastEcho(p) == p                         \* mutant: an old echo moves the mark back
Confirms(p) == NewestEcho(p)
Echoed ==
  /\ \E p \in probes : probes' = probes \ {p} /\ confirmed' = Confirms(p)
  /\ UNCHANGED sent /\ UNCHANGED unmoved

ReplyNext == begin \/ end \/ EnterPoll \/ LeavePoll \/ Store \/ UpdateEnds \/ Begins \/ Loads \/ Observe \/ Sent \/ Echoed
ReplySpec == ReplyInit /\ [][ReplyNext]_watchVars

-----------------------------------------------------------------------------
(* Type invariant. *)
ReplyTypeOK == fields.bytes \in 0 .. FrameLen /\ fields.prefix \in 0 .. PrefixLen /\ confirmed \in 0 .. sent

(* control_read.rs 21-22, 92: a snapshot is one the reader published as a    *)
(* whole; it never mixes two reads or a half-made update, and a length it    *)
(* reports has all its bytes.                                                *)
SampleCoherent ==
  sample.taken => /\ sample.copy = sample.truth
                  /\ sample.copy.bytes >= PrefixLen => sample.copy.prefix = PrefixLen

(* client.rs 89-91: once a newer probe was answered, an older one whose echo *)
(* never came is not reported as overdue again.                              *)
OldProbesForgiven == [][\A p \in 1 .. sent : p \notin Overdue => p \notin Overdue']_watchVars

-----------------------------------------------------------------------------
(***************************************************************************)
(* How long the viewer believes in a desktop session, and how it retries:  *)
(* the network loop of rds-cli desktop.rs with its two watchdogs.  The     *)
(* control watchdog (desktop/liveness.rs) knows only what the agent        *)
(* answered: heartbeat echoes and finished clipboard publications.  The    *)
(* video watchdog (desktop/control.rs) asks for two repairs and then gives *)
(* the session up.  A session that stayed healthy resets the retry delay.  *)
(*                                                                         *)
(* Time is in periods of the one-second tick; ages are capped at AgeCap.   *)
(* One heartbeat is sent per tick, so its age names it.  The control       *)
(* stream is reliable and ordered but may stand still for any time.        *)
(***************************************************************************)

CONSTANTS Stall,        \* CONTROL_STALL
          Grace,        \* CLIPBOARD_GRACE
          Timely,       \* TIMELY_ECHO
          ProbeGap,     \* HEALTHY_PROBE_GAP
          Window,       \* HEALTHY_WINDOW
          WatchMaxProbes,    \* MAX_PROBES
          VideoStall,   \* VIDEO_STALL_TIMEOUT
          RepairAges,   \* REPAIR_AGES, a sequence
          WriteStall,   \* how long the writes of one turn may take, two seconds each
          MaxFailures,  \* bound on retries
          AgeCap        \* ages are counted up to this

VARIABLES phase,     \* "connecting", "session", "pause", "closed"
          failures,  \* attempts without a healthy session
          frames,    \* this attempt received a frame
          healthy,   \* Attempt::healthy
          lived,     \* age of the session
          due,       \* the tick is ready and not yet handled
          blocked,   \* how long the pump has been in one control write
          flying,    \* heartbeats not yet echoed, by age
          pending,   \* State::pending, by age
          watchConfirmed, \* age of State::confirmed
          stable,    \* age of State::stable_since, WatchNone
          timely,    \* age of State::last_timely, WatchNone
          clip,      \* State::clipboard
          frameAge,  \* age of the last decoded frame
          seen,      \* VideoWatchdog::progress is the current frame
          repairs,   \* VideoWatchdog::repairs
          truth,     \* age of the newest control the agent answered (history)
          asked,     \* repairs sent since the last frame (history)
          short,     \* attempts since a session lived for Window (history)
          ended      \* why the last session ended (history)

control == <<flying, pending, watchConfirmed, stable, timely, clip, truth>>
video == <<frameAge, seen, repairs, asked>>
loop == <<phase, failures, frames, healthy, lived, short, ended>>
watchWatchVars == <<loop, due, blocked, control, video>>

WatchNone == AgeCap + 1
Older(a) == IF a >= AgeCap THEN a ELSE a + 1
NoClip == [on |-> FALSE, left |-> 0, sent |-> 0, finished |-> FALSE]

(* ControlWatchdog::with_health and VideoWatchdog::default *)
Fresh ==
  /\ flying' = {} /\ pending' = {} /\ watchConfirmed' = 0
  /\ stable' = WatchNone /\ timely' = WatchNone /\ clip' = NoClip /\ truth' = 0
  /\ frameAge' = 0 /\ seen' = FALSE /\ repairs' = 0 /\ asked' = 0
  /\ lived' = 0 /\ blocked' = 0

WatchInit ==
  /\ phase = "connecting" /\ failures = 0 /\ frames = FALSE /\ healthy = FALSE
  /\ lived = 0 /\ short = 0 /\ ended = "none"
  /\ due = FALSE /\ blocked = 0
  /\ flying = {} /\ pending = {} /\ watchConfirmed = 0
  /\ stable = WatchNone /\ timely = WatchNone /\ clip = NoClip /\ truth = 0
  /\ frameAge = 0 /\ seen = FALSE /\ repairs = 0 /\ asked = 0

-----------------------------------------------------------------------------
(* The retry loop. *)
(* A session is opened: the managed session is checked or connected and its  *)
(* peer verified, then the desktop opens.  The first tick is immediate.      *)
Opened ==
  /\ phase = "connecting"
  /\ phase' = "session" /\ due' = TRUE
  /\ Fresh
  /\ UNCHANGED <<failures, frames, healthy, short, ended>>

(* retry_delay: only an attempt that was healthy and showed frames starts    *)
(* the delays anew.                                                          *)
Healthy == frames /\ healthy
Resets == Healthy
retry_delay == (IF Resets THEN 0 ELSE failures) + 1

Retries(why) ==
  /\ failures' = retry_delay
  /\ failures' <= MaxFailures
  /\ short' = (IF phase = "session" /\ lived >= Window THEN 0 ELSE short) + 1
  /\ phase' = "pause" /\ ended' = why /\ due' = FALSE
  /\ frames' = FALSE /\ healthy' = FALSE
  /\ flying' = {} /\ pending' = {} /\ watchConfirmed' = 0
  /\ stable' = WatchNone /\ timely' = WatchNone /\ clip' = NoClip /\ truth' = 0
  /\ lived' = 0 /\ blocked' = 0
  /\ frameAge' = 0 /\ seen' = FALSE /\ repairs' = 0
  /\ asked' = IF why = "video" THEN asked ELSE 0

OpenFails == phase = "connecting" /\ Retries("open")

(* retry_pause runs to its deadline whatever input arrives meanwhile. *)
PauseEnds ==
  /\ phase = "pause"
  /\ phase' = "connecting" /\ ended' = "none" /\ asked' = 0
  /\ UNCHANGED <<failures, frames, healthy, lived, short, due, blocked, control, frameAge, seen, repairs>>

(* The user's close, or the stop token, ends the loop in any phase. *)
Closes ==
  /\ phase # "closed"
  /\ phase' = "closed" /\ due' = FALSE /\ ended' = "closed"
  /\ Fresh
  /\ UNCHANGED <<failures, frames, healthy, short>>

-----------------------------------------------------------------------------
(* Time.  A tick that comes while a write is blocked waits for it; a write   *)
(* that stays blocked ends the session.                                      *)
Aged(S) == {Older(a) : a \in S}
TimePasses ==
  /\ phase = "session"
  /\ due => blocked > 0
  /\ blocked <= WriteStall
  /\ due' = TRUE
  /\ blocked' = IF blocked > 0 THEN blocked + 1 ELSE 0
  /\ lived' = (IF lived < Window THEN lived + 1 ELSE lived)
  /\ flying' = Aged(flying) /\ pending' = Aged(pending)
  /\ watchConfirmed' = Older(watchConfirmed) /\ truth' = Older(truth)
  /\ stable' = Older(stable) /\ timely' = Older(timely)
  /\ clip' = IF clip.on THEN [clip EXCEPT !.left = IF @ > 0 THEN @ - 1 ELSE 0, !.sent = Older(@)] ELSE clip
  /\ frameAge' = Older(frameAge)
  /\ UNCHANGED <<phase, failures, frames, healthy, short, ended, seen, repairs, asked>>

(* send_control: a write blocks on the stalled stream, goes on, or is given  *)
(* up with the whole session.                                                *)
Blocks == /\ phase = "session" /\ blocked = 0 /\ ~due /\ blocked' = 1
          /\ UNCHANGED <<loop, due, control, video>>
Unblocks == /\ blocked > 0 /\ blocked' = 0
            /\ UNCHANGED <<loop, due, control, video>>
WriteStalls == blocked > WriteStall /\ Retries("write")

-----------------------------------------------------------------------------
(* The control watchdog. *)
(* check: nothing answered for CONTROL_STALL, and no publication's grace.    *)
publishing == clip.on /\ clip.left > 0
ControlStalled == watchConfirmed >= Stall /\ ~publishing
check == due /\ blocked = 0 /\ ControlStalled /\ Retries("control")

(* sent: the oldest probe gives way when MAX_PROBES are pending. *)
SendHeartbeat ==
  /\ flying' = flying \cup {0}
  /\ pending' = {0} \cup (IF Cardinality(pending) = WatchMaxProbes THEN pending \ {Max(pending)} ELSE pending)

(* A publication that replaces an unanswered one inherits its deadline.      *)
Inherit == IF clip.on THEN clip.left ELSE Grace
Renew == Grace                          \* mutant: every publication has its own
Deadline == Inherit
Publish(finished) ==
  /\ phase = "session" /\ blocked = 0 /\ ~due
  /\ clip' = [on |-> TRUE, left |-> Deadline, sent |-> 0, finished |-> finished]
  /\ UNCHANGED <<loop, due, blocked, flying, pending, watchConfirmed, stable, timely, truth, video>>
PublishRest ==
  /\ phase = "session" /\ blocked = 0 /\ ~due
  /\ clip.on /\ ~clip.finished
  /\ clip' = [clip EXCEPT !.sent = 0, !.finished = TRUE]
  /\ UNCHANGED <<loop, due, blocked, flying, pending, watchConfirmed, stable, timely, truth, video>>

(* clipboard_ready: the answer for the publication that was sent last. It    *)
(* follows the echoes of the heartbeats sent before its last chunk.          *)
Confirm(a) == Min({watchConfirmed, a})
clipboard_ready ==
  /\ phase = "session" /\ clip.on /\ clip.finished
  /\ \A a \in flying : a <= clip.sent
  /\ watchConfirmed' = Confirm(clip.sent)
  /\ truth' = Min({truth, clip.sent})
  /\ clip' = NoClip
  /\ UNCHANGED <<loop, due, blocked, flying, pending, stable, timely, video>>

(* echoed: confirmation reaches back to when the probe was sent. *)
SentTime(a) == a
Credit(a) == SentTime(a)
GapBefore(a) == timely = WatchNone \/ timely - a > ProbeGap
echoed ==
  /\ phase = "session" /\ flying # {}
  /\ LET a == Max(flying) IN
     /\ flying' = flying \ {a}
     /\ truth' = Min({truth, a})
     /\ IF a \notin pending THEN UNCHANGED <<pending, watchConfirmed, stable, timely, healthy>>
        ELSE /\ pending' = pending \ {a}
             /\ watchConfirmed' = Confirm(Credit(a))
             /\ IF a <= Timely
                THEN /\ stable' = IF GapBefore(a) THEN a ELSE stable
                     /\ timely' = IF timely = WatchNone THEN a ELSE Min({timely, a})
                     /\ healthy' = (healthy \/ stable' - a >= Window)
                ELSE stable' = WatchNone /\ timely' = WatchNone /\ UNCHANGED healthy
  /\ UNCHANGED <<phase, failures, frames, lived, short, ended, due, blocked, clip, video>>

-----------------------------------------------------------------------------
(* The video watchdog. *)
FrameDecoded ==
  /\ phase = "session"
  /\ frames' = TRUE /\ frameAge' = 0 /\ seen' = FALSE /\ asked' = 0
  /\ UNCHANGED <<phase, failures, healthy, lived, short, ended, due, blocked, control, repairs>>

(* observe: a new frame rearms the repairs. *)
Rearmed == IF seen THEN repairs ELSE 0
Repairs == Rearmed
VideoStalled == frameAge >= VideoStall
RepairDue == Repairs < Len(RepairAges) /\ frameAge >= RepairAges[Repairs + 1]
VideoReconnects ==
  /\ due /\ blocked = 0 /\ ~ControlStalled /\ VideoStalled
  /\ Retries("video")

(* One turn of the pump's tick: both watchdogs content, a repair when it is  *)
(* due, then the heartbeat.                                                  *)
pump_inner ==
  /\ due /\ blocked = 0 /\ ~ControlStalled /\ ~VideoStalled
  /\ due' = FALSE
  /\ seen' = TRUE
  /\ repairs' = IF RepairDue THEN Repairs + 1 ELSE Repairs
  /\ asked' = IF RepairDue THEN asked + 1 ELSE asked
  /\ SendHeartbeat
  /\ UNCHANGED <<loop, blocked, watchConfirmed, stable, timely, clip, truth, frameAge>>

(* The stream, the decoder or the event channel ends the session itself. *)
SessionFails == phase = "session" /\ Retries("stream")

WatchNext ==
  \/ Opened \/ OpenFails \/ PauseEnds \/ Closes
  \/ TimePasses \/ Blocks \/ Unblocks \/ WriteStalls
  \/ check \/ \E f \in BOOLEAN : Publish(f)
  \/ PublishRest \/ clipboard_ready \/ echoed
  \/ FrameDecoded \/ VideoReconnects \/ pump_inner \/ SessionFails

WatchSpec == WatchInit /\ [][WatchNext]_watchWatchVars

-----------------------------------------------------------------------------
WatchTypeOK ==
  /\ phase \in {"connecting", "session", "pause", "closed"}
  /\ pending \subseteq flying
  /\ Cardinality(pending) <= WatchMaxProbes
  /\ repairs \in 0 .. Len(RepairAges)

(* A turn of the pump goes on only while a control the agent is known to     *)
(* have handled is younger than the stall, or while one publication's grace  *)
(* lasts: late echoes do not make old control look current, and a user who   *)
(* keeps copying does not keep a dead session (liveness.rs check, sent,      *)
(* echoed; a blocked write delays the turn).                                 *)
ControlIsCurrent ==
  [][due /\ ~due' /\ phase' = "session" =>
       truth < (IF clip.on THEN Stall + Grace + WriteStall ELSE Stall)]_watchWatchVars

(* A session is given up for its video only after every repair of            *)
(* REPAIR_AGES was asked for since the last frame, also in the second and    *)
(* later stalls of one session (control.rs VideoWatchdog::observe).          *)
RepairedFirst == ended = "video" => asked = Len(RepairAges)

(* Attempts that never lived through a healthy window keep backing off: the  *)
(* delay's exponent falls back only after a session that lasted for the      *)
(* whole window (desktop.rs retry_delay, liveness.rs echoed).                *)
BackoffHolds == failures >= short
=============================================================================
