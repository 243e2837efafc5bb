----------------------------- MODULE ViewerInput ------------------------------
(***************************************************************************)
(* Input on the controlled computer: the control loop of every session,    *)
(* its input worker, and the native holds that all workers share.          *)
(*                                                                         *)
(* A call into the X server cannot be cancelled.  When it does not return  *)
(* in time the session drops its worker, a new worker serves the next      *)
(* event, and the old one may still inject before it lets go of its keys.  *)
(***************************************************************************)
EXTENDS Naturals, Sequences, FiniteSets, FiniteSetsExt, SequencesExt

CONSTANTS
    Keys,         \* keys of the keyboard
    Buttons,      \* pointer buttons
    MaxSessions,  \* bound: sessions one viewer opens, one after the other
    MaxWorkers,   \* bound: input workers
    MaxTrouble    \* bound: calls that hang, fail or are refused

VARIABLES
    srv,       \* session -> "none", "run" or "ended"
    wire,      \* session -> input on its control stream
    eof,       \* session -> the stream has ended behind what is on the wire
    cur,       \* session -> its worker (SessionState input), 0 when it has none
    waiting,   \* session -> the control loop awaits the worker's reply
    lost,      \* session -> its display was removed or reconfigured
    worker,    \* worker -> [sess, state, job, sink, cancelled, holds]
    owners,    \* HOLDS: key -> the sinks that hold it
    down,      \* keys and buttons the X server has down
    pointer,   \* where the X server has the pointer
    clicks,    \* button presses: <<where it was aimed, where it landed>>
    trouble

injectVars ==
    <<srv, wire, eof, cur, waiting, lost, worker, owners, down, pointer, clicks, trouble>>

Sessions == 1..MaxSessions
Workers == 1..MaxWorkers
NoJob == [key |-> "none", down |-> FALSE, pos |-> 0, at |-> "up"]
NewWorker(s) ==
    [sess |-> s, state |-> "idle", job |-> NoJob, sink |-> FALSE, cancelled |-> FALSE, holds |-> {}]
NoWorker == [NewWorker(0) EXCEPT !.state = "free"]

InjectInit ==
    /\ srv = [s \in Sessions |-> "none"]
    /\ wire = [s \in Sessions |-> <<>>] /\ eof = [s \in Sessions |-> FALSE]
    /\ cur = [s \in Sessions |-> 0] /\ waiting = [s \in Sessions |-> FALSE]
    /\ lost = [s \in Sessions |-> FALSE]
    /\ worker = [w \in Workers |-> NoWorker]
    /\ owners = [k \in Keys |-> 0] /\ down = {}
    /\ pointer = 0 /\ clicks = {} /\ trouble = 0

Troubled == trouble < MaxTrouble /\ trouble' = trouble + 1

(***************************************************************************)
(* The control loop                                                        *)
(***************************************************************************)
\* The next event goes to the session's worker, or to a new one.  A worker
\* whose thread has ended refuses it.
TakeInput(s) ==
    /\ srv[s] = "run" /\ ~waiting[s] /\ wire[s] # <<>>
    /\ wire' = [wire EXCEPT ![s] = Tail(@)]
    /\ \/ /\ cur[s] # 0 /\ worker[cur[s]].state = "over"
          /\ UNCHANGED <<cur, waiting, worker>>
       \/ \E w \in Workers :
            /\ IF cur[s] # 0 THEN w = cur[s] /\ worker[w].state = "idle"
                             ELSE worker[w].state = "free" /\ \A v \in 1 .. w - 1 : worker[v].state # "free"
            /\ cur' = [cur EXCEPT ![s] = w]
            /\ waiting' = [waiting EXCEPT ![s] = TRUE]
            /\ worker' = [worker EXCEPT ![w] =
                 [(IF cur[s] # 0 THEN @ ELSE NewWorker(s)) EXCEPT !.state = "busy", !.job = Head(wire[s])]]
    /\ UNCHANGED <<srv, eof, lost, owners, down, pointer, clicks, trouble>>

\* FRAME_SEND_TIMEOUT passed: the event stays unacknowledged and the worker is dropped.
InjectTimesOut(s) ==
    /\ Troubled
    /\ waiting[s]
    /\ waiting' = [waiting EXCEPT ![s] = FALSE]
    /\ cur' = [cur EXCEPT ![s] = 0]
    /\ worker' = [worker EXCEPT ![cur[s]].cancelled = TRUE]
    /\ UNCHANGED <<srv, wire, eof, lost, owners, down, pointer, clicks>>

\* The control loop ends at the end of the stream; the session also ends when
\* its capture finds the display gone or its writer the connection dead.
SessionOver(s) ==
    /\ srv[s] = "run"
    /\ eof[s] \/ lost[s]
    /\ srv' = [srv EXCEPT ![s] = "ended"]
    /\ wire' = [wire EXCEPT ![s] = <<>>]
    /\ waiting' = [waiting EXCEPT ![s] = FALSE]
    /\ cur' = [cur EXCEPT ![s] = 0]
    /\ worker' = IF cur[s] = 0 THEN worker ELSE [worker EXCEPT ![cur[s]].cancelled = TRUE]
    /\ UNCHANGED <<eof, lost, owners, down, pointer, clicks, trouble>>

(***************************************************************************)
(* The worker's thread                                                     *)
(***************************************************************************)
\* The thread answers its job; nobody listens when the worker was dropped.
Answered(w, h) ==
    /\ worker' = [worker EXCEPT ![w] = [@ EXCEPT !.state = "idle", !.job = NoJob, !.sink = TRUE, !.holds = h]]
    /\ waiting' = IF worker[w].cancelled THEN waiting ELSE [waiting EXCEPT ![worker[w].sess] = FALSE]

\* No backend answers: the thread ends, but the session keeps the worker.
ProbeFails(w) ==
    /\ Troubled
    /\ worker[w].state = "busy" /\ ~worker[w].cancelled /\ ~worker[w].sink
    /\ worker' = [worker EXCEPT ![w] = [@ EXCEPT !.state = "over", !.job = NoJob]]
    /\ waiting' = [waiting EXCEPT ![worker[w].sess] = FALSE]
    /\ UNCHANGED <<srv, wire, eof, cur, lost, owners, down, pointer, clicks>>

\* Hold::press: the first owner presses the key.  Buttons have no shared owners.
PressKey(k) ==
    /\ owners' = IF k \in Keys THEN [owners EXCEPT ![k] = @ + 1] ELSE owners
    /\ down' = down \cup {k}

\* Hold::release as a bug would write it: it forgets the other owners.
ReleaseForAll(S) ==
    /\ owners' = [k \in Keys |-> IF k \in S THEN owners[k] - 1 ELSE owners[k]]
    /\ down' = down \ S

\* Hold::release: only the last owner releases the key.
ReleaseKeys(S) ==
    /\ owners' = [k \in Keys |-> IF k \in S THEN owners[k] - 1 ELSE owners[k]]
    /\ down' = down \ ((S \cap Buttons) \cup {k \in S \cap Keys : owners[k] = 1})

\* XtestInput::inject.  A second key-down of a held key is a repeat, a key-up
\* of a key this sink does not hold does nothing.
Inject(w) ==
    LET job == worker[w].job
        holds == worker[w].holds
    IN  /\ worker[w].state = "busy" /\ ~lost[worker[w].sess]
        /\ \/ /\ job.key = "move"
              /\ pointer' = job.pos
              /\ Answered(w, holds)
              /\ UNCHANGED <<owners, down, clicks>>
           \/ /\ job.key # "move" /\ job.down
              /\ IF job.key \in holds THEN UNCHANGED <<owners, down>> ELSE PressKey(job.key)
              /\ clicks' = IF job.pos # 0 THEN clicks \cup {<<job.pos, pointer>>} ELSE clicks
              /\ Answered(w, holds \cup {job.key})
              /\ UNCHANGED pointer
           \/ /\ job.key # "move" /\ ~job.down
              /\ IF job.key \in holds THEN ReleaseKeys({job.key}) ELSE UNCHANGED <<owners, down>>
              /\ Answered(w, holds \ {job.key})
              /\ UNCHANGED <<pointer, clicks>>
        /\ UNCHANGED <<srv, wire, eof, cur, lost, trouble>>

\* A press is refused while the focus is on another screen.
PressRefused(w) ==
    /\ Troubled
    /\ worker[w].state = "busy" /\ worker[w].job.down
    /\ Answered(w, worker[w].holds)
    /\ UNCHANGED <<srv, wire, eof, cur, lost, owners, down, pointer, clicks>>

\* The display was removed or reconfigured, and from now on every call fails,
\* key-ups included: the sink keeps its holds.
DisplayLost(s) ==
    /\ Troubled
    /\ srv[s] = "run" /\ ~lost[s]
    /\ lost' = [lost EXCEPT ![s] = TRUE]
    /\ UNCHANGED <<srv, wire, eof, cur, waiting, worker, owners, down, pointer, clicks>>

InjectFails(w) ==
    /\ worker[w].state = "busy" /\ lost[worker[w].sess]
    /\ Answered(w, worker[w].holds)
    /\ UNCHANGED <<srv, wire, eof, cur, lost, owners, down, pointer, clicks, trouble>>

\* A cancelled worker ends, before the job it has when it has not yet called the
\* X server, and dropping the sink releases what it holds.
SinkDrops(w) ==
    /\ worker[w].cancelled
    /\ ReleaseKeys(worker[w].holds)
    /\ worker' = [worker EXCEPT ![w] = NoWorker]
    /\ UNCHANGED <<srv, wire, eof, cur, waiting, lost, pointer, clicks, trouble>>

ControlledSide ==
    \/ \E s \in Sessions : TakeInput(s) \/ SessionOver(s)
    \/ \E w \in Workers : Inject(w) \/ InjectFails(w) \/ SinkDrops(w)

Trouble ==
    \/ \E s \in Sessions : InjectTimesOut(s) \/ DisplayLost(s)
    \/ \E w \in Workers : ProbeFails(w) \/ PressRefused(w)

(***************************************************************************)
(* Properties                                                              *)
(***************************************************************************)
\* The X server has a key down exactly while some sink holds it, although the
\* sinks of dropped workers and of an older session overlap with the current
\* one and HOLDS counts them all (x11/repeat.rs Hold).
HeldWhileOwned ==
    \A k \in Keys :
        /\ owners[k] = Quantify(Workers, LAMBDA w : k \in worker[w].holds)
        /\ k \in down <=> owners[k] > 0

-----------------------------------------------------------------------------
(***************************************************************************)
(* Input from the viewer's window to the controlled computer: the window's *)
(* key and pointer handling, the bounded input queue, and the client loop  *)
(* that forwards it to one session after the other.                        *)
(***************************************************************************)

CONSTANTS
    Modifiers,   \* the modifiers among Keys
    QueueCap,    \* INPUT_QUEUE_CAPACITY
    WireCap,     \* what the control stream takes ahead of the control loop
    Positions,   \* where the pointer can be aimed
    MaxGestures  \* bound: what the user does

VARIABLES
    phys,      \* keys and buttons the user holds
    focused,   \* the window has the focus
    flags,     \* App.modifiers
    held,      \* SessionView keys and buttons
    aim,       \* SessionView pointer_point, 0 outside the picture
    queue,     \* InputState queue
    view,      \* "open", "closing" (fail_input was called) or "closed"
    net,       \* the client loop: "connecting", "up", "pausing" or "over"
    sess,      \* sessions opened so far
    gestures

viewVars == <<phys, focused, flags, held, aim, queue, view, gestures>>
clientVars == <<net, sess>>
inputVars == <<injectVars, viewVars, clientVars>>

Close == [key |-> "close", down |-> FALSE, pos |-> 0, at |-> "up"]
Key(k, d) == [key |-> k, down |-> d, pos |-> 0, at |-> net]
KeyEvents(S, d) == SetToSeq({Key(k, d) : k \in S})

InputInit ==
    /\ InjectInit
    /\ phys = {} /\ focused = TRUE /\ flags = {} /\ held = {} /\ aim = 0
    /\ queue = <<>> /\ view = "open" /\ gestures = 0
    /\ net = "connecting" /\ sess = 0

(***************************************************************************)
(* The window                                                              *)
(***************************************************************************)

\* InputSender::send: only consecutive pointer positions collapse.
Coalesce(q, e) ==
    IF e.key = "move" /\ q # <<>> /\ Last(q).key = "move" THEN Append(Front(q), e) ELSE Append(q, e)

\* A full queue refuses the event, and fail_input closes the session rather
\* than lose a key-up.
Send(evs) ==
    LET q == FoldLeft(Coalesce, queue, evs)
    IN  IF Len(q) <= QueueCap
        THEN queue' = q /\ view' = view
        ELSE queue' = SubSeq(q, 1, QueueCap) /\ view' = "closing"

Gesture == view = "open" /\ gestures < MaxGestures /\ gestures' = gestures + 1

\* modifier_changes: releases first.
SyncModifiers(f) ==
    KeyEvents((held \cap Modifiers) \ f, FALSE) \o KeyEvents(f \ held, TRUE)
Synced(f) == (held \ Modifiers) \cup f

Press(k) ==
    /\ Gesture /\ k \in Keys \ phys
    /\ phys' = phys \cup {k}
    /\ LET f == IF k \in Modifiers THEN flags \cup {k} ELSE flags
       IN  IF focused
           THEN /\ flags' = f
                /\ held' = Synced(f) \cup {k}
                /\ Send(SyncModifiers(f) \o KeyEvents({k} \ (held \cup f), TRUE))
           ELSE UNCHANGED <<flags, held, queue, view>>
    /\ UNCHANGED <<focused, aim, injectVars, clientVars>>

Release(k) ==
    /\ Gesture /\ k \in phys \cap Keys
    /\ phys' = phys \ {k}
    /\ LET f == flags \ {k}
       IN  IF focused
           THEN /\ flags' = f
                /\ held' = Synced(f) \ {k}
                /\ Send(SyncModifiers(f) \o KeyEvents({k} \cap (held \ Modifiers), FALSE))
           ELSE UNCHANGED <<flags, held, queue, view>>
    /\ UNCHANGED <<focused, aim, injectVars, clientVars>>

\* The operating system repeats a key that was forwarded and is still held.
Repeat(k) ==
    /\ Gesture /\ focused
    /\ k \in (phys \cap held \cap Keys) \ Modifiers
    /\ Send(<<Key(k, TRUE)>>)
    /\ UNCHANGED <<phys, focused, flags, held, aim, injectVars, clientVars>>

PointAt(p) ==
    /\ Gesture /\ p # aim
    /\ aim' = p
    /\ Send(IF p = 0 THEN <<>> ELSE <<[Key("move", FALSE) EXCEPT !.pos = p]>>)
    /\ UNCHANGED <<phys, focused, flags, held, injectVars, clientVars>>

\* A button goes down only inside the picture, and up wherever it was pressed.
Click(b) ==
    /\ Gesture /\ focused /\ b \notin phys
    /\ phys' = phys \cup {b}
    /\ held' = Synced(flags) \cup (IF aim # 0 THEN {b} ELSE {})
    /\ Send(SyncModifiers(flags)
            \o IF aim # 0 THEN <<[Key(b, TRUE) EXCEPT !.pos = aim]>> ELSE <<>>)
    /\ UNCHANGED <<focused, flags, aim, injectVars, clientVars>>

Unclick(b) ==
    /\ Gesture /\ focused /\ b \in phys
    /\ phys' = phys \ {b}
    /\ held' = Synced(flags) \ {b}
    /\ Send(SyncModifiers(flags) \o KeyEvents({b} \cap held, FALSE))
    /\ UNCHANGED <<focused, flags, aim, injectVars, clientVars>>

\* Losing the focus releases everything.
Blur ==
    /\ Gesture /\ focused
    /\ focused' = FALSE /\ flags' = {} /\ held' = {}
    /\ Send(KeyEvents(held, FALSE))
    /\ UNCHANGED <<phys, aim, injectVars, clientVars>>

\* The system may report the modifiers held while the window was away.
Focus ==
    /\ Gesture /\ ~focused
    /\ focused' = TRUE
    /\ \E f \in {{}, phys \cap Modifiers} :
         flags' = f /\ held' = Synced(f) /\ Send(SyncModifiers(f))
    /\ phys' = phys \ Buttons
    /\ UNCHANGED <<aim, injectVars, clientVars>>

\* The window closes: dropping the InputSender leaves only Close in the queue.
WindowCloses ==
    /\ view = "closing" \/ (view = "open" /\ gestures < MaxGestures)
    /\ view' = "closed" /\ queue' = <<Close>>
    /\ phys' = {} /\ focused' = FALSE /\ flags' = {} /\ held' = {} /\ aim' = 0
    /\ gestures' = MaxGestures
    /\ UNCHANGED <<injectVars, clientVars>>

(***************************************************************************)
(* The client loop                                                         *)
(***************************************************************************)
\* A session opens.  What was typed since the last one is still in the queue.
Connect ==
    /\ net = "connecting" /\ sess < MaxSessions
    /\ net' = "up" /\ sess' = sess + 1
    /\ srv' = [srv EXCEPT ![sess + 1] = "run"]
    /\ UNCHANGED <<wire, eof, cur, waiting, lost, worker, owners, down, pointer, clicks, trouble, viewVars>>

Forward ==
    /\ net = "up" /\ queue # <<>> /\ Head(queue) # Close /\ Len(wire[sess]) < WireCap
    /\ queue' = Tail(queue)
    /\ wire' = [wire EXCEPT ![sess] = Append(@, Head(queue))]
    /\ UNCHANGED <<srv, eof, cur, waiting, lost, worker, owners, down, pointer, clicks, trouble>>
    /\ UNCHANGED <<phys, focused, flags, held, aim, view, gestures, clientVars>>

\* The stream breaks; any part of what was on it arrives.
Breaks(next) ==
    /\ net' = next
    /\ eof' = [eof EXCEPT ![sess] = TRUE]
    /\ \E n \in 0..Len(wire[sess]) : wire' = [wire EXCEPT ![sess] = SubSeq(@, 1, n)]

CloseSession ==
    /\ net = "up" /\ queue # <<>> /\ Head(queue) = Close
    /\ Breaks("over")
    /\ UNCHANGED <<srv, cur, waiting, lost, worker, owners, down, pointer, clicks, trouble, sess, viewVars>>

Disconnect ==
    /\ net = "up" /\ sess < MaxSessions
    /\ Breaks("pausing")
    /\ UNCHANGED <<srv, cur, waiting, lost, worker, owners, down, pointer, clicks, trouble, sess, viewVars>>

\* The client notices that the server ended the session.
SeesEnd ==
    /\ net = "up" /\ srv[sess] = "ended"
    /\ net' = IF sess < MaxSessions THEN "pausing" ELSE "over"
    /\ UNCHANGED <<sess, injectVars, viewVars>>

\* retry_pause and the drain behind it: what was typed meanwhile is discarded.
RetryEnds ==
    /\ net = "pausing"
    /\ net' = IF Contains(queue, Close) THEN "over" ELSE "connecting"
    /\ queue' = <<>>
    /\ UNCHANGED <<sess, injectVars, phys, focused, flags, held, aim, view, gestures>>

Discard ==
    /\ net = "pausing" /\ queue # <<>>
    /\ net' = IF Head(queue) = Close THEN "over" ELSE net
    /\ queue' = Tail(queue)
    /\ UNCHANGED <<sess, injectVars, phys, focused, flags, held, aim, view, gestures>>

User ==
    \/ \E k \in Keys : Press(k) \/ Release(k) \/ Repeat(k)
    \/ \E p \in Positions \cup {0} : PointAt(p)
    \/ \E b \in Buttons : Click(b) \/ Unclick(b)
    \/ Blur \/ Focus

Machine ==
    \/ ControlledSide /\ UNCHANGED <<viewVars, clientVars>>
    \/ (view = "closing" /\ WindowCloses)
    \/ Connect \/ Forward \/ CloseSession \/ SeesEnd \/ RetryEnds \/ Discard

InputNext ==
    \/ User \/ WindowCloses \/ Disconnect \/ Machine
    \/ Trouble /\ UNCHANGED <<viewVars, clientVars>>

\* The event loop, the client's task, the session's control loop and the
\* worker's thread all run; the user and the troubles owe nothing.
InputFairness == WF_inputVars(Machine)

InputSpec == InputInit /\ [][InputNext]_inputVars /\ InputFairness

(***************************************************************************)
(* Properties                                                              *)
(***************************************************************************)
\* Once the user stops, the controlled computer holds only keys that the
\* viewer's window still holds, and none when the window is unfocused or
\* closed: across reconnections, dropped workers, refused presses and a full
\* queue no key stays down (fail_input, Focused(false), Drop for XtestInput).
NoKeyStuck == <>[](down \subseteq (IF view = "open" /\ focused THEN held ELSE {}))

\* A click lands where it was aimed: coalescing pointer positions never moves
\* one past the button behind it (InputSender::send).  A position that the
\* controlled computer could not apply, or that was discarded while the client
\* was disconnected, voids the promise.
ClicksLand == (trouble = 0 /\ sess <= 1) => \A c \in clicks : c[1] = c[2]

\* Input typed while no session is up never reaches a replacement (the promise of
\* the client loop's drain).
NeverReplayed == \A s \in Sessions \ {1} : \A i \in 1..Len(wire[s]) : wire[s][i].at = "up"
=============================================================================
