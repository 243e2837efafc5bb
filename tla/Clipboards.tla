----------------------------- MODULE Clipboards -------------------------------
(***************************************************************************)
(* The X11 clipboard worker of a desktop session.  It takes the CLIPBOARD  *)
(* selection to publish the viewer's text and serves it to other programs, *)
(* and it reads the text of every program that takes the selection later.  *)
(* Long texts travel in pieces (INCR): the receiver deletes the property   *)
(* and the owner writes the next piece, an empty one at the end.           *)
(*                                                                         *)
(* Copy k of a program is text k; its owner window is k.  Text -p is the   *)
(* p-th text published by the worker.  A long text is the pieces 1..Pieces.*)
(***************************************************************************)
EXTENDS Integers, Sequences, FiniteSets, SequencesExt

CONSTANTS
    MaxCopies,  \* bound: copies made by other programs
    MaxTexts,   \* bound: texts the viewer pastes
    Pieces,     \* the pieces of a long text
    Readers,    \* programs that paste
    MaxServed   \* the transfers the worker serves at a time

VARIABLES
    xfixes,     \* the server announces owners; otherwise the worker polls
    owner,      \* the selection's owner: 0 none, k > 0 a program, < 0 the worker
    copies,     \* copies made so far
    xEvents,    \* events queued for the worker
    property,   \* requestor window -> what its property holds
    answers,    \* conversions the programs are serving: [win, text, sent]
    publishing, \* "no", "marking" (waiting for a server time), "timed" or
                \* "failed", which ends the session and its worker
    marked,     \* the server's time at the marker: the copies made until then
    texts,      \* texts published so far
    heldText,   \* text of the worker, 0 when it has none
    lastOwner,
    reading,    \* Incoming: [win, text, incr, bytes]
    found,      \* Clipboard.external: the pieces of the text that was read
    gaveUp,     \* the last text whose read timed out
    windows,    \* requestor windows that exist
    nextWin,
    reported,   \* the last text the session heard of
    serving,    \* Transfers: [reader, text, sent]
    pasted      \* reader -> [state, got]

readVars == <<reading, found, gaveUp, windows, nextWin>>
serveVars == <<serving, pasted>>
publishVars == <<publishing, marked, texts, heldText>>
clipVars ==
    <<xfixes, owner, copies, xEvents, property, answers, publishVars, lastOwner, readVars, reported, serveVars>>

Us == -1
NoRead == [win |-> 0, text |-> 0, incr |-> FALSE, bytes |-> <<>>]
Whole(t) == [i \in 1..Pieces |-> <<t, i>>]
Direct(t) == t % 2 = 0   \* a short text fits one property
Windows == 1..(2 * MaxCopies)
Absent == <<<<0, 0>>>>   \* no property
Incr == <<<<0, 1>>>>     \* the announcement of a text in pieces
Asked == -1
Ev(kind, who) == [kind |-> kind, who |-> who]

ClipInit ==
    /\ xfixes \in BOOLEAN
    /\ owner = 0 /\ copies = 0 /\ xEvents = <<>>
    /\ property = [w \in Windows |-> Absent] /\ answers = {}
    /\ publishing = "no" /\ marked = 0 /\ texts = 0 /\ heldText = 0
    /\ lastOwner = 0
    /\ reading = NoRead /\ found = <<>> /\ gaveUp = 0 /\ windows = {} /\ nextWin = 1
    /\ reported = 0
    /\ serving = {} /\ pasted = [r \in Readers |-> [state |-> "no", got |-> <<>>]]

(***************************************************************************)
(* Other programs and the server                                           *)
(***************************************************************************)
\* A program takes the selection: the worker learns that it lost it, and with
\* XFIXES who has it.
Copy ==
    /\ copies < MaxCopies
    /\ copies' = copies + 1 /\ owner' = copies + 1
    /\ xEvents' = xEvents \o (IF owner = Us THEN <<Ev("clear", 0)>> ELSE <<>>)
                          \o (IF xfixes THEN <<Ev("owner", copies + 1)>> ELSE <<>>)
    /\ UNCHANGED <<xfixes, property, answers, publishVars, lastOwner, readVars, reported, serveVars>>

\* The owner answers a conversion at once, in pieces, or not at all; the
\* window may be gone by then.
Answer(a) ==
    /\ a.sent = Asked
    /\ \/ /\ a.win \notin windows /\ answers' = answers \ {a}
          /\ UNCHANGED <<property, xEvents>>
       \/ /\ a.win \in windows
          /\ property' = [property EXCEPT ![a.win] = IF Direct(a.text) THEN Whole(a.text) ELSE Incr]
          /\ answers' = (answers \ {a}) \cup (IF Direct(a.text) THEN {} ELSE {[a EXCEPT !.sent = 0]})
          /\ xEvents' = Append(xEvents, Ev("notify", a.win))
       \/ /\ a.win \in windows /\ owner # a.text \* no longer the owner: refused
          /\ answers' = answers \ {a} /\ UNCHANGED property
          /\ xEvents' = Append(xEvents, Ev("refused", a.win))
    /\ UNCHANGED <<xfixes, owner, copies, publishVars, lastOwner, readVars, reported, serveVars>>
WritePiece(a) ==
    /\ a.sent \in 0..Pieces
    /\ \/ /\ a.win \notin windows /\ answers' = answers \ {a}
          /\ UNCHANGED <<property, xEvents>>
       \/ /\ a.win \in windows /\ property[a.win] = Absent
          /\ property' = [property EXCEPT ![a.win] = IF a.sent < Pieces THEN <<<<a.text, a.sent + 1>>>> ELSE <<>>]
          /\ answers' = (answers \ {a}) \cup (IF a.sent < Pieces THEN {[a EXCEPT !.sent = a.sent + 1]} ELSE {})
          /\ xEvents' = Append(xEvents, Ev("new", a.win))
    /\ UNCHANGED <<xfixes, owner, copies, publishVars, lastOwner, readVars, reported, serveVars>>

\* A program pastes while the worker owns the selection, and takes a long
\* text piece by piece.
Paste(r) ==
    /\ owner = Us /\ pasted[r].state = "no"
    /\ pasted' = [pasted EXCEPT ![r].state = "asked"]
    /\ xEvents' = Append(xEvents, Ev("request", r))
    /\ UNCHANGED <<xfixes, owner, copies, property, answers, publishVars, lastOwner, readVars, reported, serving>>
TakePiece(r) ==
    /\ pasted[r].state = "piece"
    /\ pasted' = [pasted EXCEPT ![r].state = "waiting"]
    /\ xEvents' = Append(xEvents, Ev("deleted", r))
    /\ UNCHANGED <<xfixes, owner, copies, property, answers, publishVars, lastOwner, readVars, reported, serving>>

(***************************************************************************)
(* Publishing                                                              *)
(***************************************************************************)
Cancelled == reading' = NoRead /\ windows' = windows \ {reading.win}

\* publish: the read in progress is cancelled, and a marker property fetches
\* the server's time.  Events that arrive first are handled as usual.
PublishStarts ==
    /\ publishing = "no" /\ texts < MaxTexts
    /\ Cancelled /\ found' = <<>>
    /\ publishing' = "marking" /\ texts' = texts + 1
    /\ xEvents' = Append(xEvents, Ev("marker", copies))
    /\ UNCHANGED <<xfixes, owner, copies, property, answers, marked, heldText, lastOwner, gaveUp, nextWin, reported, serveVars>>
\* A program that took the selection after the marker keeps it.
PublishOwns ==
    /\ publishing = "timed"
    /\ publishing' = IF copies = marked THEN "no" ELSE "failed"
    /\ IF copies = marked
       THEN /\ owner' = Us /\ lastOwner' = Us /\ heldText' = -texts
            /\ xEvents' = xEvents \o (IF xfixes THEN <<Ev("owner", Us)>> ELSE <<>>)
       ELSE UNCHANGED <<owner, lastOwner, heldText, xEvents>>
    /\ UNCHANGED <<xfixes, copies, property, answers, marked, texts, readVars, reported, serveVars>>
PublishTimesOut ==
    /\ publishing = "marking" /\ publishing' = "failed"
    /\ UNCHANGED <<xfixes, owner, copies, xEvents, property, answers, marked, texts, heldText, lastOwner, readVars, reported, serveVars>>

(***************************************************************************)
(* The worker's events                                                     *)
(***************************************************************************)
\* owner_changed: the old read is cancelled; a program's text is requested
\* into a fresh window.
OwnerChanged(o) ==
    /\ lastOwner' = o /\ found' = <<>>
    /\ IF o <= 0 THEN Cancelled /\ UNCHANGED <<nextWin, answers>>
       ELSE /\ reading' = [NoRead EXCEPT !.win = nextWin, !.text = o]
            /\ windows' = (windows \ {reading.win}) \cup {nextWin}
            /\ nextWin' = nextWin + 1
            /\ answers' = answers \cup {[win |-> nextWin, text |-> o, sent |-> Asked]}

\* read_property deletes what it reads.  A text in one property is complete;
\* its window is kept.
ReadWhole(w) ==
    /\ IF property[w] = Incr
       THEN reading' = [reading EXCEPT !.incr = TRUE] /\ UNCHANGED found
       ELSE reading' = NoRead /\ found' = property[w]
    /\ property' = [property EXCEPT ![w] = Absent]
    /\ UNCHANGED windows
ReadPiece(w) ==
    /\ IF property[w] = <<>>
       THEN Cancelled /\ found' = reading.bytes
       ELSE reading' = [reading EXCEPT !.bytes = @ \o property[w]] /\ UNCHANGED <<found, windows>>
    /\ property' = [property EXCEPT ![w] = Absent]

\* request: a short text at once, a long one as a bounded transfer.
ServeRequest(r) ==
    IF heldText = 0 \/ Direct(-heldText)
    THEN pasted' = [pasted EXCEPT ![r] = [state |-> "done", got |-> Whole(heldText)]] /\ UNCHANGED serving
    ELSE IF Cardinality(serving) < MaxServed
    THEN /\ serving' = serving \cup {[reader |-> r, text |-> heldText, sent |-> 0]}
         /\ pasted' = [pasted EXCEPT ![r].state = "piece"]
    ELSE pasted' = [pasted EXCEPT ![r].state = "refused"] /\ UNCHANGED serving
\* The reader deleted the property: the next piece of the text the transfer
\* began with, and the empty one at the end.
TransferText(t) == t.text
ServePiece(r) ==
    \/ /\ \A t \in serving : t.reader # r
       /\ UNCHANGED serveVars
    \/ \E t \in serving :
         /\ t.reader = r
         /\ IF t.sent < Pieces
            THEN /\ serving' = (serving \ {t}) \cup {[t EXCEPT !.sent = t.sent + 1]}
                 /\ pasted' = [pasted EXCEPT ![r] = [state |-> "piece", got |-> Append(pasted[r].got, <<TransferText(t), t.sent + 1>>)]]
            ELSE /\ serving' = serving \ {t}
                 /\ pasted' = [pasted EXCEPT ![r].state = "done"]

Event ==
    /\ xEvents # <<>> /\ publishing \in {"no", "marking"}
    /\ xEvents' = Tail(xEvents)
    /\ LET e == Head(xEvents) IN
         \/ /\ e.kind = "owner" /\ OwnerChanged(e.who)
            /\ UNCHANGED <<gaveUp, property, publishing, marked, heldText, serveVars>>
         \/ /\ e.kind = "notify"
            /\ IF reading.win = e.who THEN ReadWhole(e.who) ELSE UNCHANGED <<reading, found, windows, property>>
            /\ UNCHANGED <<gaveUp, nextWin, answers, lastOwner, publishing, marked, heldText, serveVars>>
         \/ /\ e.kind = "refused"
            /\ IF reading.win = e.who THEN Cancelled ELSE UNCHANGED <<reading, windows>>
            /\ UNCHANGED <<found, gaveUp, nextWin, property, answers, lastOwner, publishing, marked, heldText, serveVars>>
         \/ /\ e.kind = "new"
            /\ IF reading.win = e.who /\ reading.incr THEN ReadPiece(e.who) ELSE UNCHANGED <<reading, found, windows, property>>
            /\ UNCHANGED <<gaveUp, nextWin, answers, lastOwner, publishing, marked, heldText, serveVars>>
         \/ /\ e.kind = "marker"
            /\ IF publishing = "marking" THEN publishing' = "timed" /\ marked' = e.who
               ELSE UNCHANGED <<publishing, marked>>
            /\ UNCHANGED <<readVars, property, answers, lastOwner, heldText, serveVars>>
         \/ /\ e.kind = "clear" /\ heldText' = 0 /\ lastOwner' = 0
            /\ UNCHANGED <<readVars, property, answers, publishing, marked, serveVars>>
         \/ /\ e.kind = "request" /\ ServeRequest(e.who)
            /\ UNCHANGED <<readVars, property, answers, lastOwner, publishing, marked, heldText>>
         \/ /\ e.kind = "deleted" /\ ServePiece(e.who)
            /\ UNCHANGED <<readVars, property, answers, lastOwner, publishing, marked, heldText>>
    /\ UNCHANGED <<xfixes, owner, copies, texts, reported>>

\* Without XFIXES the owner is polled.
Poll ==
    /\ ~xfixes /\ publishing = "no" /\ owner # lastOwner
    /\ OwnerChanged(owner)
    /\ UNCHANGED <<gaveUp, xfixes, owner, copies, xEvents, property, publishVars, reported, serveVars>>

\* A read of two seconds, and a transfer of five, is given up.
ReadTimesOut ==
    /\ publishing = "no" /\ reading # NoRead
    /\ Cancelled /\ gaveUp' = reading.text
    /\ UNCHANGED <<xfixes, owner, copies, xEvents, property, answers, publishVars, lastOwner, found, nextWin, reported, serveVars>>
TransferTimesOut ==
    /\ publishing = "no"
    /\ \E t \in serving : serving' = serving \ {t}
    /\ UNCHANGED <<xfixes, owner, copies, xEvents, property, answers, publishVars, lastOwner, readVars, reported, pasted>>

\* The worker hands the text it read to the session; a newer one replaces it.
Report ==
    /\ publishing = "no" /\ found # <<>>
    /\ reported' = found[1][1] /\ found' = <<>>
    /\ UNCHANGED <<xfixes, owner, copies, xEvents, property, answers, publishVars, lastOwner, reading, gaveUp, windows, nextWin, serveVars>>

Work ==
    \/ PublishOwns \/ Event \/ Poll \/ Report
    \/ \E a \in answers : Answer(a) \/ WritePiece(a)
    \/ \E r \in Readers : TakePiece(r)
ClipNext ==
    \/ Work \/ Copy \/ PublishStarts \/ PublishTimesOut \/ ReadTimesOut \/ TransferTimesOut
    \/ \E r \in Readers : Paste(r)

\* The worker, the server and the programs keep running; time-outs, copies
\* and pastes are never owed.
ClipFairness == WF_clipVars(Work)
ClipSpec == ClipInit /\ [][ClipNext]_clipVars /\ ClipFairness

\* A text the worker reports, and a text it serves, is one whole text: pieces
\* of two copies, or of two published texts, never mix, however ownership
\* changes while they travel (owner_changed's fresh window, Transfer.bytes).
WholeTexts ==
    /\ found # <<>> => \E k \in 1..copies : found = Whole(k)
    /\ \A r \in Readers : pasted[r].state = "done" => \E p \in 1..texts : pasted[r].got = Whole(-p)

\* One requestor window at a time.
OneWindow == Cardinality(windows) <= 1

-----------------------------------------------------------------------------
(***************************************************************************)
(* Text from the controlled computers to the viewer's pasteboard and from  *)
(* one of them to another.  Every session has a window of its own; all     *)
(* share one native pasteboard and one CopyFence, whose epoch advances     *)
(* with every copy the user makes and with every text a window requests.   *)
(*                                                                         *)
(* Remote text t > 0 is the t-th text copied on any of the computers, a    *)
(* local text is negative.  A text is offered, requested and then sent in  *)
(* the pieces 1..CopyPieces.                                                   *)
(***************************************************************************)

CONSTANTS
    Panes,       \* windows, one session each
    CopyPieces,      \* chunks of a text
    CopyMaxTexts,    \* bound: texts copied on the controlled computers
    MaxGestures, \* bound: what the user does
    MaxTrouble   \* bound: texts copied by other local programs, sessions that reconnect

VARIABLES
    pane,       \* pane -> render/clipboard.rs Clipboard
    handoff,    \* pane -> Deck.clipboard_owner is set
    fence,      \* CopyFence: [epoch, status]
    native,     \* the pasteboard: [gen, text]
    focus,      \* the pane with the focus
    paste,      \* Screens.pending_paste
    offer,      \* pane -> ReverseSender.offer, 0 when there is none
    outgoing,   \* pane -> ReverseSender.outgoing: [text, next]
    events,     \* pane -> events on the way to the viewer
    requests,   \* pane -> requests on the way to the computer
    session,    \* pane -> session_epoch
    source,     \* text -> the pane it was copied in
    locals,
    gestures,
    handler,    \* where clipboard_work or check_paste stands: [at, pane, text, claim, asked, raced]
    raced,      \* epochs whose text another program replaced before it was told (history)
    heard,      \* pane -> the last text the viewer was offered
    claims,     \* epoch -> [pane, after]: who claimed it, for a text after which
    copyPasted  \* deferred pastes that were sent: [text, epoch, raced]

remoteVars == <<offer, outgoing, events, requests, source, heard>>
userVars == <<focus, paste, gestures, copyPasted>>
copyVars ==
    <<pane, handoff, fence, native, session, locals, handler, raced, claims, remoteVars, userVars>>

None == -1
NoPaste == [dest |-> "none", session |-> 0, epoch |-> 0, gen |-> 0]
NoStatus == [epoch |-> 0, pending |-> FALSE, gen |-> None]
Idle == [text |-> 0, next |-> 1]
Resting == [at |-> "rest", pane |-> "none", text |-> 0, claim |-> 0, asked |-> None, raced |-> FALSE]
Blank(f) ==
    [focused |-> f, offered |-> 0, requested |-> 0, got |-> 0, complete |-> 0, gen |-> None,
     authorized |-> FALSE, intent |-> None, late |-> FALSE, claim |-> 0]
Texts == Len(source)
Restarts == Max({session[p] : p \in Panes})
Trouble == locals + Restarts < MaxTrouble

CopyInit ==
    /\ \E p \in Panes : focus = p /\ pane = [q \in Panes |-> Blank(q = p)]
    /\ handoff = [p \in Panes |-> FALSE]
    /\ fence = [epoch |-> 0, status |-> NoStatus]
    /\ native = [gen |-> 0, text |-> 0]
    /\ paste = NoPaste /\ copyPasted = {}
    /\ offer = [p \in Panes |-> 0] /\ outgoing = [p \in Panes |-> Idle]
    /\ events = [p \in Panes |-> <<>>] /\ requests = [p \in Panes |-> <<>>]
    /\ session = [p \in Panes |-> 0] /\ source = <<>>
    /\ heard = [p \in Panes |-> 0]
    /\ locals = 0 /\ gestures = 0 /\ claims = <<>>
    /\ handler = Resting /\ raced = {}

(***************************************************************************)
(* Clipboard and CopyFence, as functions of a state [c, f, n, cl]: the     *)
(* pane's clipboard, the fence, the pasteboard and the claims.             *)
(***************************************************************************)
\* CopyFence::set: only the newest claim may change the status.
Set(f, claim, pending, gen) ==
    IF claim # 0 /\ claim = f.epoch
    THEN [f EXCEPT !.status = [epoch |-> claim, pending |-> pending, gen |-> gen]]
    ELSE f

Current(s) == s.c.claim \in {0, s.f.epoch}
CopyPending(s) == Current(s) /\ s.c.intent # None /\ ~s.c.late

Claim(s, p, t) ==
    LET e == s.f.epoch + 1
    IN  [s EXCEPT !.c.claim = e,
                  !.f = Set([@ EXCEPT !.epoch = e], e, TRUE, None),
                  !.cl = Append(@, [pane |-> p, after |-> t])]

\* publication_failed
Failed(s) == [s EXCEPT !.f = Set(@, s.c.claim, FALSE, None)]

Reset(s) == [Failed(s) EXCEPT !.c = Blank(@.focused)]

SetFocus(s, f) ==
    [s EXCEPT !.c.focused = f,
              !.c.offered = IF ~f /\ ~CopyPending(s) THEN 0 ELSE @]

NeedsWork(s) ==
    \/ s.c.complete # 0
    \/ (s.c.focused \/ CopyPending(s)) /\ s.c.offered # 0 /\ (s.c.requested = 0 \/ s.c.late)

\* handoff_pending: whether the pane still owes a text, and what it becomes.
StillPending(s) ==
    /\ Current(s)
    /\ IF s.c.intent # None THEN s.c.intent = s.n.gen /\ ~s.c.late
       ELSE /\ s.c.authorized /\ s.c.gen = s.n.gen
            /\ s.c.complete # 0 \/ (s.c.requested # 0 /\ ~s.c.late)
Settled(s) ==
    IF StillPending(s) \/ (Current(s) /\ s.c.intent = None /\ ~s.c.authorized) THEN s ELSE Reset(s)

\* publish as a bug would write it: it does not look at the pasteboard's owner.
PublishOver(s) == s.c.complete # 0 /\ s.c.authorized /\ Current(s) /\ s.c.intent = None

\* publish: the text may go to the pasteboard unless someone else took it since
\* the request, or the user copied again.
Publish(s) ==
    s.c.complete # 0 /\ s.c.authorized /\ Current(s) /\ s.c.gen = s.n.gen /\ s.c.intent = None
Drained(s) ==
    IF s.c.complete = 0 THEN s
    ELSE [s EXCEPT !.c.complete = 0, !.c.authorized = FALSE, !.c.gen = None]

\* request: at most one text is on its way.
Request(s, p) ==
    LET t == IF s.c.late /\ s.c.requested # 0
             THEN [s EXCEPT !.c.requested = 0, !.c.got = 0, !.c.late = FALSE] ELSE s
        u == IF t.c.intent = None THEN Claim(t, p, t.c.offered - 1) ELSE t
    IN  CASE ~Current(s) -> Reset(s)
          [] Current(s) /\ s.c.intent # None /\ (s.c.intent # s.n.gen \/ s.c.late) ->
               [Failed(s) EXCEPT !.c.intent = None, !.c.offered = 0]
          [] OTHER ->
               IF \/ ~t.c.focused /\ ~CopyPending(t)
                  \/ t.c.requested # 0 \/ t.c.complete # 0 \/ t.c.offered = 0
               THEN t
               ELSE [u EXCEPT !.c = [@ EXCEPT !.offered = 0, !.intent = None, !.late = FALSE, !.got = 0,
                                              !.requested = t.c.offered, !.gen = t.n.gen,
                                              !.authorized = TRUE]]

\* published: the fence hears of the generation that is read after the write.
Told(s, text) == IF text # 0 THEN [s EXCEPT !.f = Set(@, s.c.claim, FALSE, s.n.gen)] ELSE s

(***************************************************************************)
(* The event loop                                                          *)
(***************************************************************************)
View(p) == [c |-> pane[p], f |-> fence, n |-> native, cl |-> claims]
Becomes(p, s) ==
    /\ pane' = [pane EXCEPT ![p] = s.c]
    /\ fence' = s.f /\ native' = s.n /\ claims' = s.cl
    /\ requests' = [requests EXCEPT ![p] =
         IF s.c.requested # 0 /\ s.c.requested # pane[p].requested THEN Append(@, s.c.requested) ELSE @]

\* workspace_clipboard_work runs on the event loop's thread and reads the
\* pasteboard several times; other programs may copy between two of its steps.
\* The generation is read, and whether there is work is decided.
ClipboardWork(p) ==
    /\ handler = Resting
    /\ \E s \in {SetFocus(View(p), focus = p)} :
       \E working \in {NeedsWork(s) /\ (handoff[p] => StillPending(s))} :
         /\ Becomes(p, IF handoff[p] /\ ~working THEN Settled(s) ELSE s)
         /\ handler' = IF working THEN [Resting EXCEPT !.at = "publish", !.pane = p] ELSE handler
         /\ handoff' = [handoff EXCEPT ![p] = @ /\ StillPending(s)]
    /\ UNCHANGED <<session, offer, outgoing, events, source, heard, userVars, raced, locals>>

\* SessionView::clipboard_work: the generation is read again for publish.
Decides ==
    LET p == handler.pane
        s == View(p)
    IN  /\ handler.at = "publish"
        /\ IF NeedsWork(s)
           THEN /\ Becomes(p, Drained(s))
                /\ handler' = [handler EXCEPT !.at = IF Publish(s) THEN "write" ELSE "request",
                     !.text = IF Publish(s) THEN s.c.complete ELSE 0,
                     !.claim = s.c.claim, !.asked = s.c.gen]
           ELSE /\ handler' = IF handoff[p] THEN Resting ELSE [handler EXCEPT !.at = "settle"]
                /\ UNCHANGED <<pane, fence, native, claims, requests>>
        /\ UNCHANGED <<handoff, session, locals, raced, offer, outgoing, events, source, heard, userVars>>

\* publish_text, which the platform may refuse.
Writes ==
    /\ handler.at = "write"
    /\ \/ /\ native' = [gen |-> native.gen + 1, text |-> handler.text]
          /\ handler' = [handler EXCEPT !.at = "request", !.raced = FALSE]
          /\ UNCHANGED fence
       \/ /\ fence' = Failed(View(handler.pane)).f
          /\ handler' = [handler EXCEPT !.at = "request", !.text = 0]
          /\ UNCHANGED native
    /\ UNCHANGED <<pane, handoff, session, locals, raced, claims, remoteVars, userVars>>

\* The generation is read once more, for published and for request; the platform
\* may fail to tell it.
Requests ==
    LET p == handler.pane
        s == View(p)
    IN  /\ handler.at = "request"
        /\ \/ /\ Becomes(p, Request(Told(s, handler.text), p))
              /\ raced' = IF handler.text # 0 /\ handler.raced THEN raced \cup {s.c.claim} ELSE raced
           \/ Becomes(p, Failed(s)) /\ UNCHANGED raced
        /\ handler' = IF handoff[p] THEN Resting ELSE [handler EXCEPT !.at = "settle"]
        /\ handoff' = [handoff EXCEPT ![p] = @ /\ handler.text = 0]
        /\ UNCHANGED <<session, locals, offer, outgoing, events, source, heard, userVars>>

\* A window that began a request on its own takes the handoff.
TakesHandoff ==
    LET p == handler.pane
    IN  /\ handler.at = "settle"
        /\ Becomes(p, Settled(View(p)))
        /\ handoff' = [handoff EXCEPT ![p] = StillPending(View(p))]
        /\ handler' = Resting
        /\ UNCHANGED <<session, locals, raced, offer, outgoing, events, source, heard, userVars>>

\* The copy handoff and the request each have a deadline.
TooLate(p) ==
    /\ pane[p].intent # None \/ pane[p].requested # 0
    /\ ~pane[p].late
    /\ pane' = [pane EXCEPT ![p].late = TRUE]
    /\ UNCHANGED <<handoff, fence, native, session, locals, handler, raced, claims, remoteVars, userVars>>

\* An offer is kept only by a window that has the focus or copies.
Offered(s, t) == IF s.c.focused \/ CopyPending(s) THEN [s EXCEPT !.c.offered = t] ELSE s

\* Assembly::push takes the pieces in order, and none after a long pause.
Assembled(s, e, idle) ==
    IF e.piece # s.c.got + 1 \/ (e.piece > 1 /\ idle) THEN Reset(s)
    ELSE IF e.piece < CopyPieces THEN [s EXCEPT !.c.got = e.piece]
    ELSE [s EXCEPT !.c.complete = e.text, !.c.requested = 0, !.c.got = 0]

\* A chunk counts only for the text that was requested.
Chunk(s, e, idle) ==
    IF (~s.c.focused /\ ~s.c.authorized) \/ s.c.requested # e.text \/ s.c.late THEN s
    ELSE Assembled(s, e, idle)

\* The computer could not serve the request.
Refused(s, t) ==
    IF s.c.requested # t THEN s
    ELSE [s EXCEPT !.f = Set(@, s.c.claim, FALSE, None), !.c.requested = 0, !.c.got = 0,
                   !.c.gen = None, !.c.authorized = FALSE]

\* clipboard_event: an offer, a chunk or an error of the session.
EventArrives(p) ==
    LET e == Head(events[p])
        s == View(p)
    IN  /\ events[p] # <<>>
        /\ events' = [events EXCEPT ![p] = Tail(@)]
        /\ heard' = IF e.kind = "offer" THEN [heard EXCEPT ![p] = e.text] ELSE heard
        /\ \E idle \in BOOLEAN :
           \E d \in {CASE e.kind = "offer" -> Offered(s, e.text)
                       [] e.kind = "chunk" -> Chunk(s, e, idle)
                       [] e.kind = "error" -> Refused(s, e.text)} :
             pane' = [pane EXCEPT ![p] = d.c] /\ fence' = d.f
        /\ UNCHANGED <<handoff, native, session, locals, handler, raced, claims, offer, outgoing, requests, source, userVars>>

(***************************************************************************)
(* The user, other programs and the sessions                               *)
(***************************************************************************)
Gesture == gestures < MaxGestures /\ gestures' = gestures + 1

\* Copy in the focused window: workspace_copying.
UserCopy ==
    LET p == focus
        s == Claim(View(p), p, heard[p])
    IN  /\ handler = Resting /\ Gesture /\ pane[p].focused
        /\ Becomes(p, [s EXCEPT !.c.offered = 0, !.c.intent = native.gen, !.c.late = FALSE])
        /\ handoff' = [handoff EXCEPT ![p] = TRUE]
        /\ paste' = NoPaste
        /\ UNCHANGED <<session, locals, handler, raced, offer, outgoing, events, source, heard, focus, copyPasted>>

\* Paste in the focused window.  While a copy is pending it waits for the text.
UserPaste ==
    /\ handler = Resting /\ Gesture
    /\ paste' = IF fence.status.pending
                THEN [dest |-> focus, session |-> session[focus], epoch |-> fence.status.epoch, gen |-> native.gen]
                ELSE NoPaste
    /\ UNCHANGED <<pane, handoff, fence, native, session, locals, handler, raced, claims, remoteVars, focus, copyPasted>>

FocusMoves(p) ==
    /\ handler = Resting /\ Gesture /\ p # focus
    /\ focus' = p /\ paste' = NoPaste
    /\ pane' = [q \in Panes |-> IF q \in {p, focus} THEN SetFocus(View(q), q = p).c ELSE pane[q]]
    /\ UNCHANGED <<handoff, fence, native, session, locals, handler, raced, claims, remoteVars, copyPasted>>

\* check_paste: the source, the destination and the pasteboard must be the ones
\* of the gesture.  The text is read after the generation.
CheckPaste ==
    LET copy == fence.status
        valid == session[paste.dest] = paste.session /\ copy.epoch = paste.epoch
    IN  /\ handler = Resting /\ paste # NoPaste
        /\ ~(valid /\ copy.pending /\ native.gen = paste.gen)
        /\ IF valid /\ copy.gen # None /\ copy.gen = native.gen
           THEN handler' = [Resting EXCEPT !.at = "paste"] /\ UNCHANGED paste
           ELSE paste' = NoPaste /\ UNCHANGED handler
        /\ UNCHANGED <<pane, handoff, fence, native, session, locals, raced, claims, remoteVars, focus, gestures, copyPasted>>

\* paste_text: the pasteboard may have no text, or refuse it.
PasteText ==
    /\ handler.at = "paste"
    /\ paste' = NoPaste /\ handler' = Resting
    /\ \/ copyPasted' = copyPasted \cup {[text |-> native.text, epoch |-> paste.epoch,
                                           raced |-> handler.raced \/ paste.epoch \in raced]}
       \/ UNCHANGED copyPasted
    /\ UNCHANGED <<pane, handoff, fence, native, session, locals, raced, claims, remoteVars, focus, gestures>>

PasteTimesOut ==
    /\ handler = Resting /\ paste # NoPaste
    /\ paste' = NoPaste
    /\ UNCHANGED <<pane, handoff, fence, native, session, locals, handler, raced, claims, remoteVars, focus, gestures, copyPasted>>

LocalCopy ==
    /\ Trouble
    /\ locals' = locals + 1
    /\ native' = [gen |-> native.gen + 1, text |-> -(locals + 1)]
    /\ handler' = [handler EXCEPT !.raced = @ \/ handler.at \in {"write", "request", "paste"}]
    /\ UNCHANGED <<pane, handoff, fence, session, raced, claims, remoteVars, userVars>>

\* The session reconnects: begin_session resets the window's clipboard.
Restart(p) ==
    /\ Trouble
    /\ session' = [session EXCEPT ![p] = Restarts + 1]
    /\ pane' = [pane EXCEPT ![p] = Reset(View(p)).c] /\ fence' = Reset(View(p)).f
    /\ offer' = [offer EXCEPT ![p] = 0] /\ outgoing' = [outgoing EXCEPT ![p] = Idle]
    /\ events' = [events EXCEPT ![p] = <<>>] /\ requests' = [requests EXCEPT ![p] = <<>>]
    /\ UNCHANGED <<handoff, native, locals, handler, raced, claims, source, heard, userVars>>

(***************************************************************************)
(* The controlled computer: ReverseSender in the session's control loop    *)
(***************************************************************************)
CopyEv(kind, t, n) == [kind |-> kind, text |-> t, piece |-> n]

RemoteCopy(p) ==
    /\ Texts < CopyMaxTexts
    /\ source' = Append(source, p)
    /\ offer' = [offer EXCEPT ![p] = Texts + 1]
    /\ events' = [events EXCEPT ![p] = Append(@, CopyEv("offer", Texts + 1, 0))]
    /\ UNCHANGED <<pane, handoff, fence, native, session, locals, handler, raced, claims, outgoing, requests, heard, userVars>>

CopyServeRequest(p) ==
    LET t == Head(requests[p])
        ok == offer[p] = t /\ outgoing[p] = Idle
    IN  /\ requests[p] # <<>>
        /\ requests' = [requests EXCEPT ![p] = Tail(@)]
        /\ offer' = IF ok THEN [offer EXCEPT ![p] = 0] ELSE offer
        /\ outgoing' = IF ok THEN [outgoing EXCEPT ![p] = [text |-> t, next |-> 1]] ELSE outgoing
        /\ events' = IF ok THEN events ELSE [events EXCEPT ![p] = Append(@, CopyEv("error", t, 0))]
        /\ UNCHANGED <<pane, handoff, fence, native, session, locals, handler, raced, claims, source, heard, userVars>>

NextChunk(p) ==
    LET o == outgoing[p]
    IN  /\ o # Idle
        /\ events' = [events EXCEPT ![p] = Append(@, CopyEv("chunk", o.text, o.next))]
        /\ outgoing' = [outgoing EXCEPT ![p] = IF o.next = CopyPieces THEN Idle ELSE [@ EXCEPT !.next = @ + 1]]
        /\ UNCHANGED <<pane, handoff, fence, native, session, locals, handler, raced, claims, offer, requests, source, heard, userVars>>

\* The event loop, woken at least by the diagnostic tick, both ends of the
\* session and the deadlines.
Steady ==
    \/ \E p \in Panes : ClipboardWork(p) \/ EventArrives(p) \/ CopyServeRequest(p) \/ NextChunk(p)
    \/ Decides \/ Writes \/ Requests \/ TakesHandoff \/ CheckPaste \/ PasteText

CopyNext ==
    \/ Steady
    \/ UserCopy \/ UserPaste \/ \E p \in Panes : FocusMoves(p)
    \/ PasteTimesOut \/ LocalCopy
    \/ \E p \in Panes : TooLate(p) \/ Restart(p) \/ RemoteCopy(p)

CopyFairness ==
    /\ WF_copyVars(Decides \/ Writes \/ Requests \/ TakesHandoff \/ PasteText)
    /\ WF_copyVars(CheckPaste) /\ WF_copyVars(PasteTimesOut)
    /\ \A p \in Panes :
         WF_copyVars(ClipboardWork(p)) /\ WF_copyVars(EventArrives(p) \/ CopyServeRequest(p) \/ NextChunk(p))
         /\ WF_copyVars(TooLate(p))

CopySpec == CopyInit /\ [][CopyNext]_copyVars /\ CopyFairness

(***************************************************************************)
(* Properties                                                              *)
(***************************************************************************)
\* A deferred paste sends the text of the copy it waited for: one that the window
\* copied from was offered after the gesture, whatever other windows and sessions
\* did meanwhile.  Only a text that another program copies after the write and
\* before the fence is told of its generation, or after check_paste has compared
\* the generations, is taken for it (check_paste, CopyFence).
PasteIsTheCopy ==
    \A q \in copyPasted :
        \/ q.text > 0 /\ source[q.text] = claims[q.epoch].pane /\ q.text > claims[q.epoch].after
        \/ q.text < 0 /\ q.raced

\* A remote text reaches the pasteboard only for the newest claim, and over the
\* text that was there when it was requested: never over a copy the user made
\* since, and over another program's only when that came between the decision
\* and the write (Clipboard::publish).
NewestWins ==
    [][(native' # native /\ native'.text > 0) =>
          /\ source[native'.text] = claims[fence.epoch].pane
          /\ handler.claim = fence.epoch
          /\ handler.asked = native.gen \/ handler.raced]_copyVars

\* "Native ownership changes supersede both" (render/clipboard.rs 107): a copy made
\* between the decision and the write is overwritten.
NoCopyOverwritten ==
    [][(native' # native /\ native'.text > 0) => handler.asked = native.gen]_copyVars

\* "Publication changes native ownership; observe it before the next request"
\* (render/viewer.rs 787): what is observed may be another program's copy, which
\* the deferred paste then sends.
PasteNeverForeign == \A q \in copyPasted : q.text > 0

=============================================================================
