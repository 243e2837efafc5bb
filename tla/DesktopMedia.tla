---------------------------- MODULE DesktopMedia ------------------------------
(***************************************************************************)
(* The word a desktop session keeps about repairing its picture: an epoch  *)
(* ("generation"), whether that epoch still owes its independent picture   *)
(* (ACTIVE) and whether a key frame of it is on its way (KEY_PENDING).     *)
(* The three change in one atomic update.                                  *)
(***************************************************************************)
EXTENDS Naturals, Integers, Sequences, FiniteSets, FiniteSetsExt

NewRepair == [gen |-> 0, active |-> FALSE, keyPending |-> FALSE]

\* request: a new epoch, unless the current one is still owed its picture.
RequestRepair(r) ==
    IF r.active THEN r
    ELSE [gen |-> r.gen + 1, active |-> TRUE, keyPending |-> FALSE]

\* key: the gate for one key frame of epoch g.
MayInstallKey(r, g) == r.gen = g /\ ~r.keyPending
InstallKey(r) == [r EXCEPT !.keyPending = TRUE]

\* release_key, called by the permit of a key frame of epoch g when it goes.
ReleaseKey(r, g, confirmed) ==
    IF r.gen # g THEN r
    ELSE [r EXCEPT !.keyPending = FALSE, !.active = @ /\ ~confirmed]

-----------------------------------------------------------------------------
(***************************************************************************)
(* The serving side of a desktop session's video: the capture thread, the  *)
(* writer that sends each frame on a stream of its own, and the tasks that *)
(* wait for the receipt of a frame.                                        *)
(*                                                                         *)
(* A frame is [seq, key, ref, gen, empty]; ref is the sequence number of   *)
(* the picture the encoder predicted it from (NoSeq: none that was sent).  *)
(* Every admitted frame holds a capture permit until it is dropped or its  *)
(* receipt is settled, and a key frame holds the repair gate as well.      *)
(***************************************************************************)

CONSTANTS
    MaxSeq,     \* bound: the frames of a changing screen in a run
    Refreshes,  \* bound: the frames of a screen at rest that follow
    MaxGen,     \* bound: the repair epochs of a run
    MaxPending, \* MAX_PENDING_FRAME_ACKS
    QueueCap    \* the two slots between capture and writer

VARIABLES
    mode,       \* what proves a frame received: "payload" or "transport"
    capture,    \* "idle", "encoding", "encoded" or "done"
    taken,      \* the epoch the capture thread read before encoding
    seenGen,    \* the epoch of the previous picture
    encoded,    \* what the encoder returned
    encRef,     \* the picture the encoder predicts from
    wantIdr,    \* the encoder owes a key frame
    seq,        \* the sequence number of the next frame
    idr,        \* ProducerControls.idr
    repair,     \* the word above
    latestKey,  \* the last key frame that was queued
    admission,  \* capture permits in use
    queue,      \* frames between capture and writer
    writer,     \* "loop", "pacing", "sending" or "ended"
    hand,       \* the frame the writer is pacing or sending
    pending,    \* the frame that superseded the last one
    chain,      \* FrameChain of the writer
    writerGen,  \* the epoch the writer works for
    acks,       \* receipt tasks: [frame, result]
    streams,    \* sequence number -> the frame's stream
    faults,     \* bound: failures still to come
    proofs,     \* payload receipts on their way from the viewer
    requests    \* RequestIdr messages on their way from the viewer

NoSeq == -1
LastSeq == MaxSeq + Refreshes
NoFrame == [seq |-> NoSeq, key |-> FALSE, ref |-> NoSeq, gen |-> 0, empty |-> TRUE]
NoChain == [next |-> NoSeq, lastKey |-> NoSeq]
NoStream == [state |-> "none", frame |-> NoFrame, accepted |-> FALSE]

captureVars == <<capture, taken, seenGen, encoded, encRef, wantIdr, seq>>
writerVars == <<writer, hand, pending, chain, writerGen>>
senderVars ==
    <<mode, captureVars, idr, repair, latestKey, admission, queue, writerVars, acks, streams>>

Waiting == {a \in acks : a.result = "wait"}

SenderInit ==
    /\ mode \in {"payload", "transport"}
    /\ capture = "idle" /\ taken = 0 /\ seenGen = 0
    /\ encoded = NoFrame /\ encRef = NoSeq /\ wantIdr = FALSE
    /\ seq = 0 /\ idr = TRUE
    /\ repair = NewRepair
    /\ latestKey = NoSeq /\ admission = 0 /\ queue = <<>>
    /\ writer = "loop" /\ hand = NoFrame /\ pending = NoFrame
    /\ chain = NoChain /\ writerGen = 0
    /\ acks = {}
    /\ streams = [s \in 0..LastSeq |-> NoStream]

\* request_frame_repair: a newer key frame already repairs the failure.
AsksKey(s) == latestKey <= s

\* Dropping the frames fs: their permits return, the gate of a key frame of
\* the current epoch opens, and the encoder is to replace it.
Dropped(fs) ==
    /\ admission' = admission - Cardinality(fs)
    /\ LET live == {f \in fs : f.key /\ f.gen = repair.gen}
       IN  /\ repair' = IF live = {} THEN repair ELSE ReleaseKey(repair, repair.gen, FALSE)
           /\ idr' = (idr \/ live # {})

(***************************************************************************)
(* The capture thread                                                      *)
(***************************************************************************)
\* It waits for a queue slot, for the key frame on its way and for a permit,
\* and reads the epoch; a new epoch asks for a key frame.
CaptureAdmit(limit) ==
    /\ capture = "idle" /\ writer # "ended" /\ seq <= limit
    /\ Len(queue) < QueueCap /\ ~repair.keyPending
    /\ admission < MaxPending
    /\ admission' = admission + 1
    /\ taken' = repair.gen /\ seenGen' = repair.gen
    /\ idr' = (idr \/ seenGen # repair.gen)
    /\ capture' = "encoding"
    /\ UNCHANGED <<mode, encoded, encRef, wantIdr, seq, repair, latestKey, queue, writerVars, acks, streams>>

\* The encoder takes the request for a key frame and keeps it until it emits
\* one; it may also emit one on its own.
Encode ==
    /\ capture = "encoding"
    /\ idr' = FALSE
    /\ \E key \in {wantIdr \/ idr, TRUE} :
         /\ encoded' = [seq |-> seq, key |-> key, ref |-> IF key THEN NoSeq ELSE encRef,
                        gen |-> taken, empty |-> FALSE]
         /\ encRef' = seq
         /\ wantIdr' = ((wantIdr \/ idr) /\ ~key)
    /\ capture' = "encoded"
    /\ UNCHANGED <<mode, taken, seenGen, seq, repair, latestKey, admission, queue, writerVars, acks, streams>>

\* An encoding error: an empty payload, and a reference nobody received.
EncodeFails ==
    /\ capture = "encoding" /\ faults > 0
    /\ idr' = FALSE /\ wantIdr' = (wantIdr \/ idr)
    /\ encoded' = [NoFrame EXCEPT !.seq = seq, !.gen = taken]
    /\ encRef' = NoSeq
    /\ capture' = "encoded"
    /\ UNCHANGED <<mode, taken, seenGen, seq, repair, latestKey, admission, queue, writerVars, acks, streams>>

\* Rate control skips the picture: the reference stands, the request for a key
\* frame too, and no number is used.
CodecSkips ==
    /\ capture = "encoding"
    /\ idr' = FALSE /\ wantIdr' = (wantIdr \/ idr)
    /\ admission' = admission - 1
    /\ capture' = "idle"
    /\ UNCHANGED <<mode, taken, seenGen, encoded, encRef, seq, repair, latestKey, queue, writerVars, acks, streams>>

\* A repair that raced the encoder discards the picture, and its number is
\* used again.
DiscardEncoded ==
    /\ capture = "encoded" /\ writer # "ended"
    /\ repair.gen # taken \/ (encoded.key /\ ~MayInstallKey(repair, taken))
    /\ admission' = admission - 1
    /\ capture' = "idle" /\ encoded' = NoFrame
    /\ UNCHANGED <<mode, taken, seenGen, encRef, wantIdr, seq, idr, repair, latestKey, queue, writerVars, acks, streams>>

HandOver ==
    /\ capture = "encoded" /\ writer # "ended"
    /\ repair.gen = taken
    /\ encoded.key => MayInstallKey(repair, taken)
    /\ repair' = IF encoded.key THEN InstallKey(repair) ELSE repair
    /\ latestKey' = IF encoded.key THEN seq ELSE latestKey
    /\ queue' = Append(queue, encoded)
    /\ seq' = seq + 1
    /\ capture' = "idle" /\ encoded' = NoFrame
    /\ UNCHANGED <<mode, taken, seenGen, encRef, wantIdr, idr, admission, writerVars, acks, streams>>

\* The receiving end of the queue is gone.
CaptureEnds ==
    /\ writer = "ended" /\ capture # "done"
    /\ capture' = "done" /\ encoded' = NoFrame
    /\ admission' = IF capture = "idle" THEN admission ELSE admission - 1
    /\ UNCHANGED <<mode, taken, seenGen, encRef, wantIdr, seq, idr, repair, latestKey, queue, writerVars, acks, streams>>

(***************************************************************************)
(* The writer                                                              *)
(***************************************************************************)
ResetOf(fs) ==
    [s \in DOMAIN streams |->
        IF \E f \in fs : f.seq = s /\ streams[s].state \in {"open", "fin"}
        THEN [streams[s] EXCEPT !.state = "reset"] ELSE streams[s]]

Held == ({hand, pending} \cup {a.frame : a \in Waiting}) \ {NoFrame}

\* A new epoch: every receipt task is aborted, its stream reset, and the
\* frame kept from the old epoch dropped.
WriterNewEpoch ==
    /\ writer = "loop" /\ repair.gen # writerGen
    /\ LET old == {a.frame : a \in Waiting}
                    \cup {f \in {pending} : f # NoFrame /\ f.gen # repair.gen}
       IN  Dropped(old) /\ streams' = ResetOf(old)
    /\ pending' = IF pending.gen = repair.gen THEN pending ELSE NoFrame
    /\ acks' = {} /\ chain' = NoChain /\ writerGen' = repair.gen
    /\ UNCHANGED <<mode, captureVars, latestKey, queue, writer, hand>>

\* The repair signal wins over pacing and over an unfinished send.
WriterInterrupted ==
    /\ writer \in {"pacing", "sending"} /\ repair.gen # writerGen
    /\ Dropped({hand})
    /\ streams' = ResetOf({hand})
    /\ hand' = NoFrame /\ writer' = "loop"
    /\ UNCHANGED <<mode, captureVars, latestKey, queue, pending, chain, writerGen, acks>>

\* drain_frame_receipts: a failure breaks the chain, unless a later key frame
\* has restarted it.
Drained ==
    IF \E a \in acks : a.result = "failed" /\ chain.lastKey <= a.frame.seq
    THEN [chain EXCEPT !.next = NoSeq] ELSE chain

\* The next frame: the one that superseded the last, or one from the queue.
WriterTake ==
    /\ writer = "loop" /\ repair.gen = writerGen
    /\ Cardinality(Waiting) < MaxPending
    /\ pending # NoFrame \/ queue # <<>>
    /\ LET f == IF pending # NoFrame THEN pending ELSE Head(queue) IN
         /\ queue' = IF pending # NoFrame THEN queue ELSE Tail(queue)
         /\ pending' = NoFrame
         /\ acks' = Waiting
         /\ IF f.gen # writerGen
            THEN Dropped({f}) /\ chain' = Drained /\ UNCHANGED <<writer, hand>>
            ELSE IF f.empty
            THEN /\ admission' = admission - 1 /\ idr' = (idr \/ AsksKey(f.seq))
                 /\ chain' = [Drained EXCEPT !.next = NoSeq]
                 /\ UNCHANGED <<repair, writer, hand>>
            ELSE /\ hand' = f /\ writer' = "pacing" /\ chain' = Drained
                 /\ UNCHANGED <<admission, repair, idr>>
    /\ UNCHANGED <<mode, captureVars, latestKey, writerGen, streams>>

\* FrameChain::admit, after the pacing wait: a delta must follow the frame
\* that was sent last.
Admits(f) == f.key \/ chain.next = f.seq
WriterAdmit ==
    /\ writer = "pacing"
    /\ IF Admits(hand)
       THEN /\ chain' = [next |-> hand.seq + 1,
                         lastKey |-> IF hand.key THEN hand.seq ELSE chain.lastKey]
            /\ streams' = [streams EXCEPT ![hand.seq] = [NoStream EXCEPT !.state = "open", !.frame = hand]]
            /\ writer' = "sending"
            /\ UNCHANGED <<hand, admission, repair, idr>>
       ELSE /\ chain' = [chain EXCEPT !.next = NoSeq]
            /\ admission' = admission - 1
            /\ idr' = (idr \/ AsksKey(hand.seq))
            /\ hand' = NoFrame /\ writer' = "loop"
            /\ UNCHANGED <<repair, streams>>
    /\ UNCHANGED <<mode, captureVars, latestKey, queue, pending, writerGen, acks>>

\* The payload is written: the stream is finished and a receipt task owns the
\* frame.  A frame that arrived meanwhile waits behind it.
Finish(next) ==
    /\ streams' = [streams EXCEPT ![hand.seq].state = "fin"]
    /\ acks' = acks \cup {[frame |-> hand, result |-> "wait"]}
    /\ pending' = next /\ hand' = NoFrame /\ writer' = "loop"
WriterSends ==
    /\ writer = "sending" /\ streams[hand.seq].state = "open"
    /\ \/ Finish(NoFrame) /\ UNCHANGED queue
       \/ /\ queue # <<>> /\ (hand.key \/ ~Head(queue).key)
          /\ Finish(Head(queue)) /\ queue' = Tail(queue)
    /\ UNCHANGED <<mode, captureVars, idr, repair, latestKey, admission, chain, writerGen>>

\* A key frame arrives while a delta is being written: the delta is reset.
WriterAbandons ==
    /\ writer = "sending" /\ streams[hand.seq].state = "open"
    /\ queue # <<>> /\ ~hand.key /\ Head(queue).key
    /\ streams' = ResetOf({hand})
    /\ pending' = Head(queue) /\ queue' = Tail(queue)
    /\ Dropped({hand})
    /\ hand' = NoFrame /\ writer' = "loop"
    /\ UNCHANGED <<mode, captureVars, latestKey, chain, writerGen, acks>>

\* The viewer stopped the stream during the write as obsolete.
WriterObsolete ==
    /\ writer = "sending" /\ streams[hand.seq].state = "obsolete"
    /\ Dropped({hand})
    /\ hand' = NoFrame /\ writer' = "loop"
    /\ UNCHANGED <<mode, captureVars, latestKey, queue, pending, chain, writerGen, acks, streams>>

(***************************************************************************)
(* Receipts                                                                *)
(***************************************************************************)
\* The end of a receipt task.  A task of an older epoch reports "obsolete"
\* whatever happened; a failure asks for a key frame and resets the stream.
Settle(a, evidence) ==
    LET stale == repair.gen # a.frame.gen
        result == IF stale THEN "obsolete" ELSE evidence
        live == a.frame.key /\ ~stale
    IN  /\ acks' = (acks \ {a}) \cup {[a EXCEPT !.result = result]}
        /\ admission' = admission - 1
        /\ repair' = IF live THEN ReleaseKey(repair, a.frame.gen, result = "delivered") ELSE repair
        /\ idr' = (idr \/ (live /\ result # "delivered") \/ (result = "failed" /\ AsksKey(a.frame.seq)))
        /\ streams' = IF result = "failed" \/ stale THEN ResetOf({a.frame}) ELSE streams
        /\ UNCHANGED <<mode, captureVars, latestKey, queue, writerVars>>

\* A payload proof reaches the control loop (Receipts::confirm).
AckProof(a) ==
    \E p \in proofs :
        /\ p.seq = a.frame.seq
        /\ Settle(a, IF p.obsolete THEN "obsolete" ELSE "delivered")
\* The transport has acknowledged the whole stream: proof enough only without
\* payload receipts.
AckTransport(a) ==
    /\ mode = "transport" /\ streams[a.frame.seq].state \in {"fin", "read"}
    /\ Settle(a, "delivered")
AckStopped(a) ==
    /\ streams[a.frame.seq].state \in {"obsolete", "stopped"}
    /\ Settle(a, IF streams[a.frame.seq].state = "obsolete" THEN "obsolete" ELSE "failed")
AckTimeout(a) == faults > 0 /\ Settle(a, "failed")

(***************************************************************************)
(* Control and the end of the session                                      *)
(***************************************************************************)
\* RequestIdr: a new epoch, or none while the current one is being served.
ServeRequest ==
    /\ writer # "ended" /\ requests > 0
    /\ repair.active \/ repair.gen < MaxGen
    /\ repair' = RequestRepair(repair)
    /\ UNCHANGED <<mode, captureVars, idr, latestKey, admission, queue, writerVars, acks, streams>>

\* The session ends: with the viewer, or because the viewer stopped a stream
\* that was still being written.  The writer and the receipt tasks are
\* aborted, the queue is closed.
SessionEnds ==
    /\ writer # "ended"
    /\ Dropped({a.frame : a \in Waiting} \cup ({hand, pending} \ {NoFrame})
                 \cup {queue[i] : i \in DOMAIN queue})
    /\ queue' = <<>> /\ hand' = NoFrame /\ pending' = NoFrame /\ acks' = {}
    /\ streams' = ResetOf(Held)
    /\ writer' = "ended"
    /\ UNCHANGED <<mode, captureVars, latestKey, chain, writerGen>>

-----------------------------------------------------------------------------
(***************************************************************************)
(* The viewing side of a desktop session's video (receive_frames): readers *)
(* that each take one frame stream, the bounded reference order, the       *)
(* decoder's chain, and the requests for a key frame.  Streams complete in *)
(* any order.                                                              *)
(***************************************************************************)

CONSTANTS
    MaxReaders, \* MAX_FRAME_READERS
    MaxBlocked, \* the successors the order keeps for a missing reference
    MaxRequests \* bound: RequestIdr messages the control queue holds

VARIABLES
    readers,    \* streams being read
    order,      \* Ordered: the next number and the frames that wait
    nextSeq,    \* the lowest number still accepted
    waitKey,    \* Delivery.waiting_keyframe
    lastFed,    \* the last frame the decoder was given
    idrRecent,  \* less than IDR_MIN_INTERVAL_MS since the last request
    gapArmed    \* GapRepair: a request for the current gap is out

viewerVars == <<readers, order, nextSeq, waitKey, lastFed, idrRecent, gapArmed>>
NoOrder == [next |-> NoSeq, frames |-> {}]

ReceiverInit ==
    /\ proofs = {} /\ requests = 0
    /\ readers = {} /\ order = NoOrder /\ nextSeq = 0
    /\ waitKey = TRUE /\ lastFed = [seq |-> NoSeq, key |-> FALSE, ref |-> NoSeq]
    /\ idrRecent = FALSE /\ gapArmed = FALSE

Seqs(frames) == {f.seq : f \in frames}

\* Delivery::request_idr: rate limited, and dropped when the control queue is
\* full; "arms" says whether the gap repair remembers a request that went out.
RequestIdr(arms) ==
    IF ~idrRecent /\ requests < MaxRequests
    THEN requests' = requests + 1 /\ idrRecent' = TRUE /\ gapArmed' = arms
    ELSE UNCHANGED <<requests, idrRecent>> /\ gapArmed' = FALSE

(***************************************************************************)
(* Ordered                                                                 *)
(***************************************************************************)
\* A late frame is ignored; a key frame beyond the next number restarts the
\* order at itself; the frames furthest away are evicted.
Push(o, f) ==
    IF f.seq < o.next THEN o
    ELSE LET restart == f.key /\ f.seq > o.next
             next == IF restart THEN f.seq ELSE o.next
             frames == {g \in o.frames : restart => g.seq >= f.seq} \cup {f}
             limit == MaxBlocked + (IF next \in Seqs(frames) THEN 1 ELSE 0)
         IN  [next |-> next,
              frames |-> IF Cardinality(frames) <= limit THEN frames
                         ELSE {g \in frames : g.seq # Max(Seqs(frames))}]
CanPop == order.next \in Seqs(order.frames)

(***************************************************************************)
(* The receive loop.  It decodes everything in order before it does        *)
(* anything else.                                                          *)
(***************************************************************************)
\* A stream beyond the reader budget is refused, which stops it.
Accept(s) ==
    /\ ~CanPop /\ ~streams[s].accepted /\ streams[s].state # "none"
    /\ LET room == Cardinality(readers) + Cardinality(order.frames) < MaxReaders IN
         /\ readers' = IF room THEN readers \cup {s} ELSE readers
         /\ streams' = [streams EXCEPT ![s].accepted = TRUE,
                                       ![s].state = IF room \/ @ = "reset" THEN @ ELSE "stopped"]
    /\ UNCHANGED <<mode, proofs, requests, faults, order, nextSeq, waitKey, lastFed, idrRecent, gapArmed>>

\* A stream reset before its tag was read is never routed here.
ResetUnseen(s) ==
    /\ streams[s].state = "reset" /\ ~streams[s].accepted
    /\ streams' = [streams EXCEPT ![s].accepted = TRUE]
    /\ UNCHANGED <<mode, proofs, requests, faults, viewerVars>>

\* A header older than what was accepted: the stream is stopped as obsolete.
ReadStale(s) ==
    /\ ~CanPop /\ s \in readers /\ s < nextSeq
    /\ readers' = readers \ {s}
    /\ streams' = [streams EXCEPT ![s].state = IF @ = "reset" THEN @ ELSE "obsolete"]
    /\ UNCHANGED <<mode, proofs, requests, faults, order, nextSeq, waitKey, lastFed, idrRecent, gapArmed>>

\* The whole payload: its proof is sent before the frame is ordered.
ReadComplete(s) ==
    /\ ~CanPop /\ s \in readers /\ streams[s].state = "fin"
    /\ readers' = readers \ {s}
    /\ proofs' = IF mode = "payload" THEN proofs \cup {[seq |-> s, obsolete |-> s < nextSeq]} ELSE proofs
    /\ order' = Push(order, streams[s].frame)
    /\ streams' = [streams EXCEPT ![s].state = "read"]
    /\ UNCHANGED <<mode, requests, faults, nextSeq, waitKey, lastFed, idrRecent, gapArmed>>

\* The stream was reset, or the reader's deadline passed: a key frame is
\* requested, and the stream stopped.
ReadFails(s) ==
    /\ ~CanPop /\ s \in readers
    /\ readers' = readers \ {s}
    /\ \/ streams[s].state = "reset" /\ UNCHANGED <<streams, faults>>
       \/ /\ streams[s].state \in {"open", "fin"} /\ faults > 0
          /\ faults' = faults - 1
          /\ streams' = [streams EXCEPT ![s].state = "stopped"]
    /\ RequestIdr(FALSE)
    /\ UNCHANGED <<mode, proofs, order, nextSeq, waitKey, lastFed>>

\* The next frame of the order goes to the decoder.  After a gap only a key
\* frame is accepted; the decoder may also reject or outlast its deadline.
FeedsAfterFailure(f, broken) == TRUE
Feeds(f, broken) == f.key \/ ~broken
DecodeNext ==
    /\ CanPop
    /\ \E f \in order.frames :
         /\ f.seq = order.next
         /\ order' = [next |-> f.seq + 1, frames |-> order.frames \ {f}]
         /\ IF f.seq < nextSeq
            THEN UNCHANGED <<nextSeq, waitKey, lastFed, requests, idrRecent, gapArmed, faults>>
            ELSE LET broken == waitKey \/ f.seq > nextSeq
                     fed == Feeds(f, broken)
                 IN  /\ nextSeq' = f.seq + 1
                     /\ \/ /\ fed /\ waitKey' = FALSE
                           /\ lastFed' = [seq |-> f.seq, key |-> f.key, ref |-> f.ref]
                           /\ gapArmed' = (gapArmed /\ ~f.key)
                           /\ UNCHANGED <<requests, idrRecent, faults>>
                        \/ /\ ~fed \/ faults > 0
                           /\ faults' = IF fed THEN faults - 1 ELSE faults
                           /\ waitKey' = TRUE
                           /\ \E outlasted \in {FALSE, fed} : \* a new Delivery has no rate limit
                                IF (idrRecent /\ ~outlasted) \/ requests >= MaxRequests
                                THEN requests' = requests /\ idrRecent' = (idrRecent /\ ~outlasted)
                                ELSE requests' = requests + 1 /\ idrRecent' = TRUE
                           /\ gapArmed' = (gapArmed /\ ~f.key)
                           /\ UNCHANGED lastFed
    /\ UNCHANGED <<mode, streams, proofs, readers>>

\* Successors have waited out the reordering window with no reader at work:
\* they are dropped and a key frame is requested, once per gap.  The window
\* passing before a stream that is still coming is one of the run's faults.
Expire ==
    /\ ~CanPop /\ readers = {} /\ order.frames # {}
    /\ LET early == \E s \in DOMAIN streams :
                        /\ s < Min(Seqs(order.frames)) /\ ~streams[s].accepted
                        /\ streams[s].state \in {"open", "fin"}
       IN  /\ early => faults > 0
           /\ faults' = IF early THEN faults - 1 ELSE faults
    /\ order' = NoOrder /\ waitKey' = TRUE
    /\ IF gapArmed THEN UNCHANGED <<requests, idrRecent, gapArmed>> ELSE RequestIdr(TRUE)
    /\ UNCHANGED <<mode, streams, proofs, readers, nextSeq, lastFed>>

\* IDR_MIN_INTERVAL_MS, and the deadline of a requested key frame, pass.
RateWindowPasses ==
    /\ idrRecent /\ idrRecent' = FALSE
    /\ UNCHANGED <<mode, streams, proofs, requests, faults, readers, order, nextSeq, waitKey, lastFed, gapArmed>>
GapWindowPasses ==
    /\ gapArmed /\ gapArmed' = FALSE
    /\ UNCHANGED <<mode, streams, proofs, requests, faults, readers, order, nextSeq, waitKey, lastFed, idrRecent>>

-----------------------------------------------------------------------------
(***************************************************************************)
(* A desktop session's video from the capture thread to the decoder: the   *)
(* serving side, the viewing side, and the streams, payload proofs and     *)
(* repair requests between them.                                           *)
(***************************************************************************)

CONSTANT MaxFaults

mediaVars == <<senderVars, viewerVars, faults, proofs, requests>>

MediaInit == SenderInit /\ ReceiverInit /\ faults = MaxFaults

Fault == faults > 0 /\ faults' = faults - 1
Channels == <<proofs, requests>>
serverOnly == <<captureVars, idr, repair, latestKey, admission, queue, writerVars, acks>>

\* Nothing is on its way between the two sides.  A screen at rest is captured
\* about once a second, which is when everything else has settled.
AtRest ==
    /\ queue = <<>> /\ Held = {} /\ order.frames = {} /\ readers = {}
    /\ proofs = {} /\ requests = 0 /\ ~idrRecent
    /\ \A s \in DOMAIN streams : streams[s].state # "none" => streams[s].accepted

\* Bound: the faults of a run fall on the frames of the changing screen.
Admit ==
    /\ CaptureAdmit(IF AtRest THEN LastSeq ELSE MaxSeq)
    /\ faults' = IF seq > MaxSeq THEN 0 ELSE faults
Capture == Encode \/ DiscardEncoded \/ HandOver \/ CaptureEnds
Write ==
    \/ WriterNewEpoch \/ WriterInterrupted \/ WriterTake \/ WriterAdmit
    \/ WriterSends \/ WriterAbandons \/ WriterObsolete
Receipt ==
    \E a \in Waiting :
        \/ AckProof(a) /\ proofs' = {p \in proofs : p.seq # a.frame.seq} /\ UNCHANGED requests
        \/ (AckTransport(a) \/ AckStopped(a)) /\ UNCHANGED Channels
Control ==
    \/ ServeRequest /\ requests' = requests - 1 /\ UNCHANGED proofs
    \/ \E p \in proofs : \* its ticket is gone
         /\ \A a \in Waiting : a.frame.seq # p.seq
         /\ proofs' = proofs \ {p} /\ UNCHANGED <<requests, senderVars>>

\* The viewer stopped a stream the writer had not finished: the writer fails,
\* and with it the session.
StoppedMidway ==
    /\ writer = "sending" /\ streams[hand.seq].state = "stopped"
    /\ SessionEnds

Serve ==
    \/ Admit /\ UNCHANGED <<Channels, viewerVars>>
    \/ (Capture \/ Write \/ StoppedMidway) /\ UNCHANGED <<faults, Channels, viewerVars>>
    \/ (Receipt \/ Control) /\ UNCHANGED <<faults, viewerVars>>
View ==
    /\ writer # "ended"
    /\ \/ \E s \in DOMAIN streams :
            Accept(s) \/ ResetUnseen(s) \/ ReadStale(s) \/ ReadComplete(s) \/ ReadFails(s)
       \/ DecodeNext \/ Expire
       \/ RateWindowPasses \/ GapWindowPasses
    /\ UNCHANGED serverOnly
Fail ==
    /\ EncodeFails \/ CodecSkips \/ SessionEnds \/ \E a \in Waiting : AckTimeout(a)
    /\ Fault /\ UNCHANGED <<Channels, viewerVars>>

MediaNext == Serve \/ View \/ Fail

\* Every task of a session keeps running, and a fault is never owed.
Progress == Serve \/ (View /\ faults' = faults)
MediaFairness == WF_mediaVars(Progress)
MediaSpec == MediaInit /\ [][MediaNext]_mediaVars /\ MediaFairness

\* A delta reaches the decoder only directly after the picture the encoder
\* predicted it from: through discarded pictures, abandoned and reset streams,
\* repairs, reordering and evictions (FrameChain, Ordered, Delivery::decode).
ReferencesHold ==
    [][lastFed' # lastFed => lastFed'.key \/ lastFed'.ref = lastFed.seq]_mediaVars

\* Capture permits are never lost: each one is a frame somewhere in the
\* pipeline, and none is left after the session (CapturePermit).
Live ==
    (IF capture \in {"encoding", "encoded"} THEN 1 ELSE 0)
      + Len(queue) + Cardinality(Held)
PermitsExact == admission = Live /\ admission <= MaxPending

=============================================================================
