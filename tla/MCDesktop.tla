---------------------------- MODULE MCDesktop ----------------------------
(***************************************************************************)
(* The streams of a remote desktop.  "media": frames from capture to       *)
(* decoder over streams that reorder, fail and are abandoned.  "pacing":   *)
(* two paths and rates from which two cuts can be taken.  "audio": a       *)
(* jitter buffer of two packets.  "plane": the control stream with queues  *)
(* of one.  "replies": a control reader watched while it polls.  "watch":  *)
(* a viewer's watchdogs through late echoes and blocked writes.            *)
(***************************************************************************)
EXTENDS Naturals

VARIABLES
    workload, mode, capture, taken, seenGen, encoded, encRef, wantIdr, seq,
    idr, repair, latestKey, admission, queue, writer, hand, pending,
    chain, writerGen, acks, streams, faults, proofs, requests, readers,
    order, nextSeq, waitKey, lastFed, idrRecent, gapArmed, ctl, press,
    rate, tick, since, next_seq, flying, packets, next_sequence, mishaps,
    audioEncoded, lost, played, gapped, overtaken, overflowed, viewer,
    server, negotiated, planeQueue, receipts, writing, up, half, inbox,
    work, down, holding, events, frozen, torn, version, fields, todo,
    reader, observer, sample, settled, probes, confirmed, sent, phase,
    failures, frames, healthy, lived, due, blocked, watchFlying,
    watchPending, watchConfirmed, stable, timely, clip, frameAge, seen,
    repairs, truth, asked, short, ended

\* Of the rarer events at most one happens in a tick of the controller.
OneThing ==
    \A a, b \in {"steered", "moved", "missed", "failed"} : tick[a] /\ tick[b] => a = b

Media ==
    INSTANCE DesktopMedia WITH
        MaxSeq <- 2, MaxGen <- 4, MaxPending <- 2, QueueCap <- 2,
        MaxReaders <- 3, MaxBlocked <- 2, MaxRequests <- 1,
        MaxFaults <- 1, Refreshes <- 3

Flow ==
    INSTANCE MediaFlow WITH
        Floor <- 10, Ceiling <- 17, Initial <- 17, Targets <- {17},
        Paths <- {1, 2}, Levels <- {1, 2}, Cooldown <- 2, Hold <- 2,
        Window <- 1, Goodputs <- {14}, MaxSeq <- 5, Capacity <- 2,
        TargetDelay <- 1, MaxFlying <- 3, MaxMishaps <- 2,
        encoded <- audioEncoded

Plane ==
    INSTANCE ControlPlane WITH
        QueueCap <- 1, WireCap <- 1, queue <- planeQueue, PrefixLen <- 2,
        FrameLen <- 2, MaxReads <- 2, MaxProbes <- 3, MaxVersion <- 8,
        Stall <- 2, Grace <- 3, Timely <- 0, ProbeGap <- 1,
        Window <- 2, WatchMaxProbes <- 2, VideoStall <- 3,
        RepairAges <- <<1, 2>>, WriteStall <- 1, MaxFailures <- 2,
        AgeCap <- 6, flying <- watchFlying, pending <- watchPending

mediaVars ==
    <<mode, capture, taken, seenGen, encoded, encRef, wantIdr, seq, idr,
      repair, latestKey, admission, queue, writer, hand, pending, chain,
      writerGen, acks, streams, faults, proofs, requests, readers,
      order, nextSeq, waitKey, lastFed, idrRecent, gapArmed>>
pacingVars ==
    <<ctl, press, rate, tick, since>>
audioVars ==
    <<next_seq, flying, packets, next_sequence, mishaps, audioEncoded, lost,
      played, gapped, overtaken, overflowed>>
planeVars ==
    <<viewer, server, negotiated, planeQueue, receipts, writing, up, half,
      inbox, work, down, holding, events, frozen, torn>>
repliesVars ==
    <<version, fields, todo, reader, observer, sample, settled, probes,
      confirmed, sent>>
watchVars ==
    <<phase, failures, frames, healthy, lived, due, blocked, watchFlying,
      watchPending, watchConfirmed, stable, timely, clip, frameAge,
      seen, repairs, truth, asked, short, ended>>

MCInit ==
    /\ workload \in {"media", "pacing", "audio", "plane", "replies", "watch"}
    /\ Media!MediaInit
    /\ workload # "media" => mode = "transport"
    /\ Flow!PaceInit
    /\ Flow!AudioInit
    /\ Plane!PlaneInit
    /\ workload # "plane" => negotiated
    /\ Plane!ReplyInit
    /\ Plane!WatchInit

MCNext ==
    /\ UNCHANGED workload
    /\ \/ workload = "media" /\ Media!MediaNext
           /\ UNCHANGED <<pacingVars, audioVars, planeVars, repliesVars, watchVars>>
       \/ workload = "pacing" /\ Flow!PaceNext /\ OneThing'
           /\ UNCHANGED <<mediaVars, audioVars, planeVars, repliesVars, watchVars>>
       \/ workload = "audio" /\ Flow!AudioNext
           /\ UNCHANGED <<mediaVars, pacingVars, planeVars, repliesVars, watchVars>>
       \/ workload = "plane" /\ Plane!PlaneNext
           /\ UNCHANGED <<mediaVars, pacingVars, audioVars, repliesVars, watchVars>>
       \/ workload = "replies" /\ Plane!ReplyNext
           /\ UNCHANGED <<mediaVars, pacingVars, audioVars, planeVars, watchVars>>
       \/ workload = "watch" /\ Plane!WatchNext /\ (clip'.on => failures' = 0)
           /\ UNCHANGED <<mediaVars, pacingVars, audioVars, planeVars, repliesVars>>

MCSpec ==
    /\ MCInit
    /\ [][MCNext]_<<workload, mediaVars, pacingVars, audioVars, planeVars, repliesVars, watchVars>>

\* What is played is what was recorded: a delta reaches the decoder only after
\* the picture it was predicted from, each capture permit is a frame of the
\* pipeline, and sound is concealed only where a packet is missing (FrameChain,
\* CapturePermit, JitterBuffer).
MediaHolds ==
    /\ [](workload = "media" => Media!PermitsExact)
    /\ [](workload = "audio" => Flow!PlayoutFloor /\ Flow!OnlyLossConcealed)
    /\ Media!ReferencesHold

\* The controller does not raise the bitrate while an impairment is held against
\* it, but for a target the viewer asks for; one tick takes one cut however many
\* signs of congestion it sees, and a media cut holds back the next of either
\* source (step, step_with_delivery_floor).
PacingIsCalm == Flow!HeldAfterImpairment /\ Flow!CutsCoalesced

\* An acknowledgement is of an input that was handled, and the two ends of the
\* control stream never all wait for each other; a snapshot of the control reader
\* is one it published as a whole, and a forgiven probe stays forgiven (session.rs
\* reader and loop, client.rs, control_read.rs, Probes::confirm).
RepliesTruthful ==
    /\ [](workload = "plane" => Plane!RepliesTruthful /\ Plane!NoStandstill)
    /\ [](workload = "replies" => Plane!SampleCoherent)
    /\ Plane!OldProbesForgiven

\* A turn of the viewer's pump goes on only while the agent is known to have
\* handled a recent control, or while the grace of one clipboard publication
\* lasts; a session is given up for its video only after every repair was asked
\* for, and attempts that never lived through a healthy window keep backing off
\* (liveness.rs check, VideoWatchdog::observe, retry_delay).
WatchdogsPatient ==
    /\ [](workload = "watch" => Plane!RepairedFirst /\ Plane!BackoffHolds)
    /\ Plane!ControlIsCurrent
=============================================================================
