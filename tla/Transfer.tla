------------------------------ MODULE Transfer ------------------------------
(***************************************************************************)
(* One managed file transfer (rds-sync, engine.rs): the holder of a file   *)
(* and its receiver, either of which is the caller, the control stream in  *)
(* both directions with the task that reads it, the chunk streams, and the *)
(* disk work of the receiver, which cannot be interrupted, only told to    *)
(* stop.  The journal behind the disk work is Journal.                     *)
(*                                                                         *)
(* A side takes one step at a time; its reader, its disk job and the peer  *)
(* run in between.  Frames of a stream arrive in order, chunk streams in   *)
(* any order.  Stall bounds and deadlines are failures that may happen at  *)
(* any time; nothing relies on them.                                       *)
(***************************************************************************)
EXTENDS Naturals, Sequences, FiniteSets

CONSTANTS
    Parts,      \* ManifestPart frames of the manifest
    Chunks,     \* its chunks
    QueueSize,  \* capacity of the queue of control frames
    MaxFaults,  \* bound of failures, deadlines and cancellations
    None

Sides == {"holder", "receiver"}
Peer(x) == IF x = "holder" THEN "receiver" ELSE "holder"

VARIABLES
    caller,   \* the side that started the transfer; the other one serves
    at,       \* the phase of each side
    result,   \* what its call is going to return, or has returned
    wire,     \* frames a side has sent and the peer's reader has not read
    stopped,  \* the peer has stopped reading the side's control stream
    reader,   \* ControlFrames' task; its exit is also the stop flag
    queue,    \* and its queue of frames
    cause,    \* why it ended
    conn,     \* the connection is up
    offered,  \* ManifestPart frames the holder has sent
    got,      \* and the receiver has taken
    wanted,   \* chunks Need asks for
    sent, arrived, stored,  \* chunks on their way
    early,    \* the holder has seen Done before its streams were finished
    job,      \* disk work of the receiver
    abandoned, \* and its flag: the waiter is gone
    dest, guard, faults

data == <<offered, got, wanted, sent, arrived, stored, early>>
disk == <<job, abandoned, dest>>
control == <<wire, stopped, reader, queue, cause>>
vars == <<caller, at, result, control, conn, data, disk, guard, faults>>

Init ==
    /\ caller \in Sides
    /\ at = [x \in Sides |-> IF x = "holder" THEN IF caller = x THEN "scan" ELSE "request"
                             ELSE IF caller = x THEN "request" ELSE "offer"]
    /\ result = [x \in Sides |-> None]
    /\ wire = [x \in Sides |-> <<>>]
    /\ stopped = [x \in Sides |-> FALSE]
    /\ reader = [x \in Sides |-> "run"]
    /\ queue = [x \in Sides |-> <<>>]
    /\ cause = [x \in Sides |-> None]
    /\ conn = TRUE
    /\ offered = 0 /\ got = 0
    /\ wanted = {} /\ sent = {} /\ arrived = {} /\ stored = {}
    /\ early = FALSE
    /\ job = "none" /\ abandoned = FALSE /\ dest = "old"
    /\ guard = TRUE
    /\ faults = 0

Goto(x, a) == at' = [at EXCEPT ![x] = a]
Send(x, f) == wire' = [wire EXCEPT ![x] = Append(@, f)]

\* A failure, of those the bound allows.
Fault == faults < MaxFaults /\ faults' = faults + 1

-----------------------------------------------------------------------------
(* ControlFrames.                                                           *)

Room(x) == Len(queue[x]) < QueueSize

\* The reader ends, and stops the stream it reads.
Exit(x, why) ==
    /\ reader' = [reader EXCEPT ![x] = "exited"]
    /\ stopped' = [stopped EXCEPT ![Peer(x)] = TRUE]
    /\ cause' = [cause EXCEPT ![x] = IF @ = None THEN why ELSE @]

Read(x) ==
    LET f == Head(wire[Peer(x)])
        enqueued == IF Room(x) THEN [queue EXCEPT ![x] = Append(@, f)] ELSE queue
    IN  /\ reader[x] = "run"
        /\ conn
        /\ wire[Peer(x)] # <<>>
        /\ wire' = [wire EXCEPT ![Peer(x)] = Tail(@)]
        /\ CASE f \in {"fin", "reset"} -> Exit(x, "ended") /\ UNCHANGED queue
             [] f \in {"cancel", "refuse"} -> Exit(x, f) /\ queue' = enqueued
             [] Room(x) -> queue' = enqueued /\ UNCHANGED <<reader, stopped, cause>>
             [] OTHER -> Exit(x, "flooded") /\ UNCHANGED queue
        /\ UNCHANGED <<caller, at, result, conn, data, disk, guard, faults>>

ReadLost(x) ==
    /\ reader[x] = "run"
    /\ ~conn
    /\ Exit(x, "ended")
    /\ UNCHANGED <<caller, at, result, wire, queue, conn, data, disk, guard, faults>>

\* next() and during_data().
Has(x, f) == queue[x] # <<>> /\ Head(queue[x]) = f
Take(x) == queue' = [queue EXCEPT ![x] = Tail(@)]
Closed(x) == queue[x] = <<>> /\ reader[x] = "exited"

\* send.stopped().
Stopped(x) == stopped[x] \/ ~conn

-----------------------------------------------------------------------------
(* The ends of a call: session(), serve_with_guard(), send_file_cancel()    *)
(* and recv_file_cancel().                                                  *)

Running(x) == at[x] \notin {"barrier", "release", "ended"}

Close(x) ==
    IF reader[x] = "run" THEN Exit(x, "closed") ELSE UNCHANGED <<reader, stopped, cause>>

\* Dropping the receiver's future tells its disk work.
Abandon(x) == abandoned' = (abandoned \/ x = "receiver")

\* The call fails. A server says farewell, closes its reader, releases its slot
\* and then finishes the stream; a caller resets it.
Fail(x, farewell) ==
    /\ Abandon(x)
    /\ result' = [result EXCEPT ![x] = "err"]
    /\ wire' = [wire EXCEPT ![x] = IF x = caller THEN <<"reset">> ELSE @ \o farewell]
    /\ Goto(x, IF x = caller THEN "ended" ELSE "release")
    /\ Close(x)

\* The call has what it needs: a caller finishes its stream first.
Succeed(x) ==
    /\ result' = [result EXCEPT ![x] = "ok"]
    /\ Goto(x, "barrier")

\* The end of the peer's stream is the barrier of both sides.
Barrier(x) ==
    /\ at[x] = "barrier"
    /\ reader[x] = "exited"
    /\ Goto(x, IF x = caller THEN "ended" ELSE "release")
    /\ UNCHANGED <<caller, result, control, conn, data, disk, guard, faults>>

\* The completion guard is dropped, then the stream is finished.
Release(x) ==
    /\ at[x] = "release"
    /\ IF guard
       THEN guard' = FALSE /\ UNCHANGED <<at, wire>>
       ELSE Send(x, "fin") /\ Goto(x, "ended") /\ UNCHANGED guard
    /\ UNCHANGED <<caller, result, stopped, reader, queue, cause, conn, data, disk, faults>>

\* The stopped arm around the work of a side drops that work where it stands.
PeerStopped(x) ==
    /\ Running(x)
    /\ Stopped(x)
    /\ Fail(x, <<>>)
    /\ UNCHANGED <<caller, queue, conn, data, job, dest, guard, faults>>

\* The frame a side waits for; another one or the end of the stream fails it.
Awaited(x) ==
    IF x = "holder"
    THEN CASE at[x] \in {"request", "need"} -> {at[x]}
           [] at[x] \in {"push", "done"} /\ ~early -> {"done"}
           [] OTHER -> {}
    ELSE CASE at[x] = "offer" -> {"offer"}
           [] at[x] = "manifest" -> {"part"}
           [] OTHER -> {}
Unexpected(x) ==
    /\ Awaited(x) # {}
    /\ Closed(x) \/ (queue[x] # <<>> /\ Head(queue[x]) \notin Awaited(x))
    /\ Fail(x, IF at[x] = "manifest" THEN <<"refuse">> ELSE <<>>)
    /\ UNCHANGED <<caller, queue, conn, data, job, dest, guard, faults>>

-----------------------------------------------------------------------------
(* The holder: serve_inner() of a Request, send_file_inner().               *)

Requested ==
    /\ at["holder"] = "request"
    /\ Has("holder", "request")
    /\ Take("holder")
    /\ Goto("holder", "scan")
    /\ UNCHANGED <<caller, result, wire, stopped, reader, cause, conn, data, disk, guard, faults>>

\* manifest_from_file(): the scan sees the stop flag.
Scan ==
    /\ at["holder"] = "scan"
    /\ IF reader["holder"] = "exited"
       THEN Fail("holder", <<>>)
       ELSE Goto("holder", "announce") /\ UNCHANGED <<result, wire, stopped, reader, cause, abandoned>>
    /\ UNCHANGED <<caller, queue, conn, data, job, dest, guard, faults>>

\* send_manifest(), a frame at a time.
SendOffer ==
    /\ at["holder"] = "announce"
    /\ Send("holder", "offer")
    /\ Goto("holder", "manifest")
    /\ UNCHANGED <<caller, result, stopped, reader, queue, cause, conn, data, disk, guard, faults>>
SendPart ==
    /\ at["holder"] = "manifest"
    /\ Send("holder", "part")
    /\ offered' = offered + 1
    /\ IF offered' = Parts THEN Goto("holder", "need") ELSE UNCHANGED at
    /\ UNCHANGED <<caller, result, stopped, reader, queue, cause, conn, got, wanted, sent,
                   arrived, stored, early, disk, guard, faults>>

Needed ==
    /\ at["holder"] = "need"
    /\ Has("holder", "need")
    /\ Take("holder")
    /\ Goto("holder", "push")
    /\ UNCHANGED <<caller, result, wire, stopped, reader, cause, conn, data, disk, guard, faults>>

\* push_chunks(): the streams, and the watch on the control stream.
SendChunk(i) ==
    /\ at["holder"] = "push"
    /\ i \in wanted \ sent
    /\ sent' = sent \cup {i}
    /\ UNCHANGED <<caller, at, result, control, conn, offered, got, wanted, arrived, stored, early,
                   disk, guard, faults>>
EarlyDone ==
    /\ at["holder"] = "push"
    /\ Has("holder", "done")
    /\ ~early
    /\ Take("holder")
    /\ early' = TRUE
    /\ UNCHANGED <<caller, at, result, wire, stopped, reader, cause, conn, offered, got, wanted, sent,
                   arrived, stored, disk, guard, faults>>
Pushed ==
    /\ at["holder"] = "push"
    /\ sent = wanted
    /\ Goto("holder", "done")
    /\ UNCHANGED <<caller, result, control, conn, data, disk, guard, faults>>

\* recv_done().
Confirmed ==
    /\ at["holder"] = "done"
    /\ \/ early /\ UNCHANGED queue
       \/ ~early /\ Has("holder", "done") /\ Take("holder")
    /\ Succeed("holder")
    /\ IF caller = "holder" THEN Send("holder", "fin") ELSE UNCHANGED wire
    /\ UNCHANGED <<caller, stopped, reader, cause, conn, data, disk, guard, faults>>

-----------------------------------------------------------------------------
(* The receiver: serve_inner() of an Offer, recv_file_inner(), receive().   *)

Request ==
    /\ at["receiver"] = "request"
    /\ Send("receiver", "request")
    /\ Goto("receiver", "offer")
    /\ UNCHANGED <<caller, result, stopped, reader, queue, cause, conn, data, disk, guard, faults>>

Offered ==
    /\ at["receiver"] = "offer"
    /\ Has("receiver", "offer")
    /\ Take("receiver")
    /\ Goto("receiver", IF caller = "receiver" THEN "manifest" ELSE "preflight")
    /\ UNCHANGED <<caller, result, wire, stopped, reader, cause, conn, data, disk, guard, faults>>

\* The preflight of the destination is a disk job.
Preflight ==
    /\ at["receiver"] = "preflight"
    /\ Goto("receiver", "manifest")
    /\ UNCHANGED <<caller, result, control, conn, data, disk, guard, faults>>

\* read_manifest(); with the last part the journal is opened.
TakePart ==
    /\ at["receiver"] = "manifest"
    /\ Has("receiver", "part")
    /\ Take("receiver")
    /\ got' = got + 1
    /\ IF got' = Parts THEN Goto("receiver", "open") /\ job' = "open"
       ELSE UNCHANGED <<at, job>>
    /\ UNCHANGED <<caller, result, wire, stopped, reader, cause, conn, offered, wanted, sent, arrived,
                   stored, early, abandoned, dest, guard, faults>>

\* The flags disk work consults between chunks.
StopSeen == abandoned \/ reader["receiver"] = "exited"

\* Journal::open_cancellable() on the blocking pool. A journal nobody waits
\* for is dropped with its locks.
OpenJournal ==
    /\ job = "open"
    /\ IF StopSeen THEN job' = IF abandoned THEN "none" ELSE "failed"
       ELSE job' = "opened"
    /\ IF StopSeen THEN UNCHANGED wanted ELSE wanted' \in SUBSET Chunks
    /\ UNCHANGED <<caller, at, result, control, conn, offered, got, sent, arrived, stored, early,
                   abandoned, dest, guard, faults>>
DropJournal ==
    /\ job \in {"opened", "failed", "committed"}
    /\ abandoned
    /\ job' = "none"
    /\ UNCHANGED <<caller, at, result, control, conn, data, abandoned, dest, guard, faults>>

\* The journal is open: Need, and the writer.
SendNeed ==
    /\ at["receiver"] = "open"
    /\ job = "opened"
    /\ Send("receiver", "need")
    /\ job' = "store"
    /\ Goto("receiver", "collect")
    /\ UNCHANGED <<caller, result, stopped, reader, queue, cause, conn, data, abandoned,
                   dest, guard, faults>>

\* receive_chunks(): read from the streams, store on the blocking pool.
Collect(i) ==
    /\ at["receiver"] = "collect"
    /\ i \in sent \ arrived
    /\ conn
    /\ arrived' = arrived \cup {i}
    /\ UNCHANGED <<caller, at, result, control, conn, offered, got, wanted, sent, stored, early,
                   disk, guard, faults>>
Store(i) ==
    /\ job = "store"
    /\ ~abandoned
    /\ i \in arrived \ stored
    /\ stored' = stored \cup {i}
    /\ UNCHANGED <<caller, at, result, control, conn, offered, got, wanted, sent, arrived, early,
                   disk, guard, faults>>
Collected ==
    /\ at["receiver"] = "collect"
    /\ arrived = wanted
    /\ Goto("receiver", "drain")
    /\ UNCHANGED <<caller, result, control, conn, data, disk, guard, faults>>
\* Mutant: Done is sent when the chunks are stored.
DrainedEarly ==
    /\ at["receiver"] = "drain"
    /\ stored = wanted
    /\ job' = "assemble"
    /\ Send("receiver", "done")
    /\ Succeed("receiver")
    /\ UNCHANGED <<caller, stopped, reader, queue, cause, conn, data, abandoned, dest, guard, faults>>
\* finish_ref(): the queue is drained and the journal comes back.
Drained ==
    /\ at["receiver"] = "drain"
    /\ stored = wanted
    /\ job' = "assemble"
    /\ Goto("receiver", "assemble")
    /\ UNCHANGED <<caller, result, control, conn, data, abandoned, dest, guard, faults>>

\* assemble_cancellable(): the last look at the flags, then the rename.
Assemble ==
    /\ job = "assemble"
    /\ job' = IF ~StopSeen THEN "rename" ELSE IF abandoned THEN "none" ELSE "failed"
    /\ UNCHANGED <<caller, at, result, control, conn, data, abandoned, dest, guard, faults>>
Rename ==
    /\ job = "rename"
    /\ dest' = "new"
    /\ job' = "committed"
    /\ UNCHANGED <<caller, at, result, control, conn, data, abandoned, guard, faults>>

Assembled ==
    /\ at["receiver"] = "assemble"
    /\ job = "committed"
    /\ job' = "none"
    /\ Goto("receiver", "report")
    /\ UNCHANGED <<caller, result, control, conn, data, abandoned, dest, guard, faults>>
Report ==
    /\ at["receiver"] = "report"
    /\ wire' = [wire EXCEPT !["receiver"] =
                   @ \o IF caller = "receiver" THEN <<"done", "fin">> ELSE <<"done">>]
    /\ Succeed("receiver")
    /\ UNCHANGED <<caller, stopped, reader, queue, cause, conn, data, disk, guard, faults>>

\* Work on the disk that failed; a journal that cannot be opened is refused.
DiskFailed ==
    /\ Running("receiver")
    /\ job = "failed"
    /\ job' = "none"
    /\ Fail("receiver", IF at["receiver"] = "open" THEN <<"refuse">> ELSE <<>>)
    /\ UNCHANGED <<caller, queue, conn, data, dest, guard, faults>>

\* The select of receive(): any frame, the end of the stream or a stop ends the
\* work; the writer is then told and joined.
Interrupted ==
    /\ at["receiver"] \in {"collect", "drain", "assemble"}
    /\ Stopped("receiver") \/ queue["receiver"] # <<>> \/ Closed("receiver")
    /\ abandoned' = TRUE
    /\ Goto("receiver", "join")
    /\ UNCHANGED <<caller, result, control, conn, data, job, dest, guard, faults>>
StopStore ==
    /\ job = "store"
    /\ abandoned
    /\ job' = "none"
    /\ UNCHANGED <<caller, at, result, control, conn, data, abandoned, dest, guard, faults>>
\* cancel_and_join(); its five seconds may run out, and an assembly under way
\* is not waited for.
Join ==
    /\ at["receiver"] = "join"
    /\ IF job = "store" THEN Fault ELSE UNCHANGED faults
    /\ Fail("receiver", <<>>)
    /\ UNCHANGED <<caller, queue, conn, data, job, dest, guard>>

-----------------------------------------------------------------------------
(* Faults.                                                                  *)

\* An error of a side or a stall bound. Access, paths, the source and the
\* manifest are refused.
Refuses(x) == IF x = "holder" THEN at[x] = "scan" ELSE at[x] \in {"preflight", "manifest"}
Errs(x) ==
    /\ Fault
    /\ Running(x)
    /\ at[x] # "join"
    /\ IF x = "receiver" /\ at[x] \in {"collect", "drain", "assemble"}
       THEN /\ abandoned' = TRUE
            /\ Goto(x, "join")
            /\ UNCHANGED <<result, wire, reader, stopped, cause>>
       ELSE Fail(x, <<>>) \/ (Refuses(x) /\ Fail(x, <<"refuse">>))
    /\ UNCHANGED <<caller, queue, conn, data, job, dest, guard>>
DiskErrs ==
    /\ Fault
    /\ job \in {"open", "store", "assemble", "rename"}
    /\ job' = IF abandoned THEN "none" ELSE "failed"
    /\ UNCHANGED <<caller, at, result, control, conn, data, abandoned, dest, guard>>

\* The caller cancels: a typed frame, sealed with the end of the stream.
Cancel ==
    /\ Fault
    /\ Running(caller)
    /\ result' = [result EXCEPT ![caller] = "err"]
    /\ wire' = [wire EXCEPT ![caller] = @ \o <<"cancel", "fin">>]
    /\ Goto(caller, "ended")
    /\ Abandon(caller)
    /\ Close(caller)
    /\ UNCHANGED <<caller, queue, conn, data, job, dest, guard>>

\* The deadline of the session drops the call where it stands.
Deadline(x) ==
    /\ Fault
    /\ at[x] # "ended"
    /\ result' = [result EXCEPT ![x] = "err"]
    /\ wire' = [wire EXCEPT ![x] = <<"reset">>]
    /\ Goto(x, "ended")
    /\ Abandon(x)
    /\ guard' = (guard /\ x = caller)
    /\ Close(x)
    /\ UNCHANGED <<caller, queue, conn, data, job, dest>>

Disconnect ==
    /\ Fault
    /\ conn
    /\ conn' = FALSE
    /\ UNCHANGED <<caller, at, result, control, data, disk, guard>>

SideStep(x) == Barrier(x) \/ Release(x) \/ PeerStopped(x) \/ Unexpected(x)
HolderStep ==
    \/ SideStep("holder")
    \/ Requested \/ Scan \/ SendOffer \/ SendPart \/ Needed
    \/ (\E i \in Chunks : SendChunk(i)) \/ EarlyDone \/ Pushed \/ Confirmed
ReceiverStep ==
    \/ SideStep("receiver")
    \/ Request \/ Offered \/ Preflight \/ TakePart \/ SendNeed
    \/ (\E i \in Chunks : Collect(i)) \/ Collected \/ Drained \/ Assembled \/ Report
    \/ DiskFailed \/ Interrupted \/ Join
DiskStep ==
    OpenJournal \/ DropJournal \/ (\E i \in Chunks : Store(i)) \/ StopStore \/ Assemble \/ Rename
ReaderStep(x) == Read(x) \/ ReadLost(x)

Next ==
    \/ HolderStep \/ ReceiverStep \/ DiskStep
    \/ \E x \in Sides : ReaderStep(x)
    \/ \E x \in Sides : Errs(x) \/ Deadline(x)
    \/ DiskErrs \/ Cancel \/ Disconnect

Spec == Init /\ [][Next]_vars

-----------------------------------------------------------------------------
(* Properties.                                                              *)

TypeOK ==
    /\ caller \in Sides
    /\ \A x \in Sides : Len(queue[x]) <= QueueSize
    /\ result \in [Sides -> {None, "ok", "err"}]
    /\ reader \in [Sides -> {"run", "exited"}]
    /\ got \in 0..offered /\ offered \in 0..Parts
    /\ stored \subseteq arrived /\ arrived \subseteq sent /\ sent \subseteq wanted
    /\ wanted \subseteq Chunks
    /\ job \in {"none", "open", "opened", "store", "assemble", "rename", "committed", "failed"}
    /\ dest \in {"old", "new"}
    /\ faults \in 0..MaxFaults

\* Success of either side means the file is installed: no order of chunks,
\* frames, an early Done and failures lets a call succeed before the rename
\* (recv_done, receive).
SuccessIsInstalled == \A x \in Sides : result[x] = "ok" => dest = "new"

\* Without a fault both sides succeed: no interleaving of the end of a stream,
\* an early Done, the stop flag and the barriers makes one of them give up
\* (push_chunks: "must not fall into the abort path").
FaultlessSucceeds == faults = 0 => \A x \in Sides : result[x] # "err"

\* Disk work never goes on unaware that its call has ended: what is still
\* running then stops at its next check, unless it has passed the last one
\* before a rename (DiskWorkCancellation, StoreCancellation).
LeftoverWorkIsTold ==
    at["receiver"] = "ended" =>
        job \in {"none", "rename", "committed"} \/ abandoned

\* When a caller returns successfully while the connection lives, the server
\* has released its slot, even if it failed or ran out of time meanwhile: the
\* next transfer is not refused for the previous one (serve_with_guard:
\* "release it before the peer can observe server FIN").
SlotReleasedFirst == at[caller] = "ended" /\ result[caller] = "ok" /\ conn => ~guard

\* Both calls end, whatever fails and whichever side ends first, with no help
\* of a stall bound or a deadline, and the disk work with them.
BothEnded == \A x \in Sides : at[x] = "ended" /\ job = "none"

\* A server that an explicit cancellation of the caller ends, and that reports
\* it as such, has joined the writer of its journal: the next transfer finds
\* the lock free (docs/sync-journal.md: "They stop and join that exact writer").
CancelJoinsWriter ==
    at["receiver"] = "release" /\ cause["receiver"] = "cancel" => job # "store"

\* A peer that follows the protocol is never taken for one that floods the
\* control queue (ControlFrames::open: "A full queue means the peer flooded us
\* with frames no phase accepts").
HonestNeverFloods == \A x \in Sides : cause[x] # "flooded"
=============================================================================
