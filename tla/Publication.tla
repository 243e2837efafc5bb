----------------------------- MODULE Publication -----------------------------
(***************************************************************************)
(* One agent publishing its record: the announce loop (rds-net,            *)
(* announce.rs) over the record issuer, a network that loses and delays    *)
(* requests and loses replies, and the directory's record store, taken as  *)
(* its abstract specification, behind put_record (rds-discovery,           *)
(* service.rs).  That agent and directory read one advancing clock is an   *)
(* assumption: skew, which makes the directory refuse, is left out.        *)
(*                                                                         *)
(* The loop awaits each job and each request, so it is one process; what   *)
(* interleaves with it are the requests it has given up on, the expiry of  *)
(* its lease at the directory, changes of its addresses, and its death.    *)
(***************************************************************************)
EXTENDS RecordIssuer

CONSTANTS
    Self,         \* the endpoint's key
    Ttl,          \* AnnounceConfig.ttl
    WriteErrors,  \* outcomes of a write besides success: "full", "error", "died"
    MaxFaults     \* bound of faults: refusals, timeouts, lapses, deaths, changes

ASSUME PublicationAssumption ==
    /\ Ttl \in Ttls
    /\ WriteErrors \subseteq {"full", "error", "died"}
    /\ MaxFaults \in Nat

VARIABLES
    phase,        \* down, recover (storage_full), issue, publish, await, stopped
    draft,        \* the endpoint's current addresses
    last,         \* last
    renew,        \* renew
    hand,         \* record
    net,          \* requests sent and not yet processed
    cells, acked, \* the directory's record store
    faults        \* faults so far

loop == <<phase, last, renew, hand>>
store == <<cells, acked>>
issuer == <<wall, disk, synced, sealed, open, memory, released>>
pubVars == <<issuer, loop, draft, net, store, faults>>

Directory == INSTANCE RecordStore WITH Keys <- {Self}, Entries <- Record

Fault == faults < MaxFaults /\ faults' = faults + 1

Outcomes == {o \in WriteOutcome : o.result \in {"ok"} \cup WriteErrors}

\* A write that does not succeed is charged to the bound.
Charge(o) == IF o.result = "ok" THEN UNCHANGED faults ELSE Fault

\* The requests of a caller that no longer waits.
Abandoned == {[r EXCEPT !.awaited = FALSE] : r \in net}

PubInit ==
    /\ Init
    /\ wall = 0
    /\ phase = "down"
    /\ draft \in Drafts
    /\ last = None
    /\ renew = FALSE
    /\ hand = None
    /\ net = {}
    /\ Directory!Init
    /\ faults = 0

-----------------------------------------------------------------------------
(* The loop.                                                                *)

\* The agent starts: the issuer is opened before the loop is spawned.
Start(o) ==
    /\ phase = "down"
    /\ OpenExisting(o.result = "ok") \/ OpenNew(o, TRUE)
    /\ Charge(o)
    /\ phase' = IF open' THEN "issue" ELSE "down"
    /\ last' = None
    /\ renew' = FALSE
    /\ hand' = None
    /\ UNCHANGED <<draft, net, store>>

\* What the result of the disk job does to the loop.  A job that failed for
\* want of space is retried after recovery; any other failure ends the loop.
Jobs(result) ==
    /\ renew' = FALSE
    /\ phase' = CASE result = "ok" ->
                       IF last = hand' THEN "issue" ELSE "publish"
                  [] result = "full" -> "recover"
                  [] result = "died" -> "down"
                  [] OTHER -> "stopped"
    /\ UNCHANGED <<draft, last, net, store>>

\* The first half of a job after a full disk: recover_storage_full.
Recover(o) ==
    /\ phase = "recover"
    /\ Charge(o)
    /\ RecoverStorageFull(o)
    /\ IF o.result = "ok"
       THEN phase' = "issue" /\ UNCHANGED <<last, renew, hand, draft, net, store>>
       ELSE UNCHANGED hand /\ Jobs(o.result)

\* record or renew_record, as the last reply demands.
Issue(o) ==
    /\ phase = "issue"
    /\ Charge(o)
    /\ \/ ~renew /\ o.result = "ok" /\ ReuseRecord(draft, Ttl)
       \/ IssueRecord(draft, Ttl, renew, o)
    /\ hand' = IF o.result = "ok" THEN state'.pending ELSE hand
    /\ Jobs(o.result)

\* An issuer that refuses (an exhausted counter) ends the loop.
Refuse ==
    /\ phase = "issue"
    /\ renew \/ ~Reusable(draft, Ttl)
    /\ Exhausted
    /\ UNCHANGED <<hand, faults>>
    /\ Jobs("refused")

Send ==
    /\ phase = "publish"
    /\ phase' = "await"
    /\ net' = net \cup {[record |-> hand, awaited |-> TRUE]}
    /\ UNCHANGED <<issuer, last, renew, hand, draft, store, faults>>

\* The status decides what the loop does next (announce.rs, the match on
\* publish): 200 remembers the record, 410 renews it, other refusals of the
\* request are final, everything else is retried.
Receive(status) ==
    /\ last' = IF status = 200 THEN hand ELSE last
    /\ renew' = (status = 410)
    /\ phase' = IF status \in {400, 409} THEN "stopped" ELSE "issue"
    /\ UNCHANGED hand

Timeout ==
    /\ phase = "await"
    /\ Fault
    /\ Receive(0)
    /\ net' = Abandoned
    /\ UNCHANGED <<issuer, draft, store>>

-----------------------------------------------------------------------------
(* The directory: put_record over the store, at the directory's own pace.   *)

Status(m) ==
    IF m.issued > wall THEN 400
    ELSE IF Expires(m) <= wall THEN 410
    ELSE IF Directory!Supersedes(m, cells[Self]) THEN 200
    ELSE IF cells[Self].entry # m THEN 409
    ELSE IF cells[Self].live THEN 200 ELSE 410

Stored(m) ==
    IF Status(m) # 200 THEN UNCHANGED store
    ELSE Directory!Accept(Self, m) \/ Directory!Acknowledge(Self, m)

\* The reply reaches the loop if it still waits for this request.
Process(r) ==
    /\ r \in net
    /\ net' = net \ {r}
    /\ Stored(r.record)
    /\ IF r.awaited THEN Receive(Status(r.record)) ELSE UNCHANGED loop
    /\ UNCHANGED <<issuer, draft, faults>>

\* 429 and 500: admission or the store refuses without effect.
Overloaded(r) ==
    /\ r \in net
    /\ Fault
    /\ net' = net \ {r}
    /\ IF r.awaited THEN Receive(500) ELSE UNCHANGED loop
    /\ UNCHANGED <<issuer, draft, store>>

\* The request is processed and its reply is lost.
LoseReply(r) ==
    /\ r \in net
    /\ r.awaited
    /\ Fault
    /\ net' = net \ {r}
    /\ Stored(r.record)
    /\ Receive(0)
    /\ UNCHANGED <<issuer, draft>>

\* The lease ends: the record expired, or the directory's machine rebooted
\* (with time left to notice before the horizon of the model).
Lapse ==
    /\ Directory!Expire({Self})
    /\ IF wall >= Expires(cells[Self].entry) THEN UNCHANGED faults
       ELSE wall < MaxWall /\ Fault
    /\ UNCHANGED <<issuer, loop, draft, net>>

-----------------------------------------------------------------------------
(* The environment.                                                         *)

ChangeAddresses ==
    /\ Fault
    /\ draft' \in Drafts \ {draft}
    /\ UNCHANGED <<issuer, loop, net, store>>

Advance ==
    /\ wall < MaxWall
    /\ wall' = wall + 1
    /\ UNCHANGED <<disk, synced, sealed, open, memory, released, loop, draft,
                   net, store, faults>>

\* The process ends: it was killed, or its supervisor saw the loop stop.
Die ==
    /\ phase # "down"
    /\ phase # "stopped" => Fault
    /\ phase = "stopped" => UNCHANGED faults
    /\ Exit
    /\ phase' = "down"
    /\ net' = Abandoned
    /\ UNCHANGED <<last, renew, hand, draft, store>>

PubNext ==
    \/ \E o \in Outcomes : Start(o) \/ Recover(o) \/ Issue(o)
    \/ Refuse
    \/ Send
    \/ Timeout
    \/ \E r \in net : Process(r) \/ Overloaded(r) \/ LoseReply(r)
    \/ Lapse
    \/ ChangeAddresses
    \/ Advance
    \/ Die

PubSpec == PubInit /\ [][PubNext]_pubVars

-----------------------------------------------------------------------------
(* Properties.                                                              *)

\* Outages are never fatal: lost replies, refusals, a full disk, lapsed leases
\* and restarts do not end the loop; only a write error other than a full disk
\* or an exhausted counter does ("Network and disk-full outages retry without
\* replacing the endpoint", announce.rs).  In particular the directory never
\* answers with a conflict, whatever old requests are still under way.
OutagesNeverFatal == phase = "stopped" => disk.revision = MaxRevision

\* The directory is never ahead of the issuer's committed file.
DirectoryBehindIssuer ==
    cells[Self] # None =>
        /\ disk # None
        /\ cells[Self].entry.revision <= disk.revision
        /\ cells[Self].entry.revision = disk.revision => cells[Self].entry = disk.pending

\* Once faults end, the directory holds the current addresses as live content
\* for good: a lapsed or missing record is published again, a changed address
\* reaches the directory and a full disk does not stop either ("This allows an
\* active publisher to recover after server reboot on its next publication",
\* docs/record-state.md), unless the counter is exhausted.
Published ==
    \/ disk # None /\ disk.revision = MaxRevision
    \/ /\ cells[Self] # None
       /\ cells[Self].live
       /\ cells[Self].entry.draft = draft
=============================================================================
