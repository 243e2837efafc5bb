---------------------------- MODULE RecordEntry ----------------------------
(***************************************************************************)
(* The cell kept for one endpoint and the decision taken on it             *)
(* (rds-discovery, records/entry.rs), shared by both record stores.        *)
(*                                                                         *)
(* An entry is a verified signed mutation.  The digest of a retired cell   *)
(* binds the exact operation, so the cell keeps the entry itself; a cell   *)
(* is Active while it has a lease and Retired afterwards.                  *)
(***************************************************************************)
EXTENDS Leases

Entry == [kind: {"record", "delete"}, revision: Nat \ {0}, issued: Nat,
          expires: Nat]

Active(cell) == cell # None /\ cell.lease # None
Live(cell) == Active(cell) /\ cell.entry.kind = "record"
AcceptedWall(cell) == IF Active(cell) THEN cell.lease.accepted_wall ELSE 0

\* Stored::verify, which every read of a cell applies.
Verified(cell) ==
    Active(cell) =>
        MatchesInterval(cell.lease, cell.entry.issued, cell.entry.expires)

\* Stored::retire: an invalid lease is dropped, the floor stays.
Retire(cell, now) ==
    IF Active(cell) /\ ~ValidAt(cell.lease, now)
    THEN [cell EXCEPT !.lease = None]
    ELSE cell

Accepted(entry, now) ==
    [entry |-> entry,
     lease |-> NewLease(entry.issued, entry.expires, now)]

\* Mutants of decide(): an equal revision replaces; a retired floor is
\* forgotten.
DecideEqual(old, entry, now) ==
    IF LeaseError(entry.issued, entry.expires, now) # "none"
    THEN [cell |-> Retire(old, now),
          result |-> LeaseError(entry.issued, entry.expires, now)]
    ELSE IF old = None \/ entry.revision >= old.entry.revision
    THEN [cell |-> Accepted(entry, now), result |-> "ok"]
    ELSE [cell |-> Retire(old, now), result |-> "stale"]
DecideForgetting(old, entry, now) ==
    IF LeaseError(entry.issued, entry.expires, now) # "none"
    THEN [cell |-> Retire(old, now),
          result |-> LeaseError(entry.issued, entry.expires, now)]
    ELSE IF ~Active(Retire(old, now)) \/ entry.revision > old.entry.revision
    THEN [cell |-> Accepted(entry, now), result |-> "ok"]
    ELSE [cell |-> Retire(old, now), result |-> "stale"]

\* decide() on a mutation: the expired content is retired first, a higher
\* revision is accepted under a new lease, an exact retry of live content is
\* acknowledged under the old one, and anything else is refused.
Decide(old, entry, now) ==
    LET current == Retire(old, now)
        err == LeaseError(entry.issued, entry.expires, now)
    IN  IF err # "none"
        THEN [cell |-> current, result |-> err]
        ELSE IF current = None \/ entry.revision > current.entry.revision
        THEN [cell |-> Accepted(entry, now), result |-> "ok"]
        ELSE [cell |-> current,
              result |-> IF current.entry # entry THEN "stale"
                         ELSE IF current.lease = None THEN "expired" ELSE "ok"]

\* decide() without a mutation, followed by Stored::read.
DecideRead(old, now) ==
    LET current == Retire(old, now)
    IN  [cell |-> current,
         result |-> IF Live(current) THEN "ok"
                    ELSE IF current # None /\ ~Active(current)
                            /\ current.entry.kind = "record"
                    THEN "expired"
                    ELSE "not found"]

\* observe(): a wall clock behind the catalog floor or behind the last
\* accepted reading refuses the call.
Observes(floor, observed, now) == now.wall >= floor /\ now.wall >= observed
=============================================================================
