----------------------------- MODULE RecordStore -----------------------------
(***************************************************************************)
(* What a record store promises (rds-discovery, lib.rs, trait RecordStore):*)
(* one monotone cell per endpoint.  A higher revision replaces the cell, a *)
(* live cell may be retired but its revision and exact operation are kept, *)
(* and a mutation is acknowledged only while it is the live content.       *)
(***************************************************************************)
EXTENDS Naturals

CONSTANTS Keys, Entries, None

VARIABLES
    cells,  \* per endpoint: None, or the last entry and whether it is live
    acked   \* every <<key, entry>> acknowledged to a caller

vars == <<cells, acked>>

Init ==
    /\ cells = [k \in Keys |-> None]
    /\ acked = {}

Supersedes(entry, cell) == cell # None => entry.revision > cell.entry.revision

\* A put or remove of a higher revision.  The caller may not learn of it.
Accept(k, e) ==
    /\ Supersedes(e, cells[k])
    /\ cells' = [cells EXCEPT ![k] = [entry |-> e, live |-> TRUE]]
    /\ acked' \in {acked, acked \cup {<<k, e>>}}

\* An exact retry of live content.
Acknowledge(k, e) ==
    /\ cells[k] = [entry |-> e, live |-> TRUE]
    /\ acked' = acked \cup {<<k, e>>}
    /\ UNCHANGED cells

\* Expiry: content is reclaimed, the floor stays.
Expire(expired) ==
    /\ expired # {}
    /\ \A k \in expired : cells[k] # None /\ cells[k].live
    /\ cells' = [k \in Keys |-> IF k \in expired
                                THEN [cells[k] EXCEPT !.live = FALSE]
                                ELSE cells[k]]
    /\ UNCHANGED acked

Next ==
    /\ vars' # vars
    /\ \/ \E k \in Keys, e \in Entries : Accept(k, e) \/ Acknowledge(k, e)
       \/ \E expired \in SUBSET Keys : Expire(expired)

Spec == Init /\ [][Next]_vars
=============================================================================
