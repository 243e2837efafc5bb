------------------------------- MODULE Leases -------------------------------
(***************************************************************************)
(* Leases over signed data (rds-discovery, clock.rs): a signed interval is *)
(* turned, when it is accepted, into a deadline on the continuous clock of *)
(* the current boot, and is then bounded by the wall clock as well.        *)
(* Durations are counted in ticks; signed times are whole seconds.         *)
(***************************************************************************)
EXTENDS Integers

CONSTANTS
    Second,  \* ticks per second
    None     \* no lease

ASSUME SecondAssumption == Second \in Nat \ {0}

AsSecs(d) == d \div Second
FromSecs(s) == s * Second

Reading == [boot: Nat, wall: Nat, continuous: Nat]

\* The errors of Lease::new, in the order the code finds them.
LeaseError(issued, expires, now) ==
    IF issued > AsSecs(now.wall) THEN "future"
    ELSE IF FromSecs(expires) <= now.wall THEN "expired"
    ELSE "none"

NewLease(issued, expires, now) ==
    [boot |-> now.boot,
     issued_at |-> issued,
     expires_at |-> expires,
     accepted_wall |-> now.wall,
     accepted_continuous |-> now.continuous,
     deadline |-> now.continuous + (FromSecs(expires) - now.wall)]

\* Mutant of valid_at(): only the wall clock is consulted.
ValidAtByWall(lease, now) ==
    /\ now.boot = lease.boot
    /\ now.wall >= lease.accepted_wall
    /\ AsSecs(now.wall) < lease.expires_at

ValidAt(lease, now) ==
    /\ now.boot = lease.boot
    /\ now.wall >= lease.accepted_wall
    /\ AsSecs(now.wall) >= lease.issued_at
    /\ AsSecs(now.wall) < lease.expires_at
    /\ now.continuous >= lease.accepted_continuous
    /\ now.continuous < lease.deadline

RemainingAt(lease, now) ==
    LET byWall == FromSecs(lease.expires_at) - now.wall
        byClock == lease.deadline - now.continuous
    IN  IF ~ValidAt(lease, now) THEN 0
        ELSE IF byWall < byClock THEN byWall ELSE byClock

MatchesInterval(lease, issued, expires) ==
    /\ lease.issued_at = issued
    /\ lease.expires_at = expires
    /\ AsSecs(lease.accepted_wall) >= issued
    /\ AsSecs(lease.accepted_wall) < expires
    /\ lease.deadline - lease.accepted_continuous
         = FromSecs(expires) - lease.accepted_wall
=============================================================================
