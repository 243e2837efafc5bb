----------------------------- MODULE LeaseClock -------------------------------
(***************************************************************************)
(* One lease (rds-discovery, clock.rs) while time passes, the wall clock   *)
(* is set and the machine reboots.  What a holder sees of it is ValidAt    *)
(* and RemainingAt at the present reading.                                 *)
(***************************************************************************)
EXTENDS Leases, TLAPS

CONSTANTS
    Intervals,  \* signed <<issued, expires>> pairs, in seconds
    MaxWall,    \* bound of the wall clock, in ticks
    MaxAge,     \* bound of the real time followed, in ticks
    MaxBoot     \* bound of the number of reboots

ASSUME ClockAssumption ==
    /\ Intervals \subseteq Nat \X Nat
    /\ MaxWall \in Nat
    /\ MaxAge \in Nat
    /\ MaxBoot \in Nat
    /\ None \notin [boot: Nat, issued_at: Nat, expires_at: Nat,
                    accepted_wall: Nat, accepted_continuous: Nat,
                    deadline: Nat]

VARIABLES
    boot, wall, continuous,  \* Reading::now()
    lease,    \* the lease, once accepted
    granted,  \* history: the signed time left when it was accepted
    age       \* history: the real time since it was accepted

vars == <<boot, wall, continuous, lease, granted, age>>

Now == [boot |-> boot, wall |-> wall, continuous |-> continuous]

Init ==
    /\ boot = 0
    /\ wall \in 0..MaxWall
    /\ continuous = 0
    /\ lease = None
    /\ granted = 0
    /\ age = 0

Accept(issued, expires) ==
    /\ lease = None
    /\ LeaseError(issued, expires, Now) = "none"
    /\ lease' = NewLease(issued, expires, Now)
    /\ granted' = FromSecs(expires) - wall
    /\ age' = 0
    /\ UNCHANGED <<boot, wall, continuous>>

Tick ==
    /\ age < MaxAge
    /\ age' = age + 1
    /\ wall' = wall + 1
    /\ continuous' = continuous + 1
    /\ UNCHANGED <<boot, lease, granted>>

SetClock ==
    /\ wall' \in (0..MaxWall) \ {wall}
    /\ UNCHANGED <<boot, continuous, lease, granted, age>>

Reboot ==
    /\ boot < MaxBoot
    /\ boot' = boot + 1
    /\ continuous' = 0
    /\ UNCHANGED <<wall, lease, granted, age>>

Next ==
    \/ \E i \in Intervals : Accept(i[1], i[2])
    \/ Tick
    \/ SetClock
    \/ Reboot

Spec == Init /\ [][Next]_vars

\* No setting of the wall clock and no reboot keeps a lease valid for longer
\* than the signed time that was left when it was accepted (Lease::valid_at).
NeverOutlives ==
    lease # None /\ ValidAt(lease, Now) => age < granted

-----------------------------------------------------------------------------
(***************************************************************************)
(* No sequence of clock settings and reboots keeps a lease valid beyond    *)
(* the signed time that was left when it was accepted.                     *)
(***************************************************************************)

\* While the boot that accepted the lease lasts, its continuous clock has
\* measured the lease's age, and the deadline is the granted time.
LeaseInv ==
    /\ boot \in Nat
    /\ wall \in Nat
    /\ continuous \in Nat
    /\ age \in Nat
    /\ granted \in Int
    /\ lease # None =>
        /\ lease.boot \in Nat
        /\ lease.boot <= boot
        /\ lease.accepted_continuous \in Nat
        /\ lease.deadline = lease.accepted_continuous + granted
        /\ lease.boot = boot => continuous = lease.accepted_continuous + age

\* A lease is never valid for longer than the signed time that was left when
\* it was accepted, however the wall clock is set and the machine rebooted
\* (clock.rs Lease::valid_at).
THEOREM LeaseNeverOutlives == Spec => []NeverOutlives
<1>1. Init => LeaseInv
  BY ClockAssumption DEF Init, LeaseInv
<1>2. LeaseInv /\ [Next]_vars => LeaseInv'
  <2> SUFFICES ASSUME LeaseInv, [Next]_vars PROVE LeaseInv'
    OBVIOUS
  <2>1. ASSUME NEW i \in Intervals, Accept(i[1], i[2]) PROVE LeaseInv'
    <3>1. i[1] \in Nat /\ i[2] \in Nat
      BY ClockAssumption
    <3>2. FromSecs(i[2]) \in Nat
      BY <3>1, SecondAssumption DEF FromSecs
    <3> QED BY <2>1, <3>1, <3>2 DEF LeaseInv, Accept, NewLease, Now
  <2>2. CASE Tick
    BY <2>2 DEF LeaseInv, Tick
  <2>3. CASE SetClock
    BY <2>3, ClockAssumption DEF LeaseInv, SetClock
  <2>4. CASE Reboot
    BY <2>4 DEF LeaseInv, Reboot
  <2>5. CASE UNCHANGED vars
    BY <2>5 DEF LeaseInv, vars
  <2> QED BY <2>1, <2>2, <2>3, <2>4, <2>5 DEF Next
<1>3. LeaseInv => NeverOutlives
  BY DEF LeaseInv, NeverOutlives, ValidAt, Now
<1> QED BY <1>1, <1>2, <1>3, PTL DEF Spec
=============================================================================
