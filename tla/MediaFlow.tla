------------------------------ MODULE MediaFlow -------------------------------
(***************************************************************************)
(* The encoder target of a desktop session: the pacing task samples frame  *)
(* receipts (DeliveryFeedback, DeliveryPressure, DeliveryRate), the path's *)
(* counters and the producer's missed deadlines four times a second and    *)
(* moves the target (BitrateController) (rds-desktop session.rs,           *)
(* delivery_rate.rs).                                                      *)
(*                                                                         *)
(* A tick runs in the order of the code: pressure, goodput floor, path     *)
(* step, delivery step.  What the counters can show at a tick is chosen    *)
(* freely; a delayed frame may appear in the count of one tick and in the  *)
(* bytes of another, since the two atomics are read apart.  Round-trip     *)
(* times are levels: a higher one is a rise (1.5 times and 10 ms).         *)
(***************************************************************************)
EXTENDS Naturals, Integers, FiniteSets, FiniteSetsExt

CONSTANTS Floor, Ceiling,   \* bounds of the target (100000 bps in the code)
          Initial,          \* 4 Mbit/s
          Targets,          \* what a viewer may ask for
          Paths,            \* path identities
          Levels,           \* round-trip levels, 0: none measured yet
          Cooldown,         \* PATH_CUT_COOLDOWN_TICKS, and the delivery cut's 4
          Hold,             \* ticks a delivery cut is held, 20
          Window,           \* ticks of a goodput window, 4
          Goodputs          \* what two populated windows may justify

VARIABLES ctl,      \* BitrateController
          press,    \* DeliveryPressure
          rate,     \* DeliveryRate
          tick,     \* locals of the running tick
          since     \* ticks since the last impairment and the last media cut (history)

paceVars == <<ctl, press, rate, tick, since>>

NoPath == 0
NoRtt == 0
Smaller(a, b) == IF a < b THEN a ELSE b
Larger(a, b) == IF a > b THEN a ELSE b
Less(n) == IF n = 0 THEN 0 ELSE n - 1

(* The integer forms of 0.7 and 0.85. *)
Cut(n) == Larger((n \div 10) * 7 + ((n % 10) * 7) \div 10, Floor)
Trim(n) == Larger((n \div 100) * 85 + ((n % 100) * 85) \div 100, Floor)
Probe(n) == n + Larger(n \div 100, 1)

FreshTick == [phase |-> "wait", late |-> FALSE, delivered |-> FALSE, failed |-> FALSE, impaired |-> FALSE,
              path |-> NoPath, previous |-> 0, missed |-> FALSE, floor |-> 0,
              calm |-> FALSE, steered |-> FALSE, moved |-> FALSE]

PaceInit ==
  /\ ctl = [current |-> Smaller(Initial, Ceiling), path |-> NoPath, rtt |-> NoRtt, rise |-> NoRtt,
            loss_hold |-> FALSE, primed |-> FALSE, path_cooldown |-> 0, hold |-> 0, cut_cooldown |-> 0,
            reason |-> "none", rtt_cut |-> FALSE]
  /\ press = [stalled |-> 0, delayed |-> 0, penalized |-> FALSE]
  /\ rate = [path |-> NoPath, elapsed |-> 0, previous |-> FALSE, floor |-> 0]
  /\ tick = FreshTick
  /\ since = [impaired |-> Hold, cut |-> Cooldown]

-----------------------------------------------------------------------------
(* DeliveryPressure::sample: a blockage is penalised once. *)
Delayed(p, heavy) == IF heavy THEN Smaller(p.delayed + 1, 2) ELSE 0
Stalled(p, late, delivered) == IF late /\ ~delivered THEN Smaller(p.stalled + 1, 2) ELSE 0
Impaired(p, late, heavy, delivered, failed) ==
  Stalled(p, late, delivered) >= 2 \/ Delayed(p, heavy) >= 2 \/ failed
Forgiven(late, delivered) == delivered \/ ~late
Penalized(p, late, delivered) == p.penalized /\ ~Forgiven(late, delivered)

sample(late, heavy, delivered, failed) ==
  LET bad == Impaired(press, late, heavy, delivered, failed)
  IN /\ press' = [stalled |-> Stalled(press, late, delivered), delayed |-> Delayed(press, heavy),
                  penalized |-> bad]
     /\ tick' = [tick EXCEPT !.late = late, !.delivered = delivered, !.failed = failed,
                             !.impaired = bad /\ ~Penalized(press, late, delivered), !.phase = "rate"]

(* The interval fires: the filed target is taken, the counters are read.     *)
Begin ==
  /\ tick.phase = "wait"
  /\ \E req \in {0} \cup Targets, path \in {NoPath} \cup Paths, missed \in BOOLEAN :
       /\ ctl' = [ctl EXCEPT !.current = IF req = 0 THEN @ ELSE Larger(Floor, Smaller(req, Ceiling))]
       /\ tick' = [FreshTick EXCEPT !.phase = "pressure", !.path = path, !.missed = missed,
                                    !.steered = (req # 0), !.moved = (path \notin {NoPath, ctl.path})]
  /\ UNCHANGED <<press, rate, since>>

Pressure ==
  /\ tick.phase = "pressure"
  /\ \E late, heavy, delivered, failed \in BOOLEAN : sample(late, heavy, delivered, failed)
  /\ UNCHANGED <<ctl, rate, since>>

(* DeliveryRate::sample: two adjacent populated windows justify a floor.     *)
Revoked == tick.path = NoPath \/ tick.path # rate.path \/ tick.impaired \/ tick.failed \/ tick.late
Goodput ==
  /\ tick.phase = "rate"
  /\ \/ /\ Revoked
        /\ rate' = [path |-> tick.path, elapsed |-> 0, previous |-> FALSE, floor |-> 0]
     \/ /\ ~Revoked /\ rate.elapsed + 1 < Window
        /\ rate' = [rate EXCEPT !.elapsed = @ + 1]
     \/ /\ ~Revoked /\ rate.elapsed + 1 >= Window
        /\ \E populated \in BOOLEAN, bps \in Goodputs :
             rate' = [rate EXCEPT !.elapsed = 0, !.previous = populated,
                                  !.floor = IF rate.previous /\ populated THEN bps ELSE 0]
  /\ tick' = [tick EXCEPT !.phase = "step", !.floor = rate'.floor, !.late = FALSE, !.failed = FALSE]
  /\ UNCHANGED <<ctl, press, since>>

-----------------------------------------------------------------------------
(* BitrateController::step: what the selected path's counters say.           *)
OnPath(path) ==
  IF ctl.path = path THEN ctl
  ELSE [ctl EXCEPT !.path = path, !.rtt = NoRtt, !.rise = NoRtt, !.loss_hold = FALSE,
                   !.path_cooldown = 0, !.primed = FALSE]

(* A rise counts when a second observation under load confirms it.           *)
RttHigh(c, rtt, loaded) == rtt # NoRtt /\ c.rise # NoRtt /\ rtt > c.rise /\ loaded
Rise(c, rtt) ==
  IF rtt = NoRtt THEN c.rise
  ELSE IF c.rise = NoRtt /\ c.rtt # NoRtt /\ rtt > c.rtt THEN c.rtt ELSE NoRtt

Sampled(c, loss, rtt, loaded) ==
  [c EXCEPT !.loss_hold = IF loss = "filling" THEN @ ELSE loss = "moderate",
            !.rise = Rise(c, rtt), !.rtt = IF rtt = NoRtt THEN @ ELSE rtt,
            !.path_cooldown = Less(@), !.primed = TRUE, !.reason = "none", !.rtt_cut = FALSE]

PathStep(c, loss, rtt, loaded) ==
  LET s == Sampled(c, loss, rtt, loaded)
      high == RttHigh(c, rtt, loaded)
  IN IF ~c.primed THEN s
     ELSE IF loss = "severe" \/ high
          THEN IF s.path_cooldown # 0 THEN s
               ELSE [s EXCEPT !.current = Cut(@), !.path_cooldown = Cooldown, !.rtt_cut = high,
                              !.reason = IF loss = "severe" THEN "loss" ELSE "rtt"]
     ELSE IF tick.missed THEN [s EXCEPT !.current = Trim(@), !.reason = "deadline"]
     ELSE IF s.loss_hold THEN s
     ELSE [s EXCEPT !.current = Smaller(@ + @ \div 10, Ceiling)]

step ==
  /\ tick.phase = "step"
  /\ \/ /\ tick.path = NoPath
        /\ ctl' = [ctl EXCEPT !.current = IF tick.missed THEN Trim(@) ELSE @, !.rtt_cut = FALSE,
                              !.reason = IF tick.missed THEN "deadline" ELSE "none"]
        /\ tick' = [tick EXCEPT !.phase = "delivery", !.previous = ctl.current]
     \/ /\ tick.path # NoPath
        /\ \E loss \in {"filling", "clean", "moderate", "severe"}, rtt \in {NoRtt} \cup Levels, loaded \in BOOLEAN :
             /\ loss # "filling" => OnPath(tick.path).primed
             /\ ctl' = PathStep(OnPath(tick.path), loss, rtt, loaded)
             /\ tick' = [tick EXCEPT !.phase = "delivery", !.previous = ctl.current,
                                     !.calm = loss # "severe" /\ rtt \in {NoRtt, ctl.rtt} /\ ctl.rise = NoRtt]
  /\ UNCHANGED <<press, rate, since>>

-----------------------------------------------------------------------------
(* step_with_delivery_floor: receipts have the last word.  A media cut is    *)
(* taken from the target before the path's step, so that the two do not      *)
(* multiply.                                                                 *)
MediaCut(c) == Smaller(c.current, Cut(tick.previous))
Stronger(c) == MediaCut(c)
CutAllowed(c) == Less(c.cut_cooldown) = 0
Penalise(c) ==
  IF CutAllowed(c)
  THEN [c EXCEPT !.hold = Hold, !.cut_cooldown = Cooldown, !.path_cooldown = Cooldown,
                 !.current = Stronger(c),
                 !.reason = IF Cut(tick.previous) <= c.current THEN "media" ELSE @]
  ELSE [c EXCEPT !.hold = Hold, !.cut_cooldown = Less(@), !.current = Smaller(@, tick.previous)]

(* Fresh receipts may probe by one percent, through a moderate-loss hold.    *)
ProbeHold(c) == IF c.loss_hold /\ c.current = tick.previous
                THEN Smaller(Probe(tick.previous), Ceiling) ELSE c.current
Probed(c) == ProbeHold(c)
Relax(c) ==
  LET d == [c EXCEPT !.cut_cooldown = Less(@)]
  IN IF c.hold > 0 THEN [d EXCEPT !.hold = @ - 1, !.current = Smaller(@, tick.previous)]
     ELSE IF ~tick.delivered THEN [d EXCEPT !.current = Smaller(@, tick.previous)]
     ELSE [d EXCEPT !.current = Smaller(Probed(c), Probe(tick.previous))]

(* Declared losses alone do not push a healthy stream below its goodput.     *)
Unheld(c) == ctl.hold = 0 /\ c.hold = 0
HeldNow(c) == c.hold = 0                     \* mutant: the hold's last tick may already rise
Free(c) == Unheld(c)
Floored(c) ==
  IF /\ ~tick.impaired /\ tick.delivered /\ Free(c) /\ ~c.rtt_cut /\ c.rise = NoRtt
     /\ ~tick.missed /\ c.reason = "loss" /\ tick.floor # 0
  THEN [c EXCEPT !.current = Larger(@, Smaller(tick.floor, Ceiling))]
  ELSE c

step_with_delivery_floor ==
  /\ tick.phase = "delivery"
  /\ ctl' = [Floored(IF tick.impaired THEN Penalise(ctl) ELSE Relax(ctl))
              EXCEPT !.reason = "none", !.rtt_cut = FALSE]   \* both are reset by the next step
  /\ tick' = [FreshTick EXCEPT !.calm = tick.calm /\ tick.delivered /\ ~tick.impaired /\ ~tick.missed
                                         /\ ~tick.steered /\ ~tick.moved]
  /\ since' = [impaired |-> IF tick.impaired THEN 0 ELSE Smaller(since.impaired + 1, Hold),
               cut |-> IF tick.impaired /\ CutAllowed(ctl) THEN 0
                       ELSE IF tick.moved THEN Cooldown ELSE Smaller(since.cut + 1, Cooldown)]
  /\ UNCHANGED <<press, rate>>

PaceNext == Begin \/ Pressure \/ Goodput \/ step \/ step_with_delivery_floor
PaceSpec == PaceInit /\ [][PaceNext]_paceVars /\ WF_paceVars(PaceNext)

-----------------------------------------------------------------------------
(* Type invariant. *)
PaceTypeOK ==
  /\ ctl.current \in Floor .. Ceiling
  /\ ctl.hold \in 0 .. Hold /\ ctl.cut_cooldown \in 0 .. Cooldown /\ ctl.path_cooldown \in 0 .. Cooldown
  /\ press \in [stalled : 0 .. 2, delayed : 0 .. 2, penalized : BOOLEAN]
  /\ tick.phase \in {"wait", "pressure", "rate", "step", "delivery"}

Ends == tick.phase = "delivery" /\ tick'.phase = "wait"

(* session.rs 545-550: the controller does not raise the target during the   *)
(* Hold ticks after an impaired delivery, whatever the path's counters or    *)
(* the goodput floor say, on the tick the hold runs out included.  Only the  *)
(* viewer's own request, applied before the step, is not held.               *)
HeldAfterImpairment == [][Ends /\ since.impaired < Hold => ctl'.current <= tick.previous]_paceVars

(* session.rs 517-518 and 579-580: however path loss, round-trip growth and  *)
(* late receipts coincide, one tick takes one cut; and after a media cut     *)
(* neither source cuts again for Cooldown ticks on the same path.  A cut for *)
(* the path does not hold back the media cut of a later tick.                *)
CutsCoalesced ==
  [][Ends => /\ ctl'.current >= Cut(tick.previous)
             /\ since.cut + 1 < Cooldown /\ ~tick.moved /\ ~tick.missed => ctl'.current >= tick.previous]_paceVars

(* "Hold that reduction for five seconds" (session.rs 546-547) of a steered  *)
(* target too: a viewer's request raises it within the hold.                 *)
ReductionIsHeld == [][since.impaired < Hold => ctl'.current <= ctl.current]_paceVars

(* "never multiply both cuts" (session.rs 580) across ticks: receipts that   *)
(* are late a tick after the path's cut cut again.                           *)
OneCutPerCongestion ==
  [][Ends /\ ctl.path_cooldown \in 1 .. (Cooldown - 1) /\ ~tick.moved /\ ~tick.missed
       => ctl'.current >= tick.previous]_paceVars

-----------------------------------------------------------------------------
(***************************************************************************)
(* Audio packets from the encoder to the playout position (rds-audio): the *)
(* encoder's sequence numbers, a transport that loses, repeats and delays  *)
(* packets, and the bounded jitter buffer, whose pop reports a packet, one *)
(* missing interval or a jump.                                             *)
(*                                                                         *)
(* A packet is its sequence number; MaxSeq stands for u64::MAX, and sums   *)
(* wrap at it.  Samples, codec state and the counters are left out; that   *)
(* the codec may fail, and that a packet may be malformed, is kept.        *)
(***************************************************************************)

CONSTANTS MaxSeq,       \* u64::MAX: the reserved, exhausted position
          Capacity,     \* JitterBuffer::capacity
          TargetDelay,  \* JitterBuffer::target_delay, below Capacity
          MaxFlying,    \* packets under way at once
          MaxMishaps    \* losses, repeats and codec failures

VARIABLES next_seq,      \* OpusEncoder::next_seq
          flying,        \* packets under way
          packets,       \* JitterBuffer::packets
          next_sequence, \* JitterBuffer::next_sequence, -1: playout has not begun
          mishaps,
          encoded, lost, played, gapped, \* history: sequence numbers
          overtaken,     \* history: packet -> later packets that arrived before it
          overflowed     \* history: the buffer has been full

audioVars == <<next_seq, flying, packets, next_sequence, mishaps, encoded, lost, played, gapped, overtaken, overflowed>>

NotStarted == -1
Wrapped(n) == n % (MaxSeq + 1)

AudioInit ==
  /\ next_seq = 0 /\ flying = {} /\ packets = {}
  /\ next_sequence = NotStarted
  /\ mishaps = 0
  /\ encoded = {} /\ lost = {} /\ played = {} /\ gapped = {}
  /\ overtaken = [s \in 0 .. MaxSeq |-> 0]
  /\ overflowed = FALSE

-----------------------------------------------------------------------------
(* OpusEncoder::encode: a number is spent only on a packet that passes       *)
(* validation; the last number is never used.                                *)
Keeps == next_seq
AfterFailure == Keeps
Exhausted(s) == s = MaxSeq
Encode ==
  /\ ~Exhausted(next_seq) /\ Cardinality(flying) < MaxFlying
  /\ next_seq' = Wrapped(next_seq + 1)
  /\ flying' = flying \cup {next_seq}
  /\ encoded' = encoded \cup {next_seq}
  /\ UNCHANGED <<packets, next_sequence, mishaps, lost, played, gapped, overtaken, overflowed>>
EncodeFails ==
  /\ ~Exhausted(next_seq) /\ mishaps < MaxMishaps
  /\ mishaps' = mishaps + 1
  /\ next_seq' = AfterFailure
  /\ UNCHANGED <<flying, packets, next_sequence, encoded, lost, played, gapped, overtaken, overflowed>>

(* The transport; a malformed packet is refused by validate and lost too. *)
Lose ==
  /\ mishaps < MaxMishaps
  /\ \E s \in flying : flying' = flying \ {s} /\ lost' = lost \cup {s}
  /\ mishaps' = mishaps + 1
  /\ UNCHANGED <<next_seq, packets, next_sequence, encoded, played, gapped, overtaken, overflowed>>

-----------------------------------------------------------------------------
(* JitterBuffer::start_at *)
start_at ==
  /\ next_sequence = NotStarted
  /\ \E s \in 0 .. 1 :
       /\ next_sequence' = s
       /\ packets' = {p \in packets : p >= s}
  /\ UNCHANGED <<next_seq, flying, mishaps, encoded, lost, played, gapped, overtaken, overflowed>>

(* push: late, duplicate, full or retained. *)
Late(s) == next_sequence # NotStarted /\ s < next_sequence
IsLate(s) == Late(s)
Oldest == Min(packets)
Retained(s) ==
  IF IsLate(s) \/ s \in packets THEN packets
  ELSE IF Cardinality(packets) < Capacity THEN packets \cup {s}
  ELSE IF s < Oldest THEN packets
  ELSE (packets \ {Oldest}) \cup {s}
push ==
  \E s \in flying :
    /\ \/ flying' = flying \ {s} /\ UNCHANGED mishaps
       \/ mishaps < MaxMishaps /\ mishaps' = mishaps + 1 /\ UNCHANGED flying   \* it comes again
    /\ packets' = Retained(s)
    /\ overtaken' = [t \in 0 .. MaxSeq |-> IF t \in flying /\ t < s THEN Min({overtaken[t] + 1, TargetDelay + 1}) ELSE overtaken[t]]
    /\ overflowed' = (overflowed \/ (~IsLate(s) /\ s \notin packets /\ Cardinality(packets) = Capacity))
    /\ UNCHANGED <<next_seq, next_sequence, encoded, lost, played, gapped>>

(* pop: begins with the oldest packet if start_at was not called. *)
Position == IF next_sequence = NotStarted THEN Oldest ELSE next_sequence
MoreThanTarget == Cardinality(packets) > TargetDelay
GivesUp == MoreThanTarget
Distance == Oldest - Position
PopPacket ==
  /\ next_sequence # NotStarted \/ packets # {}
  /\ Position \in packets
  /\ packets' = packets \ {Position}
  /\ played' = played \cup {Position}
  /\ next_sequence' = Wrapped(Position + 1)
  /\ UNCHANGED <<next_seq, flying, mishaps, encoded, lost, gapped, overtaken, overflowed>>
PopGap ==
  /\ next_sequence # NotStarted /\ next_sequence \notin packets
  /\ GivesUp /\ Distance <= Capacity
  /\ next_sequence' = Wrapped(next_sequence + 1)
  /\ gapped' = gapped \cup {next_sequence}
  /\ UNCHANGED <<next_seq, flying, packets, mishaps, encoded, lost, played, overtaken, overflowed>>
PopDiscontinuity ==
  /\ next_sequence # NotStarted /\ next_sequence \notin packets
  /\ GivesUp /\ Distance > Capacity
  /\ next_sequence' = Oldest
  /\ gapped' = gapped \cup next_sequence .. (Oldest - 1)
  /\ UNCHANGED <<next_seq, flying, packets, mishaps, encoded, lost, played, overtaken, overflowed>>

AudioNext == Encode \/ EncodeFails \/ Lose \/ start_at \/ push \/ PopPacket \/ PopGap \/ PopDiscontinuity
AudioSpec == AudioInit /\ [][AudioNext]_audioVars

-----------------------------------------------------------------------------
(* Type invariant. *)
AudioTypeOK ==
  /\ packets \subseteq 0 .. MaxSeq /\ Cardinality(packets) <= Capacity
  /\ next_sequence \in NotStarted .. MaxSeq /\ next_seq \in 0 .. MaxSeq

(* lib.rs 437-438: the playout position never passes a retained packet, so   *)
(* the distance subtracted in pop is never negative, and no position is both *)
(* played and reported missing.                                              *)
PlayoutFloor ==
  /\ next_sequence # NotStarted => \A s \in packets : s >= next_sequence
  /\ played \cap gapped = {}

(* lib.rs 344-348: while the buffer does not overflow, an interval is        *)
(* concealed only for a packet that was lost, or that more than TargetDelay  *)
(* later ones overtook.  Concealing never fills a number that no packet had. *)
OnlyLossConcealed ==
  ~overflowed => \A s \in gapped : s \in lost \/ (s \in encoded /\ overtaken[s] > TargetDelay)
=============================================================================
