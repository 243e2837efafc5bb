----------------------------- MODULE PathPolicy -------------------------------
(* The path policy of one connection of the owned transport (rds-net/src/        *)
(* backends/noq: policy.rs, candidates.rs, socket/health.rs, telemetry.rs and    *)
(* the wiring in mod.rs): candidates become paths, one known path is selected,   *)
(* dead and draining relay slots are left. The QUIC engine (noq) that owns the   *)
(* paths and its bounded event broadcasts is external. This is the default path  *)
(* preference; the latency preference follows.                                   *)
EXTENDS Integers, Sequences, FiniteSets, FiniteSetsExt

CONSTANTS
    Direct,      \* the peer's direct addresses, all served by the child "udp"
    RelaySlots,  \* relay attachments; the peer has one address behind each
    Tickets,     \* the addresses of the dialled ticket
    First,       \* the address that won the handshake
    Rtt,         \* the measured round trip of every address
    SwitchMin,   \* RTT_SWITCHING_MIN
    MaxPaths,    \* MAX_MULTIPATH_PATHS
    MaxPathId,   \* bound on path identifiers
    EventCap,    \* capacity of the engine's event broadcasts
    MaxOffers,   \* bound on advertisements of the peer
    MaxFaults    \* bound on abandoned paths and failed transports

VARIABLES
    path,      \* the engine's paths: sets of identifiers by state, and their remotes
    events,    \* path events not yet read by the driver
    lagged,    \* the driver's event stream lost events it has not heard of
    remote,    \* the addresses the peer advertises now
    qnt,       \* advertisement events not yet read
    qntLagged,
    mask,      \* the endpoint's relay mask: [dead, drain]
    alive,     \* the mux children that have not failed
    driver,    \* the policy task's own state
    advert,    \* our addresses the peer was told
    wired,     \* whether the caller of spawn has advertised
    shown,     \* telemetry: [sel, lost]
    seen,      \* ghost: no path changed since the driver last looked
    spentPath  \* counts: offers, faults

pathVars == <<path, events, lagged, remote, qnt, qntLagged, mask, alive, driver, advert,
              wired, shown, seen, spentPath>>

Addrs == Direct \cup RelaySlots
Children == {"udp"} \cup RelaySlots
Child(a) == IF a \in RelaySlots THEN a ELSE "udp"
PathIds == 0 .. MaxPathId
Nobody == 0 - 1

\* connection_driver_observed up to its loop: only the handshake's path is known,
\* the ticket's addresses are offered.
PathInit ==
    /\ path = [open |-> {0}, opening |-> {}, gone |-> {}, avail |-> {0}, to |-> <<First>>]
    /\ events = <<>> /\ lagged = FALSE
    /\ remote = {} /\ qnt = <<>> /\ qntLagged = FALSE
    /\ mask \in {[dead |-> {}, drain |-> d] : d \in {{}} \cup {{s} : s \in RelaySlots}}
    /\ alive = Children
    /\ driver = [run |-> TRUE, known |-> {0}, sel |-> 0,
                 pend |-> [ticket |-> Tickets, learned |-> {}],
                 mask |-> mask, withdrawn |-> {}]
    /\ advert = {} /\ wired = FALSE
    /\ shown = [sel |-> 0, lost |-> FALSE] /\ seen = FALSE
    /\ spentPath = [offers |-> 0, faults |-> 0]

-----------------------------------------------------------------------------
(* The engine.                                                               *)

Live(e) == e.open \cup e.opening
To(e, i) == e.to[i + 1]
Towards(e, S) == {i \in Live(e) : To(e, i) \in S}

\* Identifiers are never used twice; abandoning a path allows one more.
Allowed(e) ==
    Len(e.to) <= MaxPathId /\ Len(e.to) <= (MaxPaths - 1) + Cardinality(e.gone)

\* Closing a set of paths: the engine refuses to close its last one.
Closed(e, S, last) ==
    LET stays == IF Live(e) \subseteq S THEN {last} ELSE {}
        out == (S \cap Live(e)) \ stays
    IN  [e EXCEPT !.open = @ \ out, !.opening = @ \ out, !.gone = @ \cup out,
                  !.avail = @ \ S]

\* A broadcast keeps the newest events; a reader that is behind is told so.
Overflow(q) == Len(q) > EventCap
Newest(q) == IF Overflow(q) THEN SubSeq(q, Len(q) - EventCap + 1, Len(q)) ELSE q

Announce(q, e, f) ==
    FoldSet(LAMBDA i, r : Append(r, [kind |-> "abandoned", id |-> i]), q, f.gone \ e.gone)

Validate(i) ==
    /\ i \in path.opening
    /\ path' = [path EXCEPT !.opening = @ \ {i}, !.open = @ \cup {i}]
    /\ LET q == Append(events, [kind |-> "established", id |-> i])
       IN  events' = Newest(q) /\ lagged' = (lagged \/ Overflow(q))
    /\ seen' = FALSE
    /\ UNCHANGED <<remote, qnt, qntLagged, mask, alive, driver, advert, wired, shown, spentPath>>

\* The engine or the peer abandons a path (idle timeout, failed validation).
Abandon(i) ==
    /\ i \in Live(path) /\ Live(path) # {i}
    /\ spentPath.faults < MaxFaults
    /\ path' = Closed(path, {i}, Nobody)
    /\ LET q == Announce(events, path, path')
       IN  events' = Newest(q) /\ lagged' = (lagged \/ Overflow(q))
    /\ spentPath' = [spentPath EXCEPT !.faults = @ + 1]
    /\ seen' = FALSE
    /\ UNCHANGED <<remote, qnt, qntLagged, mask, alive, driver, advert, wired, shown>>

\* The peer adds or withdraws an advertised address.
PeerOffers(a, on) ==
    /\ spentPath.offers < MaxOffers /\ (a \in remote) # on
    /\ remote' = IF on THEN remote \cup {a} ELSE remote \ {a}
    /\ LET q == Append(qnt, [add |-> on, to |-> a])
       IN  qnt' = Newest(q) /\ qntLagged' = (qntLagged \/ Overflow(q))
    /\ spentPath' = [spentPath EXCEPT !.offers = @ + 1]
    /\ UNCHANGED <<path, events, lagged, mask, alive, driver, advert, wired, shown, seen>>

\* bind_socket's watchers of an attachment fan into the endpoint's mask.
SlotDies(s) ==
    /\ s \notin mask.dead /\ spentPath.faults < MaxFaults
    /\ mask' = [mask EXCEPT !.dead = @ \cup {s}]
    /\ spentPath' = [spentPath EXCEPT !.faults = @ + 1]
    /\ UNCHANGED <<path, events, lagged, remote, qnt, qntLagged, alive, driver, advert, wired,
                   shown, seen>>

SlotDrains(s) ==
    /\ s \notin mask.dead \cup mask.drain /\ spentPath.faults < MaxFaults
    /\ mask' = [mask EXCEPT !.drain = @ \cup {s}]
    /\ spentPath' = [spentPath EXCEPT !.faults = @ + 1]
    /\ UNCHANGED <<path, events, lagged, remote, qnt, qntLagged, alive, driver, advert, wired,
                   shown, seen>>

\* Health::error: an error that is not about one packet retires the child.
ChildFails(c) ==
    /\ c \in alive /\ spentPath.faults < MaxFaults
    /\ alive' = alive \ {c}
    /\ spentPath' = [spentPath EXCEPT !.faults = @ + 1]
    /\ UNCHANGED <<path, events, lagged, remote, qnt, qntLagged, mask, driver, advert, wired,
                   shown, seen>>

\* wire_connection and Incoming advertise after the driver was spawned.
Advertise ==
    /\ ~wired
    /\ wired' = TRUE
    /\ advert' = Children
    /\ UNCHANGED <<path, events, lagged, remote, qnt, qntLagged, mask, alive, driver, shown, seen,
                   spentPath>>

-----------------------------------------------------------------------------
(* Pending: the candidates waiting for a path.                               *)

Waiting(p) == p.ticket \cup p.learned
Retain(p, S) == [ticket |-> p.ticket \cap S, learned |-> p.learned \cap S]

\* Pending::offer of an advertised address: an entry that is there stays as it is.
Offer(p, a) == [p EXCEPT !.learned = @ \cup ({a} \ p.ticket)]

\* Pending::withdraw: a ticket is a source of its own.
Withdraw(p, a) == [p EXCEPT !.learned = @ \ {a}]

Reconcile(p, S) == [p EXCEPT !.learned = S \ p.ticket]

\* attempt: open_path_ensure finds the path that is there, opens one as a backup,
\* or is told that no identifier is left and retries later.
Ensured(e, a) ==
    IF Towards(e, {a}) # {} \/ ~Allowed(e) THEN e
    ELSE [e EXCEPT !.opening = @ \cup {Len(e.to)}, !.to = Append(@, a)]

Placed(e, a) == Towards(e, {a}) # {} \/ Allowed(e)

\* poll_due: the candidates of `lost` expire or are rejected for good, those of
\* `due` are attempted.
OpenDue(e, p, due, lost) ==
    FoldSet(LAMBDA a, o : [e |-> Ensured(o.e, a),
                           p |-> IF Placed(o.e, a) THEN Retain(o.p, Addrs \ {a}) ELSE o.p],
            [e |-> e, p |-> Retain(p, Addrs \ lost)], due)

-----------------------------------------------------------------------------
(* reselect.                                                                 *)

Failed(e) == Towards(e, {a \in Addrs : Child(a) \notin alive})

Rank(e, i, m) == IF To(e, i) \in m.drain THEN 1000 ELSE Rtt[To(e, i)]

Selectable(e, k, m) == k \ (Failed(e) \cup Towards(e, m.dead))

\* The lowest rank, or the current selection unless it is beaten by SwitchMin.
Choice(e, c, sel, m) ==
    LET best == CHOOSE i \in c : \A j \in c : Rank(e, i, m) <= Rank(e, j, m)
    IN  IF sel \in c /\ Rank(e, best, m) + SwitchMin > Rank(e, sel, m) THEN sel ELSE best

\* Paths on a dead slot are closed, those on a draining one become backups; the
\* choice among the rest is made the only available path.
Reselect(e, known, sel, m, last) ==
    LET dead == known \cap Towards(e, m.dead)
        f == [Closed(e, dead, last) EXCEPT !.avail = @ \ Towards(e, m.drain)]
        k == known \cap Live(f)
        c == Selectable(f, k, m)
        choice == Choice(f, c, sel, m)
    IN  IF c = {} THEN [e |-> f, known |-> k, sel |-> Nobody]
        ELSE [e |-> [f EXCEPT !.avail = (@ \ k) \cup {choice}], known |-> k, sel |-> choice]

-----------------------------------------------------------------------------
(* One turn of the driver: what woke it, then the common tail.               *)

\* The rescan that reconciles lost events looks at the first identifiers.
Rescan(e) == {i \in e.open : i < MaxPaths}

\* Retiring slots are dropped from the candidates before any is opened.
\* (OpenFirst: the candidates are opened first.)
OpenFirst(p, m) == p
Admitted(p, m) == Retain(p, Addrs \ (m.dead \cup m.drain))

Withdrawable(d) == (d.mask.dead \cup d.mask.drain) \ d.withdrawn

\* Terminal children take their candidates and paths, retiring slots their
\* candidates and our advertisement; due candidates are opened, paths whose events
\* were lost are adopted, one is selected and published.
Serve(d, q, late) ==
    \E last \in d.known \cup {Nobody} :
        \E e \in {Closed(path, d.known \cap Failed(path), last)},
           p \in {Admitted(Retain(d.pend, {a \in Addrs : Child(a) \in alive}), d.mask)} :
        \E due \in SUBSET Waiting(p) : \E lost \in SUBSET (Waiting(p) \ due) :
        \E o \in {OpenDue(e, p, due, lost)} :
        \E r \in {Reselect(o.e, d.known \cup Rescan(o.e), d.sel, d.mask, last)} :
        \E ev \in {Announce(Announce(q, path, e), o.e, r.e)} :
            /\ path' = r.e
            /\ events' = Newest(ev) /\ lagged' = (late \/ Overflow(ev))
            /\ advert' = {a \in advert : a \in alive /\ a \notin Withdrawable(d)}
            /\ driver' = [d EXCEPT !.known = r.known, !.sel = r.sel, !.pend = o.p,
                                   !.withdrawn = @ \cup d.mask.dead \cup d.mask.drain]
            /\ shown' = [sel |-> r.sel, lost |-> shown.lost \/ late # lagged]
            /\ seen' = TRUE

\* All children failed: the policy closes the connection itself and ends.
GiveUp ==
    /\ path' = [path EXCEPT !.open = {}, !.opening = {}, !.avail = {}, !.gone = @ \cup Live(path)]
    /\ driver' = [driver EXCEPT !.run = FALSE, !.known = {}, !.sel = Nobody]
    /\ events' = <<>> /\ lagged' = FALSE
    /\ shown' = [shown EXCEPT !.sel = Nobody]
    /\ UNCHANGED <<advert, seen>>

\* The rest of a turn: d is the driver's state after what woke it, q the events
\* left, late whether it is still to hear of lost ones.
Pass(d, q, late) ==
    /\ driver.run
    /\ IF alive = {} THEN GiveUp ELSE Serve(d, q, late)
    /\ UNCHANGED <<remote, mask, alive, wired, spentPath>>

\* The interval, a due candidate or a change of the children's health.
Tick == Pass(driver, events, lagged) /\ UNCHANGED <<qnt, qntLagged>>

SeeMask ==
    /\ driver.mask # mask
    /\ Pass([driver EXCEPT !.mask = mask], events, lagged)
    /\ UNCHANGED <<qnt, qntLagged>>

SeeEvent ==
    /\ ~lagged /\ events # <<>>
    /\ LET v == Head(events)
           d == IF v.kind = "abandoned"
                THEN [driver EXCEPT !.known = @ \ {v.id}, !.sel = IF @ = v.id THEN Nobody ELSE @]
                ELSE [driver EXCEPT !.known = IF v.id \in Live(path) THEN @ \cup {v.id} ELSE @]
       IN  Pass(d, Tail(events), lagged)
    /\ UNCHANGED <<qnt, qntLagged>>

\* Telemetry::lagged: the loss is sticky for the diagnostics.
SeeLag ==
    /\ lagged
    /\ Pass(driver, events, FALSE)
    /\ UNCHANGED <<qnt, qntLagged>>

SeeOffer ==
    /\ ~qntLagged /\ qnt # <<>>
    /\ LET v == Head(qnt)
           d == [driver EXCEPT !.pend = IF v.add THEN Offer(@, v.to) ELSE Withdraw(@, v.to)]
       IN  Pass(d, events, lagged)
    /\ qnt' = Tail(qnt) /\ UNCHANGED qntLagged

\* reconcile_candidates after lost advertisements: the engine's present set.
SeeOfferLag ==
    /\ qntLagged
    /\ Pass([driver EXCEPT !.pend = Reconcile(@, remote)], events, lagged)
    /\ qntLagged' = FALSE /\ UNCHANGED qnt

PathEngine ==
    \/ \E i \in PathIds : Validate(i) \/ Abandon(i)
    \/ \E a \in Addrs : PeerOffers(a, TRUE) \/ PeerOffers(a, FALSE)
    \/ \E s \in RelaySlots : SlotDies(s) \/ SlotDrains(s)
    \/ \E c \in Children : ChildFails(c)

PathDriver == Tick \/ SeeMask \/ SeeEvent \/ SeeLag \/ SeeOffer \/ SeeOfferLag

PathNext == PathEngine \/ PathDriver \/ Advertise

\* A changed relay mask wakes the select, which takes that branch in the end.
PathFairness == WF_pathVars(SeeMask)

PathSpec == PathInit /\ [][PathNext]_pathVars /\ PathFairness

-----------------------------------------------------------------------------

PathTypeOK ==
    /\ path.open \cup path.opening \cup path.gone = 0 .. Len(path.to) - 1
    /\ path.avail \subseteq Live(path)
    /\ driver.known \subseteq PathIds /\ driver.sel \in driver.known \cup {Nobody}
    /\ Len(events) <= EventCap /\ Len(qnt) <= EventCap

\* Events the broadcast lost hide no path the driver's rescan reaches, that is, no
\* live validated path with an identifier below MAX_MULTIPATH_PATHS; and a later
\* one is hidden, once the driver has read every event, only when some were lost
\* and the telemetry says so (Telemetry::lagged).
HiddenOnlyByLoss ==
    seen /\ driver.run =>
        /\ {i \in path.open : i < MaxPaths} \subseteq driver.known
        /\ ~lagged /\ events = <<>> /\ ~shown.lost => path.open \subseteq driver.known

\* No step of the driver opens a path through a relay slot it knows to be dead or
\* draining, or through a transport that has failed.
NoPathIntoRetiring ==
    [][\A i \in path'.opening \ path.opening :
            /\ To(path', i) \notin driver'.mask.dead \cup driver'.mask.drain
            /\ Child(To(path', i)) \in alive]_pathVars

\* A path over a draining slot is only selected when nothing else can serve.
DrainIsLastResort ==
    seen /\ driver.sel # Nobody /\ To(path, driver.sel) \in driver.mask.drain =>
        \A i \in driver.known \cap path.open :
            \/ To(path, i) \in driver.mask.drain \cup driver.mask.dead
            \/ Child(To(path, i)) \notin alive

\* The rescan's comment: a lagged event must not hide a live path from selection.
\* Once the driver has read every event, heard of the lost ones and looked again,
\* every live validated path can be selected.
LiveIsSelectable ==
    seen /\ driver.run /\ ~lagged /\ events = <<>> => path.open \subseteq driver.known

\* The comment on the offer: dead and draining slots stay out of it. The driver
\* withdraws a slot once, and that turn may come before the offer is made.
RetiringWithdrawn == driver.run => advert \cap driver.withdrawn = {}

-----------------------------------------------------------------------------
(* The latency path preference (rds-net/src/ack_progress.rs and its use in        *)
(* backends/noq/policy.rs): every path's congestion controller records when it    *)
(* last had unanswered work and when it was last acknowledged; the policy retires *)
(* a stalled path once a sibling has answered during the failure, prefers         *)
(* confirmed paths, and reopens the ticket's standbys. A unit of time is half a   *)
(* second and every round trip is shorter, so an answer comes within the unit or  *)
(* not at all. The links and the engine's retransmission are external.            *)

CONSTANTS
    Routes,       \* the ticket's addresses, at most one live path to each
    StartRoute,        \* the address of the handshake's path
    Speed,        \* the rank of each address: its round trip
    StallAge,     \* Progress::stalled: max(4 rtt, 500 ms)
    ProbeAge,     \* Progress::needs_probe: 1 s
    ConfirmedFor, \* Progress::confirmed: max(8 rtt, 2 s)
    Interval,     \* RESELECT_INTERVAL
    MaxFlips,     \* bound on links going up or down
    MaxWork       \* bound on application writes

VARIABLES
    link,   \* whether each route carries packets
    route,  \* the path to each address
    news,   \* routes whose Established event the driver has not read
    standbys, \* established_standbys
    usual,  \* the path with status Available
    pick,   \* the driver's selected path
    wait,   \* time since the driver's last turn
    spent   \* counts: link changes, writes

latVars == <<link, route, news, standbys, usual, pick, wait, spent>>

Never == 0 - 1
Older(age) == IF age = Never \/ age = ConfirmedFor THEN age ELSE age + 1
NoRoute == [st |-> "none", pending |-> Never, confirmed |-> Never, flying |-> FALSE,
            work |-> FALSE, heard |-> Never]

\* heard is a ghost: how long ago the link last carried packets.
LatInit ==
    /\ link = [a \in Routes |-> TRUE]
    /\ route = [a \in Routes |-> IF a = StartRoute THEN [NoRoute EXCEPT !.st = "open", !.heard = 0]
                                 ELSE [NoRoute EXCEPT !.st = "opening", !.heard = 0]]
    /\ news = {} /\ standbys = {StartRoute}
    /\ usual = StartRoute /\ pick = StartRoute
    /\ wait = 0
    /\ spent = [flips |-> 0, work |-> 0]

Open == {a \in Routes : route[a].st = "open"}

-----------------------------------------------------------------------------
(* Progress, as the controller's callbacks drive it.                          *)

\* Progress::sent for a packet that elicits an acknowledgement.
Sent(r, work) == [r EXCEPT !.pending = IF @ = Never THEN 0 ELSE @, !.flying = TRUE,
                           !.work = @ \/ work]

\* Progress::ack and end_acks with nothing left in flight.
Acked(r) == [r EXCEPT !.confirmed = 0, !.pending = Never, !.flying = FALSE, !.work = FALSE]

Confirmed(r) == r.confirmed # Never /\ r.confirmed < ConfirmedFor
NeedsProbe(r) == r.confirmed = Never \/ r.confirmed >= ProbeAge
Stalled(r) == r.pending # Never /\ r.pending >= StallAge

\* Observation::can_replace: the sibling answered after the failed path's work began.
CanReplace(sibling, failed) ==
    /\ failed.pending # Never
    /\ sibling.confirmed # Never /\ sibling.confirmed < failed.pending
    /\ Confirmed(sibling) /\ ~Stalled(sibling)

Write ==
    /\ spent.work < MaxWork /\ Open # {}
    /\ \E a \in IF usual \in Open THEN {usual} ELSE Open :
            route' = [route EXCEPT ![a] = Sent(@, TRUE)]
    /\ spent' = [spent EXCEPT !.work = @ + 1]
    /\ UNCHANGED <<link, news, standbys, usual, pick, wait>>

Answer(a) ==
    /\ link[a] /\ route[a].st = "open" /\ route[a].flying
    /\ route' = [route EXCEPT ![a] = Acked(@)]
    /\ UNCHANGED <<link, news, standbys, usual, pick, wait, spent>>

\* The engine validates an opening path, whose packets are its first answer.
Validated(a) ==
    /\ link[a] /\ route[a].st = "opening"
    /\ route' = [route EXCEPT ![a] = [NoRoute EXCEPT !.st = "open", !.confirmed = 0, !.heard = 0]]
    /\ news' = news \cup {a}
    /\ UNCHANGED <<link, standbys, usual, pick, wait, spent>>

\* The engine gives up on a path that does not answer, unless it is the last; its
\* unacknowledged stream data goes out again elsewhere.
Moved(r, out) ==
    LET rest == {a \in Routes \ out : r[a].st = "open"}
        work == \E a \in out : r[a].work
        to == IF usual \in rest THEN usual ELSE CHOOSE a \in rest : TRUE
    IN  [a \in Routes |-> IF a \in out THEN [NoRoute EXCEPT !.heard = r[a].heard]
                          ELSE IF work /\ a = to THEN Sent(r[a], TRUE) ELSE r[a]]

TimesOut(a) ==
    /\ ~link[a]
    /\ \/ route[a].st = "opening" /\ route' = [route EXCEPT ![a] = [NoRoute EXCEPT !.heard = route[a].heard]]
       \/ route[a].st = "open" /\ Open # {a} /\ Stalled(route[a]) /\ route' = Moved(route, {a})
    /\ news' = news \ {a}
    /\ UNCHANGED <<link, standbys, usual, wait, spent>>
    /\ pick' = IF pick = a THEN "none" ELSE pick

Flip(a) ==
    /\ spent.flips < MaxFlips
    /\ link' = [link EXCEPT ![a] = ~@]
    /\ route' = [route EXCEPT ![a].heard = 0]
    /\ spent' = [spent EXCEPT !.flips = @ + 1]
    /\ UNCHANGED <<news, standbys, usual, pick, wait>>

\* Half a second: whatever a working link owes has been answered by then.
Elapse ==
    /\ wait < Interval
    /\ \A a \in Routes : link[a] => route[a].st # "opening" /\ ~(route[a].st = "open" /\ route[a].flying)
    /\ wait' = wait + 1
    /\ route' = [a \in Routes |-> [route[a] EXCEPT
                    !.pending = Older(@), !.confirmed = Older(@),
                    !.heard = IF link[a] THEN 0 ELSE Older(@)]]
    /\ UNCHANGED <<link, news, standbys, usual, pick, spent>>

-----------------------------------------------------------------------------
(* A turn of the driver: restore_standbys, then reselect.                     *)

\* Only ticket addresses that had a path are opened again: a candidate that was
\* never established is not offered for ever.
Restored == {a \in standbys : route[a].st = "none"}

\* The stalled paths with stream work whose sibling can replace them.
Retired ==
    {a \in Open : route[a].work /\ Stalled(route[a])
                  /\ \E b \in Open \ {a} : CanReplace(route[b], route[a])}

Preferred(c) == LET best == CHOOSE a \in c : \A b \in c : Speed[a] <= Speed[b]
                IN  IF pick \in c /\ Speed[best] + 1 > Speed[pick] THEN pick ELSE best

LatReselect(restored) ==
    /\ LET sound == {a \in Open : Confirmed(route[a]) /\ ~Stalled(route[a])}
           out == Retired
           able == {a \in Open \ out : ~Stalled(route[a])}
           c == IF sound # {} THEN able \cap sound ELSE able
           probed == [a \in Routes |-> IF a \in Open /\ NeedsProbe(route[a])
                                       THEN Sent(route[a], FALSE) ELSE route[a]]
           moved == IF out = {} THEN probed ELSE Moved(probed, out)
       IN  /\ route' = [a \in Routes |-> IF a \in restored THEN [moved[a] EXCEPT !.st = "opening"]
                                         ELSE moved[a]]
           /\ pick' = IF c = {} THEN "none" ELSE Preferred(c)
           /\ usual' = IF c # {} THEN Preferred(c)
                       ELSE IF usual \in out THEN CHOOSE b \in Open \ out : TRUE ELSE usual
    /\ UNCHANGED <<link, spent>>

\* The interval restores standbys; events, candidates and health wake it too.
Opened == {a \in Routes : route'[a].st = "open"}
Turn ==
    /\ wait = Interval /\ wait' = 0
    /\ LatReselect(Restored)
    /\ news' = news \cap Opened /\ UNCHANGED standbys
Wake ==
    /\ LatReselect({})
    /\ news' = news \cap Opened /\ UNCHANGED <<wait, standbys>>

\* The Established event of a path that is still there makes its address a standby.
Established(a) ==
    /\ a \in news
    /\ standbys' = standbys \cup {a}
    /\ LatReselect({})
    /\ news' = (news \ {a}) \cap Opened /\ UNCHANGED wait

\* The event is lost: the rescan adopts the path, and makes no standby of it.
EventLost(a) ==
    /\ a \in news
    /\ news' = news \ {a}
    /\ UNCHANGED <<link, route, standbys, usual, pick, wait, spent>>

LatNext ==
    \/ Write \/ Elapse \/ Turn \/ Wake
    \/ \E a \in Routes : Answer(a) \/ Validated(a) \/ TimesOut(a) \/ Flip(a)
                         \/ Established(a) \/ EventLost(a)

\* Time passes, the driver's interval fires and working links answer.
LatFairness ==
    /\ WF_latVars(Elapse) /\ WF_latVars(Turn)
    /\ \A a \in Routes : WF_latVars(Answer(a)) /\ WF_latVars(Validated(a))

LatSpec == LatInit /\ [][LatNext]_latVars /\ LatFairness

-----------------------------------------------------------------------------

LatTypeOK ==
    /\ \A a \in Routes : route[a].st \in {"none", "opening", "open"}
                         /\ route[a].pending \in Never .. ConfirmedFor
    /\ pick \in Open \cup {"none"}
    /\ Open # {}

\* Reliable work does not stay on a silent path while another established route
\* works: it is answered in the end, or no standby works.  A route that was never
\* established, or whose event was lost, is not opened again once it is gone.
StalledWorkMoves ==
    []<>((\A a \in Routes : ~route[a].work) \/ (\A a \in standbys : ~link[a]))

\* When every route fell silent before the work was sent, the policy closes none:
\* a path is only retired for a sibling that worked after the work began.
NeverStrands ==
    [][\A a \in Routes : route[a].st = "open" /\ route'[a].st = "none" /\ ~TimesOut(a) =>
            \E b \in Open \ {a} : link[b] \/ route[b].heard < route[a].pending]_latVars

=============================================================================
