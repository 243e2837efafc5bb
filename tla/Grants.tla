------------------------------- MODULE Grants ---------------------------------
(***************************************************************************)
(* Capability grants (rds-core/src/grant.rs) and the checks an agent makes *)
(* before it lets one open or renew a session (rds-agent/src/authz.rs).    *)
(*                                                                         *)
(* The issuer signs payloads by its own clock; the agent judges them by    *)
(* its own.  What was signed stays in `minted` and reaches the agent in    *)
(* any order, any number of times.  An option is a sequence of length at   *)
(* most one.  Signatures and keys are abstracted to `flaw`, the first      *)
(* binding of the payload that does not hold at this agent.                *)
(***************************************************************************)
EXTENDS Integers, Sequences, FiniteSets, TLAPS

CONSTANTS
  Scopes,           \* [services, ports, tenant] the issuer puts in its grants:
                    \* tenant stands for both version-3 claims
  PinnedTenant,     \* AgentPolicy::tenant
  SKEW,             \* SKEW_SECS
  Drift,            \* how far the two clocks may be apart
  MaxTtl,           \* AgentPolicy::grant_max_ttl
  MaxDate,          \* bound of both clocks
  MaxMinted         \* bound on the grants the issuer signs

VARIABLES
  issuerNow,        \* now_unix() at the issuer
  agentNow,         \* now_unix() at the agent
  minted,           \* the signed grants
  sound,            \* the ones among them nobody spoiled
  session,          \* <<>> or <<[first, current]>>: the live authorization
  refused           \* ghost: an honest renewal in its lifetime was refused

grantVars == <<issuerNow, agentNow, minted, sound, session, refused>>

GRANT_VERSION == 3
GRANT_VERSION_MIN == 2

Flaws == {"none", "issuer", "signature", "subject", "audience"}

\* GrantPayload.  Revision and interval of a freshly built payload are the
\* issuer's; a version-2 payload has no room for the version-3 claims.
Payload(version, revision, nonce, scope, from, until) ==
  [version |-> version, revision |-> revision, nonce |-> nonce,
   services |-> scope.services, ports |-> scope.ports, tenant |-> scope.tenant,
   not_before |-> from, expires_at |-> until, flaw |-> "none"]

\* GrantPayload::from(GrantPayloadV2): the claims come back absent.
FromV2(p) == [p EXCEPT !.tenant = <<>>]

\* Grant::decode: a version this build reads, a positive revision and a
\* non-empty interval.  <<>> is the error.
Decode(p) ==
  IF \/ p.version \notin {GRANT_VERSION_MIN, GRANT_VERSION}
     \/ p.revision = 0
     \/ p.expires_at <= p.not_before
  THEN <<>>
  ELSE <<IF p.version = GRANT_VERSION_MIN THEN FromV2(p) ELSE p>>

\* GrantPayload::id.
GrantId(p) == <<0, p.nonce>>

\* live_at, and the window verify() checks.  Mutant: no skew tolerance.
InWindowExact(p, now) == now >= p.not_before /\ now < p.expires_at
InWindow(p, now) == now + SKEW >= p.not_before /\ now < p.expires_at

\* Grant::verify.
Verify(p, now) ==
  IF \E d \in {Decode(p)[i] : i \in DOMAIN Decode(p)} :
       /\ d.flaw = "none"
       /\ InWindow(d, now)
       /\ d.expires_at - d.not_before <= MaxTtl
  THEN Decode(p) ELSE <<>>

\* The deployment binding authorize() checks after verify().
Bound(v) == PinnedTenant = <<>> \/ v.tenant = PinnedTenant

Accepted(p, now) ==
  {v \in {Verify(p, now)[i] : i \in DOMAIN Verify(p, now)} : Bound(v)}

\* VerifiedGrant::permits_renewal: "same" is the exact retry.
\* Mutant: the constraints are not compared.
SameBut(old, next) ==
  /\ GrantId(old) = GrantId(next)
  /\ old.services = next.services
  /\ old.tenant = next.tenant
SameScope(old, next) ==
  /\ GrantId(old) = GrantId(next)
  /\ old.services = next.services
  /\ old.ports = next.ports
  /\ old.tenant = next.tenant

permits_renewal(old, next) ==
  IF old = next THEN "same"
  ELSE IF /\ SameScope(old, next)
          /\ next.revision > old.revision
          /\ next.not_before >= old.not_before
          /\ next.expires_at > old.expires_at
       THEN "extends" ELSE "invalid"

-----------------------------------------------------------------------------
(* What a verified grant lets its session do.                              *)

permits(p, kind) == kind \in p.services
permits_sync_read(p) == permits(p, "Sync") \/ permits(p, "SyncRead")
permits_sync_write(p) == permits(p, "Sync") \/ permits(p, "SyncWrite")

permits_desktop_view(p) == permits(p, "Desktop") \/ permits(p, "DesktopView")
permits_desktop_control(p) ==
  \/ permits(p, "Desktop")
  \/ permits(p, "DesktopView") /\ permits(p, "DesktopControl")

\* permits_service: which streams are admitted.
permits_service(p, kind) ==
  CASE kind = "Sync" -> permits_sync_read(p) \/ permits_sync_write(p)
    [] kind = "Desktop" -> permits_desktop_view(p)
    [] OTHER -> permits(p, kind)

permits_port(p, port) == \A i \in DOMAIN p.ports : port \in p.ports[i]

Ports == UNION {UNION {s.ports[i] : i \in DOMAIN s.ports} : s \in Scopes} \cup {0}

\* Every operation the session may perform.
Rights(p) ==
  [streams |-> {kind \in {"Ping", "Tcp", "Sync", "Desktop"} : permits_service(p, kind)},
   ports |-> {n \in Ports : permits_port(p, n)},
   read |-> permits_sync_read(p),
   write |-> permits_sync_write(p),
   view |-> permits_desktop_view(p),
   control |-> permits_desktop_control(p)]

-----------------------------------------------------------------------------

GrantInit ==
  /\ issuerNow = Drift /\ agentNow \in 0 .. 2 * Drift
  /\ minted = {} /\ sound = {}
  /\ session = <<>>
  /\ refused = FALSE

\* The ways a signed payload can be wrong for this agent.
Spoiled(p) ==
  {[p EXCEPT !.version = 1], [p EXCEPT !.revision = 0],
   [p EXCEPT !.expires_at = @ + 1], [p EXCEPT !.not_before = p.expires_at]}
  \cup {[p EXCEPT !.flaw = f] : f \in Flaws \ {"none"}}

\* Grant::issue and issue_at: the issuer signs a payload valid from its own
\* clock.  The revisions of one nonce increase; their scope need not stay.
Issue ==
  /\ Cardinality(minted) < MaxMinted
  /\ \E version \in {GRANT_VERSION_MIN, GRANT_VERSION}, nonce \in 1 .. 2, scope \in Scopes :
       LET revision == 1 + Cardinality({p \in minted : p.nonce = nonce})
           p == Payload(version, revision, nonce, scope, issuerNow, issuerNow + MaxTtl)
       IN /\ nonce <= 1 + Cardinality({q.nonce : q \in minted})
          /\ \E q \in {p} \cup (IF minted \subseteq sound THEN Spoiled(p) ELSE {}) :
               /\ minted' = minted \cup {q}
               /\ sound' = IF q = p THEN sound \cup {q} ELSE sound
  /\ UNCHANGED <<issuerNow, agentNow, session, refused>>

Claims(p) == IF p.version = GRANT_VERSION_MIN THEN <<>> ELSE p.tenant

\* A grant the agent has every reason to take: rightly bound, signed by a
\* clock within the tolerance for no longer than allowed, not yet expired.
Worthy(p) ==
  /\ p.flaw = "none"
  /\ p.version \in {GRANT_VERSION_MIN, GRANT_VERSION}
  /\ p.revision > 0
  /\ p.expires_at - p.not_before \in 1 .. MaxTtl
  /\ agentNow < p.expires_at
  /\ PinnedTenant \in {<<>>, Claims(p)}

Continues(old, p) ==
  /\ p.nonce = old.nonce
  /\ p.services = old.services /\ p.ports = old.ports /\ Claims(p) = old.tenant
  /\ p.revision > old.revision /\ p.expires_at > old.expires_at

\* The first Authz of a connection (authorize, install).
Open(p) ==
  /\ session = <<>>
  /\ LET taken == Accepted(p, agentNow)
     IN /\ session' = IF taken = {} THEN <<>>
                      ELSE <<[first |-> CHOOSE v \in taken : TRUE,
                              current |-> CHOOSE v \in taken : TRUE]>>
        /\ refused' = (refused \/ (taken = {} /\ Worthy(p)))
  /\ UNCHANGED <<issuerNow, agentNow, minted, sound>>

\* A later Authz of the same connection (authorize, prepare_renewal,
\* commit_renewal).  A refused one closes the connection.
Renew(p) ==
  /\ session # <<>>
  /\ InWindow(session[1].current, agentNow)
  /\ LET old == session[1].current
         taken == {v \in Accepted(p, agentNow) : permits_renewal(old, v) # "invalid"}
     IN /\ session' = IF taken = {} THEN <<>>
                      ELSE <<[session[1] EXCEPT !.current = CHOOSE v \in taken : TRUE]>>
        /\ refused' = (refused \/ (taken = {} /\ Worthy(p) /\ Continues(old, p)))
  /\ UNCHANGED <<issuerNow, agentNow, minted, sound>>

\* The deadline of the current grant passes, or the connection ends.
End ==
  /\ session # <<>>
  /\ session' = <<>>
  /\ UNCHANGED <<issuerNow, agentNow, minted, sound, refused>>

\* The clocks advance; a session does not outlive its deadline (ConnAuthz).
GrantTick ==
  \/ /\ issuerNow < MaxDate /\ issuerNow - agentNow < Drift
     /\ issuerNow' = issuerNow + 1
     /\ UNCHANGED <<agentNow, minted, sound, session, refused>>
  \/ /\ agentNow < MaxDate /\ agentNow - issuerNow < Drift
     /\ agentNow' = agentNow + 1
     /\ session' = IF session # <<>> /\ ~ InWindow(session[1].current, agentNow')
                   THEN <<>> ELSE session
     /\ UNCHANGED <<issuerNow, minted, sound, refused>>

GrantNext ==
  \/ Issue \/ End \/ GrantTick
  \/ \E p \in minted : Open(p) \/ Renew(p)

GrantSpec == GrantInit /\ [][GrantNext]_grantVars

-----------------------------------------------------------------------------

GrantTypeOK ==
  /\ issuerNow \in 0 .. MaxDate /\ agentNow \in 0 .. MaxDate
  /\ Len(session) <= 1
  /\ refused \in BOOLEAN

\* However many renewals a session has taken, in whatever order they arrived
\* and of whichever payload version, it may do exactly what the grant that
\* opened it allowed ("Renewal increases it without changing scope",
\* permits_renewal).
ScopeKept ==
  session # <<>> => Rights(session[1].current) = Rights(session[1].first)

\* A grant signed by a clock within the tolerance, presented before it
\* expires, is never refused for its dates or its version: neither at the
\* opening nor when it continues the session it finds (verify, GrantPayload::id
\* and permits_renewal across the version-2 cutover).
WorthyIsTaken == ~ refused

\* A stream is admitted exactly when some operation on it is allowed, so no
\* capability opens a stream it can do nothing on, and none is shut out of a
\* stream it needs (permits_service against the per-operation checks).
AdmissionAgrees ==
  session # <<>> =>
    LET r == Rights(session[1].current)
    IN /\ ("Sync" \in r.streams) = (r.read \/ r.write)
       /\ ("Desktop" \in r.streams) = (r.view \/ r.control)
       /\ r.control => r.view

-----------------------------------------------------------------------------
(***************************************************************************)
(* Theorem about Grants: renewals never change what a session may do, for  *)
(* every set of scopes, every tolerance and any number of grants.          *)
(***************************************************************************)

\* What the checks of permits_renewal compare, kept over the whole chain.
ScopeInv ==
  session # <<>> =>
    /\ session[1].current.services = session[1].first.services
    /\ session[1].current.ports = session[1].first.ports

\* What a grant allows depends on its services and ports alone: no permits_*
\* operation reads the revision, the version or the dates.
LEMMA RightsOfScope ==
  ASSUME NEW p, NEW q, p.services = q.services, p.ports = q.ports
  PROVE  Rights(p) = Rights(q)
BY DEF Rights, permits, permits_service, permits_port, permits_sync_read,
       permits_sync_write, permits_desktop_view, permits_desktop_control

\* An accepted renewal has the scope of the grant it replaces.
LEMMA RenewalKeepsScope ==
  ASSUME NEW old, NEW next, permits_renewal(old, next) # "invalid"
  PROVE  next.services = old.services /\ next.ports = old.ports
BY DEF permits_renewal, SameScope

\* The inductive step: one step per action.
LEMMA ScopeStep == ScopeInv /\ [GrantNext]_grantVars => ScopeInv'
<1> SUFFICES ASSUME ScopeInv, [GrantNext]_grantVars PROVE ScopeInv'
  OBVIOUS
<1>1. CASE Issue
  BY <1>1 DEF Issue, ScopeInv
<1>2. CASE End
  BY <1>2 DEF End, ScopeInv
<1>3. CASE GrantTick
  BY <1>3 DEF GrantTick, ScopeInv
<1>4. ASSUME NEW p \in minted, Open(p) PROVE ScopeInv'
  BY <1>4 DEF Open, ScopeInv
<1>5. ASSUME NEW p \in minted, Renew(p) PROVE ScopeInv'
  <2> DEFINE old == session[1].current
             taken == {v \in Accepted(p, agentNow) : permits_renewal(old, v) # "invalid"}
             v == CHOOSE x \in taken : TRUE
  <2>1. CASE taken = {}
    BY <1>5, <2>1 DEF Renew, ScopeInv
  <2>2. CASE taken # {}
    <3>1. v \in taken
      BY <2>2
    <3>2. v.services = old.services /\ v.ports = old.ports
      BY <3>1, RenewalKeepsScope
    <3>3. session' = <<[session[1] EXCEPT !.current = v]>>
      BY <1>5, <2>2 DEF Renew
    <3>4. QED
      BY <1>5, <3>2, <3>3 DEF Renew, ScopeInv
  <2>3. QED
    BY <2>1, <2>2
<1>6. CASE UNCHANGED grantVars
  BY <1>6 DEF grantVars, ScopeInv
<1>7. QED
  BY <1>1, <1>2, <1>3, <1>4, <1>5, <1>6 DEF GrantNext

\* A session may do exactly what the grant that opened it allowed, after any
\* number of renewals and for every configuration (permits_renewal).
THEOREM RenewalsKeepScope == GrantSpec => []ScopeKept
<1>1. GrantInit => ScopeInv
  BY DEF GrantInit, ScopeInv
<1>2. ScopeInv => ScopeKept
  BY RightsOfScope DEF ScopeInv, ScopeKept
<1>3. QED
  BY <1>1, <1>2, ScopeStep, PTL DEF GrantSpec
=============================================================================
