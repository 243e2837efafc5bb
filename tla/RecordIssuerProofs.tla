-------------------------- MODULE RecordIssuerProofs --------------------------
(***************************************************************************)
(* Proofs that the record issuer never reuses a revision, that whatever it *)
(* returns is committed and that issue times follow revisions, for every   *)
(* set of drafts and lifetimes and every bound.                            *)
(***************************************************************************)
EXTENDS RecordIssuer, TLAPS

\* The type invariant of the issuer and its file (publisher.rs State).
LEMMA Typing == Spec => []TypeOK
<1>1. Init => TypeOK
  <2>1. Fresh \in State /\ 0 \in Wall
    BY BoundsAssumption DEF Fresh, State, Revision, Wall
  <2> QED BY <2>1 DEF Init, TypeOK
<1>2. TypeOK /\ [Next]_vars => TypeOK'
  <2> SUFFICES ASSUME TypeOK, [Next]_vars PROVE TypeOK'
    OBVIOUS
  <2>0. Fresh \in State /\ 0 \in Wall
    BY BoundsAssumption DEF Fresh, State, Revision, Wall
  <2>1. ASSUME NEW b \in BOOLEAN, OpenExisting(b) PROVE TypeOK'
    BY <2>0, <2>1 DEF TypeOK, OpenExisting, Own, memory
  <2>2. ASSUME NEW o \in WriteOutcome, NEW b \in BOOLEAN, OpenNew(o, b)
        PROVE TypeOK'
    BY <2>0, <2>2 DEF TypeOK, OpenNew, Own, Write, memory
  <2>3. ASSUME NEW d \in Drafts, NEW t \in Ttls, ReuseRecord(d, t)
        PROVE TypeOK'
    BY <2>3 DEF TypeOK, ReuseRecord, Reusable, Return, State
  <2>c. ASSUME NEW m \in Mutation, NEW o \in WriteOutcome, Commit(m, o),
               UNCHANGED <<wall, sealed>>
        PROVE TypeOK'
    <3> DEFINE next == [revision |-> m.revision, wall_floor |-> wall,
                        pending |-> m]
    <3>1. next \in State
      BY DEF State, Mutation, Record, Delete, TypeOK
    <3>2. /\ disk' \in State \cup {None}
          /\ synced' \in State \cup {None}
      BY <3>1, <2>c DEF Commit, Write, TypeOK
    <3>3. CASE o.result = "ok"
      BY <3>1, <3>2, <3>3, <2>c DEF Commit, TypeOK
    <3>4. CASE o.result = "full"
      BY <3>1, <3>2, <3>4, <2>c DEF Commit, TypeOK
    <3>5. CASE o.result = "error"
      BY <3>1, <3>2, <3>5, <2>c DEF Commit, TypeOK
    <3>6. CASE o.result = "died"
      BY <2>0, <3>2, <3>6, <2>c DEF Commit, Close, TypeOK
    <3> QED BY <3>3, <3>4, <3>5, <3>6 DEF WriteOutcome
  <2>4. ASSUME NEW d \in Drafts, NEW t \in Ttls, NEW renew \in BOOLEAN,
               NEW o \in WriteOutcome, IssueRecord(d, t, renew, o)
        PROVE TypeOK'
    <3>1. [kind |-> "record", revision |-> NextRevision, issued |-> wall,
           ttl |-> t, draft |-> d] \in Mutation
      BY <2>4 DEF IssueRecord, Mutation, Record, TypeOK
    <3> QED BY <3>1, <2>c, <2>4 DEF IssueRecord
  <2>5. CASE ReuseDelete
    BY <2>5 DEF TypeOK, ReuseDelete, FreshDelete, Return, State
  <2>6. ASSUME NEW o \in WriteOutcome, IssueDelete(o) PROVE TypeOK'
    <3>1. [kind |-> "delete", revision |-> NextRevision, issued |-> wall,
           ttl |-> DeleteTtl, draft |-> None] \in Mutation
      BY <2>6 DEF IssueDelete, Mutation, Delete, TypeOK
    <3> QED BY <3>1, <2>c, <2>6 DEF IssueDelete
  <2>7. CASE Exhausted
    BY <2>7 DEF TypeOK, Exhausted, diskVars
  <2>8. ASSUME NEW o \in WriteOutcome, RecoverStorageFull(o) PROVE TypeOK'
    <3>1. CASE o.result = "ok"
      BY <3>1, <2>8 DEF TypeOK, RecoverStorageFull, Write, Own
    <3>2. CASE o.result = "died"
      BY <2>0, <3>2, <2>8 DEF TypeOK, RecoverStorageFull, Write, Close
    <3>3. CASE o.result \notin {"ok", "died"}
      BY <3>3, <2>8 DEF TypeOK, RecoverStorageFull, Write
    <3> QED BY <3>1, <3>2, <3>3
  <2>9. CASE ClockStep
    BY <2>9 DEF TypeOK, ClockStep, diskVars, memory
  <2>10. CASE Exit
    BY <2>0, <2>10 DEF TypeOK, Exit, Close, diskVars
  <2>11. CASE PowerLoss
    BY <2>0, <2>11 DEF TypeOK, PowerLoss, Close
  <2>12. CASE UNCHANGED vars
    BY <2>12 DEF TypeOK, vars
  <2> QED BY <2>1, <2>2, <2>3, <2>4, <2>5, <2>6, <2>7, <2>8, <2>9, <2>10,
             <2>11, <2>12 DEF Next
<1> QED BY <1>1, <1>2, PTL DEF Spec

\* The inductive strengthening.  Every returned mutation is covered by the
\* committed state (revision, exact bytes at equal revision, issue time), and
\* the owned state is the committed one unless a write is unresolved.
Committed(m) ==
    /\ m.revision <= disk.revision
    /\ m.revision = disk.revision => m = disk.pending
    /\ m.issued <= disk.wall_floor

IssuerInv ==
    /\ disk # None => Validate(disk)
    /\ disk = None => released = {}
    /\ \A m \in released : Committed(m)
    /\ UniqueRevision
    /\ IssueTimesFollowRevisions
    /\ FailureIsOneWriteDeep

\* A step that leaves the file and the history alone and either closes the
\* issuer, or owns the committed state, keeps the invariant.
LEMMA Reowned ==
    ASSUME TypeOK, IssuerInv, UNCHANGED <<disk, released>>,
           Close \/ (disk # None /\ Own(disk))
    PROVE  IssuerInv'
<1>1. FailureIsOneWriteDeep'
  BY DEF FailureIsOneWriteDeep, Close, Own
<1>2. UniqueRevision' /\ IssueTimesFollowRevisions'
  BY DEF IssuerInv, UniqueRevision, IssueTimesFollowRevisions
<1>3. \A m \in released' : Committed(m)'
  BY DEF IssuerInv, Committed
<1> QED BY <1>1, <1>2, <1>3 DEF IssuerInv, Validate

\* Returning the committed pending mutation again adds nothing new.
LEMMA Returned ==
    ASSUME TypeOK, IssuerInv, CheckClock, state.pending # None,
           Return(state.pending)
    PROVE  IssuerInv'
<1>1. disk = state /\ attempt = None /\ disk # None
  BY DEF IssuerInv, FailureIsOneWriteDeep, CheckClock
<1>2. Committed(state.pending) /\ state.pending \in Mutation
  BY <1>1 DEF IssuerInv, Validate, Committed, TypeOK, State, Mutation, Record,
              Delete, Wall, Revision
<1>3. \A m \in released' : Committed(m) /\ m \in Mutation
  BY <1>2 DEF IssuerInv, Return, TypeOK
<1>4. \A m \in released' : Committed(m)'
  BY <1>3 DEF Committed, Return
<1>5. \A m \in released :
        /\ m.revision = state.pending.revision => m = state.pending
        /\ m.revision <= state.pending.revision
        /\ m.issued <= state.pending.issued
  BY <1>1 DEF IssuerInv, Committed, Validate
<1>6. UniqueRevision'
  BY <1>5 DEF UniqueRevision, Return, IssuerInv
<1>7. IssueTimesFollowRevisions'
  <2> SUFFICES ASSUME NEW a \in released', NEW b \in released',
                      a.revision < b.revision
               PROVE  a.issued <= b.issued
    BY DEF IssueTimesFollowRevisions
  <2>1. CASE a \in released /\ b \in released
    BY <2>1 DEF IssuerInv, IssueTimesFollowRevisions
  <2>2. CASE b = state.pending
    BY <2>2, <1>5, <1>3 DEF Return, Mutation, Record, Delete, Wall
  <2>3. CASE a = state.pending /\ b \in released
    <3>1. b.revision <= a.revision
      BY <2>3, <1>5
    <3>2. a.revision \in Nat /\ b.revision \in Nat
      BY <1>3, BoundsAssumption DEF Mutation, Record, Delete, Revision
    <3> QED BY <3>1, <3>2
  <2> QED BY <2>1, <2>2, <2>3 DEF Return
<1>8. FailureIsOneWriteDeep'
  BY <1>1 DEF FailureIsOneWriteDeep, Return, CheckClock
<1> QED BY <1>1, <1>4, <1>6, <1>7, <1>8 DEF IssuerInv, Validate, Return

\* Committing a successor keeps the invariant whatever the write's outcome.
LEMMA CommittedSuccessor ==
    ASSUME TypeOK, IssuerInv, CheckClock, NEW m \in Mutation,
           NEW o \in WriteOutcome, m.revision = NextRevision,
           m.issued = wall, Commit(m, o)
    PROVE  IssuerInv'
<1> DEFINE next == [revision |-> m.revision, wall_floor |-> wall,
                    pending |-> m]
<1>1. disk = state /\ attempt = None /\ disk # None /\ open /\ ~failed
  BY DEF IssuerInv, FailureIsOneWriteDeep, CheckClock
<1>2. /\ disk.revision \in Nat /\ disk.wall_floor \in Nat /\ wall \in Nat
      /\ wall >= disk.wall_floor
  BY <1>1, BoundsAssumption
  DEF TypeOK, State, CheckClock, ClockOk, Wall, Revision
<1>3. m # None /\ next # None /\ next # disk
  <2>1. m # None
    BY NoneAssumption
  <2>2. next \in State
    BY DEF State, TypeOK, Mutation, Record, Delete
  <2>3. next.revision # disk.revision
    BY <1>1, <1>2 DEF NextRevision
  <2> QED BY <2>1, <2>2, <2>3, NoneAssumption
<1>4. \A r \in released : /\ r.revision \in Nat /\ r.issued \in Nat
                          /\ r.revision < m.revision
                          /\ r.issued <= m.issued
  <2>1. \A r \in released : /\ r.revision \in Nat /\ r.issued \in Nat
                            /\ r.revision <= disk.revision
                            /\ r.issued <= disk.wall_floor
    BY BoundsAssumption DEF TypeOK, IssuerInv, Committed, Mutation, Record,
                            Delete, Revision, Wall
  <2> QED BY <2>1, <1>1, <1>2 DEF NextRevision
<1>5. disk' = next \/ disk' = disk
  BY DEF Commit, Write
<1>6. released' = released \/ (released' = released \cup {m} /\ disk' = next)
  BY DEF Commit, Write, WriteOutcome
<1>7. disk' # None /\ Validate(disk')
  BY <1>1, <1>3, <1>5 DEF Validate, IssuerInv
<1>8. \A r \in released' : Committed(r)'
  <2>1. CASE disk' = disk
    BY <2>1, <1>3, <1>6 DEF IssuerInv, Committed
  <2>2. CASE disk' = next
    BY <2>2, <1>2, <1>4, <1>6, <1>1 DEF Committed, NextRevision
  <2> QED BY <2>1, <2>2, <1>5
<1>9. UniqueRevision'
  <2>1. \A r \in released : r.revision # m.revision
    BY <1>4, <1>1, <1>2 DEF NextRevision
  <2> QED BY <2>1, <1>6 DEF IssuerInv, UniqueRevision
<1>10. IssueTimesFollowRevisions'
  <2>1. m.revision \in Nat /\ m.issued \in Nat
    BY <1>1, <1>2 DEF NextRevision
  <2> SUFFICES ASSUME NEW a \in released', NEW b \in released',
                      a.revision < b.revision
               PROVE  a.issued <= b.issued
    BY DEF IssueTimesFollowRevisions
  <2>2. CASE a \in released /\ b \in released
    BY <2>2 DEF IssuerInv, IssueTimesFollowRevisions
  <2>3. CASE a \in released /\ b = m
    BY <2>3, <1>4
  <2>4. CASE a = m
    BY <2>4, <2>1, <1>4, <1>6
  <2> QED BY <2>2, <2>3, <2>4, <1>6
<1>11. FailureIsOneWriteDeep'
  <2>1. CASE o.result = "ok"
    BY <2>1, <1>1, <1>3 DEF Commit, Write, WriteOutcome, FailureIsOneWriteDeep
  <2>2. CASE o.result = "full"
    BY <2>2, <1>1, <1>3, <1>5 DEF Commit, FailureIsOneWriteDeep, NextRevision
  <2>3. CASE o.result = "error"
    BY <2>3, <1>1, <1>3, <1>5 DEF Commit, FailureIsOneWriteDeep, NextRevision
  <2>4. CASE o.result = "died"
    BY <2>4 DEF Commit, Close, FailureIsOneWriteDeep
  <2> QED BY <2>1, <2>2, <2>3, <2>4 DEF WriteOutcome
<1> QED BY <1>7, <1>8, <1>9, <1>10, <1>11 DEF IssuerInv, Validate

\* The invariant is inductive when a visible rename survives power loss.
LEMMA Inductive ==
    ASSUME RenameSurvives, TypeOK, IssuerInv, [Next]_vars PROVE IssuerInv'
<1>1. ASSUME NEW b \in BOOLEAN, OpenExisting(b) PROVE IssuerInv'
  <2>1. CASE Own(disk)
    BY <1>1, <2>1, Reowned DEF OpenExisting
  <2>2. CASE UNCHANGED <<open, memory>>
    BY <1>1, <2>2
    DEF OpenExisting, memory, IssuerInv, Committed, UniqueRevision, Validate,
        IssueTimesFollowRevisions, FailureIsOneWriteDeep
  <2> QED BY <1>1, <2>1, <2>2 DEF OpenExisting
<1>2. ASSUME NEW o \in WriteOutcome, NEW b \in BOOLEAN, OpenNew(o, b)
      PROVE IssuerInv'
  <2>1. released' = {}
    BY <1>2 DEF OpenNew, IssuerInv
  <2>2. disk' # None => disk' = Fresh /\ Validate(disk')
    BY <1>2 DEF OpenNew, Write, Fresh, Validate
  <2>3. Fresh # None
    <3>1. Fresh \in State
      BY BoundsAssumption DEF Fresh, State, Revision, Wall
    <3> QED BY <3>1, NoneAssumption
  <2>4. FailureIsOneWriteDeep'
    <3>1. open' => Own(Fresh) /\ o.result = "ok"
      BY <1>2 DEF OpenNew
    <3>2. o.result = "ok" => disk' = Fresh
      BY <1>2 DEF OpenNew, Write, WriteOutcome
    <3> QED BY <2>3, <3>1, <3>2 DEF Own, FailureIsOneWriteDeep
  <2> QED
    BY <2>1, <2>2, <2>4
    DEF IssuerInv, Validate, UniqueRevision, IssueTimesFollowRevisions
<1>3. ASSUME NEW d \in Drafts, NEW t \in Ttls, ReuseRecord(d, t)
      PROVE IssuerInv'
  BY <1>3, Returned DEF ReuseRecord, Reusable
<1>4. ASSUME NEW d \in Drafts, NEW t \in Ttls, NEW renew \in BOOLEAN,
             NEW o \in WriteOutcome, IssueRecord(d, t, renew, o)
      PROVE IssuerInv'
  <2> DEFINE m == [kind |-> "record", revision |-> NextRevision,
                   issued |-> wall, ttl |-> t, draft |-> d]
  <2>1. m \in Mutation /\ m.revision = NextRevision /\ m.issued = wall
    BY <1>4 DEF IssueRecord, Mutation, Record, TypeOK
  <2> QED BY <1>4, <2>1, CommittedSuccessor DEF IssueRecord
<1>5. CASE ReuseDelete
  BY <1>5, Returned DEF ReuseDelete, FreshDelete
<1>6. ASSUME NEW o \in WriteOutcome, IssueDelete(o) PROVE IssuerInv'
  <2> DEFINE m == [kind |-> "delete", revision |-> NextRevision,
                   issued |-> wall, ttl |-> DeleteTtl, draft |-> None]
  <2>1. m \in Mutation /\ m.revision = NextRevision /\ m.issued = wall
    BY <1>6 DEF IssueDelete, Mutation, Delete, TypeOK
  <2> QED BY <1>6, <2>1, CommittedSuccessor DEF IssueDelete
<1>7. ASSUME UNCHANGED <<disk, open, state, failed, attempt, released>>
      PROVE IssuerInv'
  BY <1>7
  DEF IssuerInv, Committed, UniqueRevision, Validate,
      IssueTimesFollowRevisions, FailureIsOneWriteDeep
<1>8. ASSUME NEW o \in WriteOutcome, RecoverStorageFull(o) PROVE IssuerInv'
  <2>1. disk' = disk /\ released' = released /\ disk # None
    BY <1>8 DEF RecoverStorageFull, Write, IssuerInv, FailureIsOneWriteDeep
  <2>2. CASE o.result = "ok"
    BY <1>8, <2>1, <2>2, Reowned DEF RecoverStorageFull
  <2>3. CASE o.result = "died"
    BY <1>8, <2>1, <2>3, Reowned DEF RecoverStorageFull
  <2>4. CASE o.result \in {"full", "error"}
    BY <1>8, <1>7, <2>1, <2>4 DEF RecoverStorageFull
  <2> QED BY <2>2, <2>3, <2>4 DEF WriteOutcome
<1>9. CASE Exit
  BY <1>9, Reowned DEF Exit, diskVars
<1>10. CASE PowerLoss
  BY <1>10, Reowned DEF PowerLoss
<1>11. CASE Exhausted \/ ClockStep \/ UNCHANGED vars
  BY <1>11, <1>7 DEF Exhausted, ClockStep, vars, diskVars, memory
<1> QED
  BY <1>1, <1>2, <1>3, <1>4, <1>5, <1>6, <1>8, <1>9, <1>10, <1>11 DEF Next

\* The record issuer's safety: no revision is ever used for two mutations,
\* whatever was returned is committed, issue times follow revisions and a
\* failure is one write deep (publisher.rs open, commit, recovery), provided
\* a rename that a later open can see also survives power loss.
THEOREM IssuerSafety ==
    ASSUME RenameSurvives
    PROVE  Spec => [](/\ UniqueRevision /\ ReleasedIsCommitted
                      /\ IssueTimesFollowRevisions /\ FailureIsOneWriteDeep)
<1>1. Init => IssuerInv
  BY DEF Init, IssuerInv, Committed, UniqueRevision,
         IssueTimesFollowRevisions, FailureIsOneWriteDeep
<1>2. TypeOK /\ IssuerInv /\ [Next]_vars => IssuerInv'
  BY Inductive
<1>3. IssuerInv => /\ UniqueRevision /\ ReleasedIsCommitted
                   /\ IssueTimesFollowRevisions /\ FailureIsOneWriteDeep
  BY DEF IssuerInv, Committed, ReleasedIsCommitted
<1> QED BY Typing, <1>1, <1>2, <1>3, PTL DEF Spec

\* The committed revision never moves back and one call consumes at most one
\* revision (publisher.rs commit and recover_storage_full).
THEOREM IssuerMonotone == ASSUME RenameSurvives PROVE Spec => RevisionAdvancesByOne
<1>1. Init => IssuerInv
  BY DEF Init, IssuerInv, Committed, UniqueRevision,
         IssueTimesFollowRevisions, FailureIsOneWriteDeep
<1>2. TypeOK /\ IssuerInv /\ [Next]_vars => IssuerInv'
  BY Inductive
<1>3. TypeOK /\ IssuerInv /\ [Next]_vars =>
        [disk # None => /\ disk' # None
                        /\ disk'.revision \in {disk.revision, disk.revision + 1}]_vars
  <2> SUFFICES ASSUME TypeOK, IssuerInv, Next, disk # None
               PROVE  /\ disk' # None
                      /\ disk'.revision \in {disk.revision, disk.revision + 1}
    OBVIOUS
  <2>1. ASSUME NEW m \in Mutation, NEW o \in WriteOutcome, CheckClock,
               m.revision = NextRevision, Commit(m, o)
        PROVE  /\ disk' # None
               /\ disk'.revision \in {disk.revision, disk.revision + 1}
    <3> DEFINE next == [revision |-> m.revision, wall_floor |-> wall,
                        pending |-> m]
    <3>1. next \in State
      BY DEF State, TypeOK, Mutation, Record, Delete
    <3>2. disk' \in {disk, next} /\ disk = state
      BY <2>1 DEF Commit, Write
    <3> QED BY <2>1, <3>1, <3>2, NoneAssumption DEF NextRevision
  <2>2. ASSUME NEW d \in Drafts, NEW t \in Ttls, NEW renew \in BOOLEAN,
               NEW o \in WriteOutcome, IssueRecord(d, t, renew, o)
        PROVE  /\ disk' # None
               /\ disk'.revision \in {disk.revision, disk.revision + 1}
    <3> DEFINE m == [kind |-> "record", revision |-> NextRevision,
                     issued |-> wall, ttl |-> t, draft |-> d]
    <3>1. m \in Mutation /\ m.revision = NextRevision
      BY <2>2 DEF IssueRecord, Mutation, Record, TypeOK
    <3> QED BY <2>1, <2>2, <3>1 DEF IssueRecord
  <2>3. ASSUME NEW o \in WriteOutcome, IssueDelete(o)
        PROVE  /\ disk' # None
               /\ disk'.revision \in {disk.revision, disk.revision + 1}
    <3> DEFINE m == [kind |-> "delete", revision |-> NextRevision,
                     issued |-> wall, ttl |-> DeleteTtl, draft |-> None]
    <3>1. m \in Mutation /\ m.revision = NextRevision
      BY <2>3 DEF IssueDelete, Mutation, Delete, TypeOK
    <3> QED BY <2>1, <2>3, <3>1 DEF IssueDelete
  <2>4. \/ disk' = disk
        \/ \E d \in Drafts, t \in Ttls, renew \in BOOLEAN, o \in WriteOutcome :
              IssueRecord(d, t, renew, o)
        \/ \E o \in WriteOutcome : IssueDelete(o)
    BY DEF Next, OpenExisting, OpenNew, ReuseRecord, ReuseDelete, Return,
           Exhausted, RecoverStorageFull, Write, ClockStep, Exit, PowerLoss,
           diskVars
  <2> QED BY <2>2, <2>3, <2>4
<1> QED BY Typing, <1>1, <1>2, <1>3, PTL DEF Spec, RevisionAdvancesByOne
=============================================================================
