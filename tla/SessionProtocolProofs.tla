----------------------- MODULE SessionProtocolProofs -----------------------
(***************************************************************************)
(* Proofs about the session reducer, for every set of grants and every     *)
(* revision bound.                                                         *)
(***************************************************************************)
EXTENDS SessionProtocol, TLAPS

\* What each operation in flight knows: the strengthening that makes the
\* properties above inductive.  Up to its first durable or runtime change an
\* operation may still fall back to the agreement it started from; after it,
\* the proxy and the pending generation coincide.
Agreement ==
    /\ recorded = durable /\ runtimeGen = durable /\ inspected = durable
    /\ runtimeAuthority = durable.authority

AppliedPending == runtimeGen = pending /\ runtimeAuthority = pending.authority

PhaseInv ==
    /\ mode = "Terminal" <=> status = "Stopped"
    /\ mode = "Blocked" => operation \in {"Recover", "Teardown"}
    /\ operation = "Idle" => effect = "None" /\ direction = "NoDirection"
    /\ operation = "Claim" =>
          status = "Created" /\ direction = "NoDirection" /\ Agreement
    /\ operation = "Widen" =>
          /\ status = "Running" /\ direction = "Widen"
          /\ durable.authority \subseteq pending.authority
          /\ ~PendingIsDurable => Agreement /\ effect = "Commit"
          /\ PendingIsDurable /\ effect # "Apply" => AppliedPending
    /\ operation = "Narrow" =>
          /\ status = "Running" /\ direction = "Narrow" /\ recorded = durable
          /\ pending.authority \subseteq durable.authority
          /\ effect \in {"Apply", "Inspect", "Commit"}
          /\ effect # "Apply" => AppliedPending
    /\ operation = "Recover" =>
          /\ mode = "Blocked" /\ status # "Stopped"
          /\ direction = "NoDirection" /\ effect = "Inspect" => Agreement
    /\ operation \in {"Stop", "Teardown"} => effect = "Teardown" /\ status # "Stopped"

IInv == TypeOK /\ RuntimeWithinDurable /\ SettledAgreement /\ OwnerWhileRunning /\ PhaseInv

-----------------------------------------------------------------------------

\* The initial record, InitialProtocolStates, satisfies the invariant.
LEMMA InitIInv == Init => IInv
  <1>1. Init => OwnerWhileRunning
    BY Zenon DEF Init, OwnerWhileRunning
  <1>2. Init => detached \in BOOLEAN
    BY Zenon DEF Init
  <1>3. QED
    BY <1>1, <1>2, MaxRevisionAssumption DEF Init, IInv, TypeOK, RuntimeWithinDurable, SettledAgreement,
       PhaseInv, Agreement, AppliedPending, PendingIsDurable, Stable,
       Gen, NoPending, Generation, Statuses, Owners, Healths, Modes, Operations,
     Effects, Results, Directions

\* Every reducer event preserves the invariant.
LEMMA NextIInv == IInv /\ [Next]_vars => IInv'
  <1> SUFFICES ASSUME IInv, [Next]_vars PROVE IInv'
    OBVIOUS
  <1> USE MaxRevisionAssumption DEF IInv, TypeOK, RuntimeWithinDurable, SettledAgreement,
     OwnerWhileRunning, PhaseInv, Agreement, AppliedPending, PendingIsDurable, Stable,
     Gen, NoPending, NoGen, Generation, Statuses, Owners, Healths, Modes, Operations,
     Effects, Results, Directions, lifecycle, record, runtime, trust, target,
     Reset, Proceed, BlockRecovery, TrustAgain, CommitOutcomes, Writes, Unknown
  <1>1. CASE ClaimStart
    BY <1>1 DEF ClaimStart
  <1>2. CASE RecoverClaim
    BY <1>2 DEF RecoverClaim
  <1>3. CASE HandoffExact
    BY <1>3 DEF HandoffExact, ExactOwner
  <1>4. CASE ReleaseExact
    BY <1>4 DEF ReleaseExact, ExactOwner
  <1>5. ASSUME NEW o \in CommitOutcomes, ClaimCommit(o) PROVE IInv'
    <2>1. OwnerWhileRunning'
      BY <1>5 DEF ClaimCommit
    <2>2. TypeOK'
      <3>1. CASE Writes(o)
        <4>1. detached' \in BOOLEAN
          BY <1>5, <3>1, Zenon DEF ClaimCommit
        <4>2. QED
          BY <1>5, <3>1, <4>1 DEF ClaimCommit
      <3>2. CASE ~Writes(o)
        BY <1>5, <3>2 DEF ClaimCommit
      <3>3. QED
        BY <3>1, <3>2
    <2>3. PhaseInv'
      BY <1>5 DEF ClaimCommit
    <2>4. QED
      BY <1>5, <2>1, <2>2, <2>3 DEF ClaimCommit
  <1>6. ASSUME NEW o \in CommitOutcomes, WidenCommit(o) PROVE IInv'
    BY <1>6 DEF WidenCommit
  <1>7. ASSUME NEW o \in CommitOutcomes, WidenFinalCommit(o) PROVE IInv'
    BY <1>7 DEF WidenFinalCommit
  <1>8. ASSUME NEW o \in CommitOutcomes, NarrowFinalCommit(o) PROVE IInv'
    BY <1>8 DEF NarrowFinalCommit
  <1>9. ASSUME NEW g \in Grants, WidenStart(g) PROVE IInv'
    BY <1>9 DEF WidenStart
  <1>10. ASSUME NEW g \in Grants, NarrowStart(g) PROVE IInv'
    BY <1>10 DEF NarrowStart
  <1>11. CASE Apply
    BY <1>11 DEF Apply
  <1>12. CASE Inspect
    BY <1>12 DEF Inspect
  <1>13. CASE RecoverEgress
    BY <1>13 DEF RecoverEgress
  <1>14. ASSUME NEW h \in Healths, ObserveInvalidPersistence(h) PROVE IInv'
    BY <1>14 DEF ObserveInvalidPersistence
  <1>15. CASE StopStart
    BY <1>15 DEF StopStart
  <1>16. CASE RequestTeardown
    BY <1>16 DEF RequestTeardown
  <1>17. CASE TeardownProven
    <2>1. OwnerWhileRunning'
      BY <1>17 DEF TeardownProven
    <2>2. TypeOK'
      <3>1. detached' \in BOOLEAN
        BY <1>17, Zenon DEF TeardownProven
      <3>2. QED
        BY <1>17, <3>1 DEF TeardownProven
    <2>3. PhaseInv'
      BY <1>17 DEF TeardownProven
    <2>4. QED
      BY <1>17, <2>1, <2>2, <2>3 DEF TeardownProven
  <1>18. CASE TeardownUnknown
    BY <1>18 DEF TeardownUnknown
  <1>19. CASE TerminalStutter
    BY <1>19 DEF TerminalStutter, vars
  <1>20. CASE UNCHANGED vars
    BY <1>20 DEF vars
  <1>21. QED
    BY <1>1, <1>2, <1>3, <1>4, <1>5, <1>6, <1>7, <1>8, <1>9, <1>10, <1>11, <1>12, <1>13, <1>14, <1>15, <1>16, <1>17, <1>18, <1>19, <1>20 DEF Next

\* The inductive invariant holds in every state of every reducer run.
LEMMA Invariance == Spec => []IInv
  BY InitIInv, NextIInv, PTL DEF Spec

\* The state never leaves the domain protocolStateInDomain accepts, so no
\* reachable state makes the reducer refuse every event.
THEOREM TypeCorrect == Spec => []TypeOK
  <1>1. IInv => TypeOK
    BY DEF IInv
  <1>2. QED
    BY Invariance, <1>1, PTL

\* The proxy never enforces more than the record grants.
THEOREM RuntimeSafety == Spec => []RuntimeWithinDurable
  <1>1. IInv => RuntimeWithinDurable
    BY DEF IInv
  <1>2. QED
    BY Invariance, <1>1, PTL

\* A settled session has one generation, in the record and in the proxy.
THEOREM Settled == Spec => []SettledAgreement
  <1>1. IInv => SettledAgreement
    BY DEF IInv
  <1>2. QED
    BY Invariance, <1>1, PTL

\* Exactly the running sessions have an owner.
THEOREM Ownership == Spec => []OwnerWhileRunning
  <1>1. IInv => OwnerWhileRunning
    BY DEF IInv
  <1>2. QED
    BY Invariance, <1>1, PTL

\* A blocked session is unblocked only by positive evidence.
THEOREM Blocked == Spec => BlockedUntilProven
  <1> DEFINE Proof ==
        mode = "Blocked" /\ mode' # "Blocked" =>
          \/ runtimeGen' = durable' /\ runtimeAuthority' = durable'.authority
          \/ status' = "Stopped" /\ runtimeAuthority' = {}
  <1>1. IInv /\ [Next]_vars => [Proof]_vars
    <2> SUFFICES ASSUME IInv, Next, mode = "Blocked", mode' # "Blocked"
                 PROVE  Proof
      OBVIOUS
    <2> USE DEF IInv, PhaseInv, Agreement, Stable, Proceed, BlockRecovery, trust,
                lifecycle, record, runtime, Unknown
    <2>1. CASE RecoverClaim
      BY <2>1 DEF RecoverClaim
    <2>2. CASE RecoverEgress
      BY <2>2 DEF RecoverEgress
    <2>3. CASE TeardownProven
      BY <2>3 DEF TeardownProven
    <2>4. QED
      BY <2>1, <2>2, <2>3 DEF Next, ClaimStart, HandoffExact, ReleaseExact, ExactOwner,
         ClaimCommit, WidenStart, NarrowStart, WidenCommit, WidenFinalCommit,
         NarrowFinalCommit, Apply, Inspect, ObserveInvalidPersistence, StopStart,
         RequestTeardown, TeardownUnknown, TerminalStutter, vars
  <1>2. QED
    BY Invariance, <1>1, PTL DEF Spec, BlockedUntilProven
=============================================================================
