--------------------------- MODULE SessionProtocol ---------------------------
(***************************************************************************)
(* The pure session reducer of internal/engine/session/protocol.go.        *)
(*                                                                         *)
(* One action per ProtocolAction and, where the outcome of a commit or of  *)
(* a teardown matters, one disjunct per ProtocolOutcome.  The reducer is   *)
(* the program's own reference for what a session may do: every driver     *)
(* asks it before each durable commit and each runtime effect.             *)
(*                                                                         *)
(* A ProtocolGeneration is a record of an authority (a set of grants) and  *)
(* the revision it was issued at; NoGen is the invalid sentinel.  A commit *)
(* outcome CommitUnknown is paired with the truth (old or new) of what the *)
(* disk holds, as the reducer's event does.                                *)
(***************************************************************************)
EXTENDS Integers

CONSTANTS
    Grants,        \* destinations an operator may open
    MaxRevision    \* ProtocolBounds.MaxRevision: highest durable revision

ASSUME MaxRevisionAssumption == MaxRevision \in Nat

VARIABLES
    status, owners, detached,            \* lifecycle and its exact owner
    durable, recorded,                   \* what the record says
    runtimeAuthority, runtimeGen, inspected,  \* what the proxy enforces
    health, mode,                        \* how far the state is trusted
    operation, effect, result,           \* the operation in flight
    pending, direction                   \* its target generation

lifecycle == <<status, owners, detached>>
record    == <<durable, recorded>>
runtime   == <<runtimeAuthority, runtimeGen, inspected>>
trust     == <<health, mode>>
target    == <<pending, direction>>
vars == <<lifecycle, record, runtime, trust, operation, effect, result, target>>

-----------------------------------------------------------------------------
(* Values *)

Generation == [authority : SUBSET Grants, revision : 0..MaxRevision]
Gen(a, r) == [authority |-> a, revision |-> r]
NoGen == [authority |-> {}, revision |-> -1]
NoPending == Gen({}, 0)

Statuses   == {"Created", "Running", "Stopped"}
Owners     == {"None", "A", "B"}
Healths    == {"Healthy", "Uncertain", "Corrupt", "Stale"}
Modes      == {"Normal", "Blocked", "Terminal"}
Operations == {"Idle", "Claim", "Widen", "Narrow", "Recover", "Stop", "Teardown"}
Effects    == {"None", "Commit", "Apply", "Inspect", "Teardown"}
Results    == {"Pending", "Success", "Failure", "Uncertain"}
Directions == {"NoDirection", "Widen", "Narrow"}

\* protocolStateInDomain: the domain outside which every event is refused.
TypeOK ==
    /\ status \in Statuses
    /\ owners \in Owners
    /\ detached \in BOOLEAN
    /\ durable \in Generation
    /\ recorded \in Generation
    /\ runtimeAuthority \in SUBSET Grants
    /\ runtimeGen \in Generation \cup {NoGen}
    /\ inspected \in Generation \cup {NoGen}
    /\ health \in Healths
    /\ mode \in Modes
    /\ operation \in Operations
    /\ effect \in Effects
    /\ result \in Results
    /\ pending \in Generation
    /\ direction \in Directions

Init ==
    /\ status = "Created" /\ owners = "None" /\ detached = FALSE
    /\ durable = Gen({}, 0) /\ recorded = Gen({}, 0)
    /\ runtimeAuthority = {} /\ runtimeGen = Gen({}, 0) /\ inspected = Gen({}, 0)
    /\ health = "Healthy" /\ mode = "Normal"
    /\ operation = "Idle" /\ effect = "None" /\ result = "Pending"
    /\ pending = NoPending /\ direction = "NoDirection"

-----------------------------------------------------------------------------
(* Helpers of the reducer *)

Stable == mode = "Normal" /\ operation = "Idle"

PendingIsDurable == durable = pending

\* resetProtocol: the operation is over with result r.
Reset(r) ==
    /\ operation' = "Idle" /\ effect' = "None" /\ result' = r
    /\ pending' = NoPending /\ direction' = "NoDirection"

\* The operation in flight moves to its next effect.
Proceed(o, e, r) ==
    /\ operation' = o /\ effect' = e /\ result' = r
    /\ UNCHANGED target

\* blockProtocolRecovery: only a positive recovery or a teardown may follow.
BlockRecovery(r) ==
    /\ health' = "Uncertain" /\ mode' = "Blocked"
    /\ Proceed("Recover", "Inspect", r)

TrustAgain == health' = "Healthy" /\ mode' = "Normal"

\* A commit writes the record when it is known new, or unknown with truth new.
CommitOutcomes == {"KnownNew", "KnownOld", "UnknownNew", "UnknownOld"}
Writes(o)  == o \in {"KnownNew", "UnknownNew"}
Unknown(o) == o \in {"UnknownNew", "UnknownOld"}

-----------------------------------------------------------------------------
(* Ownership *)

ClaimStart ==
    /\ status = "Created" /\ Stable
    /\ Proceed("Claim", "Commit", "Pending")
    /\ UNCHANGED <<lifecycle, record, runtime, trust>>

ClaimCommit(o) ==
    /\ operation = "Claim" /\ effect = "Commit"
    /\ IF Writes(o)
       THEN status' = "Running" /\ owners' = "A" /\ detached' = FALSE
       ELSE UNCHANGED lifecycle
    /\ \/ o = "KnownNew" /\ Reset("Success") /\ UNCHANGED trust
       \/ o = "KnownOld" /\ Reset("Failure") /\ UNCHANGED trust
       \/ Unknown(o) /\ BlockRecovery("Uncertain")
    /\ UNCHANGED <<record, runtime>>

RecoverClaim ==
    /\ operation = "Recover" /\ direction = "NoDirection" /\ effect = "Inspect"
    /\ TrustAgain
    /\ Reset(IF status = "Running" THEN "Success" ELSE "Failure")
    /\ UNCHANGED <<lifecycle, record, runtime>>

\* Handoff and release act only for the issuing, attached owner.
ExactOwner == status = "Running" /\ Stable /\ owners = "A" /\ ~detached

HandoffExact ==
    /\ ExactOwner
    /\ owners' = "B" /\ detached' = TRUE
    /\ UNCHANGED <<status, record, runtime, trust, operation, effect, result, target>>

ReleaseExact ==
    /\ ExactOwner
    /\ status' = "Created" /\ owners' = "None" /\ detached' = FALSE
    /\ result' = "Failure"
    /\ UNCHANGED <<record, runtime, trust, operation, effect, target>>

-----------------------------------------------------------------------------
(* Widening: the record is widened before the proxy is *)

WidenStart(g) ==
    /\ status = "Running" /\ Stable
    /\ g \notin durable.authority /\ durable.revision < MaxRevision
    /\ operation' = "Widen" /\ effect' = "Commit" /\ result' = "Pending"
    /\ pending' = Gen(durable.authority \cup {g}, durable.revision + 1)
    /\ direction' = "Widen"
    /\ UNCHANGED <<lifecycle, record, runtime, trust>>

WidenCommit(o) ==
    /\ operation = "Widen" /\ direction = "Widen" /\ effect = "Commit"
    /\ ~PendingIsDurable
    /\ durable' = IF Writes(o) THEN pending ELSE durable
    /\ \/ o = "KnownNew" /\ Proceed("Widen", "Apply", result) /\ UNCHANGED trust
       \/ o = "KnownOld" /\ Reset("Failure") /\ UNCHANGED trust
       \/ Unknown(o) /\ BlockRecovery("Uncertain")
    /\ UNCHANGED <<lifecycle, recorded, runtime>>

Apply ==
    /\ effect = "Apply"
    /\ \/ direction = "Widen" /\ operation \in {"Widen", "Recover"} /\ PendingIsDurable
       \/ direction = "Narrow" /\ operation = "Narrow"
    /\ runtimeAuthority' = pending.authority
    /\ runtimeGen' = pending
    /\ effect' = "Inspect"
    /\ UNCHANGED <<lifecycle, record, inspected, trust, operation, result, target>>

Inspect ==
    /\ effect = "Inspect" /\ operation \in {"Widen", "Narrow"}
    /\ runtimeGen = pending
    /\ inspected' = runtimeGen
    /\ effect' = "Commit"
    /\ UNCHANGED <<lifecycle, record, runtimeAuthority, runtimeGen, trust,
                   operation, result, target>>

WidenFinalCommit(o) ==
    /\ operation = "Widen" /\ direction = "Widen" /\ effect = "Commit"
    /\ PendingIsDurable /\ inspected = pending
    /\ recorded' = IF Writes(o) THEN pending ELSE recorded
    /\ \/ o = "KnownNew" /\ TrustAgain /\ Reset("Success")
       \/ o = "KnownOld" /\ BlockRecovery("Failure")
       \/ Unknown(o) /\ BlockRecovery("Uncertain")
    /\ UNCHANGED <<lifecycle, durable, runtime>>

-----------------------------------------------------------------------------
(* Narrowing: the proxy is narrowed before the record is *)

NarrowStart(g) ==
    /\ status = "Running" /\ Stable
    /\ g \in durable.authority /\ durable.revision < MaxRevision
    /\ operation' = "Narrow" /\ effect' = "Apply" /\ result' = "Pending"
    /\ pending' = Gen(durable.authority \ {g}, durable.revision + 1)
    /\ direction' = "Narrow"
    /\ UNCHANGED <<lifecycle, record, runtime, trust>>

\* Mutant: an unknown narrowing restores the wider runtime.
NarrowFinalCommitRestores(o) ==
    /\ operation = "Narrow" /\ direction = "Narrow" /\ effect = "Commit"
    /\ inspected = pending
    /\ durable'  = IF Writes(o) THEN pending ELSE durable
    /\ recorded' = IF Writes(o) THEN pending ELSE recorded
    /\ \/ o = "KnownNew" /\ TrustAgain /\ Reset("Success") /\ UNCHANGED runtime
       \/ /\ o = "KnownOld" /\ Reset("Failure") /\ UNCHANGED trust
          /\ runtimeAuthority' = durable.authority
          /\ runtimeGen' = durable /\ inspected' = durable
       \/ /\ Unknown(o) /\ BlockRecovery("Uncertain")
          /\ runtimeAuthority' = durable.authority
          /\ runtimeGen' = durable /\ inspected' = durable
    /\ UNCHANGED lifecycle

NarrowFinalCommit(o) ==
    /\ operation = "Narrow" /\ direction = "Narrow" /\ effect = "Commit"
    /\ inspected = pending
    /\ durable'  = IF Writes(o) THEN pending ELSE durable
    /\ recorded' = IF Writes(o) THEN pending ELSE recorded
    /\ \/ o = "KnownNew" /\ TrustAgain /\ Reset("Success") /\ UNCHANGED runtime
       \/ /\ o = "KnownOld" /\ Reset("Failure") /\ UNCHANGED trust
          /\ runtimeAuthority' = durable.authority
          /\ runtimeGen' = durable /\ inspected' = durable
       \/ Unknown(o) /\ BlockRecovery("Uncertain") /\ UNCHANGED runtime
    /\ UNCHANGED lifecycle

\* Mutant: recovery trusts the record and does not repair the proxy.
RecoverEgressTrusting ==
    /\ operation = "Recover" /\ direction \in {"Widen", "Narrow"} /\ effect = "Inspect"
    /\ recorded' = durable
    /\ TrustAgain
    /\ Reset(IF PendingIsDurable THEN "Success" ELSE "Failure")
    /\ UNCHANGED <<lifecycle, durable, runtime>>

\* Repair and positive inspection as one correlated step: the proxy is
\* brought to the durable generation, whichever that turned out to be.
RecoverEgress ==
    /\ operation = "Recover" /\ direction \in {"Widen", "Narrow"} /\ effect = "Inspect"
    /\ runtimeAuthority' = durable.authority
    /\ runtimeGen' = durable /\ inspected' = durable /\ recorded' = durable
    /\ TrustAgain
    /\ Reset(IF PendingIsDurable THEN "Success" ELSE "Failure")
    /\ UNCHANGED <<lifecycle, durable>>

-----------------------------------------------------------------------------
(* Invalid persistence, stop and teardown *)

ObserveInvalidPersistence(h) ==
    /\ h \in {"Corrupt", "Stale"}
    /\ status = "Created" /\ Stable
    /\ health' = h /\ mode' = "Blocked"
    /\ Proceed("Recover", effect, "Failure")
    /\ UNCHANGED <<lifecycle, record, runtime>>

StopStart ==
    /\ status = "Running" /\ Stable
    /\ Proceed("Stop", "Teardown", "Pending")
    /\ UNCHANGED <<lifecycle, record, runtime, trust>>

RequestTeardown ==
    /\ mode = "Blocked" /\ effect # "Teardown"
    /\ Proceed("Teardown", "Teardown", "Pending")
    /\ UNCHANGED <<lifecycle, record, runtime, trust>>

TeardownProven ==
    /\ effect = "Teardown" /\ operation \in {"Stop", "Teardown"}
    /\ status' = "Stopped" /\ owners' = "None" /\ detached' = FALSE
    /\ runtimeAuthority' = {} /\ runtimeGen' = NoGen /\ inspected' = NoGen
    /\ health' = "Healthy" /\ mode' = "Terminal"
    /\ Reset("Failure")
    /\ UNCHANGED record

TeardownUnknown ==
    /\ effect = "Teardown" /\ operation \in {"Stop", "Teardown"}
    /\ health' = "Uncertain" /\ mode' = "Blocked"
    /\ Proceed("Teardown", "Teardown", "Uncertain")
    /\ UNCHANGED <<lifecycle, record, runtime>>

TerminalStutter ==
    /\ status = "Stopped"
    /\ UNCHANGED vars

-----------------------------------------------------------------------------

Next ==
    \/ ClaimStart \/ RecoverClaim \/ HandoffExact \/ ReleaseExact
    \/ \E o \in CommitOutcomes : ClaimCommit(o)
    \/ \E g \in Grants : WidenStart(g) \/ NarrowStart(g)
    \/ \E o \in CommitOutcomes :
          WidenCommit(o) \/ WidenFinalCommit(o) \/ NarrowFinalCommit(o)
    \/ Apply \/ Inspect \/ RecoverEgress
    \/ \E h \in Healths : ObserveInvalidPersistence(h)
    \/ StopStart \/ RequestTeardown
    \/ TeardownProven \/ TeardownUnknown
    \/ TerminalStutter

Spec == Init /\ [][Next]_vars

-----------------------------------------------------------------------------
(* Properties *)

\* The proxy never enforces more than the record grants, whatever mix of
\* known and unknown commit outcomes, recoveries and teardowns came before:
\* a widening is durable before it is applied and a narrowing is applied
\* before it is durable.
RuntimeWithinDurable == runtimeAuthority \subseteq durable.authority

\* Whenever no operation is in flight and nothing is blocked, the record, the
\* recorded generation, the running proxy and the last inspection name one
\* and the same generation: no interrupted operation leaves them apart.
SettledAgreement ==
    Stable /\ status # "Stopped" =>
        /\ recorded = durable /\ runtimeGen = durable /\ inspected = durable
        /\ runtimeAuthority = durable.authority

\* An owner exists exactly while the session runs, through claims whose
\* commit is unknown, handoffs, releases and teardowns that fail.
OwnerWhileRunning ==
    /\ owners # "None" <=> status = "Running"
    /\ detached <=> owners = "B"

\* A blocked state is left only by a positive inspection, after which record
\* and proxy agree, or by a proven teardown: no commit, apply or new
\* operation slips out of it.
BlockedUntilProven ==
    [][mode = "Blocked" /\ mode' # "Blocked" =>
          \/ runtimeGen' = durable' /\ runtimeAuthority' = durable'.authority
          \/ status' = "Stopped" /\ runtimeAuthority' = {}]_vars
=============================================================================
