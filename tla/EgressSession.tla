---------------------------- MODULE EgressSession ----------------------------
(***************************************************************************)
(* The network authority of one container session: the durable record, the *)
(* staged runtime directory, the proxy container that enforces the grants, *)
(* one command holding the record lock (grant, revoke, dismiss, stop,      *)
(* reconcile) and the owner process that launches and ends the session     *)
(* without that lock.                                                      *)
(*                                                                         *)
(* Every commit has three outcomes: the record is replaced, it is not, or  *)
(* it is replaced but the directory sync failed (ErrCommitUncertain), in   *)
(* which case the command's own copy tx still holds the old record.  Every *)
(* engine command may fail with or without its effect.  A command may      *)
(* crash anywhere; the lock is then free and the record stays.             *)
(*                                                                         *)
(* The immutable profile egress of a session is in every generation alike  *)
(* and is left out: an authority here is the set of session grants.        *)
(***************************************************************************)
EXTENDS Integers

CONSTANTS
    Grants,        \* destinations an operator may grant
    MaxRevision    \* no edit starts at or above this GrantRevision

ASSUME MaxRevisionAssumption == MaxRevision \in Nat

VARIABLES
    rec,                        \* the record on disk
    compose, overlay,           \* stage directory: compose.yml, session-grants.conf
    proxy,                      \* the proxy container
    owner, snap, signalled,     \* the launching process
    pc, kind, dest, phase,      \* the command holding the record lock; dest is {g}
    tx, base, goal,             \* its RecordTx, the record it started from, its target
    restore, torn, tries,       \* its fail-closed path
    result                      \* what the last command returned

stage   == <<compose, overlay>>
launch  == <<owner, snap, signalled>>
closing == <<restore, torn, tries>>
target  == <<kind, dest>>
driver  == <<pc, target, phase, tx, base, goal, closing, result>>
vars    == <<rec, stage, proxy, launch, driver>>

-----------------------------------------------------------------------------
(* Values *)

Generation == [authority : SUBSET Grants, revision : Int]
Gen(a, r) == [authority |-> a, revision |-> r]
NoGen == [authority |-> {}, revision |-> -1]

Statuses == {"Created", "Running", "Stopped"}
Directions == {"none", "widen", "narrow"}

\* LastFailure: none, or the marker of an uncertain network authority.
Failures == {"none", "network_authority_uncertain"}

Record == [status : Statuses, grants : SUBSET Grants, revision : Int,
           applied : Generation, direction : Directions, candidate : Generation,
           failure : Failures]

NewRecord == [status |-> "Created", grants |-> {}, revision |-> 0,
              applied |-> NoGen, direction |-> "none", candidate |-> NoGen,
              failure |-> "none"]

\* sessionGeneration: the generation the record's grants stand for.
Durable(r) == Gen(r.grants, r.revision)

\* validEgressRuntimeState: what a readable record may say of its runtime.
validEgressRuntimeState(r) ==
    \/ /\ r.direction = "none" /\ r.candidate = NoGen
       /\ r.applied \in {NoGen, Durable(r)}
    \/ /\ r.direction = "widen" /\ r.candidate = Durable(r)
       /\ r.applied.revision + 1 = r.revision
       /\ \E g \in r.grants : r.applied.authority = r.grants \ {g}
    \/ /\ r.direction = "narrow" /\ r.applied = Durable(r)
       /\ r.candidate.revision = r.revision + 1
       /\ \E g \in r.grants : r.candidate.authority = r.grants \ {g}

\* AppendGrant and RevokeGrant of the destinations d.
AppendGrant(r, d) == [r EXCEPT !.grants = @ \cup d, !.revision = @ + 1]
RevokeGrant(r, d) == [r EXCEPT !.grants = @ \ d, !.revision = @ + 1]

\* Record candidates of the protocol adapter.
Claimed(r) == [r EXCEPT !.status = "Running"]
\* Mutant: the candidate outlives its transition.
SettledKeepsCandidate(r) == [r EXCEPT !.applied = Durable(r), !.direction = "none"]
Settled(r) == [r EXCEPT !.applied = Durable(r), !.direction = "none", !.candidate = NoGen]
WidenIntent(r, d) ==
    [AppendGrant(r, d) EXCEPT !.direction = "widen", !.candidate = Durable(AppendGrant(r, d))]
NarrowIntent(r, d) ==
    [r EXCEPT !.direction = "narrow", !.candidate = Durable(RevokeGrant(r, d))]
Narrowed(r) ==
    [r EXCEPT !.grants = r.candidate.authority, !.revision = r.candidate.revision,
              !.applied = r.candidate, !.direction = "none", !.candidate = NoGen]
Terminal(r) ==
    [r EXCEPT !.status = "Stopped", !.applied = NoGen,
              !.direction = "none", !.candidate = NoGen]
WithAuthorityOf(r, from) ==
    [r EXCEPT !.grants = from.grants, !.revision = from.revision]
Marked(r) == [r EXCEPT !.failure = "network_authority_uncertain"]
Cleared(r) == [r EXCEPT !.failure = "none"]
Blocked(r) == r.failure = "network_authority_uncertain"

\* The proxy container: the grants it loaded at its start and its labels.
Proxies == [loaded : SUBSET Grants, label : Generation]
NoProxy == [loaded |-> {}, label |-> NoGen]
ProxyOf(a, g) == [loaded |-> a, label |-> g]
Up == proxy # NoProxy

Commands == {"grant", "revoke", "dismiss"}
Kinds    == Commands \cup {"none", "stop", "reconcile"}
Phases   == {"none", "stable", "repair", "finishNarrow", "widen", "narrow",
             "restore", "undo"}
PCs      == {"idle", "recover", "decide", "install", "up", "inspect", "commit",
             "kill", "reap", "wipe", "verdict"}
OwnerPCs == {"none", "claimed", "clean", "read", "staged", "up", "exiting",
             "wiped", "gone"}
Alive    == owner \notin {"none", "gone"}
Results  == {"none", "ok", "error", "uncertain", "crashed"}
Outcomes == {"new", "old", "unknown"}
MaxTries == 2      \* egressFailureCommitAttempts

Flags == /\ compose \in BOOLEAN /\ signalled \in BOOLEAN
         /\ restore \in BOOLEAN /\ torn \in BOOLEAN

\* Every variable stays in its domain.
TypeOK ==
    /\ rec \in Record /\ tx \in Record /\ base \in Record
    /\ overlay \in SUBSET Grants
    /\ proxy \in Proxies
    /\ owner \in OwnerPCs /\ snap \in SUBSET Grants
    /\ pc \in PCs /\ phase \in Phases /\ goal \in Generation
    /\ kind \in Kinds /\ dest \in SUBSET Grants
    /\ tries \in 0..MaxTries
    /\ result \in Results
    /\ Flags

Init ==
    /\ rec = NewRecord
    /\ compose = FALSE /\ overlay = {}
    /\ proxy = NoProxy
    /\ owner = "none" /\ snap = {} /\ signalled = FALSE
    /\ pc = "idle" /\ kind = "none" /\ dest = {} /\ phase = "none"
    /\ tx = NewRecord /\ base = NewRecord /\ goal = NoGen
    /\ restore = FALSE /\ torn = FALSE /\ tries = 0
    /\ result = "none"

-----------------------------------------------------------------------------
(* The command: control flow *)

\* The command returns r and releases the record lock.
End(r) ==
    /\ pc' = "idle" /\ kind' = "none" /\ dest' = {} /\ phase' = "none"
    /\ tx' = NewRecord /\ base' = NewRecord /\ goal' = NoGen
    /\ restore' = FALSE /\ torn' = FALSE /\ tries' = 0
    /\ result' = r

Goto(to) ==
    /\ pc' = to
    /\ UNCHANGED <<target, phase, base, goal, closing, result>>

\* RecordTx.Commit of candidate c: an unknown commit leaves tx behind.
Commits(o, c) == rec' = IF o = "old" THEN rec ELSE c
Follow(o, c)  == tx' = IF o = "new" THEN c ELSE tx

\* failClosedEgress: tear down, then record what that proved.
FailClosed(r) ==
    /\ pc' = "kill" /\ restore' = r /\ torn' = TRUE /\ tries' = 0
    /\ UNCHANGED <<target, phase, base, goal, result>>

\* BeginEnsureEgressGeneration towards generation g, on behalf of phase ph.
StartApply(ph, g) ==
    /\ pc' = "install" /\ phase' = ph /\ goal' = g
    /\ UNCHANGED <<target, base, closing, result>>

\* Mutant: a failed restore is retried for ever.
ApplyFailedRetries ==
    \/ phase \in {"narrow", "restore"} /\ StartApply("restore", Durable(base))
    \/ phase \in {"widen", "undo"} /\ FailClosed(TRUE)
    \/ phase \in {"stable", "repair"} /\ FailClosed(FALSE)

\* A failed apply or inspect: a narrowing first tries to restore the old
\* generation, everything else fails closed.
ApplyFailed ==
    \/ phase = "narrow" /\ StartApply("restore", Durable(base))
    \/ phase \in {"widen", "restore", "undo"} /\ FailClosed(TRUE)
    \/ phase \in {"stable", "repair"} /\ FailClosed(FALSE)

\* InspectEgressGeneration: one running proxy whose label matches the bytes of
\* the mounted overlay.
Inspected ==
    IF compose /\ Up /\ overlay = proxy.label.authority THEN proxy.label ELSE NoGen

-----------------------------------------------------------------------------
(* The command: grant, revoke and dismiss *)

\* grant/revoke/dismissSessionEgress take the lock; a running session is
\* recovered first.
Begin(k, g) ==
    /\ pc = "idle" /\ rec.status # "Stopped"
    /\ k # "dismiss" => rec.revision < MaxRevision
    /\ kind' = k /\ dest' = {g} /\ tx' = rec /\ result' = "none"
    /\ pc' = IF rec.status = "Running" THEN "recover" ELSE "decide"
    /\ UNCHANGED <<rec, stage, proxy, launch, phase, base, goal, closing>>

\* The marker of an earlier unproven teardown: only teardown may follow.
RecoverBlocked ==
    /\ pc = "recover" /\ Blocked(tx)
    /\ FailClosed(FALSE)
    /\ UNCHANGED <<rec, stage, proxy, launch, tx>>

\* Mutant: a record with no transition is trusted without an inspection.
RecoverTrusting(seen) ==
    \/ tx.direction = "none" /\ Goto("decide")
    \/ tx.direction # "none" /\ StartApply("repair", Durable(tx))

\* recoverRunningSessionEgressProtocol: what the inspection shows decides
\* whether the record is right, needs a commit, or the proxy needs repair.
RecoverAs(seen) ==
    \/ tx.direction = "none" /\ tx.applied = Durable(tx) /\ seen = Durable(tx)
       /\ Goto("decide")
    \/ tx.direction = "none" /\ (tx.applied # Durable(tx) \/ seen # Durable(tx))
       /\ StartApply("stable", Durable(tx))
    \/ tx.direction = "narrow" /\ seen = tx.candidate
       /\ pc' = "commit" /\ phase' = "finishNarrow"
       /\ UNCHANGED <<target, base, goal, closing, result>>
    \/ tx.direction # "none" /\ seen = Durable(tx)
       /\ pc' = "commit" /\ phase' = "repair"
       /\ UNCHANGED <<target, base, goal, closing, result>>
    \/ tx.direction # "none" /\ seen # Durable(tx)
       /\ ~(tx.direction = "narrow" /\ seen = tx.candidate)
       /\ StartApply("repair", Durable(tx))

\* Mutant: recovery does not look for the marker.
RecoverUnmarked(seen) ==
    /\ pc = "recover"
    /\ RecoverAs(seen)
    /\ UNCHANGED <<rec, stage, proxy, launch, tx>>

Recover(seen) ==
    /\ pc = "recover" /\ ~Blocked(tx)
    /\ RecoverAs(seen)
    /\ UNCHANGED <<rec, stage, proxy, launch, tx>>

\* The three commits of recovery; any error fails closed.
RecoverCommit(o) ==
    /\ pc = "commit" /\ phase \in {"stable", "repair", "finishNarrow"}
    /\ LET c == IF phase = "finishNarrow" THEN Narrowed(tx) ELSE Settled(tx)
       IN  /\ Commits(o, c) /\ Follow(o, c)
           /\ \/ o = "new" /\ pc' = "decide" /\ phase' = "none" /\ goal' = NoGen
                 /\ UNCHANGED <<target, base, closing, result>>
              \/ o # "new" /\ FailClosed(FALSE)
    /\ UNCHANGED <<stage, proxy, launch>>

\* Nothing to change: a duplicate grant, an unknown revoke, a dismissal (its
\* acknowledgement is not modelled, so its commit leaves the record as it is).
DecideNoEdit ==
    /\ pc = "decide"
    /\ \/ kind = "grant" /\ dest \subseteq tx.grants /\ End("ok")
       \/ kind = "revoke" /\ ~(dest \subseteq tx.grants) /\ End("error")
       \/ kind = "dismiss" /\ \E r \in {"ok", "error", "uncertain"} : End(r)
    /\ UNCHANGED <<rec, stage, proxy, launch>>

Edits == \/ kind = "grant" /\ ~(dest \subseteq tx.grants)
         \/ kind = "revoke" /\ dest \subseteq tx.grants

\* AppendGrant or RevokeGrant on a session that is not running.
EditCreated(o) ==
    /\ pc = "decide" /\ tx.status = "Created" /\ Edits
    /\ Commits(o, IF kind = "grant" THEN AppendGrant(tx, dest) ELSE RevokeGrant(tx, dest))
    /\ End(CASE o = "new" -> "ok" [] o = "old" -> "error" [] OTHER -> "uncertain")
    /\ UNCHANGED <<stage, proxy, launch>>

\* runRunningSessionWidenProtocol and ...NarrowProtocol: the first commit.  If
\* it is unknown the candidate is kept as the upper bound of the teardown.
EditIntent(o) ==
    /\ pc = "decide" /\ tx.status = "Running" /\ Edits
    /\ LET c == IF kind = "grant" THEN WidenIntent(tx, dest) ELSE NarrowIntent(tx, dest)
           ph == IF kind = "grant" THEN "widen" ELSE "narrow"
       IN  /\ Commits(o, c)
           /\ \/ /\ o = "new" /\ tx' = c /\ base' = tx
                 /\ pc' = "install" /\ phase' = ph /\ goal' = c.candidate
                 /\ UNCHANGED <<target, closing, result>>
              \/ o = "old" /\ End("error")
              \/ /\ o = "unknown" /\ tx' = c /\ base' = tx
                 /\ pc' = "kill" /\ restore' = TRUE /\ torn' = TRUE /\ tries' = 0
                 /\ phase' = ph
                 /\ UNCHANGED <<target, goal, result>>
    /\ UNCHANGED <<stage, proxy, launch>>

-----------------------------------------------------------------------------
(* The command: bringing the proxy to the goal *)

\* BeginEnsureEgressGeneration, installEgressGeneration: nothing to do if the
\* proxy already acknowledges the goal; otherwise the overlay is replaced,
\* which needs the staged squid.conf.
Install ==
    /\ pc = "install"
    /\ \/ Inspected = goal /\ Goto("commit") /\ UNCHANGED overlay
       \/ compose /\ overlay' = goal.authority /\ Goto("up")
       \/ overlay' \in {overlay, goal.authority} /\ ApplyFailed
    /\ UNCHANGED <<rec, compose, proxy, launch, tx>>

\* compose up --force-recreate proxy with the goal's labels.
Replace ==
    /\ pc = "up"
    /\ \/ compose /\ proxy' = ProxyOf(overlay, goal) /\ Goto("inspect")
       \/ /\ proxy' \in {proxy, NoProxy} \cup
                        (IF compose THEN {ProxyOf(overlay, goal)} ELSE {})
          /\ ApplyFailed
    /\ UNCHANGED <<rec, stage, launch, tx>>

\* waitForProxyGeneration: a positive acknowledgement or a timeout.
Acknowledge ==
    /\ pc = "inspect"
    /\ \/ Inspected = goal /\ Goto("commit")
       \/ ApplyFailed
    /\ UNCHANGED <<rec, stage, proxy, launch, tx>>

WidenFinalCommit(o) ==
    /\ pc = "commit" /\ phase = "widen"
    /\ Commits(o, Settled(tx))
    /\ \/ o = "new" /\ End("ok")
       \/ o # "new" /\ FailClosed(TRUE) /\ UNCHANGED tx
    /\ UNCHANGED <<stage, proxy, launch>>

\* Mutants: the wider runtime is restored after an unknown narrowing; it is not
\* restored after one that did not happen.
NarrowFinalCommitRestores(o) ==
    /\ pc = "commit" /\ phase = "narrow"
    /\ Commits(o, Narrowed(tx))
    /\ \/ o = "new" /\ End("ok")
       \/ o # "new" /\ StartApply("undo", Durable(base)) /\ UNCHANGED tx
    /\ UNCHANGED <<stage, proxy, launch>>
NarrowFinalCommitGivesUp(o) ==
    /\ pc = "commit" /\ phase = "narrow"
    /\ Commits(o, Narrowed(tx))
    /\ \/ o = "new" /\ End("ok")
       \/ o = "old" /\ End("error")
       \/ o = "unknown" /\ FailClosed(FALSE) /\ UNCHANGED tx
    /\ UNCHANGED <<stage, proxy, launch>>

\* An unknown narrowing may be durable: never restore the wider runtime.
NarrowFinalCommit(o) ==
    /\ pc = "commit" /\ phase = "narrow"
    /\ Commits(o, Narrowed(tx))
    /\ \/ o = "new" /\ End("ok")
       \/ o = "old" /\ StartApply("undo", Durable(base)) /\ UNCHANGED tx
       \/ o = "unknown" /\ FailClosed(FALSE) /\ UNCHANGED tx
    /\ UNCHANGED <<stage, proxy, launch>>

\* The old generation is back: clear the narrowing intent, report the error.
RestoreCommit(o) ==
    /\ pc = "commit" /\ phase \in {"restore", "undo"}
    /\ Commits(o, Settled(tx))
    /\ \/ (phase = "undo" \/ o # "unknown") /\ End("error")
       \/ phase = "restore" /\ o = "unknown" /\ FailClosed(TRUE) /\ UNCHANGED tx
    /\ UNCHANGED <<stage, proxy, launch>>

-----------------------------------------------------------------------------
(* Teardown: failing closed, session stop and reconciliation *)

Closing == kind \in Commands     \* an edit that is failing closed

\* Store.Stop; the owner is signalled first if it is alive.
BeginStop ==
    /\ pc = "idle" /\ rec.status # "Stopped"
    /\ kind' = "stop" /\ tx' = rec /\ pc' = "kill" /\ result' = "none"
    /\ UNCHANGED <<rec, stage, proxy, launch, dest, phase, base, goal, closing>>

\* Store.GetReconciled: a running record whose owner is dead is torn down.
BeginReconcile ==
    /\ pc = "idle" /\ rec.status = "Running" /\ ~Alive
    /\ kind' = "reconcile" /\ tx' = rec /\ pc' = "reap" /\ result' = "none"
    /\ UNCHANGED <<rec, stage, proxy, launch, dest, phase, base, goal, closing>>

\* One teardown effect succeeded, or failed: a failing-closed edit goes on and
\* remembers it, stop and reconcile return the error.
Effected(next) ==
    /\ pc' = next
    /\ UNCHANGED <<target, phase, tx, base, goal, closing, result>>
Failed(next) ==
    \/ /\ Closing /\ pc' = next /\ torn' = FALSE
       /\ UNCHANGED <<target, phase, tx, base, goal, restore, tries, result>>
    \/ ~Closing /\ End("error")

\* killProcess: SIGTERM to a live owner.
Kill ==
    /\ pc = "kill"
    /\ \/ signalled' = (signalled \/ Alive) /\ Effected("reap")
       \/ Alive /\ UNCHANGED signalled /\ Failed("reap")
    /\ UNCHANGED <<rec, stage, proxy, owner, snap>>

\* ReapBySession removes the session's containers.
Reap ==
    /\ pc = "reap"
    /\ \/ proxy' = NoProxy /\ Effected("wipe")
       \/ proxy' \in {proxy, NoProxy} /\ Failed("wipe")
    /\ UNCHANGED <<rec, stage, launch>>

\* wipeStageDir.
Wipe ==
    /\ pc = "wipe"
    /\ \/ compose' = FALSE /\ overlay' = {} /\ Effected("verdict")
       \/ UNCHANGED stage /\ Failed("verdict")
    /\ UNCHANGED <<rec, proxy, launch>>

\* commitEgressFailureState: a proven teardown stops the session and may
\* restore the old authority; an unproven one keeps it running and marked.
FailClosedVerdict(o) ==
    /\ pc = "verdict" /\ Closing
    /\ LET stopped == IF restore THEN WithAuthorityOf(Terminal(tx), base) ELSE Terminal(tx)
       IN  Commits(o, Marked(IF torn THEN stopped ELSE tx))
    /\ \/ (o = "new" \/ tries + 1 = MaxTries) /\ End("uncertain")
       \/ /\ o # "new" /\ tries + 1 < MaxTries /\ tries' = tries + 1
          /\ UNCHANGED <<pc, target, phase, tx, base, goal, restore, torn, result>>
    /\ UNCHANGED <<stage, proxy, launch>>

\* Stop and reconcile commit Stopped and keep the failure marker.
StopVerdict(o) ==
    /\ pc = "verdict" /\ ~Closing
    /\ Commits(o, Terminal(tx))
    /\ End(CASE o = "new" -> "ok" [] o = "old" -> "error" [] OTHER -> "uncertain")
    /\ UNCHANGED <<stage, proxy, launch>>

\* session stop of a stopped session wipes the stage directory and no more.
StopStopped ==
    /\ rec.status = "Stopped"
    /\ compose' = FALSE /\ overlay' = {}
    /\ UNCHANGED <<rec, proxy, launch, driver>>

\* The command's process dies; the record and the runtime stay as they are.
Crash ==
    /\ pc # "idle" /\ End("crashed")
    /\ UNCHANGED <<rec, stage, proxy, launch>>

-----------------------------------------------------------------------------
(* The owner process *)

OwnerStep(from, to) == owner = from /\ owner' = to

\* Mutant: a stopped session can be claimed again.
ClaimAgain(o) ==
    /\ pc = "idle" /\ rec.status # "Running" /\ owner = "none"
    /\ Commits(o, Claimed(rec))
    /\ owner' = CASE o = "new" -> "claimed" [] o = "old" -> "none" [] OTHER -> "gone"
    /\ UNCHANGED <<stage, proxy, snap, signalled, driver>>

\* MarkRunning: after an unknown commit the launching process gives up.
Claim(o) ==
    /\ pc = "idle" /\ rec.status = "Created" /\ owner = "none"
    /\ Commits(o, Claimed(rec))
    /\ owner' = CASE o = "new" -> "claimed" [] o = "old" -> "none" [] OTHER -> "gone"
    /\ UNCHANGED <<stage, proxy, snap, signalled, driver>>

\* runProfileCtx removes an abandoned stage directory...
OwnerClean ==
    /\ OwnerStep("claimed", "clean")
    /\ compose' = FALSE /\ overlay' = {}
    /\ UNCHANGED <<rec, proxy, snap, signalled, driver>>

\* ...reads the grants without the record lock (none if the read fails)...
OwnerRead ==
    /\ OwnerStep("clean", "read")
    /\ snap' \in {rec.grants, {}}
    /\ UNCHANGED <<rec, stage, proxy, signalled, driver>>

\* ...and materializeRun writes that snapshot and compose.yml.
OwnerMaterialize ==
    /\ OwnerStep("read", "staged")
    /\ overlay' = snap /\ compose' = TRUE
    /\ UNCHANGED <<rec, proxy, snap, signalled, driver>>

\* Up starts the proxy on whatever the overlay holds now, labelled with the
\* snapshot at revision 0; a failure runs compose down, which may fail too.
OwnerUp ==
    /\ LET started == (IF compose THEN {ProxyOf(overlay, Gen(snap, 0))} ELSE {})
                      \cup (IF compose /\ Up THEN {proxy} ELSE {})
       IN  \/ OwnerStep("staged", "up") /\ proxy' \in started
           \/ OwnerStep("staged", "exiting")
              /\ proxy' \in started \cup {proxy} \cup (IF compose THEN {NoProxy} ELSE {})
    /\ UNCHANGED <<rec, stage, snap, signalled, driver>>

\* The agent exits, a step of the launch fails, or the signal cancels it.
OwnerExit ==
    /\ \/ owner = "up"
       \/ owner \in {"claimed", "clean", "read"}
       \/ owner = "staged" /\ signalled
    /\ owner' = "exiting"
    /\ UNCHANGED <<rec, stage, proxy, snap, signalled, driver>>

\* The deferred removeStageDir, which may fail.
OwnerWipe ==
    /\ OwnerStep("exiting", "wiped")
    /\ \/ compose' = FALSE /\ overlay' = {}
       \/ UNCHANGED stage
    /\ UNCHANGED <<rec, proxy, snap, signalled, driver>>

\* finishSessionRun: Stopped, with the failure marker cleared and no teardown
\* of the containers.
OwnerFinish(o) ==
    /\ pc = "idle" /\ OwnerStep("wiped", "gone")
    /\ Commits(o, Cleared(Terminal(rec)))
    /\ UNCHANGED <<stage, proxy, snap, signalled, driver>>

\* SIGKILL of the owner; death of the proxy container.
OwnerDies ==
    /\ Alive /\ owner' = "gone"
    /\ UNCHANGED <<rec, stage, proxy, snap, signalled, driver>>
ProxyDies ==
    /\ Up /\ proxy' = NoProxy
    /\ UNCHANGED <<rec, stage, launch, driver>>

-----------------------------------------------------------------------------

CommandStep ==
    \/ RecoverBlocked \/ DecideNoEdit
    \/ \E seen \in {Inspected, NoGen} : Recover(seen)
    \/ \E o \in Outcomes : \/ RecoverCommit(o) \/ EditCreated(o) \/ EditIntent(o)
                           \/ WidenFinalCommit(o) \/ NarrowFinalCommit(o)
                           \/ RestoreCommit(o)
                           \/ FailClosedVerdict(o) \/ StopVerdict(o)
    \/ Install \/ Replace \/ Acknowledge
    \/ Kill \/ Reap \/ Wipe

OwnerStart == \E o \in Outcomes : Claim(o)
OwnerRuns ==
    \/ OwnerClean \/ OwnerRead \/ OwnerMaterialize \/ OwnerUp
    \/ OwnerExit \/ OwnerWipe
    \/ \E o \in Outcomes : OwnerFinish(o)

Next ==
    \/ \E k \in Commands, g \in Grants : Begin(k, g)
    \/ BeginStop \/ BeginReconcile \/ StopStopped
    \/ CommandStep \/ Crash
    \/ OwnerStart \/ OwnerRuns \/ OwnerDies \/ ProxyDies

Spec == Init /\ [][Next]_vars
FairSpec == Spec /\ WF_vars(CommandStep)

-----------------------------------------------------------------------------
(* Properties *)

\* While the record says Running, the proxy lets through no destination that
\* the record does not grant, across unknown commits, failed applies, crashes
\* in the middle of an edit and a launch that read its grants without the lock.
RuntimeWithinDurable ==
    rec.status = "Running" /\ Up => proxy.loaded \subseteq rec.grants

\* Every record that reaches the disk is one the store can read back: no
\* mixture of edits, recoveries and rollbacks writes an invalid transition.
RecordReadable == validEgressRuntimeState(rec)

\* A grant, revoke or dismissal that reports success on a running session
\* leaves the record settled and any running proxy enforcing exactly it.
SuccessIsEnforced ==
    [][tx.status = "Running" /\ kind \in Commands /\ pc' = "idle" /\ result' = "ok" =>
          /\ rec'.applied = Durable(rec')
          /\ (Up => proxy.loaded = rec'.grants)]_vars

\* An edit that reports an ordinary error leaves the record, the staged overlay
\* and the proxy, where they still exist, at the authority it started from.
ErrorIsRolledBack ==
    [][pc' = "idle" /\ result' = "error" /\ phase \in {"widen", "narrow", "restore", "undo"} =>
          /\ rec'.grants = base.grants
          /\ (compose => overlay = base.grants)
          /\ (Up => proxy.loaded = base.grants)]_vars

\* Once an unproven teardown has marked a running session, no command changes
\* its authority or removes the marker while it runs.
BlockedIsFrozen ==
    [][Blocked(rec) /\ rec.status = "Running" /\ rec'.status = "Running" =>
          Blocked(rec') /\ rec'.grants = rec.grants]_vars

\* Every command that takes the record lock releases it: recovery, rollback
\* and failing closed never chase each other.
CommandEnds == pc # "idle" ~> pc = "idle"
=============================================================================
