-------------------------- MODULE CredentialProofs --------------------------
(***************************************************************************)
(* Safety of a run's credentials: of the deploy keys it registers at a     *)
(* forge, for every number of repositories, keys and pages, and of the     *)
(* lease that renews a token, for every lifetime, horizon and retry delay. *)
(***************************************************************************)
EXTENDS CredentialLease, ForgeKeys, FiniteSetTheorems, TLAPS

-----------------------------------------------------------------------------
(* The lease *)

\* Where the loop may have left a timer running, and which timers Stop can
\* find; the deadline of a waiting loop cannot move, because only a renewal
\* changes it.
LeaseTimerInv ==
    /\ loop \in {"plan", "fired", "renew"} => ~leaseTimer.running
    /\ loop = "wait" => leaseTimer.published
    /\ loop = "ended" /\ leaseTimer.running => leaseTimer.published
    /\ loop \in {"publish", "wait"} =>
          leaseTimer.at <= expires /\ (horizon # NoHorizon => leaseTimer.at <= horizon)

LeaseStopInv ==
    /\ leaseStop \in {"late", "done"} => loop = "ended"
    /\ leaseStop = "done" => ~leaseTimer.running

LeaseIInv == LeaseTypeOK /\ LeaseTimerInv /\ LeaseStopInv

\* A loop that goes to sleep does so until a time before both deadlines.
LEMMA NextDelayBound ==
    ASSUME LeaseTypeOK, ~Expired
    PROVE  /\ now + NextDelay \in Nat
           /\ now + NextDelay <= expires
           /\ horizon # NoHorizon => now + NextDelay <= horizon
<1>1. Deadline \in Nat /\ Deadline > now /\ Deadline <= expires
      /\ (horizon # NoHorizon => Deadline <= horizon)
  BY LeaseAssumption DEF LeaseTypeOK, Expired, PastHorizon, Deadline
<1>2. ASSUME NEW d \in Int
      PROVE  LET e == IF d < 0 THEN 0 ELSE d
                 n == IF now + e > Deadline THEN Deadline - now ELSE e
             IN  now + n \in Nat /\ now + n <= Deadline
  BY <1>1 DEF LeaseTypeOK
<1>3. ((expires - now) * 2) \div 3 \in Int
  BY DEF LeaseTypeOK
<1>4. (IF state = "degraded" /\ retry > 0 THEN retry ELSE ((expires - now) * 2) \div 3) \in Int
  BY <1>3 DEF LeaseTypeOK
<1>5. now + NextDelay \in Nat /\ now + NextDelay <= Deadline
  BY <1>2, <1>4 DEF NextDelay
<1> QED BY <1>1, <1>5, LeaseAssumption DEF LeaseTypeOK

LEMMA LeaseInitially == LeaseInit => LeaseIInv
<1> SUFFICES ASSUME LeaseInit PROVE LeaseIInv
  OBVIOUS
<1>1. /\ NoTimer \in [published : BOOLEAN, running : BOOLEAN, at : Nat]
      /\ NoTimer.running = FALSE
  BY DEF NoTimer
<1>2. expires \in Nat /\ horizon \in Nat \cup {NoHorizon}
  BY LeaseAssumption DEF LeaseInit
<1>3. LeaseTypeOK
  <2>1. leaseTimer \in [published : BOOLEAN, running : BOOLEAN, at : Nat]
    BY <1>1 DEF LeaseInit
  <2>2. cancelled \in BOOLEAN
    BY Zenon DEF LeaseInit
  <2> QED BY <1>2, <2>1, <2>2 DEF LeaseInit, LeaseTypeOK, States
<1>4. LeaseTimerInv /\ LeaseStopInv
  BY <1>1 DEF LeaseInit, LeaseTimerInv, LeaseStopInv
<1> QED BY <1>3, <1>4 DEF LeaseIInv

LEMMA LeaseStep == LeaseIInv /\ [LeaseNext]_leaseVars => LeaseIInv'
<1> SUFFICES ASSUME LeaseIInv, [LeaseNext]_leaseVars PROVE LeaseIInv'
  OBVIOUS
<1> USE LeaseAssumption DEF LeaseIInv, LeaseTypeOK, LeaseTimerInv, LeaseStopInv, snapshot, States
<1>1. CASE Plan
  <2>1. CASE Expired /\ ExpireLease /\ UNCHANGED leaseTimer
    BY <1>1, <2>1 DEF Plan, ExpireLease
  <2>2. CASE ~Expired /\ UNCHANGED <<state, retry>>
             /\ loop' = "publish"
             /\ leaseTimer' = [published |-> FALSE, running |-> TRUE, at |-> now + NextDelay]
    <3>1. /\ now + NextDelay \in Nat
          /\ now + NextDelay <= expires
          /\ horizon # NoHorizon => now + NextDelay <= horizon
      BY <2>2, NextDelayBound
    <3> HIDE DEF NextDelay
    <3> QED BY <1>1, <2>2, <3>1 DEF Plan
  <2> QED BY <1>1, <2>1, <2>2 DEF Plan
<1>2. CASE Publish
  BY <1>2 DEF Publish
<1>3. CASE Cancelled
  BY <1>3 DEF Cancelled
<1>4. CASE Fires
  BY <1>4 DEF Fires
<1>5. CASE Wake
  BY <1>5 DEF Wake, ExpireLease
<1>6. CASE RenewalFails
  BY <1>6 DEF RenewalFails
<1>7. CASE RenewalSucceeds
  BY <1>7 DEF RenewalSucceeds
<1>8. CASE StopCancel
  BY <1>8 DEF StopCancel
<1>9. CASE StopPending
  BY <1>9 DEF StopPending, StopTimer
<1>10. CASE StopAwait
  BY <1>10 DEF StopAwait
<1>11. CASE StopLate
  BY <1>11 DEF StopLate, StopTimer
<1>12. CASE Tick
  BY <1>12 DEF Tick
<1>13. CASE UNCHANGED leaseVars
  BY <1>13 DEF leaseVars
<1> QED
  BY <1>1, <1>2, <1>3, <1>4, <1>5, <1>6, <1>7, <1>8, <1>9, <1>10, <1>11, <1>12, <1>13
     DEF LeaseNext, Run, Stop

LEMMA LeaseInvariant == LeaseSpec => []LeaseIInv
  BY LeaseInitially, LeaseStep, PTL DEF LeaseSpec

\* The lease's state is well formed and a healthy lease has no failures.
THEOREM LeaseTypeCorrect == LeaseSpec => []LeaseTypeOK
  BY LeaseInvariant, PTL DEF LeaseIInv

\* No loop sleeps past its token's expiry or its horizon, for every retry
\* delay, jitter and lifetime (nextDelay).
THEOREM SleepsInTime == LeaseSpec => []NeverOversleeps
<1>1. LeaseIInv => NeverOversleeps
  BY DEF LeaseIInv, LeaseTimerInv, NeverOversleeps
<1> QED BY <1>1, LeaseInvariant, PTL

\* Lease.Stop leaves neither a renewal nor a timer behind.
THEOREM StopIsClean == LeaseSpec => []StopLeavesNothing
<1>1. LeaseIInv => StopLeavesNothing
  BY DEF LeaseIInv, LeaseStopInv, StopLeavesNothing
<1> QED BY <1>1, LeaseInvariant, PTL

-----------------------------------------------------------------------------
(* What the steps of a gc leave in its record *)

\* A gc h that goes on from g with another listing, and one that is over.
Same(g, h) ==
    /\ h.confirm = g.confirm /\ h.failed = g.failed /\ h.disturbed = g.disturbed
    /\ h.targets = g.targets /\ h.owed = g.owed
Fresh(h) == h.page = 1 /\ h.seen = {}
Over(g, h) ==
    /\ h.pc = "done" /\ h.todo = {} /\ h.cands = {} /\ h.seen = {}
    /\ h.owed = (IF g.confirm /\ ~g.failed /\ ~g.disturbed THEN g.owed ELSE {})

LEMMA NoGCType == NoGC \in GcType
  BY BoundsAssumption DEF NoGC, GcType

LEMMA NextTargetFields ==
    ASSUME NEW g \in GcType, NEW h \in NextTarget(g)
    PROVE  /\ h \in GcType /\ h.pc = g.pc /\ Same(g, h) /\ Fresh(h)
           /\ h.todo = g.todo /\ h.cands = g.cands /\ h.repo \in g.todo
<1>1. PICK r \in g.todo : h = [g EXCEPT !.repo = r, !.page = 1, !.seen = {}]
  BY DEF NextTarget
<1>2. r \in Repos /\ 1 \in 1..(MaxPages + 1)
  BY BoundsAssumption DEF GcType
<1>3. h \in GcType
  BY <1>1, <1>2 DEF GcType
<1> QED BY <1>1, <1>3 DEF GcType, Same, Fresh

LEMMA NextCandidateFields ==
    ASSUME NEW g \in GcType, NEW h \in NextCandidate(g)
    PROVE  /\ h \in GcType /\ h.pc = "check" /\ Same(g, h) /\ Fresh(h)
           /\ h.todo = g.todo /\ h.cands = g.cands /\ <<h.repo, h.id>> \in g.cands
<1>1. PICK l \in g.cands : h = [g EXCEPT !.pc = "check", !.repo = l[1], !.id = l[2],
                                         !.page = 1, !.seen = {}]
  BY DEF NextCandidate
<1>2. l = <<l[1], l[2]>> /\ l[1] \in Repos /\ l[2] \in 0..MaxKeys /\ 1 \in 1..(MaxPages + 1)
  BY BoundsAssumption DEF GcType, Lines
<1>3. h \in GcType
  BY <1>1, <1>2 DEF GcType
<1>4. h.repo = l[1] /\ h.id = l[2]
  BY <1>1 DEF GcType
<1> QED BY <1>1, <1>2, <1>3, <1>4 DEF GcType, Same, Fresh

LEMMA ReportFields ==
    ASSUME NEW g \in GcType
    PROVE  Report(g) \in GcType /\ Over(g, Report(g))
<1>1. (IF g.confirm /\ ~g.failed /\ ~g.disturbed THEN g.owed ELSE {}) \in SUBSET Lines
  BY DEF GcType
<1> QED BY <1>1, NoGCType DEF Report, Over, GcType, NoGC

LEMMA DiscoveredFields ==
    ASSUME NEW g \in GcType, NEW h \in Discovered(g)
    PROVE  /\ h \in GcType
           /\ \/ /\ h.pc = g.pc /\ Same(g, h) /\ Fresh(h) /\ h.cands = g.cands
                 /\ h.todo = g.todo \ {g.repo} /\ h.repo \in h.todo
              \/ /\ Over(g, h) /\ g.todo \ {g.repo} = {}
                 /\ g.failed \/ ~g.confirm \/ g.cands = {}
              \/ /\ h.pc = "check" /\ Same(g, h) /\ Fresh(h) /\ h.cands = g.cands
                 /\ g.todo \ {g.repo} = {} /\ h.todo = {} /\ <<h.repo, h.id>> \in h.cands
                 /\ ~g.failed /\ g.confirm
<1> DEFINE rest == [g EXCEPT !.todo = @ \ {g.repo}]
<1>1. /\ rest \in GcType /\ rest.todo = g.todo \ {g.repo} /\ rest.pc = g.pc
      /\ Same(g, rest) /\ rest.cands = g.cands
  BY DEF GcType, Same
<1>2. \/ rest.todo # {} /\ h \in NextTarget(rest)
      \/ rest.todo = {} /\ (g.failed \/ ~g.confirm \/ g.cands = {}) /\ h = Report(rest)
      \/ rest.todo = {} /\ ~g.failed /\ g.confirm /\ h \in NextCandidate(rest)
  BY DEF Discovered
<1> HIDE DEF rest
<1>3. CASE rest.todo # {} /\ h \in NextTarget(rest)
  BY <1>1, <1>3, NextTargetFields DEF Same
<1>4. CASE rest.todo = {} /\ (g.failed \/ ~g.confirm \/ g.cands = {}) /\ h = Report(rest)
  BY <1>1, <1>4, ReportFields DEF Same, Over
<1>5. CASE rest.todo = {} /\ ~g.failed /\ g.confirm /\ h \in NextCandidate(rest)
  BY <1>1, <1>5, NextCandidateFields DEF Same
<1> QED BY <1>2, <1>3, <1>4, <1>5

LEMMA SettledFields ==
    ASSUME NEW g \in GcType, NEW h \in Settled(g)
    PROVE  /\ h \in GcType
           /\ \/ Over(g, h) /\ g.cands \ {<<g.repo, g.id>>} = {}
              \/ /\ h.pc = "check" /\ Same(g, h) /\ Fresh(h) /\ h.todo = g.todo
                 /\ h.cands = g.cands \ {<<g.repo, g.id>>} /\ <<h.repo, h.id>> \in h.cands
<1> DEFINE rest == [g EXCEPT !.cands = @ \ {<<g.repo, g.id>>}]
<1>1. /\ rest \in GcType /\ rest.todo = g.todo
      /\ Same(g, rest) /\ rest.cands = g.cands \ {<<g.repo, g.id>>}
  BY DEF GcType, Same
<1>2. \/ rest.cands = {} /\ h = Report(rest)
      \/ h \in NextCandidate(rest)
  BY DEF Settled
<1> HIDE DEF rest
<1>3. CASE rest.cands = {} /\ h = Report(rest)
  BY <1>1, <1>3, ReportFields DEF Same, Over
<1>4. CASE h \in NextCandidate(rest)
  BY <1>1, <1>4, NextCandidateFields DEF Same
<1> QED BY <1>2, <1>3, <1>4
-----------------------------------------------------------------------------
(* The instance *)

\* What a revocation can read back and has dealt with.
Unregistered(S) == \A l \in S : Legible(l) => ~Registered(l)

ForgeOK ==
    /\ keys \in [Repos -> SUBSET Keys] /\ nextId \in 1..(MaxKeys + 1)
    /\ \A r \in Repos : \A k \in keys[r] :
        k.id < nextId /\ \A j \in keys[r] : j.id = k.id => j = k
    /\ \A r \in Repos : IsFiniteSet(keys[r])

RunOK ==
    /\ pc \in Live \cup {"idle", "done", "dead"} /\ todo \subseteq Repos
    /\ spaced \subseteq Repos
    /\ lines \subseteq Lines /\ rev \subseteq Lines /\ exp \subseteq Lines /\ srev \subseteq Lines
    /\ dir \in BOOLEAN /\ token \in BOOLEAN /\ (info = None \/ info \subseteq Lines)
    /\ (info # None \/ token) => dir
    /\ timer \in {"off", "armed", "run"} /\ stop \in {"idle", "revoke", "wipe", "over"}
    /\ made \subseteq Lines /\ fate \in {"early", "owed", "excused"}

LEMMA TypeParts == (\A r \in Repos : IsFiniteSet(keys[r])) => (TypeOK <=> ForgeOK /\ RunOK /\ gc \in GcType)
  BY DEF TypeOK, ForgeOK, RunOK

\* Keys go, and none comes.
Shrinks ==
    /\ nextId' = nextId /\ keys' \in [Repos -> SUBSET Keys]
    /\ \A r \in Repos : keys'[r] \subseteq keys[r]

LEMMA RemovedShrinks ==
    ASSUME ForgeOK, NEW l \in Lines, keys' = Removed(l), nextId' = nextId
    PROVE  Shrinks /\ ~Registered(l)'
<1>1. /\ keys' = [keys EXCEPT ![l[1]] = {k \in keys[l[1]] : k.id # l[2]}]
      /\ l[1] \in Repos /\ keys \in [Repos -> SUBSET Keys]
  BY DEF Removed, Lines, ForgeOK
<1>2. keys'[l[1]] = {k \in keys[l[1]] : k.id # l[2]}
  BY <1>1
<1>3. \A r \in Repos : r # l[1] => keys'[r] = keys[r]
  BY <1>1
<1>4. \A r \in Repos : keys'[r] \subseteq keys[r] /\ keys'[r] \in SUBSET Keys
  BY <1>1, <1>2, <1>3
<1>5. keys' \in [Repos -> SUBSET Keys]
  BY <1>1, <1>4
<1> QED BY <1>2, <1>4, <1>5 DEF Shrinks, Registered

LEMMA ShrinksKeeps ==
    ASSUME ForgeOK, Shrinks
    PROVE  ForgeOK' /\ \A l \in Lines : ~Registered(l) => ~Registered(l)'
<1>1. ASSUME NEW r \in Repos PROVE IsFiniteSet(keys'[r])
  BY FS_Subset DEF ForgeOK, Shrinks
<1>2. ForgeOK'
  BY <1>1 DEF ForgeOK, Shrinks
<1>3. \A l \in Lines : ~Registered(l) => ~Registered(l)'
  BY DEF Shrinks, Registered, Lines
<1> QED BY <1>2, <1>3

LEMMA AddKeeps ==
    ASSUME ForgeOK, NEW r \in Repos, Add(r)
    PROVE  /\ ForgeOK' /\ nextId < nextId'
           /\ \A l \in Lines : l[2] < nextId /\ ~Registered(l) => ~Registered(l)'
           /\ \A q \in Repos : \A k \in keys'[q] : k \in keys[q] \/ (k.id = nextId /\ k.title = "ours")
<1> DEFINE new == [id |-> nextId, title |-> "ours"]
<1>1. /\ nextId \in 1..MaxKeys /\ nextId' = nextId + 1 /\ new \in Keys /\ new.id = nextId /\ new.title = "ours"
      /\ nextId \in Nat /\ nextId' \in 1..(MaxKeys + 1)
  BY BoundsAssumption DEF Add, ForgeOK, Keys
<1>2. keys' = [keys EXCEPT ![r] = keys[r] \cup {new}]
  BY DEF Add
<1> HIDE DEF new
<1>3. keys'[r] = keys[r] \cup {new} /\ \A q \in Repos : q # r => keys'[q] = keys[q]
  BY <1>2 DEF ForgeOK
<1>4. keys' \in [Repos -> SUBSET Keys]
  BY <1>1, <1>2 DEF ForgeOK
<1>5. ASSUME NEW q \in Repos PROVE IsFiniteSet(keys'[q])
  <2>1. IsFiniteSet(keys[r] \cup {new})
    BY FS_AddElement DEF ForgeOK
  <2> QED BY <2>1, <1>3 DEF ForgeOK
<1>6. \A q \in Repos : \A k \in keys'[q] : k \in keys[q] \/ k = new
  BY <1>3
<1>7. \A q \in Repos : \A k \in keys[q] : k.id < nextId /\ k.id \in Nat
  BY DEF ForgeOK, Keys
<1>8. \A q \in Repos : \A k \in keys'[q] :
        k.id < nextId' /\ \A j \in keys'[q] : j.id = k.id => j = k
  BY <1>1, <1>6, <1>7 DEF ForgeOK
<1>9. \A l \in Lines : l[2] < nextId /\ ~Registered(l) => ~Registered(l)'
  BY <1>1, <1>6 DEF Registered, Lines
<1> QED BY <1>1, <1>4, <1>5, <1>6, <1>8, <1>9 DEF ForgeOK

-----------------------------------------------------------------------------
(* The run, its timer and a stop *)

\* While nothing excuses the run, a revoke-info that is there names every key
\* it registered, and it is there from the end of the registration until a
\* stop that has revoked its lines removes it; what a revocation has behind it
\* is no longer registered.
RunInv ==
    fate # "excused" =>
        /\ info # None => info = made
        /\ pc \in {"idle", "begin", "register", "record"} => stop = "idle" /\ info = None
        /\ pc = "begin" => made = {} /\ lines = {}
        /\ pc \in {"register", "record"} => lines = made
        /\ pc \in {"finish", "agent"} => info = made \/ stop = "over"
        /\ pc \in {"agent", "revoke"} => fate = "owed"
        /\ pc \in {"idle", "begin", "register", "record", "finish"} => fate = "early"
        /\ pc # "dead"
        /\ stop = "revoke" => Unregistered(made \ srev)
        /\ stop \in {"wipe", "over"} => Unregistered(made)
        /\ pc = "revoke" => Unregistered(made \ rev)
        /\ pc \in {"wipe", "done"} /\ fate = "owed" => Unregistered(made)

\* Identifiers in use were given before.
IdsInv == \A l \in made : l[2] < nextId

\* A step that leaves the run alone only takes keys away from it, or adds
\* keys of later identifiers.
LEMMA RunFrame ==
    ASSUME RunOK, RunInv, UNCHANGED <<run, stage, alarm, ext, made, fate>>,
           \A l \in Lines : ~Registered(l) => ~Registered(l)'
    PROVE  RunOK' /\ RunInv'
<1>1. /\ pc' = pc /\ todo' = todo /\ lines' = lines /\ spaced' = spaced /\ rev' = rev
      /\ dir' = dir /\ info' = info /\ token' = token /\ timer' = timer /\ exp' = exp
      /\ stop' = stop /\ srev' = srev /\ made' = made /\ fate' = fate
  BY DEF run, stage, alarm, ext
<1>2. RunOK'
  BY <1>1, Zenon DEF RunOK
<1>3. Unregistered(made) => Unregistered(made)'
  BY <1>1 DEF Unregistered, Legible, RunOK
<1>4. Unregistered(made \ srev) => Unregistered(made \ srev)'
  BY <1>1 DEF Unregistered, Legible, RunOK
<1>5. Unregistered(made \ rev) => Unregistered(made \ rev)'
  BY <1>1 DEF Unregistered, Legible, RunOK
<1> QED BY <1>1, <1>2, <1>3, <1>4, <1>5, Zenon DEF RunInv

\* A DELETE of the run, of its timer or of a stop.
LEMMA DeleteKeeps ==
    ASSUME ForgeOK, NEW l \in Lines, Delete(l)
    PROVE  /\ Shrinks /\ Disturb /\ made' = made
           /\ fate' = "excused" \/ (fate' = fate /\ ~Registered(l)')
<1>1. CASE keys' = Removed(l) /\ UNCHANGED fate
  BY <1>1, RemovedShrinks DEF Delete
<1>2. CASE UNCHANGED keys /\ fate' = "excused"
  <2>1. nextId' = nextId /\ keys' = keys /\ Disturb /\ made' = made
    BY <1>2 DEF Delete
  <2>2. Shrinks
    <3>1. keys \in [Repos -> SUBSET Keys] /\ \A r \in Repos : keys[r] \subseteq keys[r]
      BY DEF ForgeOK
    <3> QED BY <2>1, <3>1 DEF Shrinks
  <2> QED BY <1>2, <2>1, <2>2
<1> QED BY <1>1, <1>2 DEF Delete

\* Steps of the run, of its timer and of a stop that send no request.
QuietStep ==
    \/ Begin \/ MakeStage \/ WriteInfo \/ Launch \/ AgentExits \/ Wipe \/ Crash
    \/ TimerFires \/ StopBegin \/ StopWipe

LEMMA QuietRun ==
    ASSUME RunOK, RunInv, IdsInv, QuietStep
    PROVE  RunOK' /\ RunInv' /\ IdsInv' /\ UNCHANGED <<keys, nextId, gc>>
<1>1. UNCHANGED <<keys, nextId, gc>>
  BY DEF QuietStep, Begin, MakeStage, WriteInfo, Launch, AgentExits, Wipe, Crash, TimerFires, StopBegin, StopWipe, forge
<1>3. CASE Begin
  <2>1. RunOK'
    BY <1>3, ReposAssumption DEF RunOK, Begin, run, stage, alarm, ext, Goto, Live
  <2>2. RunInv' /\ IdsInv'
    BY <1>3, <1>1 DEF RunOK, RunInv, IdsInv, Begin, run, stage, alarm, ext, Goto, Live, Unregistered, Legible, Registered
  <2> QED BY <1>1, <2>1, <2>2
<1>4. CASE MakeStage
  <2>1. RunOK'
    BY <1>4 DEF RunOK, MakeStage, run, stage, alarm, ext, Goto, Live
  <2>2. RunInv' /\ IdsInv'
    BY <1>4, <1>1 DEF RunOK, RunInv, IdsInv, MakeStage, run, stage, alarm, ext, Goto, Live, Unregistered, Legible, Registered
  <2> QED BY <1>1, <2>1, <2>2
<1>5. CASE WriteInfo
  <2>1. RunOK'
    BY <1>5 DEF RunOK, WriteInfo, run, stage, alarm, ext, Goto, Live, Writable
  <2>2. RunInv' /\ IdsInv'
    BY <1>5, <1>1 DEF RunOK, RunInv, IdsInv, WriteInfo, run, stage, alarm, ext, Goto, Live, Writable, Unregistered, Legible, Registered
  <2> QED BY <1>1, <2>1, <2>2
<1>6. CASE Launch
  <2>1. RunOK'
    <3>1. /\ pc' \in {"agent", "wipe"} /\ timer' \in {timer, "off", "armed"}
          /\ fate' \in {fate, "owed"}
          /\ todo' = todo /\ lines' = lines /\ spaced' = spaced /\ rev' = rev /\ dir' = dir /\ info' = info
          /\ exp' = exp /\ stop' = stop /\ srev' = srev /\ made' = made
      BY <1>6 DEF Launch, Goto, forge, ext
    <3>2. token' \in BOOLEAN /\ (token' => dir')
      <4>1. (dir /\ token' = TRUE) \/ token' = FALSE \/ token' = dir
        BY <1>6, Zenon DEF Launch, Writable
      <4>2. dir \in BOOLEAN
        BY Zenon DEF RunOK
      <4>3. dir' = dir
        BY <3>1
      <4>4. CASE token' = TRUE /\ dir
        BY <4>3, <4>4
      <4>5. CASE token' = FALSE
        BY <4>5
      <4>6. CASE token' = dir
        BY <4>2, <4>3, <4>6
      <4> QED BY <4>1, <4>4, <4>5, <4>6
    <3>3. dir' \in BOOLEAN /\ ((info' # None \/ token') => dir') /\ (info' = None \/ info' \subseteq Lines)
      BY <3>1, <3>2, Zenon DEF RunOK
    <3> QED BY <3>1, <3>2, <3>3 DEF RunOK, Live
  <2>2. RunInv' /\ IdsInv'
    BY <1>6, <1>1 DEF RunOK, RunInv, IdsInv, Launch, run, stage, alarm, ext, Goto, Live, Writable, Unregistered, Legible, Registered
  <2> QED BY <1>1, <2>1, <2>2
<1>7. CASE AgentExits
  <2>1. RunOK'
    BY <1>7 DEF RunOK, AgentExits, run, stage, alarm, ext, Goto, Live, AfterStop, ReadInfo
  <2>2. RunInv' /\ IdsInv'
    <3>1. /\ pc = "agent" /\ pc' = "revoke" /\ spaced' = spaced
          /\ rev' = (IF info = None THEN {} ELSE {l \in info : Legible(l)})
          /\ info' = info /\ stop' = stop /\ srev' = srev /\ made' = made /\ fate' = fate
          /\ lines' = lines
      BY <1>7 DEF AgentExits, Goto, AfterStop, ReadInfo, stage, ext
    <3>2. CASE fate = "excused"
      BY <1>1, <3>1, <3>2 DEF RunInv, IdsInv
    <3>3. CASE fate # "excused" /\ info # None
      BY <1>1, <3>1, <3>3 DEF RunInv, IdsInv, Unregistered, Legible, Registered
    <3>4. CASE fate # "excused" /\ info = None /\ stop = "over"
      BY <1>1, <3>1, <3>4 DEF RunInv, IdsInv, Unregistered, Legible, Registered
    <3>5. CASE fate # "excused" /\ info = None /\ stop # "over"
      <4>1. made = None /\ made \in SUBSET Lines
        BY <3>1, <3>5 DEF RunInv, RunOK
      <4> QED BY <4>1, NoneAssumption
    <3> QED BY <3>2, <3>3, <3>4, <3>5
  <2> QED BY <1>1, <2>1, <2>2
<1>8. CASE Wipe
  <2>1. RunOK'
    BY <1>8 DEF RunOK, Wipe, run, stage, alarm, ext, Goto, Live
  <2>2. RunInv' /\ IdsInv'
    BY <1>8, <1>1 DEF RunOK, RunInv, IdsInv, Wipe, run, stage, alarm, ext, Goto, Live, Unregistered, Legible, Registered
  <2> QED BY <1>1, <2>1, <2>2
<1>9. CASE Crash
  <2>1. RunOK'
    BY <1>9 DEF RunOK, Crash, run, stage, alarm, ext, Goto, Live
  <2>2. RunInv' /\ IdsInv'
    BY <1>9, <1>1 DEF RunOK, RunInv, IdsInv, Crash, run, stage, alarm, ext, Goto, Live, Unregistered, Legible, Registered
  <2> QED BY <1>1, <2>1, <2>2
<1>10. CASE TimerFires
  <2>1. RunOK'
    BY <1>10 DEF RunOK, TimerFires, run, stage, alarm, ext, Goto, Live, Expiring, ReadInfo
  <2>2. RunInv' /\ IdsInv'
    BY <1>10, <1>1 DEF RunOK, RunInv, IdsInv, TimerFires, run, stage, alarm, ext, Goto, Live, Expiring, ReadInfo, Unregistered, Legible, Registered
  <2> QED BY <1>1, <2>1, <2>2
<1>11. CASE StopBegin
  <2>1. RunOK'
    BY <1>11 DEF RunOK, StopBegin, run, stage, alarm, ext, Goto, Live, ReadInfo
  <2>2. RunInv' /\ IdsInv'
    BY <1>11, <1>1 DEF RunOK, RunInv, IdsInv, StopBegin, run, stage, alarm, ext, Goto, Live, ReadInfo, Unregistered, Legible, Registered
  <2> QED BY <1>1, <2>1, <2>2
<1>12. CASE StopWipe
  <2>1. RunOK'
    BY <1>12 DEF RunOK, StopWipe, run, stage, alarm, ext, Goto, Live
  <2>2. RunInv' /\ IdsInv'
    BY <1>12, <1>1 DEF RunOK, RunInv, IdsInv, StopWipe, run, stage, alarm, ext, Goto, Live, Unregistered, Legible, Registered
  <2> QED BY <1>1, <2>1, <2>2
<1> QED BY <1>3, <1>4, <1>5, <1>6, <1>7, <1>8, <1>9, <1>10, <1>11, <1>12 DEF QuietStep

\* What a step does to the instance when the gc does not take it.
OthersStep ==
    \/ UNCHANGED <<keys, nextId, gc>>
    \/ Shrinks /\ Disturb
    \/ (\E r \in Repos : Add(r)) /\ Disturb

LEMMA RevokeRun ==
    ASSUME ForgeOK, RunOK, RunInv, IdsInv, Revoke
    PROVE  RunOK' /\ RunInv' /\ IdsInv' /\ OthersStep
<1>1. CASE \E l \in rev : Delete(l) /\ rev' = rev \ {l} /\ UNCHANGED pc
  <2>1. PICK l \in Lines : l \in rev /\ Delete(l) /\ rev' = rev \ {l} /\ pc' = pc
    BY <1>1 DEF RunOK
  <2>2. /\ Shrinks /\ Disturb /\ made' = made /\ nextId' = nextId
        /\ fate' = "excused" \/ (fate' = fate /\ ~Registered(l)')
    BY <2>1, DeleteKeeps DEF Shrinks
  <2>3. \A m \in Lines : ~Registered(m) => ~Registered(m)'
    BY <2>2, ShrinksKeeps
  <2>4. /\ todo' = todo /\ lines' = lines /\ spaced' = spaced /\ dir' = dir /\ info' = info /\ token' = token
        /\ timer' = timer /\ exp' = exp /\ stop' = stop /\ srev' = srev
    BY <2>1 DEF Revoke, run, stage, alarm, ext, Delete
  <2>5. RunOK'
    BY <2>1, <2>2, <2>4 DEF RunOK
  <2>6. RunInv'
    <3>1. CASE fate' = "excused"
      BY <3>1 DEF RunInv
    <3>2. CASE fate' = fate /\ ~Registered(l)'
      <4>1. Unregistered(made) => Unregistered(made)'
        BY <2>2, <2>3, <2>4 DEF Unregistered, Legible, RunOK
      <4>2. Unregistered(made \ srev) => Unregistered(made \ srev)'
        BY <2>1, <2>2, <2>3, <2>4, <3>2 DEF Unregistered, Legible, RunOK
      <4>3. Unregistered(made \ rev) => Unregistered(made \ rev)'
        BY <2>1, <2>2, <2>3, <2>4, <3>2 DEF Unregistered, Legible, RunOK
      <4> QED BY <2>1, <2>2, <2>4, <3>2, <4>1, <4>2, <4>3 DEF RunInv
    <3> QED BY <2>2, <3>1, <3>2
  <2> QED BY <2>2, <2>5, <2>6 DEF IdsInv, OthersStep
<1>2. CASE rev = {} /\ Goto("wipe") /\ UNCHANGED <<forge, rev, gc, made, fate>>
  <2>1. /\ pc = "revoke" /\ pc' = "wipe" /\ keys' = keys /\ nextId' = nextId /\ gc' = gc
        /\ rev' = rev /\ made' = made /\ fate' = fate
        /\ todo' = todo /\ lines' = lines /\ spaced' = spaced /\ dir' = dir /\ info' = info /\ token' = token
        /\ timer' = timer /\ exp' = exp /\ stop' = stop /\ srev' = srev
    BY <1>2 DEF Revoke, Goto, forge, run, stage, alarm, ext
  <2>2. RunOK'
    BY <2>1 DEF RunOK, Live
  <2>3. made \ rev = made
    BY <1>2
  <2> QED BY <2>1, <2>2, <2>3 DEF RunInv, IdsInv, OthersStep, Unregistered, Legible, Registered
<1> QED BY <1>1, <1>2 DEF Revoke

LEMMA ExpireRun ==
    ASSUME ForgeOK, RunOK, RunInv, IdsInv, Expire
    PROVE  RunOK' /\ RunInv' /\ IdsInv' /\ OthersStep
<1>1. CASE \E l \in exp : Delete(l) /\ exp' = exp \ {l} /\ UNCHANGED timer
  <2>1. PICK l \in Lines : l \in exp /\ Delete(l) /\ exp' = exp \ {l} /\ timer' = timer
    BY <1>1 DEF RunOK
  <2>2. /\ Shrinks /\ Disturb /\ made' = made /\ nextId' = nextId
        /\ fate' = "excused" \/ (fate' = fate /\ ~Registered(l)')
    BY <2>1, DeleteKeeps DEF Shrinks
  <2>3. \A m \in Lines : ~Registered(m) => ~Registered(m)'
    BY <2>2, ShrinksKeeps
  <2>4. /\ pc' = pc /\ todo' = todo /\ lines' = lines /\ spaced' = spaced /\ rev' = rev /\ dir' = dir
        /\ info' = info /\ token' = token /\ stop' = stop /\ srev' = srev
    BY <2>1 DEF Expire, run, stage, alarm, ext, Delete
  <2>5. RunOK'
    BY <2>1, <2>2, <2>4 DEF RunOK
  <2>6. RunInv'
    <3>1. CASE fate' = "excused"
      BY <3>1 DEF RunInv
    <3>2. CASE fate' = fate /\ ~Registered(l)'
      <4>1. Unregistered(made) => Unregistered(made)'
        BY <2>2, <2>3, <2>4 DEF Unregistered, Legible, RunOK
      <4>2. Unregistered(made \ srev) => Unregistered(made \ srev)'
        BY <2>1, <2>2, <2>3, <2>4, <3>2 DEF Unregistered, Legible, RunOK
      <4>3. Unregistered(made \ rev) => Unregistered(made \ rev)'
        BY <2>1, <2>2, <2>3, <2>4, <3>2 DEF Unregistered, Legible, RunOK
      <4> QED BY <2>1, <2>2, <2>4, <3>2, <4>1, <4>2, <4>3 DEF RunInv
    <3> QED BY <2>2, <3>1, <3>2
  <2> QED BY <2>2, <2>5, <2>6 DEF IdsInv, OthersStep
<1>2. CASE exp = {} /\ timer' = "off" /\ UNCHANGED <<forge, exp, gc, made, fate>>
  <2>1. /\ timer' = "off" /\ keys' = keys /\ nextId' = nextId /\ gc' = gc
        /\ exp' = exp /\ made' = made /\ fate' = fate
        /\ pc' = pc /\ todo' = todo /\ lines' = lines /\ spaced' = spaced /\ rev' = rev /\ dir' = dir
        /\ info' = info /\ token' = token /\ stop' = stop /\ srev' = srev
    BY <1>2 DEF Expire, forge, run, stage, ext
  <2>2. RunOK'
    BY <2>1 DEF RunOK
  <2> QED BY <2>1, <2>2 DEF RunInv, IdsInv, OthersStep, Unregistered, Legible, Registered
<1> QED BY <1>1, <1>2 DEF Expire

LEMMA StopRevokeRun ==
    ASSUME ForgeOK, RunOK, RunInv, IdsInv, StopRevoke
    PROVE  RunOK' /\ RunInv' /\ IdsInv' /\ OthersStep
<1>1. CASE \E l \in srev : Delete(l) /\ srev' = srev \ {l} /\ UNCHANGED stop
  <2>1. PICK l \in Lines : l \in srev /\ Delete(l) /\ srev' = srev \ {l} /\ stop' = stop
    BY <1>1 DEF RunOK
  <2>2. /\ Shrinks /\ Disturb /\ made' = made /\ nextId' = nextId
        /\ fate' = "excused" \/ (fate' = fate /\ ~Registered(l)')
    BY <2>1, DeleteKeeps DEF Shrinks
  <2>3. \A m \in Lines : ~Registered(m) => ~Registered(m)'
    BY <2>2, ShrinksKeeps
  <2>4. /\ pc' = pc /\ todo' = todo /\ lines' = lines /\ spaced' = spaced /\ rev' = rev /\ dir' = dir
        /\ info' = info /\ token' = token /\ timer' = timer /\ exp' = exp
    BY <2>1 DEF StopRevoke, run, stage, alarm, ext, Delete
  <2>5. RunOK'
    BY <2>1, <2>2, <2>4 DEF RunOK
  <2>6. RunInv'
    <3>1. CASE fate' = "excused"
      BY <3>1 DEF RunInv
    <3>2. CASE fate' = fate /\ ~Registered(l)'
      <4>1. Unregistered(made) => Unregistered(made)'
        BY <2>2, <2>3, <2>4 DEF Unregistered, Legible, RunOK
      <4>2. Unregistered(made \ srev) => Unregistered(made \ srev)'
        BY <2>1, <2>2, <2>3, <2>4, <3>2 DEF Unregistered, Legible, RunOK
      <4>3. Unregistered(made \ rev) => Unregistered(made \ rev)'
        BY <2>1, <2>2, <2>3, <2>4, <3>2 DEF Unregistered, Legible, RunOK
      <4> QED BY <2>1, <2>2, <2>4, <3>2, <4>1, <4>2, <4>3 DEF RunInv
    <3> QED BY <2>2, <3>1, <3>2
  <2> QED BY <2>2, <2>5, <2>6 DEF IdsInv, OthersStep
<1>2. CASE srev = {} /\ stop' = "wipe" /\ UNCHANGED <<forge, srev, gc, made, fate>>
  <2>1. /\ stop = "revoke" /\ stop' = "wipe" /\ keys' = keys /\ nextId' = nextId /\ gc' = gc
        /\ srev' = srev /\ made' = made /\ fate' = fate
        /\ pc' = pc /\ todo' = todo /\ lines' = lines /\ spaced' = spaced /\ rev' = rev /\ dir' = dir
        /\ info' = info /\ token' = token /\ timer' = timer /\ exp' = exp
    BY <1>2 DEF StopRevoke, forge, run, stage, alarm
  <2>2. RunOK'
    BY <2>1 DEF RunOK
  <2>3. made \ srev = made
    BY <1>2
  <2> QED BY <2>1, <2>2, <2>3 DEF RunInv, IdsInv, OthersStep, Unregistered, Legible, Registered
<1> QED BY <1>1, <1>2 DEF StopRevoke

LEMMA OperateRun ==
    ASSUME ForgeOK, RunOK, RunInv, IdsInv, Operate
    PROVE  RunOK' /\ RunInv' /\ IdsInv' /\ OthersStep
<1>1. PICK r \in Repos : \E k \in keys[r] : keys' = Removed(<<r, k.id>>)
  BY DEF Operate
<1>2. PICK k \in keys[r] : keys' = Removed(<<r, k.id>>)
  BY <1>1
<1>3. PICK i \in 1..MaxKeys : i = k.id
  BY <1>2 DEF ForgeOK, Keys
<1>4. <<r, i>> \in Lines /\ keys' = Removed(<<r, i>>) /\ nextId' = nextId /\ Disturb
  BY <1>2, <1>3 DEF Lines, Operate
<1>5. Shrinks
  BY <1>4, RemovedShrinks
<1>6. \A m \in Lines : ~Registered(m) => ~Registered(m)'
  BY <1>5, ShrinksKeeps
<1>7. UNCHANGED <<run, stage, alarm, ext, made, fate>>
  BY DEF Operate
<1>8. RunOK' /\ RunInv'
  BY <1>6, <1>7, RunFrame
<1> QED BY <1>4, <1>5, <1>7, <1>8 DEF IdsInv, OthersStep

LEMMA RegisterRun ==
    ASSUME ForgeOK, RunOK, RunInv, IdsInv, RegisterKey
    PROVE  RunOK' /\ RunInv' /\ IdsInv' /\ OthersStep
<1>1. PICK r \in Repos :
        /\ r \in todo
        /\ \/ /\ Add(r) /\ made' = made \cup {<<r, nextId>>} /\ Disturb
              /\ \/ /\ lines' = lines \cup {<<r, nextId>>} /\ todo' = todo \ {r}
                    /\ pc' \in {"record", "register"}
                 \/ pc' = "wipe" /\ lines' = lines /\ todo' = todo
           \/ /\ pc' = "wipe" /\ keys' = keys /\ nextId' = nextId
              /\ lines' = lines /\ todo' = todo /\ made' = made /\ gc' = gc
  BY DEF RegisterKey, Goto, RunOK, forge
<1>2. /\ pc = "register" /\ spaced' = spaced /\ rev' = rev /\ dir' = dir /\ info' = info /\ token' = token
      /\ timer' = timer /\ exp' = exp /\ stop' = stop /\ srev' = srev /\ fate' = fate
  BY DEF RegisterKey, stage, alarm, ext
<1>3. fate # "excused" => stop = "idle" /\ info = None /\ lines = made /\ fate = "early"
  BY <1>2 DEF RunInv
<1>4. CASE Add(r) /\ made' = made \cup {<<r, nextId>>} /\ Disturb
  <2>1. <<r, nextId>> \in Lines /\ nextId' = nextId + 1 /\ nextId \in Nat
    BY <1>4, BoundsAssumption DEF Add, ForgeOK, Lines
  <2>2. /\ pc' \in {"record", "register", "wipe"} /\ todo' \subseteq Repos
        /\ lines' \subseteq Lines /\ made' \subseteq Lines
    BY <1>1, <1>4, <2>1 DEF RunOK
  <2>3. RunOK'
    BY <1>2, <2>2 DEF RunOK, Live
  <2>4. pc' # "wipe" => lines' = lines \cup {<<r, nextId>>}
    BY <1>1, <1>4, <1>2
  <2>5. RunInv'
    BY <1>2, <1>3, <1>4, <2>2, <2>4 DEF RunInv
  <2>6. IdsInv'
    BY <1>4, <2>1 DEF IdsInv, RunOK, Lines
  <2> QED BY <1>4, <2>3, <2>5, <2>6 DEF OthersStep
<1>5. CASE /\ pc' = "wipe" /\ keys' = keys /\ nextId' = nextId
           /\ lines' = lines /\ todo' = todo /\ made' = made /\ gc' = gc
  <2>1. RunOK'
    BY <1>2, <1>5 DEF RunOK, Live
  <2> QED BY <1>2, <1>3, <1>5, <2>1 DEF RunInv, IdsInv, OthersStep
<1> QED BY <1>1, <1>4, <1>5

-----------------------------------------------------------------------------
(* creds gc *)

\* A gc stays within its targets; what it has seen under an identifier is what
\* is there now, if anything is, so what it is about to delete is safeslop's.
ScopeInv ==
    /\ gc.todo \subseteq gc.targets
    /\ \A l \in gc.cands : l[1] \in gc.targets
    /\ gc.pc \in {"list", "check", "delete"} => gc.repo \in gc.targets
    /\ gc.pc = "list" => gc.repo \in gc.todo
    /\ gc.pc \in {"check", "delete"} => gc.todo = {} /\ gc.confirm /\ Current \in gc.cands
    /\ gc.pc \in {"idle", "done"} => gc.seen = {}
    /\ \A k \in gc.seen : k.id < nextId /\ \A j \in keys[gc.repo] : j.id = k.id => j = k
    /\ gc.pc = "delete" => \A k \in keys[gc.repo] : k.id = gc.id => k.title = "ours"

\* A key the gc owes is in a repository it has still to list, is a candidate,
\* or is gone.
Owed(l) ==
    /\ l[2] < nextId
    /\ gc.pc = "list" =>
        /\ [id |-> l[2], title |-> "ours"] \in keys[l[1]]
        /\ gc.failed \/ l[1] \in gc.todo \/ l \in gc.cands
    /\ gc.pc \in {"check", "delete"} =>
        /\ gc.failed \/ l \in gc.cands \/ ~Registered(l)
        /\ \A k \in keys[l[1]] : k.id = l[2] => k.title = "ours"
    /\ gc.pc = "done" => ~Registered(l)

\* Pages already read have shown every key of their ranks.
Shown == \A k \in keys[gc.repo] : Rank(gc.repo, k) < (gc.page - 1) * PageSize => k \in gc.seen

ThoroughInv ==
    gc.owed # {} =>
        /\ gc.pc # "done" => ~gc.disturbed
        /\ gc.pc \in {"list", "check"} => Shown
        /\ \A l \in gc.owed : Owed(l)

LEMMA InterferedFields ==
    ASSUME NEW g \in GcType
    PROVE  /\ Interfered(g) \in GcType /\ Interfered(g).owed = {} /\ Interfered(g).disturbed = TRUE
           /\ Interfered(g).pc = g.pc /\ Interfered(g).confirm = g.confirm
           /\ Interfered(g).todo = g.todo /\ Interfered(g).cands = g.cands
           /\ Interfered(g).repo = g.repo /\ Interfered(g).id = g.id
           /\ Interfered(g).page = g.page /\ Interfered(g).seen = g.seen
           /\ Interfered(g).failed = g.failed /\ Interfered(g).targets = g.targets
  BY DEF Interfered, GcType

LEMMA OthersScope ==
    ASSUME ForgeOK, gc \in GcType, ScopeInv, OthersStep
    PROVE  ForgeOK' /\ gc' \in GcType /\ ScopeInv'
<1>1. CASE UNCHANGED <<keys, nextId, gc>>
  BY <1>1 DEF ForgeOK, ScopeInv, Current
<1>2. CASE Disturb /\ (Shrinks \/ \E r \in Repos : Add(r))
  <2>1. ForgeOK' /\ nextId <= nextId' /\ nextId' \in Nat /\ nextId \in Nat
    BY <1>2, ShrinksKeeps, AddKeeps DEF Shrinks, ForgeOK
  <2>2. \A r \in Repos : \A k \in keys'[r] : k \in keys[r] \/ (k.id = nextId /\ k.title = "ours")
    BY <1>2, AddKeeps DEF Shrinks
  <2>3. /\ gc' \in GcType /\ gc'.pc = gc.pc /\ gc'.confirm = gc.confirm
        /\ gc'.todo = gc.todo /\ gc'.cands = gc.cands /\ gc'.repo = gc.repo /\ gc'.id = gc.id
        /\ gc'.seen = gc.seen /\ gc'.targets = gc.targets
    BY <1>2, InterferedFields DEF Disturb
  <2>4. gc.seen \subseteq Keys /\ gc.repo \in Repos \cup {None} /\ gc.targets \subseteq Repos
    BY DEF GcType
  <2>5. \A k \in gc.seen : gc.repo \in Repos /\ k.id \in Nat
    BY <2>4 DEF ScopeInv, GcType, Keys
  <2>6. \A k \in gc.seen : k.id < nextId' /\ \A j \in keys'[gc.repo] : j.id = k.id => j = k
    BY <2>1, <2>2, <2>5 DEF ScopeInv
  <2>7. ASSUME gc.pc = "delete" PROVE \A k \in keys'[gc.repo] : k.id = gc.id => k.title = "ours"
    <3>1. gc.repo \in Repos /\ Current \in Lines
      BY <2>4, <2>7 DEF ScopeInv, GcType
    <3> QED BY <2>2, <2>7, <3>1 DEF ScopeInv
  <2> QED BY <2>1, <2>3, <2>6, <2>7 DEF ScopeInv, Current
<1> QED BY <1>1, <1>2 DEF OthersStep


LEMMA OthersThorough ==
    ASSUME ForgeOK, gc \in GcType, ThoroughInv, OthersStep
    PROVE  ThoroughInv'
<1>1. CASE UNCHANGED <<keys, nextId, gc>>
  <2>1. \A l : Owed(l) <=> Owed(l)'
    BY <1>1 DEF Owed, Registered
  <2>2. Shown <=> Shown'
    BY <1>1 DEF Shown, Rank
  <2>3. gc' = gc
    BY <1>1
  <2> QED BY <2>1, <2>2, <2>3 DEF ThoroughInv
<1>2. CASE Disturb /\ (Shrinks \/ \E r \in Repos : Add(r))
  <2>1. CASE gc.pc \notin {"idle", "done"}
    <3>1. gc' = Interfered(gc)
      BY <1>2, <2>1 DEF Disturb
    <3>2. gc'.owed = {}
      BY <3>1, InterferedFields
    <3> QED BY <3>2 DEF ThoroughInv
  <2>2. CASE gc.pc \in {"idle", "done"}
    <3>1. gc' = gc
      BY <1>2, <2>2 DEF Disturb
    <3>2. ASSUME NEW l \in Lines, l[2] < nextId
          PROVE  l[2] < nextId' /\ (~Registered(l) => ~Registered(l)')
      <4>1. CASE Shrinks
        BY <3>2, <4>1, ShrinksKeeps DEF Shrinks
      <4>2. CASE \E r \in Repos : Add(r)
        <5>1. PICK r \in Repos : Add(r)
          BY <4>2
        <5>2. /\ nextId < nextId' /\ nextId \in Nat /\ nextId' \in Nat
              /\ ~Registered(l) => ~Registered(l)'
          BY <3>2, <5>1, AddKeeps DEF ForgeOK
        <5> QED BY <3>2, <5>2 DEF Lines
      <4> QED BY <1>2, <4>1, <4>2
    <3>3. ASSUME NEW l \in gc.owed, Owed(l) PROVE Owed(l)'
      <4>1. l \in Lines
        BY DEF GcType
      <4> QED BY <2>2, <3>1, <3>2, <3>3, <4>1 DEF Owed
    <3> QED BY <2>2, <3>1, <3>3 DEF ThoroughInv
  <2> QED BY <2>1, <2>2
<1> QED BY <1>1, <1>2 DEF OthersStep

\* Fewer keys come before one of them than there are.
LEMMA CountBelow ==
    ASSUME NEW K \in SUBSET Keys, IsFiniteSet(K), NEW k \in K
    PROVE  LET below == {j \in K : j.id < k.id}
           IN  Cardinality(below) \in Nat /\ Cardinality(K) \in Nat /\ Cardinality(below) < Cardinality(K)
<1> DEFINE below == {j \in K : j.id < k.id}
<1>1. below \in SUBSET K /\ k \notin below
  BY DEF Keys
<1>2. Cardinality(K) \in Nat
  BY FS_CardinalityType
<1>3. IsFiniteSet(below) /\ Cardinality(below) <= Cardinality(K)
      /\ (Cardinality(K) = Cardinality(below) => K = below)
  BY <1>1, FS_Subset
<1>4. Cardinality(below) \in Nat
  BY <1>3, FS_CardinalityType
<1>5. Cardinality(below) # Cardinality(K)
  BY <1>1, <1>3
<1> HIDE DEF below
<1>6. Cardinality(below) < Cardinality(K)
  BY <1>2, <1>3, <1>4, <1>5
<1> QED BY <1>2, <1>4, <1>6 DEF below

LEMMA RankBound ==
    ASSUME ForgeOK, NEW r \in Repos, NEW k \in keys[r]
    PROVE  Rank(r, k) \in Nat /\ Cardinality(keys[r]) \in Nat /\ Rank(r, k) < Cardinality(keys[r])
<1>1. keys[r] \in SUBSET Keys /\ IsFiniteSet(keys[r])
  BY DEF ForgeOK
<1> QED BY <1>1, CountBelow DEF Rank

\* At the end of a listing that nobody disturbed every key has been seen.
LEMMA EndShowsAll ==
    ASSUME ForgeOK, gc \in GcType, gc.repo \in Repos, Shown, EndOfList
    PROVE  keys[gc.repo] \subseteq gc.seen
<1> SUFFICES ASSUME NEW k \in keys[gc.repo] PROVE k \in gc.seen
  OBVIOUS
<1> DEFINE bound == (gc.page - 1) * PageSize
<1>1. bound \in Int
  BY BoundsAssumption DEF GcType
<1>2. Cardinality(keys[gc.repo]) <= bound
  BY DEF EndOfList, IsEmptyPage
<1>3. Rank(gc.repo, k) \in Nat /\ Cardinality(keys[gc.repo]) \in Nat /\ Rank(gc.repo, k) < Cardinality(keys[gc.repo])
  BY RankBound
<1>4. Rank(gc.repo, k) < bound => k \in gc.seen
  BY DEF Shown
<1> HIDE DEF bound
<1> QED BY <1>1, <1>2, <1>3, <1>4

\* A page shows the keys of its ranks.
LEMMA PageShows ==
    ASSUME ForgeOK, gc \in GcType, gc.repo \in Repos, Shown, gc.page <= MaxPages,
           keys' = keys, gc' = [gc EXCEPT !.page = @ + 1, !.seen = @ \cup Page(gc.repo, gc.page)]
    PROVE  Shown'
<1>1. gc'.repo = gc.repo /\ gc'.page = gc.page + 1 /\ gc'.seen = gc.seen \cup Page(gc.repo, gc.page)
  BY DEF GcType
<1>2. gc.page \in Nat /\ PageSize \in Nat
  BY BoundsAssumption DEF GcType
<1>3. (gc'.page - 1) * PageSize = gc.page * PageSize
  BY <1>1, <1>2
<1>4. SUFFICES ASSUME NEW k \in keys[gc.repo], Rank(gc.repo, k) < gc.page * PageSize
               PROVE  k \in gc'.seen
  BY <1>1, <1>3 DEF Shown, Rank
<1>5. Rank(gc.repo, k) \in Nat
  BY RankBound
<1>6. CASE Rank(gc.repo, k) < (gc.page - 1) * PageSize
  BY <1>1, <1>6 DEF Shown
<1>7. CASE (gc.page - 1) * PageSize <= Rank(gc.repo, k)
  BY <1>1, <1>4, <1>7 DEF Page
<1>8. (gc.page - 1) * PageSize \in Int
  BY <1>2
<1> QED BY <1>5, <1>6, <1>7, <1>8

\* A listing that starts has shown nothing yet.
LEMMA FreshShown ==
    ASSUME ForgeOK', gc'.repo \in Repos, gc'.page = 1
    PROVE  Shown'
<1>1. (gc'.page - 1) * PageSize = 0
  BY BoundsAssumption
<1>2. ASSUME NEW k \in keys'[gc'.repo] PROVE Rank(gc.repo, k)' \in Nat
  <2>1. keys'[gc'.repo] \in SUBSET Keys /\ IsFiniteSet(keys'[gc'.repo])
    BY DEF ForgeOK
  <2> QED BY <2>1, CountBelow DEF Rank
<1> QED BY <1>1, <1>2 DEF Shown

\* Whatever a gc goes on to from g is within its scope.
LEMMA DiscoveredScope ==
    ASSUME NEW g \in GcType, gc' \in Discovered(g), g.pc = "list", g.todo \subseteq g.targets,
           \A l \in g.cands : l[1] \in g.targets
    PROVE  gc' \in GcType /\ ScopeInv'
<1>1. gc' \in GcType
  BY DiscoveredFields
<1>2. CASE /\ gc'.pc = g.pc /\ Same(g, gc') /\ Fresh(gc') /\ gc'.cands = g.cands
           /\ gc'.todo = g.todo \ {g.repo} /\ gc'.repo \in gc'.todo
  BY <1>1, <1>2 DEF ScopeInv, Same, Fresh
<1>3. CASE Over(g, gc')
  BY <1>1, <1>3 DEF ScopeInv, Over
<1>4. CASE /\ gc'.pc = "check" /\ Same(g, gc') /\ Fresh(gc') /\ gc'.cands = g.cands
           /\ gc'.todo = {} /\ <<gc'.repo, gc'.id>> \in gc'.cands /\ g.confirm
  BY <1>1, <1>4 DEF ScopeInv, Same, Fresh, Current
<1> QED BY <1>2, <1>3, <1>4, DiscoveredFields

LEMMA SettledScope ==
    ASSUME NEW g \in GcType, gc' \in Settled(g), g.todo = {}, g.confirm,
           \A l \in g.cands : l[1] \in g.targets
    PROVE  gc' \in GcType /\ ScopeInv'
<1>1. gc' \in GcType
  BY SettledFields
<1>2. CASE Over(g, gc')
  BY <1>1, <1>2 DEF ScopeInv, Over
<1>3. CASE /\ gc'.pc = "check" /\ Same(g, gc') /\ Fresh(gc') /\ gc'.todo = g.todo
           /\ gc'.cands = g.cands \ {<<g.repo, g.id>>} /\ <<gc'.repo, gc'.id>> \in gc'.cands
  BY <1>1, <1>3 DEF ScopeInv, Same, Fresh, Current
<1> QED BY <1>2, <1>3, SettledFields

\* It owes what it has still to list or to delete, or what is gone.
LEMMA DiscoveredThorough ==
    ASSUME NEW g \in GcType, gc' \in Discovered(g), g.pc = "list", g.todo \subseteq Repos,
           ForgeOK, ForgeOK', keys' = keys, nextId' = nextId,
           \A l \in g.owed : /\ ~g.disturbed /\ l[2] < nextId
                             /\ [id |-> l[2], title |-> "ours"] \in keys[l[1]]
                             /\ g.failed \/ l[1] \in g.todo \ {g.repo} \/ l \in g.cands
    PROVE  ThoroughInv'
<1>1. gc' \in GcType /\ g.owed \subseteq Lines
  BY DiscoveredFields DEF GcType
<1>2. CASE /\ gc'.pc = g.pc /\ Same(g, gc') /\ Fresh(gc') /\ gc'.cands = g.cands
           /\ gc'.todo = g.todo \ {g.repo} /\ gc'.repo \in gc'.todo
  <2>1. gc'.repo \in Repos
    BY <1>2
  <2>2. Shown'
    BY <1>2, <2>1, FreshShown DEF Fresh
  <2>3. \A l \in gc'.owed : Owed(l)'
    BY <1>2 DEF Owed, Same
  <2> QED BY <1>2, <2>2, <2>3 DEF ThoroughInv, Same
<1>3. CASE /\ Over(g, gc') /\ g.todo \ {g.repo} = {}
           /\ g.failed \/ ~g.confirm \/ g.cands = {}
  <2>1. gc'.owed = {}
    BY <1>3 DEF Over
  <2> QED BY <2>1 DEF ThoroughInv
<1>4. CASE /\ gc'.pc = "check" /\ Same(g, gc') /\ Fresh(gc') /\ gc'.cands = g.cands
           /\ g.todo \ {g.repo} = {} /\ gc'.todo = {} /\ <<gc'.repo, gc'.id>> \in gc'.cands
           /\ ~g.failed /\ g.confirm
  <2>1. gc'.repo \in Repos
    BY <1>1, <1>4 DEF GcType, Lines
  <2>2. Shown'
    BY <1>4, <2>1, FreshShown DEF Fresh
  <2>3. ASSUME NEW l \in gc'.owed PROVE Owed(l)'
    <3>1. /\ l \in g.owed /\ l \in g.cands /\ l[2] < nextId /\ l[1] \in Repos
          /\ [id |-> l[2], title |-> "ours"] \in keys[l[1]]
      BY <1>1, <1>4 DEF Same, Lines
    <3>2. \A k \in keys[l[1]] : k.id = l[2] => k.title = "ours"
      BY <3>1 DEF ForgeOK
    <3> QED BY <1>4, <3>1, <3>2 DEF Owed
  <2> QED BY <1>4, <2>2, <2>3 DEF ThoroughInv, Same
<1> QED BY <1>2, <1>3, <1>4, DiscoveredFields

LEMMA SettledThorough ==
    ASSUME NEW g \in GcType, gc' \in Settled(g), ForgeOK',
           \A l \in g.owed : /\ ~g.disturbed /\ l[2] < nextId'
                             /\ g.failed \/ l \in g.cands \ {<<g.repo, g.id>>} \/ ~Registered(l)'
                             /\ \A k \in keys'[l[1]] : k.id = l[2] => k.title = "ours"
    PROVE  ThoroughInv'
<1>1. gc' \in GcType
  BY SettledFields
<1>2. CASE Over(g, gc') /\ g.cands \ {<<g.repo, g.id>>} = {}
  <2>1. \A l \in gc'.owed : Owed(l)'
    BY <1>2 DEF Over, Owed
  <2> QED BY <1>2, <2>1 DEF ThoroughInv, Over
<1>3. CASE /\ gc'.pc = "check" /\ Same(g, gc') /\ Fresh(gc') /\ gc'.todo = g.todo
           /\ gc'.cands = g.cands \ {<<g.repo, g.id>>} /\ <<gc'.repo, gc'.id>> \in gc'.cands
  <2>1. gc'.repo \in Repos
    BY <1>1, <1>3 DEF GcType, Lines
  <2>2. Shown'
    BY <1>3, <2>1, FreshShown DEF Fresh
  <2>3. \A l \in gc'.owed : Owed(l)'
    BY <1>3 DEF Owed, Same
  <2> QED BY <1>3, <2>2, <2>3 DEF ThoroughInv, Same
<1> QED BY <1>2, <1>3, SettledFields

LEMMA GcBeginKeeps ==
    ASSUME ForgeOK, gc \in GcType, GcBegin
    PROVE  gc' \in GcType /\ ScopeInv' /\ ThoroughInv'
<1>1. PICK T \in SUBSET Repos, confirm \in BOOLEAN :
        gc' \in NextTarget([NoGC EXCEPT !.pc = "list", !.confirm = confirm, !.targets = T,
                                        !.todo = T, !.owed = Ours(T)])
  BY DEF GcBegin, Targets
<1> DEFINE g == [NoGC EXCEPT !.pc = "list", !.confirm = confirm, !.targets = T,
                             !.todo = T, !.owed = Ours(T)]
<1>2. Ours(T) \in SUBSET Lines /\ \A l \in Ours(T) : l[1] \in T
  BY DEF Ours, Lines
<1>3. NoGC \in GcType /\ NoGC.cands = {} /\ NoGC.disturbed = FALSE
  BY NoGCType DEF NoGC
<1>4. g \in GcType
  BY <1>2, <1>3 DEF GcType
<1>5. /\ g.pc = "list" /\ g.targets = T /\ g.todo = T /\ g.owed = Ours(T) /\ g.cands = {}
      /\ g.disturbed = FALSE
  BY <1>3 DEF GcType
<1> HIDE DEF g
<1>6. /\ gc' \in GcType /\ gc'.pc = g.pc /\ Same(g, gc') /\ Fresh(gc')
      /\ gc'.todo = g.todo /\ gc'.cands = g.cands /\ gc'.repo \in g.todo
  BY <1>1, <1>4, NextTargetFields DEF g
<1>7. keys' = keys /\ nextId' = nextId
  BY DEF GcBegin, GcKeep, forge
<1>8. ScopeInv'
  BY <1>5, <1>6 DEF ScopeInv, Same, Fresh
<1>9. ThoroughInv'
  <2>1. ForgeOK'
    BY <1>7 DEF ForgeOK
  <2>2. Shown'
    BY <1>5, <1>6, <2>1, FreshShown DEF Fresh
  <2>3. ASSUME NEW l \in gc'.owed PROVE Owed(l)'
    <3>1. /\ l \in Ours(T) /\ l[1] \in T /\ l[1] \in Repos
          /\ [id |-> l[2], title |-> "ours"] \in keys[l[1]]
      BY <1>2, <1>5, <1>6 DEF Same, Ours
    <3>2. l[2] < nextId
      BY <3>1 DEF ForgeOK
    <3> QED BY <1>5, <1>6, <1>7, <3>1, <3>2 DEF Owed
  <2> QED BY <1>5, <1>6, <2>2, <2>3 DEF ThoroughInv, Same
<1> QED BY <1>6, <1>8, <1>9

LEMMA GcPageKeeps ==
    ASSUME ForgeOK, gc \in GcType, ScopeInv, ThoroughInv, GcPage
    PROVE  gc' \in GcType /\ ScopeInv' /\ ThoroughInv'
<1>1. keys' = keys /\ nextId' = nextId /\ gc.pc \in {"list", "check"}
  BY DEF GcPage, GcKeep, forge
<1>2. ForgeOK'
  BY <1>1 DEF ForgeOK
<1>3. /\ gc.repo \in Repos /\ gc.seen \subseteq Keys /\ gc.todo \subseteq Repos /\ gc.cands \subseteq Lines
      /\ gc.owed \subseteq Lines /\ gc.id \in 0..MaxKeys
  BY <1>1 DEF ScopeInv, GcType
<1>4. CASE /\ gc.page <= MaxPages
           /\ gc' = [gc EXCEPT !.page = @ + 1, !.seen = @ \cup Page(gc.repo, gc.page)]
  <2>1. Page(gc.repo, gc.page) \subseteq keys[gc.repo] /\ keys[gc.repo] \subseteq Keys
    BY <1>3 DEF Page, ForgeOK
  <2>2. gc.page + 1 \in 1..(MaxPages + 1) /\ gc.seen \cup Page(gc.repo, gc.page) \in SUBSET Keys
    BY <1>3, <1>4, <2>1, BoundsAssumption DEF GcType
  <2>3. gc' \in GcType
    BY <1>4, <2>2 DEF GcType
  <2>4. /\ gc'.pc = gc.pc /\ gc'.confirm = gc.confirm /\ gc'.todo = gc.todo /\ gc'.cands = gc.cands
        /\ gc'.repo = gc.repo /\ gc'.id = gc.id /\ gc'.failed = gc.failed /\ gc'.targets = gc.targets
        /\ gc'.owed = gc.owed /\ gc'.disturbed = gc.disturbed
        /\ gc'.seen = gc.seen \cup Page(gc.repo, gc.page)
    BY <1>4 DEF GcType
  <2>5. \A k \in gc'.seen : k.id < nextId /\ \A j \in keys[gc.repo] : j.id = k.id => j = k
    BY <1>3, <2>1, <2>4 DEF ScopeInv, ForgeOK
  <2>6. ScopeInv'
    BY <1>1, <2>4, <2>5 DEF ScopeInv, Current
  <2>7. ThoroughInv'
    <3>1. Shown => Shown'
      BY <1>1, <1>3, <1>4, PageShows
    <3>2. \A l : Owed(l) => Owed(l)'
      BY <1>1, <2>4 DEF Owed, Registered
    <3> QED BY <1>1, <2>4, <3>1, <3>2 DEF ThoroughInv
  <2> QED BY <2>3, <2>6, <2>7
<1>5. CASE /\ EndOfList /\ gc.pc = "list"
           /\ gc' \in Discovered([gc EXCEPT !.cands = @ \cup Candidates(gc.repo, gc.seen)])
  <2> DEFINE g == [gc EXCEPT !.cands = @ \cup Candidates(gc.repo, gc.seen)]
  <2>1. Candidates(gc.repo, gc.seen) \subseteq Lines /\ \A l \in Candidates(gc.repo, gc.seen) : l[1] = gc.repo
    BY <1>3 DEF Candidates, Lines, Keys
  <2>2. gc.cands \cup Candidates(gc.repo, gc.seen) \in SUBSET Lines
    BY <1>3, <2>1
  <2>3. /\ g \in GcType /\ g.pc = "list" /\ g.todo = gc.todo /\ g.targets = gc.targets
        /\ g.cands = gc.cands \cup Candidates(gc.repo, gc.seen) /\ g.owed = gc.owed
        /\ g.disturbed = gc.disturbed /\ g.failed = gc.failed /\ g.repo = gc.repo
    BY <1>5, <2>2 DEF GcType
  <2>4. gc' \in Discovered(g)
    BY <1>5
  <2> HIDE DEF g
  <2>5. gc' \in GcType /\ ScopeInv'
    <3>1. g.todo \subseteq g.targets /\ \A l \in g.cands : l[1] \in g.targets
      BY <1>5, <2>1, <2>3 DEF ScopeInv
    <3> QED BY <2>3, <2>4, <3>1, DiscoveredScope
  <2>6. ASSUME NEW l \in g.owed
        PROVE  /\ ~g.disturbed /\ l[2] < nextId
               /\ [id |-> l[2], title |-> "ours"] \in keys[l[1]]
               /\ g.failed \/ l[1] \in g.todo \ {g.repo} \/ l \in g.cands
    <3>1. Owed(l) /\ Shown /\ ~gc.disturbed /\ l \in Lines
      BY <1>3, <1>5, <2>3 DEF ThoroughInv
    <3>2. /\ l[2] < nextId /\ [id |-> l[2], title |-> "ours"] \in keys[l[1]]
          /\ gc.failed \/ l[1] \in gc.todo \/ l \in gc.cands
      BY <1>5, <3>1 DEF Owed
    <3>3. ASSUME l[1] = gc.repo PROVE l \in Candidates(gc.repo, gc.seen)
      <4>1. [id |-> l[2], title |-> "ours"] \in gc.seen
        BY <1>3, <1>5, <3>1, <3>2, <3>3, EndShowsAll
      <4>2. <<gc.repo, l[2]>> \in Candidates(gc.repo, gc.seen)
        BY <4>1 DEF Candidates, Matches
      <4>3. l = <<gc.repo, l[2]>>
        BY <3>1, <3>3 DEF Lines
      <4> QED BY <4>2, <4>3
    <3> QED BY <2>3, <3>1, <3>2, <3>3
  <2>7. ThoroughInv'
    BY <1>1, <1>2, <1>3, <2>3, <2>4, <2>6, DiscoveredThorough
  <2> QED BY <2>5, <2>7
<1>6. CASE /\ EndOfList /\ gc.pc = "check" /\ Current \in Candidates(gc.repo, gc.seen)
           /\ gc' = [gc EXCEPT !.pc = "delete"]
  <2>1. /\ gc' \in GcType /\ gc'.pc = "delete" /\ gc'.confirm = gc.confirm
        /\ gc'.todo = gc.todo /\ gc'.cands = gc.cands
        /\ gc'.repo = gc.repo /\ gc'.id = gc.id /\ gc'.failed = gc.failed /\ gc'.targets = gc.targets
        /\ gc'.owed = gc.owed /\ gc'.disturbed = gc.disturbed /\ gc'.seen = gc.seen
    BY <1>6 DEF GcType
  <2>2. PICK k \in gc.seen : k.title = "ours" /\ k.id = gc.id
    BY <1>6 DEF Candidates, Matches, Current
  <2>3. \A j \in keys[gc.repo] : j.id = gc.id => j.title = "ours"
    BY <2>2 DEF ScopeInv
  <2>4. ScopeInv'
    BY <1>1, <1>6, <2>1, <2>3 DEF ScopeInv, Current
  <2>5. \A l : Owed(l) => Owed(l)'
    BY <1>1, <1>6, <2>1 DEF Owed, Registered
  <2>6. ThoroughInv'
    BY <1>6, <2>1, <2>5 DEF ThoroughInv
  <2> QED BY <2>1, <2>4, <2>6
<1>7. CASE /\ EndOfList /\ gc.pc = "check" /\ Current \notin Candidates(gc.repo, gc.seen)
           /\ gc' \in Settled(gc)
  <2>1. gc' \in GcType /\ ScopeInv'
    BY <1>7, SettledScope DEF ScopeInv
  <2>2. ASSUME NEW l \in gc.owed
        PROVE  /\ ~gc.disturbed /\ l[2] < nextId'
               /\ gc.failed \/ l \in gc.cands \ {<<gc.repo, gc.id>>} \/ ~Registered(l)'
               /\ \A k \in keys'[l[1]] : k.id = l[2] => k.title = "ours"
    <3>1. Owed(l) /\ Shown /\ ~gc.disturbed /\ l \in Lines
      BY <1>3, <1>7 DEF ThoroughInv
    <3>2. /\ l[2] < nextId
          /\ gc.failed \/ l \in gc.cands \/ ~Registered(l)
          /\ \A k \in keys[l[1]] : k.id = l[2] => k.title = "ours"
      BY <1>7, <3>1 DEF Owed
    <3>3. ASSUME l = <<gc.repo, gc.id>>, Registered(l) PROVE FALSE
      <4>1. PICK k \in keys[gc.repo] : k.id = gc.id /\ k.title = "ours"
        BY <3>2, <3>3 DEF Registered
      <4>2. k \in gc.seen
        BY <1>3, <1>7, <3>1, EndShowsAll
      <4>3. <<gc.repo, k.id>> \in Candidates(gc.repo, gc.seen)
        BY <4>1, <4>2 DEF Candidates, Matches
      <4> QED BY <1>7, <4>1, <4>3 DEF Current
    <3>4. Registered(l)' <=> Registered(l)
      BY <1>1 DEF Registered
    <3> QED BY <1>1, <3>1, <3>2, <3>3, <3>4
  <2>3. ThoroughInv'
    BY <1>2, <1>7, <2>2, SettledThorough
  <2> QED BY <2>1, <2>3
<1>8. ASSUME NEW g \in {[gc EXCEPT !.failed = TRUE], Interfered(gc)}, gc' \in Skipped(g)
      PROVE  gc' \in GcType /\ ScopeInv' /\ ThoroughInv'
  <2>1. /\ g \in GcType /\ g.pc = gc.pc /\ g.confirm = gc.confirm /\ g.todo = gc.todo
        /\ g.cands = gc.cands /\ g.repo = gc.repo /\ g.id = gc.id /\ g.targets = gc.targets
        /\ g.owed = {} \/ (g.owed = gc.owed /\ g.failed /\ g.disturbed = gc.disturbed)
    <3>1. CASE g = [gc EXCEPT !.failed = TRUE]
      BY <3>1 DEF GcType
    <3>2. CASE g = Interfered(gc)
      BY <3>2, InterferedFields
    <3> QED BY <1>8, <3>1, <3>2
  <2>2. ASSUME NEW l \in g.owed PROVE g.failed /\ ~g.disturbed /\ Owed(l) /\ l \in Lines
    BY <1>1, <1>3, <2>1 DEF ThoroughInv
  <2>3. CASE gc.pc = "list"
    <3>1. gc' \in Discovered(g) /\ g.pc = "list" /\ g.todo \subseteq Repos
      BY <1>3, <1>8, <2>1, <2>3 DEF Skipped
    <3>2. gc' \in GcType /\ ScopeInv'
      <4>1. g.todo \subseteq g.targets /\ \A l \in g.cands : l[1] \in g.targets
        BY <2>1 DEF ScopeInv
      <4> QED BY <2>1, <3>1, <4>1, DiscoveredScope
    <3>3. \A l \in g.owed : /\ ~g.disturbed /\ l[2] < nextId
                            /\ [id |-> l[2], title |-> "ours"] \in keys[l[1]]
                            /\ g.failed \/ l[1] \in g.todo \ {g.repo} \/ l \in g.cands
      BY <2>2, <2>3 DEF Owed
    <3>4. ThoroughInv'
      BY <1>1, <1>2, <2>1, <3>1, <3>3, DiscoveredThorough
    <3> QED BY <3>2, <3>4
  <2>4. CASE gc.pc = "check"
    <3>1. gc' \in Settled(g)
      BY <1>8, <2>1, <2>4 DEF Skipped
    <3>2. gc' \in GcType /\ ScopeInv'
      <4>1. g.todo = {} /\ g.confirm /\ \A l \in g.cands : l[1] \in g.targets
        BY <2>1, <2>4 DEF ScopeInv
      <4> QED BY <2>1, <3>1, <4>1, SettledScope
    <3>3. \A l \in g.owed : /\ ~g.disturbed /\ l[2] < nextId'
                            /\ g.failed \/ l \in g.cands \ {<<g.repo, g.id>>} \/ ~Registered(l)'
                            /\ \A k \in keys'[l[1]] : k.id = l[2] => k.title = "ours"
      BY <1>1, <2>2, <2>4 DEF Owed
    <3>4. ThoroughInv'
      BY <1>2, <2>1, <3>1, <3>3, SettledThorough
    <3> QED BY <3>2, <3>4
  <2> QED BY <1>1, <2>3, <2>4
<1> QED BY <1>4, <1>5, <1>6, <1>7, <1>8 DEF GcPage

LEMMA GcDeleteKeeps ==
    ASSUME ForgeOK, gc \in GcType, ScopeInv, ThoroughInv, GcDelete
    PROVE  Shrinks /\ gc' \in GcType /\ ScopeInv' /\ ThoroughInv'
<1>1. /\ gc.pc = "delete" /\ nextId' = nextId /\ gc.todo = {} /\ gc.confirm
      /\ \A l \in gc.cands : l[1] \in gc.targets
  BY DEF GcDelete, ScopeInv
<1>2. PICK c \in Lines : c = Current
  BY <1>1 DEF ScopeInv, GcType
<1>3. keys' = keys \/ keys' = Removed(c)
  BY <1>2 DEF GcDelete
<1>4. Shrinks
  <2>1. CASE keys' = keys
    BY <1>1, <2>1 DEF Shrinks, ForgeOK
  <2>2. CASE keys' = Removed(c)
    BY <1>1, <2>2, RemovedShrinks
  <2> QED BY <1>3, <2>1, <2>2
<1>5. ForgeOK' /\ \A l \in Lines : ~Registered(l) => ~Registered(l)'
  BY <1>4, ShrinksKeeps
<1>6. ASSUME NEW l \in gc.owed
      PROVE  /\ ~gc.disturbed /\ l[2] < nextId' /\ l \in Lines
             /\ gc.failed \/ l \in gc.cands \/ ~Registered(l)'
             /\ \A k \in keys'[l[1]] : k.id = l[2] => k.title = "ours"
  <2>1. l \in Lines /\ l[1] \in Repos /\ Owed(l) /\ ~gc.disturbed
    BY <1>1 DEF ThoroughInv, GcType, Lines
  <2>2. keys'[l[1]] \subseteq keys[l[1]]
    BY <1>4, <2>1 DEF Shrinks
  <2> QED BY <1>1, <1>5, <2>1, <2>2 DEF Owed
<1>7. CASE keys' = Removed(Current) /\ gc' \in Settled(gc)
  <2>1. ~Registered(c)'
    BY <1>1, <1>2, <1>7, RemovedShrinks
  <2>2. gc' \in GcType /\ ScopeInv'
    BY <1>1, <1>7, SettledScope
  <2>3. \A l \in gc.owed :
            gc.failed \/ l \in gc.cands \ {<<gc.repo, gc.id>>} \/ ~Registered(l)'
    BY <1>2, <1>6, <2>1 DEF Current
  <2>4. ThoroughInv'
    BY <1>5, <1>6, <1>7, <2>3, SettledThorough
  <2> QED BY <1>4, <2>2, <2>4
<1>8. CASE gc' \in Settled([gc EXCEPT !.failed = TRUE])
  <2> DEFINE g == [gc EXCEPT !.failed = TRUE]
  <2>1. /\ g \in GcType /\ g.failed /\ g.todo = gc.todo /\ g.confirm = gc.confirm
        /\ g.cands = gc.cands /\ g.targets = gc.targets /\ g.owed = gc.owed
        /\ g.disturbed = gc.disturbed
    BY DEF GcType
  <2>2. gc' \in Settled(g)
    BY <1>8
  <2> HIDE DEF g
  <2>3. gc' \in GcType /\ ScopeInv'
    BY <1>1, <2>1, <2>2, SettledScope
  <2>4. ThoroughInv'
    BY <1>5, <1>6, <2>1, <2>2, SettledThorough
  <2> QED BY <1>4, <2>3, <2>4
<1> QED BY <1>7, <1>8 DEF GcDelete

-----------------------------------------------------------------------------
(* The system *)

IInv == ForgeOK /\ RunOK /\ gc \in GcType /\ IdsInv /\ RunInv /\ ScopeInv /\ ThoroughInv

LEMMA ForeignFinite == IsFiniteSet(Foreign)
<1> DEFINE f == [i \in 1..Others |-> [id |-> i, title |-> "other"]]
<1>1. f \in Surjection(1..Others, Foreign)
  <2>1. f \in [1..Others -> Foreign]
    BY DEF Foreign
  <2>2. ASSUME NEW k \in Foreign PROVE \E i \in 1..Others : f[i] = k
    <3>1. k.id \in 1..Others /\ k = [id |-> k.id, title |-> "other"]
      BY DEF Foreign
    <3> QED BY <3>1
  <2> QED BY <2>1, <2>2 DEF Surjection
<1>2. IsFiniteSet(1..Others)
  BY BoundsAssumption, FS_Interval
<1> QED BY <1>1, <1>2, FS_Surjection

LEMMA ForgeInit == Init => IInv
<1> SUFFICES ASSUME Init PROVE IInv
  OBVIOUS
<1>1. ForgeOK
  <2>1. /\ keys = [r \in Repos |-> IF r = Shared THEN Foreign ELSE {}]
        /\ nextId = Others + 1
    BY DEF Init
  <2>2. Foreign \subseteq Keys /\ \A k \in Foreign : k.id < nextId /\ \A j \in Foreign : j.id = k.id => j = k
    BY <2>1, BoundsAssumption DEF Foreign, Keys
  <2>3. ASSUME NEW r \in Repos
        PROVE  keys[r] \in {Foreign, {}} /\ IsFiniteSet(keys[r])
    BY <2>1, ForeignFinite, FS_EmptySet
  <2>4. keys \in [Repos -> SUBSET Keys] /\ nextId \in 1..(MaxKeys + 1)
    BY <2>1, <2>2, BoundsAssumption
  <2> QED BY <2>2, <2>3, <2>4 DEF ForgeOK
<1>2. RunOK
  <2>1. dir = FALSE /\ token = FALSE /\ info = None
    BY DEF Init
  <2> QED BY <2>1 DEF Init, RunOK
<1>3. gc \in GcType /\ IdsInv /\ RunInv
  BY NoGCType DEF Init, IdsInv, RunInv
<1>4. ScopeInv /\ ThoroughInv
  BY DEF Init, NoGC, ScopeInv, ThoroughInv
<1> QED BY <1>1, <1>2, <1>3, <1>4 DEF IInv

\* Every step is one of the run and its helpers, one of the gc, or one of
\* somebody else.
LEMMA ForgeStep == IInv /\ [Next]_vars => IInv'
<1> SUFFICES ASSUME IInv, [Next]_vars PROVE IInv'
  OBVIOUS
<1>1. /\ ForgeOK /\ RunOK /\ gc \in GcType /\ IdsInv /\ RunInv
      /\ ScopeInv /\ ThoroughInv
  BY DEF IInv
<1>2. ASSUME RunOK' /\ RunInv' /\ IdsInv' /\ OthersStep PROVE IInv'
  BY <1>1, <1>2, OthersScope, OthersThorough DEF IInv
<1>3. CASE QuietStep
  BY <1>1, <1>2, <1>3, QuietRun DEF OthersStep
<1>4. CASE RegisterKey \/ Revoke \/ Expire \/ StopRevoke \/ Operate
  BY <1>1, <1>2, <1>4, RegisterRun, RevokeRun, ExpireRun, StopRevokeRun, OperateRun
<1>5. CASE GcBegin \/ GcPage
  <2>1. /\ keys' = keys /\ nextId' = nextId
        /\ UNCHANGED <<run, stage, alarm, ext, made, fate>>
    BY <1>5 DEF GcBegin, GcPage, GcKeep, forge
  <2>2. RunOK' /\ RunInv'
    BY <1>1, <2>1, RunFrame DEF Registered
  <2>3. ForgeOK' /\ IdsInv'
    BY <1>1, <2>1 DEF ForgeOK, IdsInv
  <2> QED BY <1>1, <1>5, <2>2, <2>3, GcBeginKeeps, GcPageKeeps DEF IInv
<1>6. CASE GcDelete
  <2>1. Shrinks /\ gc' \in GcType /\ ScopeInv' /\ ThoroughInv'
    BY <1>1, <1>6, GcDeleteKeeps
  <2>2. ForgeOK' /\ \A l \in Lines : ~Registered(l) => ~Registered(l)'
    BY <1>1, <2>1, ShrinksKeeps
  <2>3. UNCHANGED <<run, stage, alarm, ext, made, fate>>
    BY <1>6 DEF GcDelete
  <2>4. RunOK' /\ RunInv'
    BY <1>1, <2>2, <2>3, RunFrame
  <2>5. IdsInv'
    BY <1>1, <2>1, <2>3 DEF IdsInv, Shrinks
  <2> QED BY <2>1, <2>2, <2>4, <2>5 DEF IInv
<1>7. CASE UNCHANGED vars
  <2>1. UNCHANGED <<keys, nextId, gc>> /\ UNCHANGED <<run, stage, alarm, ext, made, fate>>
    BY <1>7 DEF vars, forge
  <2>2. RunOK' /\ RunInv'
    BY <1>1, <2>1, RunFrame DEF Registered
  <2> QED BY <1>1, <1>2, <2>1, <2>2 DEF IdsInv, OthersStep
<1> QED BY <1>3, <1>4, <1>5, <1>6, <1>7 DEF Next, RunStep, Callback, StopStep, QuietStep

LEMMA ForgeInvariant == Spec => []IInv
  BY ForgeInit, ForgeStep, PTL DEF Spec

\* The instance, the run and the gc stay well formed, for every number of
\* repositories, keys and pages: identifiers are unique within a repository
\* and ascend, and revoke-info is never there without its directory.
THEOREM TypeCorrect == Spec => []TypeOK
<1>1. IInv => TypeOK
  BY TypeParts DEF IInv, ForgeOK
<1> QED BY <1>1, ForgeInvariant, PTL

\* A run whose agent was launched and that ended by itself leaves no key it
\* registered and can read back from revoke-info, though its timer and a stop
\* revoke and wipe beside it (RevokeForgejo before the wipe).
THEOREM Teardown == Spec => []TeardownRevokes
<1>1. IInv => TeardownRevokes
  BY DEF IInv, RunInv, TeardownRevokes, Unregistered
<1> QED BY <1>1, ForgeInvariant, PTL

\* A confirmed gc that reports no error has deleted every key it owed, however
\* many pages a listing takes (listForgejoGCKeys, runCredsGCWithClient).
THEOREM GcThorough == Spec => []GcIsThorough
<1>1. IInv => GcIsThorough
  BY DEF IInv, ThoroughInv, GcIsThorough, Owed
<1> QED BY <1>1, ForgeInvariant, PTL

\* A gc deletes keys with safeslop's title only, in repositories it was given,
\* once it was told to and had listed all of them.
THEOREM GcInScope == Spec => GcStaysInScope
<1> DEFINE A == gc.pc = "delete" /\ gc'.pc # "delete" =>
        \A r \in Repos : \A k \in keys[r] \ keys'[r] :
            k.title = "ours" /\ r \in gc.targets /\ gc.confirm /\ gc.todo = {}
<1>1. IInv /\ [Next]_vars => [A]_vars
  <2> SUFFICES ASSUME IInv, Next, gc.pc = "delete", gc'.pc # "delete",
                      NEW r \in Repos, NEW k \in keys[r] \ keys'[r]
               PROVE  k.title = "ours" /\ r \in gc.targets /\ gc.confirm /\ gc.todo = {}
    OBVIOUS
  <2>1. ForgeOK /\ RunOK /\ gc \in GcType /\ IdsInv /\ RunInv /\ ScopeInv
    BY DEF IInv
  <2>2. ~OthersStep
    <3>1. Interfered(gc).pc = gc.pc
      BY <2>1, InterferedFields
    <3> QED BY <3>1 DEF OthersStep, Disturb
  <2>3. GcDelete
    <3>1. ~(GcBegin \/ GcPage)
      BY DEF GcBegin, GcPage
    <3>2. ~QuietStep
      BY <2>1, <2>2, QuietRun DEF OthersStep
    <3>3. ~(RegisterKey \/ Revoke \/ Expire \/ StopRevoke \/ Operate)
      BY <2>1, <2>2, RegisterRun, RevokeRun, ExpireRun, StopRevokeRun, OperateRun
    <3> QED BY <3>1, <3>2, <3>3 DEF Next, RunStep, Callback, StopStep, QuietStep
  <2>4. Current \in Lines /\ gc.todo = {} /\ gc.confirm /\ gc.repo \in gc.targets /\ gc.repo \in Repos
    BY <2>1 DEF ScopeInv, GcType
  <2>5. keys' = Removed(Current)
    BY <2>3 DEF GcDelete
  <2>6. keys' = [keys EXCEPT ![gc.repo] = {j \in keys[gc.repo] : j.id # gc.id}]
    BY <2>5 DEF Removed, Current
  <2>7. r = gc.repo /\ k.id = gc.id
    BY <2>1, <2>4, <2>6 DEF ForgeOK
  <2> QED BY <2>1, <2>4, <2>7 DEF ScopeInv
<1>2. Spec => []IInv /\ [][Next]_vars
  BY ForgeInvariant, PTL DEF Spec
<1>3. Spec => [][A]_vars
  BY <1>1, <1>2, PTL
<1> QED BY <1>3 DEF GcStaysInScope
=============================================================================
