----------------------- MODULE SessionLifecycleProofs -----------------------
(***************************************************************************)
(* Safety of the session lifecycle for every number of wrappers,           *)
(* supervisors and operators, and for both readings of a zombie's group.   *)
(***************************************************************************)
EXTENDS SessionLifecycle, TLAPS

Terminal == status \in {"stopped", "removed"}

\* A process that has not touched the record yet.
Fresh == {"idle", "checked", "none", "born", "init"}

\* The runners that took the session over: from the claim of a coupled wrapper
\* or the handoff to a supervisor up to the end of the process.
Holding == {"claimed", "owned", "bound", "run", "agent", "over", "finish"}
Holds(p) == p \in Runners /\ pc[p] \in Holding

\* The issuing wrappers that claimed the record and have not exited.
Issuing == {"claimed", "launch", "release", "poll", "wait", "killed", "sweep", "record"}

\* Each kind of process stays in its own control states, and a supervisor
\* exists only after the launch of its wrapper.
PcInv ==
    /\ \A c \in Coupled :
          pc[Wrapper(c)] \in {"idle", "checked", "claimed", "run", "agent", "over", "exited"}
    /\ \A i \in Issuers :
          /\ pc[Wrapper(i)] \in {"idle", "checked", "exited", "unready", "unreaped"} \cup Issuing
          /\ pc[Supervisor(i)] \in SupervisorPCs \cup {"exited", "reaped"}
          /\ pc[Wrapper(i)] \in {"idle", "checked", "claimed"} => pc[Supervisor(i)] = "none"

\* The record names whoever holds the session until it is terminal, and a
\* holder that outlives it was cancelled.
HolderInv ==
    /\ status = "running" => pc[owner] \notin Fresh
    /\ \A p \in Proc : Holds(p) => \/ status = "running" /\ owner = p
                                   \/ Terminal /\ p \in term
    /\ \A p, q \in Proc : Holds(p) /\ Holds(q) => p = q
    /\ \A i \in Issuers : pc[Wrapper(i)] \in Issuing =>
          \/ status = "running" /\ owner \in {Wrapper(i), Supervisor(i)}
          \/ Terminal

\* A stranger's PID belonged to a process that is gone for good.
ReuseInv == ~foreign /\ \A p \in reused : pc[p] \in Ended /\ ~Zombie(p)

\* What an issuing wrapper knows once it gave its supervisor up.
UnreadyInv ==
    \A i \in Issuers :
        /\ pc[Wrapper(i)] \in {"sweep", "record", "unready"} => ~Live(Supervisor(i))
        /\ pc[Wrapper(i)] = "unready" => Terminal

\* What a stop knows: under the lock, that the owner it found is gone or was
\* cancelled; after its commit, that nobody but its target holds the session;
\* after its wait, that the target is gone.
StopInv ==
    \A o \in Operators :
        /\ opc[o] = "clean" =>
              /\ lock = {o} /\ status \in {"created", "running"}
              /\ status = "running" => pc[owner] \in Ended \/ owner \in term
              /\ target[o] # {} => status = "running" /\ target[o] = {owner}
        /\ \A p \in target[o] : pc[p] \notin Fresh
        /\ target[o] # {} /\ opc[o] \notin {"idle", "clean"} =>
              Terminal /\ \A p \in Proc : Holds(p) => p \in target[o]
        /\ opc[o] \in {"reload", "wipe", "quiet"} => \A p \in target[o] : pc[p] \in Ended
        /\ opc[o] = "quiet" => target[o] # {} /\ ~staged

IInv == TypeOK /\ PcInv /\ HolderInv /\ ReuseInv /\ UnreadyInv /\ StopInv

-----------------------------------------------------------------------------

\* The processes: wrappers and supervisors are told apart, a supervisor has one
\* parent, and the runners are the coupled wrappers and the supervisors.
LEMMA ProcFacts ==
    /\ \A c \in Coupled \cup Issuers : Wrapper(c) \in Wrappers
    /\ \A i \in Issuers : Supervisor(i) \in Supervisors /\ Parent(Supervisor(i)) = Wrapper(i)
    /\ \A p \in Wrappers : p \in Proc /\ p \notin Supervisors /\ p # NoProc
          /\ \E c \in Coupled \cup Issuers : p = Wrapper(c)
    /\ \A p \in Supervisors : p \in Proc /\ p \in Runners /\ p \notin Wrappers /\ p # NoProc
          /\ \E i \in Issuers : p = Supervisor(i)
    /\ \A p \in Proc : p \in Wrappers \/ p \in Supervisors
    /\ \A p \in Runners : p \in Proc /\ (p \in Supervisors \/ \E c \in Coupled : p = Wrapper(c))
    /\ \A c \in Coupled : Wrapper(c) \in Runners
    /\ \A i \in Issuers : Wrapper(i) \notin Runners
    /\ \A c, d \in Coupled \cup Issuers : Wrapper(c) = Wrapper(d) => c = d
    /\ \A i, j \in Issuers : Supervisor(i) = Supervisor(j) => i = j
  BY CommandsAssumption DEF Proc, Wrappers, Supervisors, Runners, Wrapper, Supervisor, Parent, NoProc

\* The record Create writes, with no command started yet, satisfies the
\* invariant.
LEMMA InitIInv == Init => IInv
<1> SUFFICES ASSUME Init PROVE IInv
  OBVIOUS
<1> USE ProcFacts DEF Init, Ended, Fresh
<1>1. TypeOK
  <2>1. foreign \in BOOLEAN /\ staged \in BOOLEAN
    BY Zenon DEF Init
  <2> QED BY <2>1 DEF TypeOK, Statuses, Sockets, WrapperPCs, SupervisorPCs, OpPCs
<1>2. PcInv
  BY DEF PcInv, Issuing, SupervisorPCs
<1>3. HolderInv
  BY DEF HolderInv, Holds, Holding, Issuing, Terminal
<1>4. ReuseInv
  BY DEF ReuseInv
<1>5. UnreadyInv
  <2>1. \A i \in Issuers : pc[Wrapper(i)] = "idle"
    OBVIOUS
  <2> QED BY <2>1 DEF UnreadyInv
<1>6. StopInv
  <2>1. \A o \in Operators : opc[o] = "idle" /\ target[o] = {}
    OBVIOUS
  <2> QED BY <2>1 DEF StopInv
<1> QED BY <1>1, <1>2, <1>3, <1>4, <1>5, <1>6 DEF IInv

\* Every step of every process, operator and of the world preserves it.
LEMMA NextIInv == IInv /\ [Next]_vars => IInv'
<1> SUFFICES ASSUME IInv, [Next]_vars PROVE IInv'
  OBVIOUS
<1> USE ProcFacts DEF IInv, TypeOK, PcInv, HolderInv, ReuseInv, UnreadyInv, StopInv,
      Terminal, Fresh, Holding, Holds, Issuing, record, files, pids, ops, At, Goto,
      Live, Zombie, Alive, Ended, Statuses, Sockets, Outcomes, WrapperPCs,
      SupervisorPCs, OpPCs, Unlocked, Commit, Finish, OpGoto, OpEnd, OpIdle
<1>1. ASSUME NEW w \in Wrappers, Check(w) PROVE IInv'
  BY <1>1 DEF Check
<1>2. ASSUME NEW w \in Wrappers, Claim(w) PROVE IInv'
  <2>1. TypeOK'
    BY <1>2 DEF Claim, Claimable
  <2>2. PcInv'
    BY <1>2 DEF Claim, Claimable
  <2>3. HolderInv'
    BY <1>2 DEF Claim, Claimable
  <2>4. ReuseInv'
    BY <1>2 DEF Claim, Claimable
  <2>5. UnreadyInv'
    BY <1>2 DEF Claim, Claimable
  <2>6. StopInv'
    BY <1>2 DEF Claim, Claimable
  <2> QED BY <2>1, <2>2, <2>3, <2>4, <2>5, <2>6
<1>3. ASSUME NEW p \in Runners, Stage(p) PROVE IInv'
  <2>1. TypeOK'
    BY <1>3 DEF Stage
  <2>2. PcInv'
    BY <1>3 DEF Stage
  <2>3. HolderInv'
    BY <1>3 DEF Stage
  <2>4. ReuseInv'
    BY <1>3 DEF Stage
  <2>5. UnreadyInv'
    BY <1>3 DEF Stage
  <2>6. StopInv'
    BY <1>3 DEF Stage
  <2> QED BY <2>1, <2>2, <2>3, <2>4, <2>5, <2>6
<1>4. ASSUME NEW p \in Runners, Renew(p) PROVE IInv'
  BY <1>4 DEF Renew
<1>5. ASSUME NEW p \in Runners, AgentExits(p) PROVE IInv'
  <2>1. TypeOK'
    BY <1>5 DEF AgentExits
  <2>2. PcInv'
    BY <1>5 DEF AgentExits
  <2>3. HolderInv'
    BY <1>5 DEF AgentExits
  <2>4. ReuseInv'
    BY <1>5 DEF AgentExits
  <2>5. UnreadyInv'
    BY <1>5 DEF AgentExits
  <2>6. StopInv'
    BY <1>5 DEF AgentExits
  <2> QED BY <2>1, <2>2, <2>3, <2>4, <2>5, <2>6
<1>6. ASSUME NEW c \in Coupled, EnterRun(Wrapper(c)) PROVE IInv'
  BY <1>6 DEF EnterRun
<1>7. ASSUME NEW c \in Coupled, FinishRun(Wrapper(c)) PROVE IInv'
  <2>1. TypeOK'
    BY <1>7 DEF FinishRun
  <2>2. PcInv'
    BY <1>7 DEF FinishRun
  <2>3. HolderInv'
    BY <1>7 DEF FinishRun
  <2>4. ReuseInv'
    BY <1>7 DEF FinishRun
  <2>5. UnreadyInv'
    BY <1>7 DEF FinishRun
  <2>6. StopInv'
    <3>1. \A x \in Operators : opc[x] # "clean"
      BY <1>7 DEF FinishRun
    <3>2. \A x \in Operators : opc'[x] # "clean"
      BY <1>7, <3>1 DEF FinishRun
    <3>3. ASSUME NEW x \in Operators
          PROVE  \A p \in target'[x] : pc'[p] \notin Fresh
      BY <1>7, <3>1 DEF FinishRun
    <3>4. ASSUME NEW x \in Operators, target'[x] # {}, opc'[x] \notin {"idle", "clean"}
          PROVE  Terminal' /\ \A p \in Proc : Holds(p)' => p \in target'[x]
      BY <1>7, <3>1, <3>4 DEF FinishRun
    <3>5. ASSUME NEW x \in Operators, opc'[x] \in {"reload", "wipe", "quiet"}
          PROVE  \A p \in target'[x] : pc'[p] \in Ended
      BY <1>7, <3>1, <3>5 DEF FinishRun
    <3>6. ASSUME NEW x \in Operators, opc'[x] = "quiet"
          PROVE  target'[x] # {} /\ ~staged'
      BY <1>7, <3>1, <3>6 DEF FinishRun
    <3> QED BY <3>2, <3>3, <3>4, <3>5, <3>6
  <2> QED BY <2>1, <2>2, <2>3, <2>4, <2>5, <2>6
<1>8. ASSUME NEW i \in Issuers, Launch(i) PROVE IInv'
  <2>1. TypeOK'
    BY <1>8 DEF Launch
  <2>2. PcInv'
    BY <1>8 DEF Launch
  <2>3. HolderInv'
    BY <1>8 DEF Launch
  <2>4. ReuseInv'
    BY <1>8 DEF Launch
  <2>5. UnreadyInv'
    BY <1>8 DEF Launch
  <2>6. StopInv'
    BY <1>8 DEF Launch
  <2> QED BY <2>1, <2>2, <2>3, <2>4, <2>5, <2>6
<1>9. ASSUME NEW i \in Issuers, Capture(i) PROVE IInv'
  <2>1. TypeOK'
    BY <1>9 DEF Capture
  <2>2. PcInv'
    BY <1>9 DEF Capture
  <2>3. HolderInv'
    BY <1>9 DEF Capture
  <2>4. ReuseInv'
    BY <1>9 DEF Capture
  <2>5. UnreadyInv'
    BY <1>9 DEF Capture
  <2>6. StopInv'
    BY <1>9 DEF Capture
  <2> QED BY <2>1, <2>2, <2>3, <2>4, <2>5, <2>6
<1>10. ASSUME NEW i \in Issuers, ReleaseRunningClaim(i) PROVE IInv'
  <2>1. TypeOK'
    BY <1>10 DEF ReleaseRunningClaim, Releasable
  <2>2. PcInv'
    BY <1>10 DEF ReleaseRunningClaim, Releasable
  <2>3. HolderInv'
    BY <1>10 DEF ReleaseRunningClaim, Releasable
  <2>4. ReuseInv'
    BY <1>10 DEF ReleaseRunningClaim, Releasable
  <2>5. UnreadyInv'
    BY <1>10 DEF ReleaseRunningClaim, Releasable
  <2>6. StopInv'
    BY <1>10 DEF ReleaseRunningClaim, Releasable
  <2> QED BY <2>1, <2>2, <2>3, <2>4, <2>5, <2>6
<1>11. ASSUME NEW i \in Issuers, Ready(i) PROVE IInv'
  BY <1>11 DEF Ready
<1>12. ASSUME NEW i \in Issuers, Timeout(i) PROVE IInv'
  <2>1. TypeOK'
    BY <1>12 DEF Timeout, Signalled, Cancelled, Hits, Handles
  <2>2. PcInv'
    BY <1>12 DEF Timeout, Signalled, Cancelled, Hits, Handles
  <2>3. HolderInv'
    BY <1>12 DEF Timeout, Signalled, Cancelled, Hits, Handles
  <2>4. ReuseInv'
    BY <1>12 DEF Timeout, Signalled, Cancelled, Hits, Handles
  <2>5. UnreadyInv'
    BY <1>12 DEF Timeout, Signalled, Cancelled, Hits, Handles
  <2>6. StopInv'
    BY <1>12 DEF Timeout, Signalled, Cancelled, Hits, Handles
  <2> QED BY <2>1, <2>2, <2>3, <2>4, <2>5, <2>6
<1>13. ASSUME NEW i \in Issuers, Vanished(i) PROVE IInv'
  BY <1>13 DEF Vanished, GroupGone
<1>14. ASSUME NEW i \in Issuers, Escalate(i) PROVE IInv'
  <2>1. TypeOK'
    BY <1>14 DEF Escalate, GroupThere, MayEscalate, Killed, Hits
  <2>2. PcInv'
    BY <1>14 DEF Escalate, GroupThere, MayEscalate, Killed, Hits
  <2>3. HolderInv'
    BY <1>14 DEF Escalate, GroupThere, MayEscalate, Killed, Hits
  <2>4. ReuseInv'
    BY <1>14 DEF Escalate, GroupThere, MayEscalate, Killed, Hits
  <2>5. UnreadyInv'
    BY <1>14 DEF Escalate, GroupThere, MayEscalate, Killed, Hits
  <2>6. StopInv'
    BY <1>14 DEF Escalate, GroupThere, MayEscalate, Killed, Hits
  <2> QED BY <2>1, <2>2, <2>3, <2>4, <2>5, <2>6
<1>15. ASSUME NEW i \in Issuers, Unreaped(i) PROVE IInv'
  BY <1>15 DEF Unreaped, GroupThere
<1>16. ASSUME NEW i \in Issuers, Sweep(i) PROVE IInv'
  BY <1>16 DEF Sweep
<1>17. ASSUME NEW i \in Issuers, RecordUnready(i) PROVE IInv'
  <2>1. TypeOK'
    BY <1>17 DEF RecordUnready
  <2>2. PcInv'
    BY <1>17 DEF RecordUnready
  <2>3. HolderInv'
    BY <1>17 DEF RecordUnready
  <2>4. ReuseInv'
    BY <1>17 DEF RecordUnready
  <2>5. UnreadyInv'
    BY <1>17 DEF RecordUnready
  <2>6. StopInv'
    <3>1. \A x \in Operators : opc[x] # "clean"
      BY <1>17 DEF RecordUnready
    <3>2. \A x \in Operators : opc'[x] # "clean"
      BY <1>17, <3>1 DEF RecordUnready
    <3>3. ASSUME NEW x \in Operators
          PROVE  \A p \in target'[x] : pc'[p] \notin Fresh
      BY <1>17, <3>1 DEF RecordUnready
    <3>4. ASSUME NEW x \in Operators, target'[x] # {}, opc'[x] \notin {"idle", "clean"}
          PROVE  Terminal' /\ \A p \in Proc : Holds(p)' => p \in target'[x]
      BY <1>17, <3>1, <3>4 DEF RecordUnready
    <3>5. ASSUME NEW x \in Operators, opc'[x] \in {"reload", "wipe", "quiet"}
          PROVE  \A p \in target'[x] : pc'[p] \in Ended
      BY <1>17, <3>1, <3>5 DEF RecordUnready
    <3>6. ASSUME NEW x \in Operators, opc'[x] = "quiet"
          PROVE  target'[x] # {} /\ ~staged'
      BY <1>17, <3>1, <3>6 DEF RecordUnready
    <3> QED BY <3>2, <3>3, <3>4, <3>5, <3>6
  <2> QED BY <2>1, <2>2, <2>3, <2>4, <2>5, <2>6
<1>18. ASSUME NEW i \in Issuers, Boot(i) PROVE IInv'
  BY <1>18 DEF Boot
<1>19. ASSUME NEW i \in Issuers, RefuseStart(i) PROVE IInv'
  BY <1>19 DEF RefuseStart
<1>20. ASSUME NEW i \in Issuers, Handoff(i) PROVE IInv'
  <2>1. TypeOK'
    BY <1>20 DEF Handoff, ClaimedByParent
  <2>2. PcInv'
    BY <1>20 DEF Handoff, ClaimedByParent
  <2>3. HolderInv'
    BY <1>20 DEF Handoff, ClaimedByParent
  <2>4. ReuseInv'
    BY <1>20 DEF Handoff, ClaimedByParent
  <2>5. UnreadyInv'
    BY <1>20 DEF Handoff, ClaimedByParent
  <2>6. StopInv'
    BY <1>20 DEF Handoff, ClaimedByParent
  <2> QED BY <2>1, <2>2, <2>3, <2>4, <2>5, <2>6
<1>21. ASSUME NEW i \in Issuers, Bind(i) PROVE IInv'
  BY <1>21 DEF Bind
<1>22. ASSUME NEW i \in Issuers, Publish(i) PROVE IInv'
  BY <1>22 DEF Publish
<1>23. ASSUME NEW i \in Issuers, CloseSocket(i) PROVE IInv'
  BY <1>23 DEF CloseSocket
<1>24. ASSUME NEW i \in Issuers, FinishSupervise(i) PROVE IInv'
  <2>1. TypeOK'
    BY <1>24 DEF FinishSupervise
  <2>2. PcInv'
    BY <1>24 DEF FinishSupervise
  <2>3. HolderInv'
    BY <1>24 DEF FinishSupervise
  <2>4. ReuseInv'
    BY <1>24 DEF FinishSupervise
  <2>5. UnreadyInv'
    BY <1>24 DEF FinishSupervise
  <2>6. StopInv'
    <3>1. \A x \in Operators : opc[x] # "clean"
      BY <1>24 DEF FinishSupervise
    <3>2. \A x \in Operators : opc'[x] # "clean"
      BY <1>24, <3>1 DEF FinishSupervise
    <3>3. ASSUME NEW x \in Operators
          PROVE  \A p \in target'[x] : pc'[p] \notin Fresh
      BY <1>24, <3>1 DEF FinishSupervise
    <3>4. ASSUME NEW x \in Operators, target'[x] # {}, opc'[x] \notin {"idle", "clean"}
          PROVE  Terminal' /\ \A p \in Proc : Holds(p)' => p \in target'[x]
      BY <1>24, <3>1, <3>4 DEF FinishSupervise
    <3>5. ASSUME NEW x \in Operators, opc'[x] \in {"reload", "wipe", "quiet"}
          PROVE  \A p \in target'[x] : pc'[p] \in Ended
      BY <1>24, <3>1, <3>5 DEF FinishSupervise
    <3>6. ASSUME NEW x \in Operators, opc'[x] = "quiet"
          PROVE  target'[x] # {} /\ ~staged'
      BY <1>24, <3>1, <3>6 DEF FinishSupervise
    <3> QED BY <3>2, <3>3, <3>4, <3>5, <3>6
  <2> QED BY <2>1, <2>2, <2>3, <2>4, <2>5, <2>6
<1>25. ASSUME NEW o \in Operators, Reconcile(o) PROVE IInv'
  <2>1. TypeOK'
    BY <1>25 DEF Reconcile, DeadOwner
  <2>2. PcInv'
    BY <1>25 DEF Reconcile, DeadOwner
  <2>3. HolderInv'
    <3>1. CASE UNCHANGED record
      BY <1>25, <3>1 DEF Reconcile
    <3>2. CASE status' = "stopped"
      <4>1. ASSUME NEW p \in Proc, Holds(p) PROVE FALSE
        BY <1>25, <4>1 DEF Reconcile, DeadOwner
      <4> QED BY <1>25, <3>2, <4>1 DEF Reconcile
    <3> QED BY <1>25, <3>1, <3>2 DEF Reconcile
  <2>4. ReuseInv'
    BY <1>25 DEF Reconcile, DeadOwner
  <2>5. UnreadyInv'
    BY <1>25 DEF Reconcile, DeadOwner
  <2>6. StopInv'
    BY <1>25 DEF Reconcile, DeadOwner
  <2> QED BY <2>1, <2>2, <2>3, <2>4, <2>5, <2>6
<1>26. ASSUME NEW o \in Operators, StopBegin(o) PROVE IInv'
  <2>1. TypeOK'
    BY <1>26 DEF StopBegin, Signals, Signalled, Cancelled, Hits, Handles
  <2>2. PcInv'
    BY <1>26 DEF StopBegin, Signals, Signalled, Cancelled, Hits, Handles
  <2>3. HolderInv'
    BY <1>26 DEF StopBegin, Signals, Signalled, Cancelled, Hits, Handles
  <2>4. ReuseInv'
    BY <1>26 DEF StopBegin, Signals, Signalled, Cancelled, Hits, Handles
  <2>5. UnreadyInv'
    BY <1>26 DEF StopBegin, Signals, Signalled, Cancelled, Hits, Handles
  <2>6. StopInv'
    BY <1>26 DEF StopBegin, Signals, Signalled, Cancelled, Hits, Handles
  <2> QED BY <2>1, <2>2, <2>3, <2>4, <2>5, <2>6
<1>27. ASSUME NEW o \in Operators, Remove(o) PROVE IInv'
  <2>1. TypeOK'
    BY <1>27 DEF Remove
  <2>2. PcInv'
    BY <1>27 DEF Remove
  <2>3. HolderInv'
    BY <1>27 DEF Remove
  <2>4. ReuseInv'
    BY <1>27 DEF Remove
  <2>5. UnreadyInv'
    BY <1>27 DEF Remove
  <2>6. StopInv'
    <3>1. \A x \in Operators : opc[x] # "clean"
      BY <1>27 DEF Remove
    <3>2. \A x \in Operators : opc'[x] # "clean"
      BY <1>27, <3>1 DEF Remove
    <3>3. ASSUME NEW x \in Operators
          PROVE  \A p \in target'[x] : pc'[p] \notin Fresh
      BY <1>27, <3>1 DEF Remove
    <3>4. ASSUME NEW x \in Operators, opc'[x] # "idle"
          PROVE  opc[x] = opc'[x] /\ target'[x] = target[x]
      BY <1>27, <3>4 DEF Remove
    <3>5. ASSUME NEW x \in Operators, target'[x] # {}, opc'[x] \notin {"idle", "clean"}
          PROVE  Terminal' /\ \A p \in Proc : Holds(p)' => p \in target'[x]
      <4>1. Terminal /\ \A p \in Proc : Holds(p) => p \in target[x]
        BY <3>4, <3>5, <3>1
      <4>2. Terminal' /\ pc' = pc
        BY <1>27, <4>1 DEF Remove
      <4> QED BY <3>4, <3>5, <4>1, <4>2
    <3>6. ASSUME NEW x \in Operators, opc'[x] \in {"reload", "wipe", "quiet"}
          PROVE  \A p \in target'[x] : pc'[p] \in Ended
      BY <1>27, <3>1, <3>6, <3>4 DEF Remove
    <3>7. ASSUME NEW x \in Operators, opc'[x] = "quiet"
          PROVE  target'[x] # {} /\ ~staged'
      <4>1. opc[x] = "quiet" /\ target'[x] = target[x]
        BY <3>7, <3>4
      <4>2. staged = FALSE /\ target[x] # {}
        BY <4>1
      <4>3. staged' = FALSE
        BY <1>27, <4>2 DEF Remove
      <4> QED BY <4>1, <4>2, <4>3
    <3> QED BY <3>2, <3>3, <3>5, <3>6, <3>7
  <2> QED BY <2>1, <2>2, <2>3, <2>4, <2>5, <2>6
<1>28. ASSUME NEW o \in Operators, StopCommit(o) PROVE IInv'
  <2>1. TypeOK'
    <3>1. /\ status' \in Statuses /\ owner' \in Proc \cup {NoProc}
          /\ (status' = "running") <=> (owner' # NoProc)
      BY <1>28 DEF StopCommit, Cleans
    <3>2. lock' = {} /\ sock' \in Sockets /\ staged' \in BOOLEAN
      BY <1>28 DEF StopCommit, Cleans, StopFails
    <3>3. opc' \in [Operators -> OpPCs]
      BY <1>28 DEF StopCommit, Cleans, StopFails
    <3>4. target' \in [Operators -> SUBSET Supervisors]
      BY <1>28 DEF StopCommit, Cleans, StopFails
    <3> QED BY <1>28, <3>1, <3>2, <3>3, <3>4 DEF StopCommit, Cleans
  <2>2. PcInv'
    BY <1>28 DEF StopCommit, Cleans, StopFails
  <2>3. HolderInv'
    BY <1>28 DEF StopCommit, Cleans, StopFails
  <2>4. ReuseInv'
    BY <1>28 DEF StopCommit, Cleans, StopFails
  <2>5. UnreadyInv'
    BY <1>28 DEF StopCommit, Cleans, StopFails
  <2>6. StopInv'
    BY <1>28 DEF StopCommit, Cleans, StopFails
  <2> QED BY <2>1, <2>2, <2>3, <2>4, <2>5, <2>6
<1>29. ASSUME NEW o \in Operators, StopVanished(o) PROVE IInv'
  <2>1. TypeOK'
    BY <1>29 DEF StopVanished, GroupGone
  <2>2. PcInv'
    BY <1>29 DEF StopVanished, GroupGone
  <2>3. HolderInv'
    BY <1>29 DEF StopVanished, GroupGone
  <2>4. ReuseInv'
    BY <1>29 DEF StopVanished, GroupGone
  <2>5. UnreadyInv'
    BY <1>29 DEF StopVanished, GroupGone
  <2>6. StopInv'
    <3>1. \A p \in target[o] : pc[p] \in Ended
      BY <1>29 DEF StopVanished, GroupGone
    <3>2. ASSUME NEW x \in Operators, opc'[x] = "clean"
          PROVE  /\ lock' = {x} /\ status' \in {"created", "running"}
                 /\ status' = "running" => pc'[owner'] \in Ended \/ owner' \in term'
                 /\ target'[x] # {} => status' = "running" /\ target'[x] = {owner'}
      BY <1>29, <3>2 DEF StopVanished, GroupGone
    <3>3. ASSUME NEW x \in Operators
          PROVE  \A p \in target'[x] : pc'[p] \notin Fresh
      BY <1>29, <3>1 DEF StopVanished, GroupGone
    <3>4. ASSUME NEW x \in Operators, target'[x] # {}, opc'[x] \notin {"idle", "clean"}
          PROVE  Terminal' /\ \A p \in Proc : Holds(p)' => p \in target'[x]
      BY <1>29, <3>1, <3>4 DEF StopVanished, GroupGone
    <3>5. ASSUME NEW x \in Operators, opc'[x] \in {"reload", "wipe", "quiet"}
          PROVE  \A p \in target'[x] : pc'[p] \in Ended
      BY <1>29, <3>1, <3>5 DEF StopVanished, GroupGone
    <3>6. ASSUME NEW x \in Operators, opc'[x] = "quiet"
          PROVE  target'[x] # {} /\ ~staged'
      BY <1>29, <3>1, <3>6 DEF StopVanished, GroupGone
    <3> QED BY <3>2, <3>3, <3>4, <3>5, <3>6
  <2> QED BY <2>1, <2>2, <2>3, <2>4, <2>5, <2>6
<1>30. ASSUME NEW o \in Operators, StopEscalate(o) PROVE IInv'
  <2>1. TypeOK'
    BY <1>30 DEF StopEscalate, GroupThere, MayEscalate, Killed, Hits
  <2>2. PcInv'
    BY <1>30 DEF StopEscalate, GroupThere, MayEscalate, Killed, Hits
  <2>3. HolderInv'
    BY <1>30 DEF StopEscalate, GroupThere, MayEscalate, Killed, Hits
  <2>4. ReuseInv'
    BY <1>30 DEF StopEscalate, GroupThere, MayEscalate, Killed, Hits
  <2>5. UnreadyInv'
    BY <1>30 DEF StopEscalate, GroupThere, MayEscalate, Killed, Hits
  <2>6. StopInv'
    BY <1>30 DEF StopEscalate, GroupThere, MayEscalate, Killed, Hits
  <2> QED BY <2>1, <2>2, <2>3, <2>4, <2>5, <2>6
<1>31. ASSUME NEW o \in Operators, StopUnreaped(o) PROVE IInv'
  BY <1>31 DEF StopUnreaped, GroupThere
<1>32. ASSUME NEW o \in Operators, StopReload(o) PROVE IInv'
  <2>1. TypeOK'
    BY <1>32 DEF StopReload
  <2>2. PcInv'
    BY <1>32 DEF StopReload
  <2>3. HolderInv'
    BY <1>32 DEF StopReload
  <2>4. ReuseInv'
    BY <1>32 DEF StopReload
  <2>5. UnreadyInv'
    BY <1>32 DEF StopReload
  <2>6. StopInv'
    BY <1>32 DEF StopReload
  <2> QED BY <2>1, <2>2, <2>3, <2>4, <2>5, <2>6
<1>33. ASSUME NEW o \in Operators, StopWipe(o) PROVE IInv'
  <2>1. TypeOK'
    <3>1. staged' \in BOOLEAN
      BY <1>33 DEF StopWipe
    <3>2. opc' \in [Operators -> OpPCs]
      BY <1>33 DEF StopWipe
    <3>3. target' \in [Operators -> SUBSET Supervisors]
      BY <1>33 DEF StopWipe
    <3> QED BY <1>33, <3>1, <3>2, <3>3 DEF StopWipe
  <2>2. PcInv'
    BY <1>33 DEF StopWipe
  <2>3. HolderInv'
    BY <1>33 DEF StopWipe
  <2>4. ReuseInv'
    BY <1>33 DEF StopWipe
  <2>5. UnreadyInv'
    BY <1>33 DEF StopWipe
  <2>6. StopInv'
    BY <1>33 DEF StopWipe
  <2> QED BY <2>1, <2>2, <2>3, <2>4, <2>5, <2>6
<1>34. ASSUME NEW o \in Operators, OpCrash(o) PROVE IInv'
  <2>1. TypeOK'
    BY <1>34 DEF OpCrash
  <2>2. PcInv'
    BY <1>34 DEF OpCrash
  <2>3. HolderInv'
    BY <1>34 DEF OpCrash
  <2>4. ReuseInv'
    BY <1>34 DEF OpCrash
  <2>5. UnreadyInv'
    BY <1>34 DEF OpCrash
  <2>6. StopInv'
    BY <1>34 DEF OpCrash
  <2> QED BY <2>1, <2>2, <2>3, <2>4, <2>5, <2>6
<1>35. ASSUME NEW p \in Proc, Crash(p) PROVE IInv'
  <2>1. TypeOK'
    BY <1>35 DEF Crash
  <2>2. PcInv'
    BY <1>35 DEF Crash
  <2>3. HolderInv'
    BY <1>35 DEF Crash
  <2>4. ReuseInv'
    BY <1>35 DEF Crash
  <2>5. UnreadyInv'
    BY <1>35 DEF Crash
  <2>6. StopInv'
    BY <1>35 DEF Crash
  <2> QED BY <2>1, <2>2, <2>3, <2>4, <2>5, <2>6
<1>36. ASSUME NEW p \in Proc, Reuse(p) PROVE IInv'
  <2>1. TypeOK'
    BY <1>36 DEF Reuse
  <2>2. PcInv'
    BY <1>36 DEF Reuse
  <2>3. HolderInv'
    BY <1>36 DEF Reuse
  <2>4. ReuseInv'
    BY <1>36 DEF Reuse
  <2>5. UnreadyInv'
    BY <1>36 DEF Reuse
  <2>6. StopInv'
    BY <1>36 DEF Reuse
  <2> QED BY <2>1, <2>2, <2>3, <2>4, <2>5, <2>6
<1>37. ASSUME NEW p \in Proc, StrangerExits(p) PROVE IInv'
  BY <1>37 DEF StrangerExits
<1>38. CASE UNCHANGED vars
  BY <1>38 DEF vars
<1> QED BY <1>1, <1>2, <1>3, <1>4, <1>5, <1>6, <1>7, <1>8, <1>9, <1>10, <1>11,
     <1>12, <1>13, <1>14, <1>15, <1>16, <1>17, <1>18, <1>19, <1>20, <1>21,
     <1>22, <1>23, <1>24, <1>25, <1>26, <1>27, <1>28, <1>29, <1>30, <1>31,
     <1>32, <1>33, <1>34, <1>35, <1>36, <1>37, <1>38, Zenon
     DEF Next, CommandStep, RunStep, CoupledStep, IssuerStep, SupervisorStep, OperatorStep, StopStep

\* The inductive invariant holds in every state of every run.
LEMMA Invariance == Spec => []IInv
<1>1. Init => IInv
  BY InitIInv
<1> QED BY <1>1, NextIInv, PTL DEF Spec

\* The record names an owner exactly while it is running.
THEOREM TypeCorrect == Spec => []TypeOK
<1>1. IInv => TypeOK
  BY DEF IInv
<1> QED BY Invariance, <1>1, PTL

\* Two processes never stage credentials or run an agent for one session.
THEOREM RunExclusion == Spec => []OneRun
<1>1. IInv => OneRun
  BY DEF IInv, HolderInv, OneRun, Running, Holds, Holding
<1> QED BY Invariance, <1>1, PTL

\* No live agent is forgotten: the record names its process, or the process
\* was told to stop.
THEOREM RunAccounting == Spec => []RunIsAccounted
<1>1. IInv => RunIsAccounted
  BY DEF IInv, HolderInv, RunIsAccounted, Running, Holds, Holding
<1> QED BY Invariance, <1>1, PTL

\* No signal reaches a stranger that has the PID of a recorded process.
THEOREM SignalSafety == Spec => []NoForeignSignal
<1>1. IInv => NoForeignSignal
  BY DEF IInv, ReuseInv, NoForeignSignal
<1> QED BY Invariance, <1>1, PTL

\* A supervisor reported as not ready is dead and its record not running.
THEOREM UnreadyReport == Spec => []UnreadyIsDead
<1>1. IInv => UnreadyIsDead
  BY DEF IInv, UnreadyInv, UnreadyIsDead, Terminal
<1> QED BY Invariance, <1>1, PTL

\* A stop that waited for its supervisor leaves no process and no credential.
THEOREM StopSafety == Spec => []StopIsQuiet
<1>1. IInv => StopIsQuiet
  BY DEF IInv, StopInv, StopIsQuiet, Live
<1> QED BY Invariance, <1>1, PTL
=============================================================================
