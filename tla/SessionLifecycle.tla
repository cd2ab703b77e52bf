-------------------------- MODULE SessionLifecycle --------------------------
(***************************************************************************)
(* The life of one session record and of the processes that compete for    *)
(* it: coupled wrappers (session run), issuing wrappers (session run       *)
(* --detach) with the supervisor each of them spawns, and operator         *)
(* commands (stop, rm, prune, status, list).                               *)
(*                                                                         *)
(* A process is identified by its PID and its start token together, so a   *)
(* process here is never confused with a later one on the same PID; that   *)
(* later one is a stranger, and `reused` says whose PIDs strangers hold.   *)
(* Reading a token and signalling its process is one step, as the code     *)
(* does nothing between the two.  A store operation is one step taken      *)
(* while the record lock is free; `session stop` holds the lock from its   *)
(* signal to its commit.  Get reads without the lock.                      *)
(*                                                                         *)
(* The boundary a reap removes is the subject of EgressSession; here a     *)
(* reap only succeeds or fails.  Credentials are files in the stage        *)
(* directory: present or wiped.                                            *)
(***************************************************************************)
EXTENDS Integers

CONSTANTS
    Coupled,       \* session run commands
    Issuers,       \* session run --detach commands
    Operators,     \* terminals that run stop, rm, prune, status and list
    ZombieGroup    \* may kill(-pid, 0) find a group whose only member is an
                   \* exited, unreaped leader?  {TRUE} on Linux, {FALSE} on macOS

ASSUME CommandsAssumption == Coupled \cap Issuers = {}
ASSUME ZombieAssumption == ZombieGroup \in SUBSET BOOLEAN

VARIABLES
    status, owner,       \* the record: Status, and PID with ProcessToken
    lock,                \* {} or the operator that holds the record lock
    sock,                \* the attach socket in the file system
    staged,              \* the stage directory holds credential files
    pc, term,            \* processes, and those whose context SIGTERM cancelled
    reused, foreign,     \* PIDs held by strangers; was a stranger ever signalled
    opc, target          \* operators, and the group leader each has signalled

record == <<status, owner>>
files  == <<sock, staged>>
pids   == <<reused, foreign>>
ops    == <<opc, target>>
vars   == <<record, lock, files, pc, term, pids, ops>>

-----------------------------------------------------------------------------
(* Processes *)

Wrapper(c)    == <<c, "wrapper">>
Supervisor(i) == <<i, "supervisor">>
Wrappers      == {Wrapper(c) : c \in Coupled \cup Issuers}
Supervisors   == {Supervisor(i) : i \in Issuers}
Proc          == Wrappers \cup Supervisors
Runners       == {Wrapper(c) : c \in Coupled} \cup Supervisors
Parent(s)     == Wrapper(s[1])
NoProc        == <<"none", "none">>

Statuses == {"created", "running", "stopped", "removed"}
Sockets  == {"none", "bound", "ready"}    \* ready: mode 0600
Outcomes == {"new", "old", "unknown"}     \* unknown: renamed, sync failed

WrapperPCs == {"idle", "checked", "claimed", "run", "agent", "over", "launch",
               "release", "poll", "wait", "killed", "sweep", "record"}
SupervisorPCs == {"none", "born", "init", "owned", "bound", "run", "agent",
                  "over", "finish"}
\* How a process ended; unready and unreaped are run --detach's two reports of
\* a supervisor that never served.
Ended == {"exited", "reaped", "unready", "unreaped"}
OpPCs == {"idle", "clean", "wait", "killed", "reload", "wipe", "quiet"}

Live(p) == pc[p] \notin Ended \cup {"idle", "none"}

\* An exited supervisor stays in the process table until its wrapper exits:
\* Process.Release never reaps it.
Zombie(p) == p \in Supervisors /\ pc[p] = "exited" /\ Live(Parent(p))

\* ProcessAliveSession: the token of an unreaped process still reads the same.
Alive(p) == Live(p) \/ Zombie(p)

\* kill(-pid, 0) may fail, and it may succeed.
GroupGone(p) == ~Live(p) /\ (Zombie(p) => FALSE \in ZombieGroup) /\ p \notin reused
GroupThere(p) == Live(p) \/ (Zombie(p) /\ TRUE \in ZombieGroup) \/ p \in reused

\* Processes with a SIGTERM handler: it cancels the run, the process goes on.
\* A coupled wrapper has one only while runProfile runs, a wrapper that issues
\* a supervisor never.
Handles(p) == /\ p \in Runners /\ Live(p)
              /\ IF p \in Supervisors THEN pc[p] # "born"
                                      ELSE pc[p] \in {"run", "agent"}

\* killProcess: what SIGTERM to p makes of the processes f and of term.
Signalled(f, p) == IF Live(p) /\ ~Handles(p) THEN [f EXCEPT ![p] = "exited"] ELSE f
Cancelled(p) == IF Handles(p) THEN term \cup {p} ELSE term
Killed(f, p) == IF Live(p) THEN [f EXCEPT ![p] = "exited"] ELSE f
Hits(p) == foreign' = (foreign \/ p \in reused)

At(p, l) == pc[p] = l
Goto(p, l) == pc' = [pc EXCEPT ![p] = l]

-----------------------------------------------------------------------------
(* The record *)

Unlocked == lock = {}

\* RecordTx.Commit of status s and owner p.
Commit(o, s, p) ==
    IF o = "old" THEN UNCHANGED record ELSE status' = s /\ owner' = p

\* Finish: terminal whatever the status was; a removed record is not found.
Finish(o) ==
    IF status = "removed" THEN UNCHANGED record ELSE Commit(o, "stopped", NoProc)

\* Every variable stays in its domain and a record names an owner exactly
\* while it is running.
TypeOK ==
    /\ status \in Statuses /\ owner \in Proc \cup {NoProc}
    /\ (status = "running") <=> (owner # NoProc)
    /\ lock \in SUBSET Operators
    /\ sock \in Sockets /\ staged \in BOOLEAN
    /\ pc \in [Proc -> WrapperPCs \cup SupervisorPCs \cup Ended]
    /\ term \in SUBSET Runners
    /\ reused \in SUBSET Proc /\ foreign \in BOOLEAN
    /\ opc \in [Operators -> OpPCs]
    /\ target \in [Operators -> SUBSET Supervisors]

Init ==
    /\ status = "created" /\ owner = NoProc
    /\ lock = {} /\ sock = "none" /\ staged = FALSE
    /\ pc = [p \in Proc |-> IF p \in Wrappers THEN "idle" ELSE "none"]
    /\ term = {} /\ reused = {} /\ foreign = FALSE
    /\ opc = [o \in Operators |-> "idle"]
    /\ target = [o \in Operators |-> {}]

-----------------------------------------------------------------------------
(* session run *)

\* session run reads the record, verifies trust, backend, PTY and consent;
\* anything but a created record, and any failure, ends the command.
Check(w) ==
    /\ At(w, "idle")
    /\ \/ status = "created" /\ Goto(w, "checked")
       \/ Goto(w, "exited")
    /\ UNCHANGED <<record, lock, files, term, pids, ops>>

\* Mutant: the claim trusts the status that session run read before the lock.
ClaimableAsRead == status # "removed"
\* markRunning looks at the status again under the lock.
Claimable == status = "created"

\* MarkRunning: claim the record for this process.
Claim(w) ==
    /\ At(w, "checked") /\ Unlocked
    /\ \/ ~Claimable /\ Goto(w, "exited") /\ UNCHANGED record
       \/ /\ Claimable
          /\ \E o \in Outcomes :
                /\ Commit(o, "running", w)
                /\ Goto(w, IF o = "new" THEN "claimed" ELSE "exited")
    /\ UNCHANGED <<lock, files, term, pids, ops>>

\* runProfile installs the coupled wrapper's signal handler.
EnterRun(w) ==
    /\ At(w, "claimed") /\ Goto(w, "run")
    /\ UNCHANGED <<record, lock, files, term, pids, ops>>

\* runProfileCtx removes an abandoned stage directory and stages credentials.
\* On an error it returns; what its deferred wipe leaves depends on the error.
Stage(p) ==
    /\ At(p, "run")
    /\ \/ staged' = TRUE /\ Goto(p, "agent")
       \/ staged' \in BOOLEAN /\ Goto(p, "over")
    /\ UNCHANGED <<record, lock, sock, term, pids, ops>>

\* The credential lease stages a renewed batch, recreating the directory.
Renew(p) ==
    /\ At(p, "agent") /\ staged' = TRUE
    /\ UNCHANGED <<record, lock, sock, pc, term, pids, ops>>

\* The agent exits, by itself or because its context was cancelled; the
\* deferred teardown stops the lease and wipes the stage directory.
AgentExits(p) ==
    /\ At(p, "agent") /\ Goto(p, "over")
    /\ staged' \in {staged, FALSE}
    /\ UNCHANGED <<record, lock, sock, term, pids, ops>>

\* finishSessionRun of a coupled wrapper.
FinishRun(w) ==
    /\ At(w, "over") /\ Unlocked
    /\ \E o \in Outcomes : Finish(o)
    /\ Goto(w, "exited")
    /\ UNCHANGED <<lock, files, term, pids, ops>>

-----------------------------------------------------------------------------
(* session run --detach *)

\* defaultLaunchSupervisor starts the child, or cannot.
Launch(i) ==
    LET w == Wrapper(i) s == Supervisor(i) IN
    /\ At(w, "claimed")
    /\ \/ pc' = [pc EXCEPT ![w] = "launch", ![s] = "born"]
       \/ Goto(w, "release")
    /\ UNCHANGED <<record, lock, files, term, pids, ops>>

\* It captures the child's start token, or kills and reaps the child.
Capture(i) ==
    LET w == Wrapper(i) s == Supervisor(i) IN
    /\ At(w, "launch")
    /\ \/ Goto(w, "poll")
       \/ pc' = [pc EXCEPT ![w] = "release", ![s] = "reaped"]
    /\ UNCHANGED <<record, lock, files, term, pids, ops>>

\* ReleaseRunningClaim needs the claim of this very process.
Releasable(w) == status = "running" /\ owner = w

ReleaseRunningClaim(i) ==
    LET w == Wrapper(i) IN
    /\ At(w, "release") /\ Unlocked
    /\ \/ Releasable(w) /\ \E o \in Outcomes : Commit(o, "created", NoProc)
       \/ ~Releasable(w) /\ UNCHANGED record
    /\ Goto(w, "exited")
    /\ UNCHANGED <<lock, files, term, pids, ops>>

\* waitForSupervisorReady: the record names the launched supervisor, which is
\* alive, and its socket is owner-only.
Ready(i) ==
    LET w == Wrapper(i) s == Supervisor(i) IN
    /\ At(w, "poll")
    /\ status = "running" /\ owner = s /\ sock = "ready" /\ Alive(s)
    /\ Goto(w, "exited")
    /\ UNCHANGED <<record, lock, files, term, pids, ops>>

\* detachReadyTimeout: signal the supervisor's group unless it is gone.
Timeout(i) ==
    LET w == Wrapper(i) s == Supervisor(i) IN
    /\ At(w, "poll")
    /\ \/ /\ Alive(s)
          /\ pc' = [Signalled(pc, s) EXCEPT ![w] = "wait"]
          /\ term' = Cancelled(s) /\ Hits(s)
       \/ /\ ~Alive(s)
          /\ Goto(w, "sweep") /\ UNCHANGED <<term, foreign>>
    /\ UNCHANGED <<record, lock, files, reused, ops>>

\* waitProcess saw the group disappear.
Vanished(i) ==
    LET w == Wrapper(i) IN
    /\ pc[w] \in {"wait", "killed"} /\ GroupGone(Supervisor(i))
    /\ Goto(w, "sweep")
    /\ UNCHANGED <<record, lock, files, term, pids, ops>>

\* Mutant: the grace period ends in SIGKILL without reading the token again.
MayEscalateBlindly(p) == TRUE
\* The captured identity is revalidated before the escalation.
MayEscalate(p) == Alive(p)

\* stopGraceTimeout elapsed: SIGKILL, or an identity that changed.
Escalate(i) ==
    LET w == Wrapper(i) s == Supervisor(i) IN
    /\ At(w, "wait") /\ GroupThere(s)
    /\ \/ /\ MayEscalate(s)
          /\ pc' = [Killed(pc, s) EXCEPT ![w] = "killed"] /\ Hits(s)
       \/ ~MayEscalate(s) /\ Goto(w, "unreaped") /\ UNCHANGED foreign
    /\ UNCHANGED <<record, lock, files, term, reused, ops>>

\* The group still answers a second after SIGKILL.
Unreaped(i) ==
    LET w == Wrapper(i) IN
    /\ At(w, "killed") /\ GroupThere(Supervisor(i))
    /\ Goto(w, "unreaped")
    /\ UNCHANGED <<record, lock, files, term, pids, ops>>

\* removeSocket of the unready supervisor.
Sweep(i) ==
    LET w == Wrapper(i) IN
    /\ At(w, "sweep")
    /\ \/ sock' = "none" /\ Goto(w, "record")
       \/ UNCHANGED sock /\ Goto(w, "exited")
    /\ UNCHANGED <<record, lock, staged, term, pids, ops>>

\* Mutant: the unready report does not wait for the record.
RecordsBlindly(i) ==
    LET w == Wrapper(i) IN
    /\ At(w, "record") /\ Goto(w, "unready")
    /\ UNCHANGED <<record, lock, files, term, pids, ops>>
\* Finish: no half-published supervisor stays a running session.
RecordUnready(i) ==
    LET w == Wrapper(i) IN
    /\ At(w, "record") /\ Unlocked
    /\ \E o \in Outcomes :
          /\ Finish(o)
          /\ Goto(w, IF o = "new" /\ status # "removed" THEN "unready" ELSE "exited")
    /\ UNCHANGED <<lock, files, term, pids, ops>>

-----------------------------------------------------------------------------
(* The supervisor *)

\* session supervise installs its signal handler.
Boot(i) ==
    LET s == Supervisor(i) IN
    /\ At(s, "born") /\ Goto(s, "init")
    /\ UNCHANGED <<record, lock, files, term, pids, ops>>

\* Record, trust, backend, profile: any failure ends it before the handoff.
RefuseStart(i) ==
    LET s == Supervisor(i) IN
    /\ At(s, "init") /\ Goto(s, "exited")
    /\ UNCHANGED <<record, lock, files, term, pids, ops>>

\* The record is running under the live parent of this supervisor.
ClaimedByParent(s) == status = "running" /\ owner = Parent(s) /\ Live(Parent(s))

\* HandoffRunningDetached.
Handoff(i) ==
    LET s == Supervisor(i) IN
    /\ At(s, "init") /\ Unlocked
    /\ \/ /\ ClaimedByParent(s)
          /\ \E o \in Outcomes :
                /\ Commit(o, "running", s)
                /\ Goto(s, IF o = "new" THEN "owned" ELSE "exited")
       \/ ~ClaimedByParent(s) /\ Goto(s, "exited") /\ UNCHANGED record
    /\ UNCHANGED <<lock, files, term, pids, ops>>

\* PTY, socket directory, removal of an old socket, listen.
Bind(i) ==
    LET s == Supervisor(i) IN
    /\ At(s, "owned")
    /\ \/ sock' = "bound" /\ Goto(s, "bound")
       \/ sock' \in {sock, "none"} /\ Goto(s, "finish")
    /\ UNCHANGED <<record, lock, staged, term, pids, ops>>

\* chmod to owner-only; it fails if a stop removed the socket.
Publish(i) ==
    LET s == Supervisor(i) IN
    /\ At(s, "bound")
    /\ \/ sock # "none" /\ sock' = "ready" /\ Goto(s, "run")
       \/ sock' = "none" /\ Goto(s, "finish")
    /\ UNCHANGED <<record, lock, staged, term, pids, ops>>

\* Close the listener, drain, send the exit frame, remove the socket.
CloseSocket(i) ==
    LET s == Supervisor(i) IN
    /\ At(s, "over") /\ Goto(s, "finish")
    /\ sock' \in {sock, "none"}
    /\ UNCHANGED <<record, lock, staged, term, pids, ops>>

\* Finish, of the run or of the failed setup.
FinishSupervise(i) ==
    LET s == Supervisor(i) IN
    /\ At(s, "finish") /\ Unlocked
    /\ \E o \in Outcomes : Finish(o)
    /\ Goto(s, "exited")
    /\ UNCHANGED <<lock, files, term, pids, ops>>

-----------------------------------------------------------------------------
(* Operator commands *)

OpIdle(o) == opc[o] \in {"idle", "quiet"}
OpGoto(o, l) == opc' = [opc EXCEPT ![o] = l]
OpEnd(o) == OpGoto(o, "idle") /\ target' = [target EXCEPT ![o] = {}]

\* startReconcileProtocol: a running record whose process is gone or reused.
DeadOwner == status = "running" /\ ~Alive(owner)

\* GetReconciled (status, list, prune, stop): reap, wipe, remove the sockets,
\* commit; the first failure ends it.
Reconcile(o) ==
    /\ OpIdle(o) /\ Unlocked /\ DeadOwner
    /\ \/ \* the reap failed, or the wipe, or the socket removal
          /\ staged' \in {staged, FALSE} /\ UNCHANGED <<record, sock>>
       \/ /\ staged' = FALSE /\ sock' = "none"
          /\ \E c \in Outcomes : Commit(c, "stopped", NoProc)
    /\ OpEnd(o)
    /\ UNCHANGED <<lock, pc, term, pids>>

\* Mutant: only the processes of a coupled session are signalled.
SignalsCoupledOnly == status = "running" /\ owner \notin Supervisors /\ Alive(owner)
\* Stop signals the recorded process if it is the live one.
Signals == status = "running" /\ Alive(owner)

\* Store.Stop up to its signal.  A stopped record is left as it is.
StopBegin(o) ==
    /\ OpIdle(o) /\ Unlocked
    /\ \/ /\ status = "stopped"
          /\ OpGoto(o, "wipe") /\ target' = [target EXCEPT ![o] = {}]
          /\ UNCHANGED <<lock, pc, term, foreign>>
       \/ /\ status \in {"created", "running"}
          /\ lock' = {o} /\ OpGoto(o, "clean")
          /\ \/ /\ Signals
                /\ pc' = Signalled(pc, owner) /\ term' = Cancelled(owner)
                /\ Hits(owner)
                /\ target' = [target EXCEPT ![o] = {owner} \cap Supervisors]
             \/ /\ ~Signals
                /\ UNCHANGED <<pc, term, foreign>>
                /\ target' = [target EXCEPT ![o] = {}]
    /\ UNCHANGED <<record, files, reused>>

\* Store.Stop returns an error; the lock is released with the file.
StopFails(o) == OpEnd(o) /\ lock' = {}

\* Mutant: the signalled group is waited for under the lock, before the cleanup.
CleansWhenGone(o) == opc[o] = "clean" /\ \A p \in target[o] : GroupGone(p)
\* Nothing is waited for between the signal and the cleanup.
Cleans(o) == opc[o] = "clean"

\* The rest of Store.Stop: sockets, reap, wipe, commit.  Waiting for the
\* signalled group comes after the lock is released.
StopCommit(o) ==
    /\ Cleans(o)
    /\ \/ \* the socket removal failed, or the reap, or the wipe
          /\ sock' \in {sock, "none"} /\ UNCHANGED <<record, staged>>
          /\ StopFails(o)
       \/ /\ staged' = FALSE /\ sock' = "none"
          /\ \E c \in Outcomes :
                /\ Commit(c, "stopped", NoProc)
                /\ \/ c # "new" /\ StopFails(o)
                   \/ /\ c = "new" /\ lock' = {}
                      /\ OpGoto(o, IF target[o] = {} THEN "wipe" ELSE "wait")
                      /\ UNCHANGED target
    /\ UNCHANGED <<pc, term, pids>>

\* waitProcess, as for an issuing wrapper.
StopVanished(o) ==
    /\ opc[o] \in {"wait", "killed"}
    /\ \A p \in target[o] : GroupGone(p)
    /\ OpGoto(o, "reload")
    /\ UNCHANGED <<record, lock, files, pc, term, pids, target>>

StopEscalate(o) ==
    /\ opc[o] = "wait"
    /\ \E p \in target[o] :
          /\ GroupThere(p)
          /\ \/ /\ MayEscalate(p)
                /\ pc' = Killed(pc, p) /\ Hits(p)
                /\ OpGoto(o, "killed") /\ UNCHANGED target
             \/ ~MayEscalate(p) /\ OpEnd(o) /\ UNCHANGED <<pc, foreign>>
    /\ UNCHANGED <<record, lock, files, term, reused>>

StopUnreaped(o) ==
    /\ opc[o] = "killed" /\ \E p \in target[o] : GroupThere(p)
    /\ OpEnd(o)
    /\ UNCHANGED <<record, lock, files, pc, term, pids>>

\* The record is read again after the wait; a removed one ends the command.
StopReload(o) ==
    /\ opc[o] = "reload"
    /\ \/ status # "removed" /\ OpGoto(o, "wipe") /\ UNCHANGED target
       \/ OpEnd(o)
    /\ UNCHANGED <<record, lock, files, pc, term, pids>>

\* Mutant: the stage directory is wiped only under the lock.
StopWipeSkipped(o) ==
    /\ opc[o] = "wipe"
    /\ IF target[o] = {} THEN OpEnd(o) ELSE OpGoto(o, "quiet") /\ UNCHANGED target
    /\ UNCHANGED <<record, lock, files, pc, term, pids>>
\* The final wipe of a stop; quiet is a stop that succeeded after waiting for
\* the process it signalled.
StopWipe(o) ==
    /\ opc[o] = "wipe"
    /\ \/ /\ staged' = FALSE
          /\ IF target[o] = {} THEN OpEnd(o) ELSE OpGoto(o, "quiet") /\ UNCHANGED target
       \/ UNCHANGED staged /\ OpEnd(o)
    /\ UNCHANGED <<record, lock, sock, pc, term, pids>>

\* Remove (rm, prune): refused for a running record; revoke, reap, wipe, remove
\* the sockets, delete; the first failure ends it.
Remove(o) ==
    /\ OpIdle(o) /\ Unlocked /\ status \in {"created", "stopped"}
    /\ \/ staged' \in {staged, FALSE} /\ UNCHANGED <<record, sock>>
       \/ /\ staged' = FALSE /\ sock' = "none"
          /\ \/ UNCHANGED record
             \/ status' = "removed" /\ owner' = NoProc
    /\ OpEnd(o)
    /\ UNCHANGED <<lock, pc, term, pids>>

-----------------------------------------------------------------------------
(* The world *)

\* A process is killed, or the command interrupted.
Crash(p) ==
    /\ Live(p) /\ Goto(p, "exited")
    /\ UNCHANGED <<record, lock, files, term, pids, ops>>

OpCrash(o) ==
    /\ ~OpIdle(o) /\ OpEnd(o) /\ lock' = lock \ {o}
    /\ UNCHANGED <<record, files, pc, term, pids>>

\* The PID of a process that left the process table is used again, and freed.
Reuse(p) ==
    /\ pc[p] \in Ended /\ ~Zombie(p) /\ p \notin reused
    /\ reused' = reused \cup {p}
    /\ UNCHANGED <<record, lock, files, pc, term, foreign, ops>>
StrangerExits(p) ==
    /\ p \in reused /\ reused' = reused \ {p}
    /\ UNCHANGED <<record, lock, files, pc, term, foreign, ops>>

-----------------------------------------------------------------------------

CommandStep(w) == Check(w) \/ Claim(w)
RunStep(p) == Stage(p) \/ Renew(p) \/ AgentExits(p)
CoupledStep(w) == EnterRun(w) \/ FinishRun(w)
IssuerStep(i) ==
    \/ Launch(i) \/ Capture(i) \/ ReleaseRunningClaim(i) \/ Ready(i) \/ Timeout(i)
    \/ Vanished(i) \/ Escalate(i) \/ Unreaped(i) \/ Sweep(i) \/ RecordUnready(i)
SupervisorStep(i) ==
    \/ Boot(i) \/ RefuseStart(i) \/ Handoff(i) \/ Bind(i) \/ Publish(i)
    \/ CloseSocket(i) \/ FinishSupervise(i)
StopStep(o) ==
    \/ StopCommit(o) \/ StopVanished(o) \/ StopEscalate(o) \/ StopUnreaped(o)
    \/ StopReload(o) \/ StopWipe(o)
OperatorStep(o) == Reconcile(o) \/ StopBegin(o) \/ Remove(o) \/ StopStep(o)

Next ==
    \/ \E w \in Wrappers : CommandStep(w)
    \/ \E p \in Runners : RunStep(p)
    \/ \E c \in Coupled : CoupledStep(Wrapper(c))
    \/ \E i \in Issuers : IssuerStep(i) \/ SupervisorStep(i)
    \/ \E o \in Operators : OperatorStep(o) \/ OpCrash(o)
    \/ \E p \in Proc : Crash(p) \/ Reuse(p) \/ StrangerExits(p)

Spec == Init /\ [][Next]_vars

\* A process whose context was cancelled takes its next step: the agent's group
\* is killed, the teardown's calls have timeouts and the other steps wait for
\* nothing but the record lock.  Strong fairness, because flock queues its
\* waiters: a lock that is free again and again is granted in the end.  A stop
\* that holds it goes on to its commit.  Nothing else is assumed: an agent may
\* run for ever, a client may hold up CloseSocket for ever, for the output and
\* the exit frame have no deadline, and nobody has to start, wait, crash or kill.
Winding(p) ==
    \/ AgentExits(p) \/ Stage(p)
    \/ \E c \in Coupled : p = Wrapper(c) /\ FinishRun(p)
    \/ \E i \in Issuers :
          /\ p = Supervisor(i)
          /\ RefuseStart(i) \/ Handoff(i) \/ Bind(i) \/ Publish(i) \/ FinishSupervise(i)
Fairness ==
    /\ \A p \in Runners : SF_vars(p \in term /\ Winding(p))
    /\ \A o \in Operators : WF_vars(StopCommit(o))
LiveSpec == Spec /\ Fairness

-----------------------------------------------------------------------------
(* Properties *)

\* The processes that run the session: they own its stage directory, its
\* socket and its agent.
Running(p) == p \in Runners /\ pc[p] \in {"run", "agent"}

\* Two processes never stage credentials or run an agent for one session: the
\* claim, its release after a failed launch and the handoff to the supervisor
\* (MarkRunning, ReleaseRunningClaim, HandoffRunningDetached) exclude it.
OneRun == \A p, q \in Proc : Running(p) /\ Running(q) => p = q

\* A process that runs the session is the one the record names, or has been
\* told to stop: no stop, reconcile or failed readiness wait forgets a live
\* agent (Stop, GetReconciled, runDetachWithDeps).
RunIsAccounted ==
    \A p \in Proc : Running(p) => (status = "running" /\ owner = p) \/ p \in term

\* No signal of a stop or of a readiness timeout reaches a process that only
\* has the PID of the recorded one (ProcessAliveSession before each signal).
NoForeignSignal == ~foreign

\* When run --detach reports a supervisor that did not become ready, that
\* supervisor is dead and the record is not running (runDetachWithDeps).
UnreadyIsDead ==
    \A i \in Issuers : pc[Wrapper(i)] = "unready" =>
        ~Live(Supervisor(i)) /\ status # "running"

\* When a stop that signalled a supervisor succeeds, the supervisor is gone
\* and no credential file is left in the stage directory, whatever it was
\* doing when the signal came (cmdSessionStopWithDeps).
StopIsQuiet ==
    \A o \in Operators : opc[o] = "quiet" =>
        ~staged /\ \A p \in target[o] : ~Live(p)

\* The supervisor writes to its client, which may never read.
Draining(p) == p \in Supervisors /\ pc[p] = "over"

\* A run that was told to stop comes to its end, or to the writes to its client,
\* and from behind those writes to its end: the record lock never keeps it from
\* its Finish, because the stop that waits for it, like every other one, has
\* released the lock (cmdSessionStopWithDeps waits after Store.Stop).
CancelledRunEnds ==
    \A p \in Runners : p \in term /\ ~Draining(p) ~> ~Live(p) \/ Draining(p)
=============================================================================
