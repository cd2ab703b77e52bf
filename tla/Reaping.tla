------------------------------ MODULE Reaping ------------------------------
(***************************************************************************)
(* Who may delete a container boundary, and by which handle.  `safeslop    *)
(* run` sweeps orphaned boundaries, marks its own invocation in a stage    *)
(* directory, stages secrets, launches and finally reaps what it launched; *)
(* session commands launch and reap boundaries under a session label;      *)
(* `safeslop down` reaps everything.  They share the container runtimes,   *)
(* the session records and the stage root, and hold no common lock.        *)
(*                                                                         *)
(* A boundary is one container and one network per owner and runtime.  An  *)
(* engine call that deletes is one step: it lists, removes and verifies.   *)
(* What happens between two calls is interleaved, and every call may fail. *)
(***************************************************************************)
EXTENDS Naturals, FiniteSets

CONSTANTS
    Sessions,      \* container sessions, each with a record
    Runs,          \* `safeslop run` invocations, each with a random identity
    Engines,       \* container runtimes of the host
    Verified,      \* those verified for network deny (docker)
    Denying,       \* runs and sessions whose profile says network deny
    None,          \* no runtime
    MaxSwitches    \* bound: changes of the ambient runtime

ASSUME EnginesAssumption == Verified \subseteq Engines /\ None \notin Engines
ASSUME OwnersAssumption == Sessions \cap Runs = {} /\ Denying \subseteq Sessions \cup Runs
ASSUME SwitchesAssumption == MaxSwitches \in Nat

VARIABLES
    ambient, switches,  \* what Detect(PolicyAllow) finds; how often it changed
    objs,               \* labelled objects in the runtimes
    status, backend,    \* session records: Status and Backend
    pc, cmd,            \* a run command: where it is, and its locals
    stage, token,       \* its stage directory; its marker has a start token
    down                \* the runtime a `down` command has half cleaned

world == <<ambient, switches>>
sess  == <<status, backend>>
files == <<stage, token>>
vars  == <<world, objs, sess, pc, cmd, files, down>>

Owners == Sessions \cup Runs
Kinds  == {"ctr", "net"}
Ended  == {"done", "exit", "dead"}
PCs    == {"idle", "live", "list", "each", "reapc", "reapn", "wipe", "prep",
           "creds", "detect", "upnet", "upctr", "agent", "clean"} \cup Ended

\* The locals of a command: the runtime it drives, the list its sweep walks
\* and what is left of it, the maps live and seen, the owner it is reaping,
\* retainInvocationMarker, and (ghost) what was orphaned when it began.
Locals == [eng : Engines \cup {None}, pass : {"ctr", "net", "inv"}, todo : SUBSET Owners,
           live : SUBSET Sessions, seen : SUBSET Sessions, aim : Owners,
           retain : BOOLEAN, owed : SUBSET Owners]
Fresh(r) == [eng |-> None, pass |-> "ctr", todo |-> {}, live |-> {}, seen |-> {},
             aim |-> r, retain |-> FALSE, owed |-> {}]

Objects(e, o) == {x \in objs : x[1] = e /\ x[2] = o}
Of(e, o, k)   == {<<e, o, k>>} \cap objs
Alive(r)      == pc[r] \notin Ended \cup {"idle"}
Own(r)        == cmd[r].aim = r
Goto(r, l)    == pc' = [pc EXCEPT ![r] = l]
\* The command is over, and its locals with it.
Leave(r, l)   == Goto(r, l) /\ cmd' = [cmd EXCEPT ![r] = Fresh(r)]

\* Every variable stays in its domain.
TypeOK ==
    /\ ambient \in Engines \cup {None} /\ switches \in 0..MaxSwitches
    /\ objs \subseteq Engines \X Owners \X Kinds
    /\ status \in [Sessions -> {"created", "running", "up", "stopped", "removed"}]
    /\ backend \in [Sessions -> Engines \cup {None}]
    /\ pc \in [Runs -> PCs] /\ cmd \in [Runs -> Locals]
    /\ stage \in [Runs -> SUBSET {"marker", "secret"}]
    /\ token \in [Runs -> BOOLEAN]
    /\ down \in Engines \cup {None}

Init ==
    /\ ambient \in Engines /\ switches = 0 /\ objs = {} /\ down = None
    /\ status = [s \in Sessions |-> "created"]
    /\ backend = [s \in Sessions |-> None]
    /\ pc = [r \in Runs |-> "idle"] /\ cmd = [r \in Runs |-> Fresh(r)]
    /\ stage = [r \in Runs |-> {}] /\ token = [r \in Runs |-> FALSE]

-----------------------------------------------------------------------------
(* Runtimes.  Which one answers first changes when a daemon starts or stops *)
(* or SAFESLOP_CONTAINER_RUNTIME is set.                                    *)

SwitchRuntime ==
    /\ switches < MaxSwitches /\ switches' = switches + 1
    /\ \E e \in (Engines \cup {None}) \ {ambient} : ambient' = e
    /\ UNCHANGED <<objs, sess, pc, cmd, files, down>>

\* Detect under the profile's network policy: fail closed on a runtime that
\* is not verified for deny.
Detected(o) == IF o \in Denying /\ ambient \notin Verified THEN None ELSE ambient

-----------------------------------------------------------------------------
(* Sessions.  SessionLifecycle has their processes; here only what a sweep  *)
(* can see of them.  "up" is a running record whose boundary exists.        *)

IsRunning(s) == status[s] \in {"running", "up"}
Others == <<world, pc, cmd, files, down>>

\* prepareSessionBackend: the runtime is chosen once and recorded.
SessionPrepare(s) ==
    /\ status[s] = "created" /\ backend[s] = None /\ Detected(s) # None
    /\ backend' = [backend EXCEPT ![s] = Detected(s)]
    /\ UNCHANGED <<objs, status, Others>>

SessionMarkRunning(s) ==
    /\ status[s] = "created" /\ backend[s] # None
    /\ status' = [status EXCEPT ![s] = "running"]
    /\ UNCHANGED <<objs, backend, Others>>

SessionUp(s) ==
    /\ status[s] = "running"
    /\ status' = [status EXCEPT ![s] = "up"]
    /\ objs' = objs \cup ({backend[s]} \X {s} \X Kinds)
    /\ UNCHANGED <<backend, Others>>

\* A coupled run records its end and leaves the proxy and the networks to a
\* sweep or to `session rm`.
SessionFinish(s) ==
    /\ IsRunning(s)
    /\ status' = [status EXCEPT ![s] = "stopped"]
    /\ UNCHANGED <<objs, backend, Others>>

\* Stop, reconcile and rm reap on the recorded backend, whatever is ambient.
SessionReap(s) ==
    /\ IsRunning(s) \/ status[s] = "stopped"
    /\ objs' = objs \ Objects(backend[s], s)
    /\ status' = [status EXCEPT ![s] = IF IsRunning(s) THEN "stopped" ELSE "removed"]
    /\ UNCHANGED <<backend, Others>>

-----------------------------------------------------------------------------
(* The sweep of a `run` command *)

\* Mutant: a marker without a start token proves nothing, so its run is dead.
NoTokenIsDead(o) == {Alive(o) /\ token[o]}
\* ProcessAliveSession on a marker: without a start token any process that
\* holds the PID passes for the wrapper.
ProcessAlive(o) ==
    IF Alive(o) THEN {TRUE} ELSE IF token[o] THEN {FALSE} ELSE BOOLEAN

\* What a sweep that starts now on runtime e has to remove.
Orphaned(e) ==
    {o \in Owners : /\ Objects(e, o) # {}
                    /\ IF o \in Sessions THEN ~IsRunning(o)
                       ELSE ~Alive(o) /\ token[o] /\ "marker" \in stage[o]}

\* With no runtime there is nothing to sweep and the command goes on.
SweepBegin(r) ==
    /\ pc[r] = "idle"
    /\ cmd' = [cmd EXCEPT ![r].eng = ambient,
                          ![r].owed = IF ambient = None THEN {} ELSE Orphaned(ambient)]
    /\ Goto(r, IF ambient = None THEN "prep" ELSE "live")
    /\ UNCHANGED <<world, objs, sess, files, down>>

\* LiveSessions: one reading of the records, used until the sweep ends.
SweepLive(r) ==
    /\ pc[r] = "live"
    /\ cmd' = [cmd EXCEPT ![r].live = {s \in Sessions : IsRunning(s)}]
    /\ Goto(r, "list")
    /\ UNCHANGED <<world, objs, sess, files, down>>

Listed(r) ==
    IF cmd[r].pass = "inv" THEN {o \in Runs : stage[o] # {}}
    ELSE {o \in Sessions : Of(cmd[r].eng, o, cmd[r].pass) # {}}

\* A sweep that cannot list stops the command before it launches anything.
SweepList(r) ==
    /\ pc[r] = "list"
    /\ \/ cmd' = [cmd EXCEPT ![r].todo = Listed(r)] /\ Goto(r, "each")
       \/ Leave(r, "exit")
    /\ UNCHANGED <<world, objs, sess, files, down>>

\* Whether owner o is reaped; a set, where the answer depends on a stranger.
Condemned(r, o) ==
    IF o \in Sessions THEN {o \notin cmd[r].live \cup cmd[r].seen}
    ELSE {"marker" \in stage[o] /\ ~a : a \in ProcessAlive(o)}

\* Inspect one listed owner: spare it, or set out to reap it.
SweepOne(r) ==
    /\ pc[r] = "each"
    /\ \E o \in cmd[r].todo :
        \/ /\ FALSE \in Condemned(r, o)
           /\ cmd' = [cmd EXCEPT ![r].todo = @ \ {o}]
           /\ UNCHANGED pc
        \/ /\ TRUE \in Condemned(r, o)
           /\ cmd' = [cmd EXCEPT ![r].todo = @ \ {o}, ![r].aim = o,
                                 ![r].seen = @ \cup ({o} \cap Sessions)]
           /\ Goto(r, "reapc")
    /\ UNCHANGED <<world, objs, sess, files, down>>

\* Containers, then networks, then the stage root.
SweepNext(r) ==
    /\ pc[r] = "each" /\ cmd[r].todo = {}
    /\ cmd' = [cmd EXCEPT ![r].pass = IF @ = "ctr" THEN "net" ELSE "inv"]
    /\ Goto(r, IF cmd[r].pass = "inv" THEN "prep" ELSE "list")
    /\ UNCHANGED <<world, objs, sess, files, down>>

-----------------------------------------------------------------------------
(* reapByOwnership, for a condemned owner and at the end of a run *)

\* Mutant: the failed reap is reported and the marker forgotten.
ForgetMarker(r) == IF Own(r) THEN Goto(r, "clean") /\ UNCHANGED cmd ELSE Leave(r, "exit")
\* A reap that is not proven: a run keeps its marker, a sweep gives up.
ReapFailed(r) ==
    IF Own(r) THEN Goto(r, "clean") /\ cmd' = [cmd EXCEPT ![r].retain = TRUE]
              ELSE Leave(r, "exit")

\* Where a proven reap leads.
Reaped(r) == IF Own(r) THEN "clean" ELSE IF cmd[r].aim \in Runs THEN "wipe" ELSE "each"
\* Mutant: networks are not looked at once the containers are gone.
ContainersOnly(r) == Reaped(r)
\* The containers are gone; the networks are next.
AfterContainers(r) == "reapn"

\* Delete the k objects of the owner; an error may come before or after.
Reap(r, k, next) ==
    LET gone == objs \ Of(cmd[r].eng, cmd[r].aim, k)
    IN  /\ \/ objs' = gone /\ Goto(r, next) /\ UNCHANGED cmd
           \/ objs' \in {objs, gone} /\ ReapFailed(r)
        /\ UNCHANGED <<world, sess, files, down>>

ReapContainers(r) == pc[r] = "reapc" /\ Reap(r, "ctr", AfterContainers(r))
ReapNetworks(r)   == pc[r] = "reapn" /\ Reap(r, "net", Reaped(r))

\* The marker of a run is gone for everybody: sweeps of other runtimes will not
\* find what it left there, and owe it no longer (ghost).
Excused(r) ==
    [q \in Runs |-> IF cmd[q].eng = cmd[r].eng THEN cmd[q]
                    ELSE [cmd[q] EXCEPT !.owed = @ \ {cmd[r].aim}]]

\* RemoveAll of the dead run's stage: it may stop anywhere.
SweepWipe(r) ==
    /\ pc[r] = "wipe"
    /\ LET o == cmd[r].aim
       IN  \/ stage' = [stage EXCEPT ![o] = {}] /\ Goto(r, "each") /\ cmd' = Excused(r)
           \/ /\ \E left \in SUBSET stage[o] : stage' = [stage EXCEPT ![o] = left]
              /\ Goto(r, "exit") /\ cmd' = [Excused(r) EXCEPT ![r] = Fresh(r)]
    /\ UNCHANGED <<world, objs, sess, token, down>>

-----------------------------------------------------------------------------
(* The run itself *)

\* A fresh identity, an empty stage, the marker (renamed into place).
WriteMarker(r) ==
    /\ pc[r] = "prep"
    /\ cmd' = [cmd EXCEPT ![r] = Fresh(r)]
    /\ \/ /\ stage' = [stage EXCEPT ![r] = {"marker"}]
          /\ \E t \in BOOLEAN : token' = [token EXCEPT ![r] = t]
          /\ Goto(r, "creds")
       \/ Goto(r, "clean") /\ UNCHANGED files
    /\ UNCHANGED <<world, objs, sess, down>>

\* Credentials are staged, wholly or in part, or not at all.
StageCredentials(r) ==
    /\ pc[r] = "creds"
    /\ \/ /\ stage' = [stage EXCEPT ![r] = @ \cup {"secret"}]
          /\ Goto(r, "detect") \/ Goto(r, "clean")
       \/ Goto(r, "clean") /\ UNCHANGED stage
    /\ UNCHANGED <<world, objs, sess, cmd, token, down>>

DetectRuntime(r) ==
    /\ pc[r] = "detect"
    /\ cmd' = [cmd EXCEPT ![r].eng = Detected(r)]
    /\ Goto(r, IF Detected(r) = None THEN "clean" ELSE "upnet")
    /\ UNCHANGED <<world, objs, sess, files, down>>

\* Compose creates the networks, then the containers; an error at either
\* point ends the launch, and the reap follows in every case.
ComposeUp(r) ==
    /\ \/ /\ pc[r] = "upnet"
          /\ objs' = objs \cup {<<cmd[r].eng, r, "net">>} /\ Goto(r, "upctr")
       \/ /\ pc[r] = "upctr"
          /\ objs' = objs \cup {<<cmd[r].eng, r, "ctr">>} /\ Goto(r, "agent")
       \/ /\ pc[r] \in {"upnet", "upctr", "agent"}
          /\ Goto(r, "reapc") /\ UNCHANGED objs
    /\ UNCHANGED <<world, sess, cmd, files, down>>

\* RetainInvocationMarker removes everything but the marker.
Retained(r) == stage[r] \cap {"marker"}

\* The deferred cleanup.  Its failure is reported; what is left, is left.
CleanStage(r) ==
    /\ pc[r] = "clean"
    /\ \/ stage' = [stage EXCEPT ![r] = IF cmd[r].retain THEN Retained(r) ELSE {}]
       \/ \E left \in SUBSET stage[r] :
            /\ cmd[r].retain => Retained(r) \subseteq left
            /\ stage' = [stage EXCEPT ![r] = left]
    /\ Leave(r, "done")
    /\ UNCHANGED <<world, objs, sess, token, down>>

\* SIGKILL or a power failure: nothing deferred runs.
Crash(r) ==
    /\ Alive(r) /\ Leave(r, "dead")
    /\ UNCHANGED <<world, objs, sess, files, down>>

-----------------------------------------------------------------------------
(* safeslop down: every managed object of the ambient runtime *)

Managed(e, k) == objs \cap ({e} \X Owners \X {k})

DownContainers ==
    /\ down = None /\ ambient # None
    /\ \/ objs' = objs \ Managed(ambient, "ctr") /\ down' = ambient
       \/ objs' \in {objs \ gone : gone \in SUBSET Managed(ambient, "ctr")} /\ UNCHANGED down
    /\ UNCHANGED <<world, sess, pc, cmd, files>>

DownNetworks ==
    /\ down # None /\ down' = None
    /\ \E gone \in SUBSET Managed(down, "net") : objs' = objs \ gone
    /\ UNCHANGED <<world, sess, pc, cmd, files>>

SessionStep(s) ==
    \/ SessionPrepare(s) \/ SessionMarkRunning(s) \/ SessionUp(s)
    \/ SessionFinish(s) \/ SessionReap(s)

RunStep(r) ==
    \/ SweepBegin(r) \/ SweepLive(r) \/ SweepList(r) \/ SweepOne(r) \/ SweepNext(r)
    \/ ReapContainers(r) \/ ReapNetworks(r) \/ SweepWipe(r)
    \/ WriteMarker(r) \/ StageCredentials(r) \/ DetectRuntime(r) \/ ComposeUp(r)
    \/ CleanStage(r)

Next ==
    \/ SwitchRuntime \/ DownContainers \/ DownNetworks
    \/ \E s \in Sessions : SessionStep(s)
    \/ \E r \in Runs : RunStep(r) \/ Crash(r)

Spec == Init /\ [][Next]_vars

-----------------------------------------------------------------------------
(* Properties *)

\* The marker is the only handle by which a later command finds what a dead
\* run left: it is never removed while an object of that run exists in the
\* runtime its remover has been driving (RetainInvocationMarker, and the order
\* of ReapByInvocation and RemoveAll in SweepDeadInvocations).
HandleOutlivesBoundary ==
    [][\A o, r \in Runs :
        (pc'[r] # pc[r] /\ cmd[r].aim = o /\ "marker" \in stage[o] \ stage'[o])
            => Objects(cmd[r].eng, o) = {}]_vars

\* No sweep deletes the boundary of a run whose wrapper is alive, whatever its
\* marker holds (ProcessAliveSession in SweepDeadInvocations): only the run
\* itself and `safeslop down` do.
SweepSparesTheLiving ==
    [][\A o \in Runs : (Alive(o) /\ pc' # pc /\ pc'[o] = pc[o]) =>
            \A e \in Engines : Objects(e, o) \subseteq objs']_vars

\* A run goes on to launch only when everything that was orphaned on its
\* runtime as its sweep began is gone: the label passes and the marker pass
\* leave none out, and none of their errors is swallowed.  The marker is one
\* for all runtimes, so what a dead run left is lost to this sweep when one
\* that drives another runtime removed the marker first.
SweepIsThorough ==
    \A r \in Runs : pc[r] = "prep" =>
        \A o \in cmd[r].owed : Objects(cmd[r].eng, o) = {}

\* The orphan sweep reaps no boundary of a session whose record is running
\* ("It is safe to run at startup: live session ids are supplied by the
\* session store", SweepManagedOrphans).
SweepSparesSessions ==
    [][\A s \in Sessions : (IsRunning(s) /\ pc' # pc) =>
            \A e \in Engines : Objects(e, s) \subseteq objs']_vars
=============================================================================
