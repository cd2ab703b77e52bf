--------------------------- MODULE ReapingProofs ---------------------------
(***************************************************************************)
(* What the sweep and the markers guarantee, for every number of runs,     *)
(* sessions and container runtimes.                                        *)
(***************************************************************************)
EXTENDS Reaping, TLAPS

At(e, o, k) == <<e, o, k>> \in objs
Bare(e, o)  == ~At(e, o, "ctr") /\ ~At(e, o, "net")

\* A session's boundary is in the runtime its record names, and only there.
SessionInv ==
    /\ \A s \in Sessions : status[s] # "created" => backend[s] # None
    /\ \A e \in Engines, s \in Sessions, k \in Kinds :
          At(e, s, k) => e = backend[s] /\ status[s] \in {"up", "stopped"}

\* Where a command is: it aims at itself until its sweep condemns somebody, and
\* a run it condemned is over.
Place(r) ==
    /\ pc[r] = "idle" =>
          cmd[r].pass = "ctr" /\ cmd[r].live = {} /\ cmd[r].seen = {} /\ stage[r] = {}
    /\ pc[r] \in {"creds", "detect"} => cmd[r].eng = None
    /\ pc[r] \in {"upnet", "upctr"} => cmd[r].eng # None
    /\ pc[r] \in {"idle", "creds", "detect", "upnet", "upctr", "agent", "clean"} \cup Ended =>
          cmd[r].aim = r /\ cmd[r].owed = {}
    /\ pc[r] \in {"reapc", "reapn"} /\ cmd[r].aim = r => cmd[r].owed = {}
    /\ pc[r] = "wipe" => cmd[r].aim \in Runs \ {r}
    /\ pc[r] \in {"reapc", "reapn", "wipe"} /\ cmd[r].aim \in Runs \ {r} =>
          pc[cmd[r].aim] \in Ended

\* How far a reap is, of a boundary that nobody can bring up again.
Progress(r) ==
    /\ pc[r] = "reapn" /\ cmd[r].aim \in Runs => ~At(cmd[r].eng, cmd[r].aim, "ctr")
    /\ pc[r] = "wipe" => Bare(cmd[r].eng, cmd[r].aim)
    /\ pc[r] = "clean" /\ ~cmd[r].retain => Bare(cmd[r].eng, r)

\* What a sweep owes: a session that will not run again is ahead in the pass
\* for its object's kind, or is being reaped, or has nothing left; a dead run
\* keeps its marker while it has something left.
Walking(r)    == pc[r] \in {"each", "reapc", "reapn", "wipe"}
Reaps(r, o)   == pc[r] \in {"reapc", "reapn"} /\ cmd[r].aim = o
Ahead(r, o)   == o \in cmd[r].todo \/ Reaps(r, o)
OwedSession(r, o) ==
    /\ status[o] \in {"stopped", "removed"} /\ o \notin cmd[r].live
    /\ o \in cmd[r].seen /\ ~Reaps(r, o) => Bare(cmd[r].eng, o)
    /\ pc[r] = "reapn" /\ cmd[r].aim = o => ~At(cmd[r].eng, o, "ctr")
    /\ cmd[r].pass = "ctr" /\ Walking(r) /\ At(cmd[r].eng, o, "ctr") => Ahead(r, o)
    /\ cmd[r].pass = "net" => ~At(cmd[r].eng, o, "ctr")
    /\ cmd[r].pass = "net" /\ Walking(r) /\ At(cmd[r].eng, o, "net") => Ahead(r, o)
    /\ cmd[r].pass = "inv" => Bare(cmd[r].eng, o)
OwedRun(r, o) ==
    /\ pc[o] \in Ended /\ token[o]
    /\ ~Bare(cmd[r].eng, o) => "marker" \in stage[o]
    /\ cmd[r].pass = "inv" /\ Walking(r) /\ ~Bare(cmd[r].eng, o) => Ahead(r, o)
Owed(r, o) ==
    /\ o \in Sessions => OwedSession(r, o)
    /\ o \in Runs => OwedRun(r, o)
    /\ pc[r] = "prep" => Bare(cmd[r].eng, o)

Good(r) == Place(r) /\ Progress(r) /\ \A o \in cmd[r].owed : Owed(r, o)

IInv == TypeOK /\ SessionInv /\ \A r \in Runs : Good(r)

-----------------------------------------------------------------------------
(* Objects and frames *)

\* The objects of an owner in a runtime are at most a container and a network.
LEMMA ObjectFacts ==
    ASSUME NEW S \in SUBSET (Engines \X Owners \X Kinds), NEW e, NEW o
    PROVE  {x \in S : x[1] = e /\ x[2] = o} = {}
               <=> <<e, o, "ctr">> \notin S /\ <<e, o, "net">> \notin S
<1>1. ASSUME NEW x \in S PROVE x = <<x[1], x[2], "ctr">> \/ x = <<x[1], x[2], "net">>
  BY DEF Kinds
<1> QED BY <1>1

\* What the step of another process may do to a command: it may take away
\* objects, markers of runs it owes nothing of, and what it owes.
Frame(q) ==
    /\ pc'[q] = pc[q] /\ stage'[q] \subseteq stage[q]
    /\ cmd'[q].eng = cmd[q].eng /\ cmd'[q].pass = cmd[q].pass /\ cmd'[q].todo = cmd[q].todo
    /\ cmd'[q].live = cmd[q].live /\ cmd'[q].seen = cmd[q].seen
    /\ cmd'[q].aim = cmd[q].aim /\ cmd'[q].retain = cmd[q].retain
    /\ cmd'[q].owed \subseteq cmd[q].owed
    /\ \A o \in Runs : pc[o] \in Ended => pc'[o] \in Ended /\ token'[o] = token[o]
    /\ \A s \in Sessions :
          status[s] \in {"stopped", "removed"} => status'[s] \in {"stopped", "removed"}
    /\ \A e, o, k : At(e, o, k)' /\ ~At(e, o, k) =>
          /\ o \in Sessions => status[o] = "running"
          /\ o \in Runs => o # q /\ pc[o] \notin Ended
    /\ \A o \in cmd'[q].owed \cap Runs :
          ~Bare(cmd[q].eng, o) /\ "marker" \in stage[o] => "marker" \in stage'[o]

\* Such a step keeps what is known of the command.
LEMMA FrameGood ==
    ASSUME TypeOK, NEW q \in Runs, Good(q), Frame(q)
    PROVE  Good(q)'
<1>1. Place(q)'
  BY DEF Good, Place, Frame
<1>2. Progress(q)'
  BY DEF Good, Place, Progress, Frame, Bare
<1>3. ASSUME NEW o \in cmd'[q].owed PROVE Owed(q, o)'
  <2>1. Owed(q, o)
    BY <1>3 DEF Good, Frame
  <2>2. ASSUME o \in Sessions PROVE OwedSession(q, o)'
    BY <2>1, <2>2 DEF Owed, OwedSession, Walking, Ahead, Reaps, Bare, Frame
  <2>3. ASSUME o \in Runs PROVE OwedRun(q, o)'
    BY <1>3, <2>1, <2>3 DEF Owed, OwedRun, Walking, Ahead, Reaps, Bare, Frame
  <2>4. ASSUME pc'[q] = "prep" PROVE Bare(cmd[q].eng, o)'
    <3>1. o \in Sessions \cup Runs
      BY <1>3 DEF TypeOK, Locals, Owners, Frame
    <3>2. Bare(cmd[q].eng, o) /\ (o \in Sessions => status[o] # "running") /\ (o \in Runs => pc[o] \in Ended)
      BY <2>1, <2>4 DEF Owed, OwedSession, OwedRun, Frame
    <3> QED BY <3>1, <3>2 DEF Bare, Frame
  <2> QED BY <2>2, <2>3, <2>4 DEF Owed, Frame
<1> QED BY <1>1, <1>2, <1>3 DEF Good

-----------------------------------------------------------------------------
(* Types and sessions *)

\* The locals of a command stay in their domains, whatever it assigns.
LEMMA LocalsFacts ==
    ASSUME NEW c \in Locals
    PROVE  /\ \A e \in Engines \cup {None}, O \in SUBSET Owners : [c EXCEPT !.eng = e, !.owed = O] \in Locals
           /\ \A e \in Engines \cup {None} : [c EXCEPT !.eng = e] \in Locals
           /\ \A T \in SUBSET Owners : [c EXCEPT !.todo = T] \in Locals
           /\ \A T \in SUBSET Owners, o \in Owners, S \in SUBSET Sessions :
                  [c EXCEPT !.todo = T, !.aim = o, !.seen = S] \in Locals
           /\ \A O \in SUBSET Owners : [c EXCEPT !.owed = O] \in Locals
           /\ [c EXCEPT !.retain = TRUE] \in Locals
           /\ [c EXCEPT !.pass = IF @ = "ctr" THEN "net" ELSE "inv"] \in Locals
           /\ \A S \in SUBSET Sessions : [c EXCEPT !.live = S] \in Locals
<1> USE DEF Locals
<1>1. \A e \in Engines \cup {None}, O \in SUBSET Owners : [c EXCEPT !.eng = e, !.owed = O] \in Locals
  OBVIOUS
<1>2. \A e \in Engines \cup {None} : [c EXCEPT !.eng = e] \in Locals
  OBVIOUS
<1>3. \A T \in SUBSET Owners : [c EXCEPT !.todo = T] \in Locals
  OBVIOUS
<1>4. \A T \in SUBSET Owners, o \in Owners, S \in SUBSET Sessions :
          [c EXCEPT !.todo = T, !.aim = o, !.seen = S] \in Locals
  OBVIOUS
<1>5. \A O \in SUBSET Owners : [c EXCEPT !.owed = O] \in Locals
  OBVIOUS
<1>6. [c EXCEPT !.retain = TRUE] \in Locals
  OBVIOUS
<1>7. [c EXCEPT !.pass = IF @ = "ctr" THEN "net" ELSE "inv"] \in Locals
  OBVIOUS
<1>8. \A S \in SUBSET Sessions : [c EXCEPT !.live = S] \in Locals
  OBVIOUS
<1> QED BY <1>1, <1>2, <1>3, <1>4, <1>5, <1>6, <1>7, <1>8, Zenon

\* So does a fresh one.
LEMMA FreshType == ASSUME NEW r \in Runs PROVE Fresh(r) \in Locals
  BY DEF Fresh, Locals, Owners

\* Every action keeps the variables in their domains.
LEMMA TypeNext ==
    TypeOK /\ SessionInv /\ (\A r \in Runs : Place(r)) /\ [Next]_vars => TypeOK'
<1> SUFFICES ASSUME TypeOK, SessionInv, \A r \in Runs : Place(r), [Next]_vars PROVE TypeOK'
  OBVIOUS
<1> USE EnginesAssumption, OwnersAssumption, SwitchesAssumption
    DEF TypeOK, world, sess, files, Others
<1>1. CASE SwitchRuntime
  BY <1>1 DEF SwitchRuntime
<1>2. CASE DownContainers \/ DownNetworks
  BY <1>2 DEF DownContainers, DownNetworks, Managed
<1>3. ASSUME NEW s \in Sessions, SessionStep(s) PROVE TypeOK'
  <2>1. CASE SessionPrepare(s)
    BY <2>1 DEF SessionPrepare, Detected
  <2>2. CASE SessionMarkRunning(s) \/ SessionFinish(s)
    BY <2>2 DEF SessionMarkRunning, SessionFinish
  <2>3. CASE SessionUp(s)
    <3>1. backend[s] \in Engines
      BY <2>3 DEF SessionUp, SessionInv
    <3> QED BY <2>3, <3>1 DEF SessionUp, Owners
  <2>4. CASE SessionReap(s)
    BY <2>4 DEF SessionReap, Objects
  <2> QED BY <1>3, <2>1, <2>2, <2>3, <2>4 DEF SessionStep
<1>4. ASSUME NEW r \in Runs, SweepBegin(r) PROVE TypeOK'
  <2>1. pc' \in [Runs -> PCs]
    BY <1>4 DEF SweepBegin, Goto, PCs, Ended
  <2>2. cmd' \in [Runs -> Locals]
    <3>1. \A e \in Engines \cup {None}, O \in SUBSET Owners : [cmd[r] EXCEPT !.eng = e, !.owed = O] \in Locals
      BY <1>4, LocalsFacts
    <3>2. Orphaned(ambient) \in SUBSET Owners
      BY DEF Orphaned
    <3> QED BY <1>4, <3>1, <3>2 DEF SweepBegin
  <2> QED BY <1>4, <2>1, <2>2 DEF SweepBegin
<1>5. ASSUME NEW r \in Runs, SweepLive(r) PROVE TypeOK'
  <2>1. \A S \in SUBSET Sessions : [cmd[r] EXCEPT !.live = S] \in Locals
    BY <1>5, LocalsFacts
  <2> QED BY <1>5, <2>1 DEF SweepLive, Goto, PCs
<1>6. ASSUME NEW r \in Runs, SweepList(r) PROVE TypeOK'
  <2>1. pc' \in [Runs -> PCs]
    BY <1>6 DEF SweepList, Leave, Goto, PCs, Ended
  <2>2. cmd' \in [Runs -> Locals]
    <3>1. \A T \in SUBSET Owners : [cmd[r] EXCEPT !.todo = T] \in Locals
      BY <1>6, LocalsFacts
    <3>2. Listed(r) \in SUBSET Owners
      BY DEF Listed, Owners
    <3> QED BY <1>6, <3>1, <3>2, FreshType DEF SweepList, Leave
  <2> QED BY <1>6, <2>1, <2>2 DEF SweepList
<1>7. ASSUME NEW r \in Runs, SweepOne(r) PROVE TypeOK'
  <2>1. pc' \in [Runs -> PCs]
    BY <1>7 DEF SweepOne, Goto, PCs, Ended
  <2>2. cmd' \in [Runs -> Locals]
    <3>1. cmd[r].todo \in SUBSET Owners /\ cmd[r].seen \in SUBSET Sessions
      BY <1>7 DEF Locals
    <3>2. /\ \A T \in SUBSET Owners : [cmd[r] EXCEPT !.todo = T] \in Locals
          /\ \A T \in SUBSET Owners, o \in Owners, S \in SUBSET Sessions :
                 [cmd[r] EXCEPT !.todo = T, !.aim = o, !.seen = S] \in Locals
      BY <1>7, LocalsFacts
    <3>3. PICK o \in cmd[r].todo :
            \/ cmd' = [cmd EXCEPT ![r].todo = @ \ {o}]
            \/ cmd' = [cmd EXCEPT ![r].todo = @ \ {o}, ![r].aim = o, ![r].seen = @ \cup ({o} \cap Sessions)]
      BY <1>7 DEF SweepOne
    <3>4. /\ o \in Owners /\ cmd[r].todo \ {o} \in SUBSET Owners
          /\ cmd[r].seen \cup ({o} \cap Sessions) \in SUBSET Sessions
      BY <3>1, <3>3
    <3>5. /\ [cmd[r] EXCEPT !.todo = cmd[r].todo \ {o}] \in Locals
          /\ [cmd[r] EXCEPT !.todo = cmd[r].todo \ {o}, !.aim = o,
                            !.seen = cmd[r].seen \cup ({o} \cap Sessions)] \in Locals
      BY <3>2, <3>4, Zenon
    <3>6. CASE cmd' = [cmd EXCEPT ![r].todo = @ \ {o}]
      BY <1>7, <3>5, <3>6
    <3>7. CASE cmd' = [cmd EXCEPT ![r].todo = @ \ {o}, ![r].aim = o, ![r].seen = @ \cup ({o} \cap Sessions)]
      BY <1>7, <3>5, <3>7
    <3> QED BY <3>3, <3>6, <3>7
  <2> QED BY <1>7, <2>1, <2>2 DEF SweepOne
<1>8. ASSUME NEW r \in Runs, SweepNext(r) PROVE TypeOK'
  <2>1. pc' \in [Runs -> PCs]
    BY <1>8 DEF SweepNext, Goto, PCs, Ended
  <2>2. cmd' \in [Runs -> Locals]
    <3>1. [cmd[r] EXCEPT !.pass = IF @ = "ctr" THEN "net" ELSE "inv"] \in Locals
      BY <1>8, LocalsFacts
    <3> QED BY <1>8, <3>1 DEF SweepNext
  <2> QED BY <1>8, <2>1, <2>2 DEF SweepNext
<1>9. ASSUME NEW r \in Runs, ReapContainers(r) \/ ReapNetworks(r) PROVE TypeOK'
  <2>1. pc' \in [Runs -> PCs]
    BY <1>9 DEF ReapContainers, ReapNetworks, Reap, ReapFailed, AfterContainers, Reaped, Leave, Goto,
       PCs, Ended
  <2>2. cmd' \in [Runs -> Locals]
    <3>1. [cmd[r] EXCEPT !.retain = TRUE] \in Locals
      BY <1>9, LocalsFacts
    <3> QED BY <1>9, <3>1, FreshType DEF ReapContainers, ReapNetworks, Reap, ReapFailed, Leave
  <2> QED BY <1>9, <2>1, <2>2 DEF ReapContainers, ReapNetworks, Reap, Of
<1>10. ASSUME NEW r \in Runs, SweepWipe(r) PROVE TypeOK'
  <2>1. pc' \in [Runs -> PCs]
    BY <1>10 DEF SweepWipe, Goto, PCs, Ended
  <2>2. cmd' \in [Runs -> Locals]
    <3>1. ASSUME NEW q \in Runs PROVE [cmd[q] EXCEPT !.owed = @ \ {cmd[r].aim}] \in Locals
      <4>1. cmd[q].owed \ {cmd[r].aim} \in SUBSET Owners
        BY <3>1 DEF Locals
      <4>2. [cmd[q] EXCEPT !.owed = cmd[q].owed \ {cmd[r].aim}] \in Locals
        BY <3>1, <4>1, LocalsFacts, Zenon
      <4> QED BY <4>2
    <3>2. Excused(r) \in [Runs -> Locals]
      BY <3>1 DEF Excused
    <3> QED BY <1>10, <3>2, FreshType DEF SweepWipe
  <2>3. cmd[r].aim \in Runs
    BY <1>10 DEF SweepWipe, Place
  <2>4. stage' \in [Runs -> SUBSET {"marker", "secret"}]
    <3>1. PICK left \in SUBSET stage[cmd[r].aim] : stage' = [stage EXCEPT ![cmd[r].aim] = left]
      BY <1>10 DEF SweepWipe
    <3>2. left \in SUBSET {"marker", "secret"}
      BY <2>3, <3>1
    <3> QED BY <2>3, <3>1, <3>2
  <2> QED BY <1>10, <2>1, <2>2, <2>4 DEF SweepWipe
<1>11. ASSUME NEW r \in Runs, WriteMarker(r) PROVE TypeOK'
  BY <1>11, FreshType DEF WriteMarker, Goto, PCs
<1>12. ASSUME NEW r \in Runs, StageCredentials(r) PROVE TypeOK'
  BY <1>12 DEF StageCredentials, Goto, PCs
<1>13. ASSUME NEW r \in Runs, DetectRuntime(r) PROVE TypeOK'
  <2>1. \A e \in Engines \cup {None} : [cmd[r] EXCEPT !.eng = e] \in Locals
    BY <1>13, LocalsFacts
  <2>2. Detected(r) \in Engines \cup {None}
    BY DEF Detected
  <2>3. pc' \in [Runs -> PCs]
    BY <1>13 DEF DetectRuntime, Goto, PCs
  <2> QED BY <1>13, <2>1, <2>2, <2>3 DEF DetectRuntime
<1>14. ASSUME NEW r \in Runs, ComposeUp(r) PROVE TypeOK'
  <2>1. pc[r] \in {"upnet", "upctr"} => cmd[r].eng \in Engines
    BY <1>14 DEF Place, Locals
  <2>2. pc' \in [Runs -> PCs]
    BY <1>14 DEF ComposeUp, Goto, PCs
  <2> QED BY <1>14, <2>1, <2>2 DEF ComposeUp, Kinds, Owners
<1>15. ASSUME NEW r \in Runs, CleanStage(r) PROVE TypeOK'
  <2>1. stage' \in [Runs -> SUBSET {"marker", "secret"}]
    <3>1. PICK left \in SUBSET {"marker", "secret"} : stage' = [stage EXCEPT ![r] = left]
      <4>1. stage[r] \in SUBSET {"marker", "secret"}
        BY <1>15
      <4>2. PICK left \in SUBSET stage[r] : stage' = [stage EXCEPT ![r] = left]
        BY <1>15 DEF CleanStage, Retained
      <4> QED BY <4>1, <4>2
    <3> QED BY <1>15, <3>1
  <2> QED BY <1>15, <2>1, FreshType DEF CleanStage, Leave, Goto, PCs, Ended
<1>16. ASSUME NEW r \in Runs, Crash(r) PROVE TypeOK'
  BY <1>16, FreshType DEF Crash, Leave, Goto, PCs, Ended
<1>17. CASE UNCHANGED vars
  BY <1>17 DEF vars
<1> QED BY <1>1, <1>2, <1>3, <1>4, <1>5, <1>6, <1>7, <1>8, <1>9, <1>10, <1>11, <1>12, <1>13,
   <1>14, <1>15, <1>16, <1>17, Zenon DEF Next, RunStep

-----------------------------------------------------------------------------
(* What a step means to the other commands *)

\* All that a step of r but SweepWipe does: it changes r's own part of the
\* state, takes away objects, and brings up none but r's.
Step(r) ==
    /\ \A q \in Runs \ {r} :
          pc'[q] = pc[q] /\ cmd'[q] = cmd[q] /\ stage'[q] = stage[q] /\ token'[q] = token[q]
    /\ UNCHANGED <<status, backend>> /\ pc[r] \notin Ended
    /\ \A e, o, k : At(e, o, k)' => At(e, o, k) \/ o = r

\* Every step of a command but SweepWipe is of this kind.
LEMMA RunSteps ==
    ASSUME TypeOK, NEW r \in Runs, RunStep(r) \/ Crash(r), ~SweepWipe(r)
    PROVE  Step(r)
<1> USE DEF world, sess, files, Goto, Leave, Ended
<1>1. CASE SweepBegin(r)
  BY <1>1 DEF SweepBegin, Step, At, TypeOK
<1>2. CASE SweepLive(r)
  BY <1>2 DEF SweepLive, Step, At, TypeOK
<1>3. CASE SweepList(r)
  BY <1>3 DEF SweepList, Step, At, TypeOK
<1>4. CASE SweepOne(r)
  BY <1>4 DEF SweepOne, Step, At, TypeOK
<1>5. CASE SweepNext(r)
  BY <1>5 DEF SweepNext, Step, At, TypeOK
<1>6. CASE ReapContainers(r)
  BY <1>6 DEF ReapContainers, Reap, ReapFailed, AfterContainers, Of, Step, At, TypeOK
<1>7. CASE ReapNetworks(r)
  BY <1>7 DEF ReapNetworks, Reap, ReapFailed, Of, Step, At, TypeOK
<1>8. CASE WriteMarker(r)
  BY <1>8 DEF WriteMarker, Step, At, TypeOK
<1>9. CASE StageCredentials(r)
  BY <1>9 DEF StageCredentials, Step, At, TypeOK
<1>10. CASE DetectRuntime(r)
  BY <1>10 DEF DetectRuntime, Step, At, TypeOK
<1>11. CASE ComposeUp(r)
  BY <1>11 DEF ComposeUp, Step, At, TypeOK
<1>12. CASE CleanStage(r)
  BY <1>12 DEF CleanStage, Step, At, TypeOK
<1>13. CASE Crash(r)
  BY <1>13 DEF Crash, Alive, Step, At, TypeOK
<1> QED BY <1>1, <1>2, <1>3, <1>4, <1>5, <1>6, <1>7, <1>8, <1>9, <1>10, <1>11, <1>12, <1>13,
   Zenon DEF RunStep

\* The record of a session names the runtime of its boundary, for good.
LEMMA SessionNext ==
    TypeOK /\ SessionInv /\ [Next]_vars => SessionInv'
<1> SUFFICES ASSUME TypeOK, SessionInv, [Next]_vars PROVE SessionInv'
  OBVIOUS
<1> USE DEF world, sess, files, Others
<1>1. ASSUME NEW s \in Sessions, SessionStep(s) PROVE SessionInv'
  <2>1. CASE SessionPrepare(s)
    BY <2>1 DEF SessionPrepare, SessionInv, At, TypeOK
  <2>2. CASE SessionMarkRunning(s)
    BY <2>2 DEF SessionMarkRunning, SessionInv, At, TypeOK
  <2>3. CASE SessionUp(s)
    BY <2>3 DEF SessionUp, SessionInv, At, TypeOK
  <2>4. CASE SessionFinish(s)
    BY <2>4 DEF SessionFinish, SessionInv, At, TypeOK, IsRunning
  <2>5. CASE SessionReap(s)
    BY <2>5 DEF SessionReap, SessionInv, At, TypeOK, IsRunning, Objects
  <2> QED BY <1>1, <2>1, <2>2, <2>3, <2>4, <2>5, Zenon DEF SessionStep
<1>2. ASSUME UNCHANGED <<status, backend>>, \A e, o, k : o \in Sessions /\ At(e, o, k)' => At(e, o, k)
      PROVE  SessionInv'
  BY <1>2 DEF SessionInv
<1>3. ASSUME NEW r \in Runs, RunStep(r) \/ Crash(r) PROVE SessionInv'
  <2>1. CASE SweepWipe(r)
    BY <1>2, <2>1 DEF SweepWipe, At
  <2>2. CASE ~SweepWipe(r)
    <3>1. Step(r)
      BY <1>3, <2>2, RunSteps
    <3> QED BY <1>2, <1>3, <3>1, OwnersAssumption DEF Step
  <2> QED BY <2>1, <2>2
<1>4. CASE SwitchRuntime \/ DownContainers \/ DownNetworks \/ UNCHANGED vars
  BY <1>2, <1>4 DEF SwitchRuntime, DownContainers, DownNetworks, Managed, vars, At
<1> QED BY <1>1, <1>3, <1>4, Zenon DEF Next

\* To the others it is a frame: nobody owes them a run that has not ended.
LEMMA StepFrame ==
    ASSUME TypeOK, NEW r \in Runs, NEW q \in Runs \ {r}, Good(q), Step(r)
    PROVE  Frame(q)
<1>1. \A o \in cmd[q].owed \cap Runs : o # r
  BY DEF Good, Owed, OwedRun, Step
<1> QED BY <1>1, OwnersAssumption DEF Frame, Step

\* A sweep takes away a marker for good; who owed that run's boundary is excused.
LEMMA WipeFrame ==
    ASSUME TypeOK, NEW r \in Runs, NEW q \in Runs \ {r}, Good(q), Good(r), SweepWipe(r)
    PROVE  Frame(q)
<1> DEFINE a == cmd[r].aim
<1>1. a \in Runs \ {r} /\ Bare(cmd[r].eng, a) /\ pc[r] = "wipe"
  BY DEF SweepWipe, Good, Place, Progress
<1>2. /\ pc'[q] = pc[q] /\ UNCHANGED <<status, backend, token, objs>>
      /\ cmd'[q] = IF cmd[q].eng = cmd[r].eng THEN cmd[q] ELSE [cmd[q] EXCEPT !.owed = @ \ {a}]
      /\ \A o \in Runs : pc[o] \in Ended => pc'[o] \in Ended
  BY <1>1 DEF SweepWipe, Excused, Goto, TypeOK, sess, Ended
<1>3. stage'[q] \subseteq stage[q] /\ \A o \in Runs \ {a} : stage'[o] = stage[o]
  BY <1>1 DEF SweepWipe, TypeOK
<1>4. /\ cmd'[q].eng = cmd[q].eng /\ cmd'[q].pass = cmd[q].pass /\ cmd'[q].todo = cmd[q].todo
      /\ cmd'[q].live = cmd[q].live /\ cmd'[q].seen = cmd[q].seen
      /\ cmd'[q].aim = cmd[q].aim /\ cmd'[q].retain = cmd[q].retain
      /\ cmd'[q].owed \subseteq cmd[q].owed
      /\ cmd[q].eng # cmd[r].eng => a \notin cmd'[q].owed
  <2>1. cmd[q] \in Locals
    BY DEF TypeOK
  <2> QED BY <1>2, <2>1 DEF Locals
<1>5. \A o \in cmd'[q].owed \cap Runs :
          ~Bare(cmd[q].eng, o) /\ "marker" \in stage[o] => "marker" \in stage'[o]
  BY <1>1, <1>3, <1>4
<1>6. \A e, o, k : At(e, o, k)' => At(e, o, k)
  BY <1>2 DEF At
<1> QED BY <1>2, <1>3, <1>4, <1>5, <1>6 DEF Frame

\* The runtimes, `safeslop down` and the sessions leave the commands alone.
LEMMA CalmFrame ==
    ASSUME TypeOK, NEW q \in Runs,
           \/ SwitchRuntime \/ DownContainers \/ DownNetworks \/ UNCHANGED vars
           \/ \E s \in Sessions : SessionStep(s)
    PROVE  Frame(q)
<1> USE DEF world, sess, files, Others
<1>1. ASSUME UNCHANGED <<pc, cmd, stage, token>>,
             \A s \in Sessions :
                status[s] \in {"stopped", "removed"} => status'[s] \in {"stopped", "removed"},
             \A e, o, k : At(e, o, k)' => At(e, o, k) \/ (o \in Sessions /\ status[o] = "running")
      PROVE  Frame(q)
  BY <1>1, OwnersAssumption DEF Frame
<1>2. CASE SwitchRuntime \/ DownContainers \/ DownNetworks \/ UNCHANGED vars
  BY <1>1, <1>2 DEF SwitchRuntime, DownContainers, DownNetworks, Managed, vars, At
<1>3. ASSUME NEW s \in Sessions, SessionStep(s) PROVE Frame(q)
  <2>1. UNCHANGED <<pc, cmd, stage, token>>
    BY <1>3 DEF SessionStep, SessionPrepare, SessionMarkRunning, SessionUp, SessionFinish, SessionReap
  <2>2. \A t \in Sessions : status[t] \in {"stopped", "removed"} => status'[t] \in {"stopped", "removed"}
    BY <1>3 DEF SessionStep, SessionPrepare, SessionMarkRunning, SessionUp, SessionFinish,
       SessionReap, IsRunning, TypeOK
  <2>3. \A e, o, k : At(e, o, k)' => At(e, o, k) \/ (o \in Sessions /\ status[o] = "running")
    BY <1>3 DEF SessionStep, SessionPrepare, SessionMarkRunning, SessionUp, SessionFinish,
       SessionReap, At
  <2> QED BY <1>1, <2>1, <2>2, <2>3
<1> QED BY <1>2, <1>3

-----------------------------------------------------------------------------
(* What a step means to its own command *)

\* Who has left owes nothing.
LEMMA LeaveGood ==
    ASSUME NEW r \in Runs, pc'[r] \in Ended, cmd'[r] = Fresh(r)
    PROVE  Good(r)'
  BY DEF Good, Place, Progress, Fresh, Ended

\* What is orphaned as a sweep begins: stopped sessions, and ended runs that
\* left a marker with a start token.
LEMMA BeginGood ==
    ASSUME TypeOK, SessionInv, \A q \in Runs : Good(q), NEW r \in Runs, SweepBegin(r)
    PROVE  Good(r)'
<1>1. /\ pc[r] = "idle" /\ UNCHANGED <<objs, status, stage, token>>
      /\ pc'[r] = IF ambient = None THEN "prep" ELSE "live"
      /\ \A q \in Runs \ {r} : pc'[q] = pc[q]
  BY DEF SweepBegin, Goto, TypeOK, sess, files
<1>2. /\ cmd'[r].eng = ambient /\ cmd'[r].pass = "ctr" /\ cmd'[r].aim = r
      /\ cmd'[r].live = {} /\ cmd'[r].seen = {}
      /\ cmd'[r].owed = IF ambient = None THEN {} ELSE Orphaned(ambient)
  <2>1. cmd[r] \in Locals /\ Place(r)
    BY DEF TypeOK, Good
  <2> QED BY <1>1, <2>1 DEF SweepBegin, TypeOK, Locals, Place, Ended
<1>3. Place(r)' /\ Progress(r)'
  BY <1>1, <1>2 DEF Place, Progress, Ended
<1>4. ASSUME NEW o \in cmd'[r].owed PROVE Owed(r, o)'
  <2>1. ambient # None /\ o \in Orphaned(ambient)
    BY <1>2, <1>4
  <2>2. ASSUME o \in Sessions PROVE status[o] = "stopped"
    <3>1. \E k \in Kinds : At(ambient, o, k)
      BY <2>1, ObjectFacts DEF Orphaned, Objects, At, Kinds, TypeOK
    <3>2. ambient \in Engines
      BY <2>1 DEF TypeOK
    <3> QED BY <2>1, <2>2, <3>1, <3>2 DEF Orphaned, SessionInv, IsRunning
  <2>3. ASSUME o \in Runs PROVE pc[o] \in Ended /\ token[o] /\ "marker" \in stage[o]
    BY <2>1, <2>3, OwnersAssumption DEF Orphaned, Alive, Good, Place
  <2>4. o \in Sessions => OwedSession(r, o)'
    BY <1>1, <1>2, <2>1, <2>2 DEF OwedSession, Walking, Reaps
  <2>5. o \in Runs => OwedRun(r, o)'
    BY <1>1, <1>2, <2>1, <2>3 DEF OwedRun, Walking, Ended
  <2> QED BY <1>1, <2>1, <2>4, <2>5 DEF Owed
<1> QED BY <1>3, <1>4 DEF Good

\* An owed session is not among the live ones.
LEMMA LiveGood ==
    ASSUME TypeOK, NEW r \in Runs, Good(r), SweepLive(r)
    PROVE  Good(r)'
<1>1. /\ pc[r] = "live" /\ pc'[r] = "list" /\ UNCHANGED <<objs, status, stage, token>>
      /\ \A q \in Runs \ {r} : pc'[q] = pc[q]
  BY DEF SweepLive, Goto, TypeOK, sess, files
<1>2. /\ cmd'[r].eng = cmd[r].eng /\ cmd'[r].pass = cmd[r].pass /\ cmd'[r].aim = cmd[r].aim
      /\ cmd'[r].live = {s \in Sessions : IsRunning(s)} /\ cmd'[r].seen = cmd[r].seen
      /\ cmd'[r].owed = cmd[r].owed
  <2>1. cmd[r] \in Locals
    BY DEF TypeOK
  <2> QED BY <2>1 DEF SweepLive, TypeOK, Locals
<1>3. Place(r)' /\ Progress(r)'
  BY <1>1 DEF Place, Progress, Ended
<1>4. ASSUME NEW o \in cmd'[r].owed PROVE Owed(r, o)'
  <2>1. Owed(r, o)
    BY <1>2, <1>4 DEF Good
  <2>2. o \in Sessions => OwedSession(r, o)'
    BY <1>1, <1>2, <2>1 DEF Owed, OwedSession, Walking, Reaps, Bare, At, IsRunning
  <2>3. o \in Runs => OwedRun(r, o)'
    BY <1>1, <1>2, <2>1 DEF Owed, OwedRun, Walking, Bare, At, Ended
  <2> QED BY <1>1, <2>2, <2>3 DEF Owed
<1> QED BY <1>3, <1>4 DEF Good

\* A list holds whatever of its kind is still owed.
LEMMA ListGood ==
    ASSUME TypeOK, NEW r \in Runs, Good(r), SweepList(r)
    PROVE  Good(r)'
<1>1. CASE Leave(r, "exit")
  BY <1>1, LeaveGood DEF Leave, Goto, TypeOK, Ended
<1>2. CASE cmd' = [cmd EXCEPT ![r].todo = Listed(r)] /\ Goto(r, "each")
  <2>1. /\ pc[r] = "list" /\ pc'[r] = "each" /\ UNCHANGED <<objs, status, stage, token>>
        /\ \A q \in Runs \ {r} : pc'[q] = pc[q]
    BY <1>2 DEF SweepList, Goto, TypeOK, sess, files
  <2>2. /\ cmd'[r].eng = cmd[r].eng /\ cmd'[r].pass = cmd[r].pass /\ cmd'[r].aim = cmd[r].aim
        /\ cmd'[r].live = cmd[r].live /\ cmd'[r].seen = cmd[r].seen
        /\ cmd'[r].owed = cmd[r].owed /\ cmd'[r].todo = Listed(r)
    <3>1. cmd[r] \in Locals
      BY DEF TypeOK
    <3> QED BY <1>2, <3>1 DEF TypeOK, Locals
  <2>3. Place(r)' /\ Progress(r)'
    BY <2>1 DEF Place, Progress, Ended
  <2>4. ASSUME NEW o \in cmd'[r].owed PROVE Owed(r, o)'
    <3>1. Owed(r, o)
      BY <2>2, <2>4 DEF Good
    <3>2. ASSUME o \in Sessions PROVE OwedSession(r, o)'
      <4>1. cmd[r].pass # "inv" /\ At(cmd[r].eng, o, cmd[r].pass) => o \in Listed(r)
        BY <3>2 DEF Listed, Of, At
      <4> QED BY <2>1, <2>2, <3>1, <3>2, <4>1 DEF Owed, OwedSession, Walking, Ahead, Reaps, Bare, At
    <3>3. ASSUME o \in Runs PROVE OwedRun(r, o)'
      <4>1. cmd[r].pass = "inv" /\ "marker" \in stage[o] => o \in Listed(r)
        BY <3>3 DEF Listed
      <4> QED BY <2>1, <2>2, <3>1, <3>3, <4>1 DEF Owed, OwedRun, Walking, Ahead, Bare, At, Ended
    <3> QED BY <2>1, <3>2, <3>3 DEF Owed
  <2> QED BY <2>3, <2>4 DEF Good
<1> QED BY <1>1, <1>2 DEF SweepList

\* A spared owner is not owed; a condemned one is not the command itself.
LEMMA OneGood ==
    ASSUME TypeOK, \A q \in Runs : Good(q), NEW r \in Runs, SweepOne(r)
    PROVE  Good(r)'
<1>1. /\ pc[r] = "each" /\ UNCHANGED <<objs, status, stage, token>>
      /\ \A q \in Runs \ {r} : pc'[q] = pc[q]
  BY DEF SweepOne, Goto, TypeOK, sess, files
<1>2. cmd[r] \in Locals /\ Good(r)
  BY DEF TypeOK
<1>3. ASSUME NEW o \in cmd[r].todo, FALSE \in Condemned(r, o),
             cmd' = [cmd EXCEPT ![r].todo = @ \ {o}], UNCHANGED pc
      PROVE  Good(r)'
  <2>1. /\ cmd'[r].eng = cmd[r].eng /\ cmd'[r].pass = cmd[r].pass /\ cmd'[r].aim = cmd[r].aim
        /\ cmd'[r].live = cmd[r].live /\ cmd'[r].seen = cmd[r].seen
        /\ cmd'[r].owed = cmd[r].owed /\ cmd'[r].todo = cmd[r].todo \ {o}
    BY <1>2, <1>3 DEF TypeOK, Locals
  <2>2. Place(r)' /\ Progress(r)'
    BY <1>1, <1>3 DEF Place, Progress, Ended
  <2>3. ASSUME o \in cmd[r].owed PROVE Bare(cmd[r].eng, o)
    <3>1. Owed(r, o) /\ o \in Owners
      BY <1>2, <2>3 DEF Good, Locals
    <3>2. CASE o \in Sessions
      BY <1>1, <1>3, <3>1, <3>2 DEF Condemned, Owed, OwedSession, Reaps
    <3>3. CASE o \notin Sessions
      <4>1. ProcessAlive(o) = {FALSE}
        BY <3>1, <3>3 DEF Owed, OwedRun, Owners, ProcessAlive, Alive
      <4>2. "marker" \notin stage[o]
        BY <1>3, <3>3, <4>1 DEF Condemned
      <4> QED BY <3>1, <3>3, <4>2 DEF Owed, OwedRun, Owners
    <3> QED BY <3>2, <3>3
  <2>4. ASSUME NEW p \in cmd'[r].owed PROVE Owed(r, p)'
    <3>1. Owed(r, p)
      BY <1>2, <2>1, <2>4 DEF Good
    <3>2. p \in Sessions => OwedSession(r, p)'
      BY <1>1, <1>3, <2>1, <2>3, <2>4, <3>1 DEF Owed, OwedSession, Walking, Ahead, Reaps, Bare, At
    <3>3. p \in Runs => OwedRun(r, p)'
      BY <1>1, <1>3, <2>1, <2>3, <2>4, <3>1 DEF Owed, OwedRun, Walking, Ahead, Reaps, Bare, At
    <3> QED BY <1>1, <1>3, <3>2, <3>3 DEF Owed
  <2> QED BY <2>2, <2>4 DEF Good
<1>4. ASSUME NEW o \in cmd[r].todo, TRUE \in Condemned(r, o), Goto(r, "reapc"),
             cmd' = [cmd EXCEPT ![r].todo = @ \ {o}, ![r].aim = o, ![r].seen = @ \cup ({o} \cap Sessions)]
      PROVE  Good(r)'
  <2>1. /\ cmd'[r].eng = cmd[r].eng /\ cmd'[r].pass = cmd[r].pass /\ cmd'[r].aim = o
        /\ cmd'[r].live = cmd[r].live /\ cmd'[r].seen = cmd[r].seen \cup ({o} \cap Sessions)
        /\ cmd'[r].owed = cmd[r].owed /\ cmd'[r].todo = cmd[r].todo \ {o}
    BY <1>2, <1>4 DEF TypeOK, Locals
  <2>2. pc'[r] = "reapc"
    BY <1>4 DEF Goto, TypeOK
  <2>3. ASSUME o \in Runs PROVE pc[o] \in Ended
    <3>1. "marker" \in stage[o] /\ ~Alive(o)
      BY <1>4, <2>3, OwnersAssumption DEF Condemned, ProcessAlive
    <3>2. Place(o)
      BY <2>3 DEF Good
    <3> QED BY <3>1, <3>2 DEF Alive, Place
  <2>4. Place(r)' /\ Progress(r)'
    BY <1>1, <2>1, <2>2, <2>3 DEF Place, Progress, Ended
  <2>5. ASSUME NEW p \in cmd'[r].owed PROVE Owed(r, p)'
    <3>1. Owed(r, p)
      BY <1>2, <2>1, <2>5 DEF Good
    <3>2. p \in Sessions => OwedSession(r, p)'
      BY <1>1, <2>1, <2>2, <3>1 DEF Owed, OwedSession, Walking, Ahead, Reaps, Bare, At
    <3>3. p \in Runs => OwedRun(r, p)'
      BY <1>1, <2>1, <2>2, <3>1 DEF Owed, OwedRun, Walking, Ahead, Reaps, Bare, At, Ended
    <3> QED BY <1>1, <2>2, <3>2, <3>3 DEF Owed
  <2> QED BY <2>4, <2>5 DEF Good
<1> QED BY <1>3, <1>4 DEF SweepOne

\* A pass that is over has left nothing of its kind; the last one nothing at all.
LEMMA NextGood ==
    ASSUME TypeOK, NEW r \in Runs, Good(r), SweepNext(r)
    PROVE  Good(r)'
<1>1. /\ pc[r] = "each" /\ cmd[r].todo = {} /\ UNCHANGED <<objs, status, stage, token>>
      /\ pc'[r] = IF cmd[r].pass = "inv" THEN "prep" ELSE "list"
      /\ \A q \in Runs \ {r} : pc'[q] = pc[q]
  BY DEF SweepNext, Goto, TypeOK, sess, files
<1>2. /\ cmd'[r].eng = cmd[r].eng /\ cmd'[r].aim = cmd[r].aim
      /\ cmd'[r].pass = (IF cmd[r].pass = "ctr" THEN "net" ELSE "inv")
      /\ cmd'[r].live = cmd[r].live /\ cmd'[r].seen = cmd[r].seen
      /\ cmd'[r].owed = cmd[r].owed /\ cmd[r].pass \in {"ctr", "net", "inv"}
  <2>1. cmd[r] \in Locals
    BY DEF TypeOK
  <2> QED BY <2>1 DEF SweepNext, TypeOK, Locals
<1>3. Place(r)' /\ Progress(r)'
  BY <1>1 DEF Place, Progress, Ended
<1>4. ASSUME NEW o \in cmd'[r].owed PROVE Owed(r, o)'
  <2>1. Owed(r, o) /\ o \in Owners
    BY <1>2, <1>4 DEF Good, TypeOK, Locals
  <2>2. o \in Sessions => OwedSession(r, o)'
    BY <1>1, <1>2, <2>1 DEF Owed, OwedSession, Walking, Ahead, Reaps, Bare, At
  <2>3. o \in Runs => OwedRun(r, o)'
    BY <1>1, <1>2, <2>1 DEF Owed, OwedRun, Walking, Bare, At, Ended
  <2>4. ASSUME pc'[r] = "prep" PROVE Bare(cmd[r].eng, o)
    BY <1>1, <2>1, <2>4 DEF Owed, OwedSession, OwedRun, Owners, Walking, Ahead, Reaps
  <2> QED BY <1>1, <1>2, <2>2, <2>3, <2>4 DEF Owed, Bare, At
<1> QED BY <1>3, <1>4 DEF Good

\* A failed reap retains the marker or ends the command.
LEMMA FailedGood ==
    ASSUME TypeOK, NEW r \in Runs, Good(r), pc[r] \in {"reapc", "reapn"}, ReapFailed(r)
    PROVE  Good(r)'
<1>1. CASE Own(r)
  <2>1. cmd[r] \in Locals /\ cmd[r].aim = r /\ cmd[r].owed = {}
    BY <1>1 DEF Own, Good, Place, TypeOK
  <2>2. pc'[r] = "clean" /\ cmd'[r].retain = TRUE /\ cmd'[r].aim = r /\ cmd'[r].owed = {}
    BY <1>1, <2>1 DEF ReapFailed, Goto, TypeOK, Locals
  <2> QED BY <2>2 DEF Good, Place, Progress, Ended
<1>2. CASE ~Own(r)
  BY <1>2, LeaveGood DEF ReapFailed, Leave, Goto, TypeOK, Ended
<1> QED BY <1>1, <1>2

\* The containers of the owner are gone when its networks are next.
LEMMA ContainersGood ==
    ASSUME TypeOK, NEW r \in Runs, Good(r), ReapContainers(r)
    PROVE  Good(r)'
<1>1. CASE ReapFailed(r)
  BY <1>1, FailedGood DEF ReapContainers
<1>2. CASE ~ReapFailed(r)
  <2>1. /\ pc[r] = "reapc" /\ pc'[r] = "reapn" /\ UNCHANGED <<status, stage, token, cmd>>
        /\ \A q \in Runs \ {r} : pc'[q] = pc[q]
    BY <1>2 DEF ReapContainers, Reap, AfterContainers, Goto, TypeOK, sess, files
  <2>2. /\ \A e, o, k : At(e, o, k)' => At(e, o, k)
        /\ ~At(cmd[r].eng, cmd[r].aim, "ctr")'
    BY <1>2, <2>1 DEF ReapContainers, Reap, Of, At
  <2>3. Place(r)' /\ Progress(r)'
    BY <2>1, <2>2 DEF Good, Place, Progress, Ended
  <2>4. ASSUME NEW o \in cmd'[r].owed PROVE Owed(r, o)'
    <3>1. Owed(r, o)
      BY <2>1, <2>4 DEF Good
    <3>2. o \in Sessions => OwedSession(r, o)'
      BY <2>1, <2>2, <3>1 DEF Owed, OwedSession, Walking, Ahead, Reaps, Bare
    <3>3. o \in Runs => OwedRun(r, o)'
      BY <2>1, <2>2, <3>1 DEF Owed, OwedRun, Walking, Ahead, Reaps, Bare, Ended
    <3> QED BY <2>1, <3>2, <3>3 DEF Owed
  <2> QED BY <2>3, <2>4 DEF Good
<1> QED BY <1>1, <1>2

\* A proven reap leaves nothing of its owner in the runtime.
LEMMA NetworksGood ==
    ASSUME TypeOK, NEW r \in Runs, Good(r), ReapNetworks(r)
    PROVE  Good(r)'
<1>1. CASE ReapFailed(r)
  BY <1>1, FailedGood DEF ReapNetworks
<1>2. CASE ~ReapFailed(r)
  <2>1. /\ pc[r] = "reapn" /\ pc'[r] = Reaped(r) /\ UNCHANGED <<status, stage, token, cmd>>
        /\ \A q \in Runs \ {r} : pc'[q] = pc[q]
    BY <1>2 DEF ReapNetworks, Reap, Goto, TypeOK, sess, files
  <2>2. /\ \A e, o, k : At(e, o, k)' => At(e, o, k)
        /\ ~At(cmd[r].eng, cmd[r].aim, "net")'
    BY <1>2, <2>1 DEF ReapNetworks, Reap, Of, At
  <2>3. cmd[r].aim \in Runs => Bare(cmd[r].eng, cmd[r].aim)'
    BY <2>1, <2>2 DEF Good, Progress, Bare
  <2>4. Place(r)'
    BY <2>1 DEF Good, Place, Reaped, Own, Ended
  <2>5. Progress(r)'
    BY <2>1, <2>3 DEF Progress, Reaped, Own
  <2>6. ASSUME NEW o \in cmd'[r].owed PROVE Owed(r, o)'
    <3>1. Owed(r, o) /\ ~Own(r)
      BY <2>1, <2>6 DEF Good, Place, Own
    <3>2. pc'[r] \in {"wipe", "each"}
      BY <2>1, <3>1 DEF Reaped
    <3>3. o \in Sessions => OwedSession(r, o)'
      BY <2>1, <2>2, <3>1, <3>2 DEF Owed, OwedSession, Walking, Ahead, Reaps, Bare
    <3>4. o \in Runs => OwedRun(r, o)'
      BY <2>1, <2>2, <2>3, <3>1, <3>2 DEF Owed, OwedRun, Walking, Ahead, Reaps, Bare, Ended
    <3> QED BY <3>2, <3>3, <3>4 DEF Owed
  <2> QED BY <2>4, <2>5, <2>6 DEF Good
<1> QED BY <1>1, <1>2

\* A marker is wiped once nothing is left of its run.
LEMMA WipeGood ==
    ASSUME TypeOK, NEW r \in Runs, Good(r), SweepWipe(r)
    PROVE  Good(r)'
<1> DEFINE a == cmd[r].aim
<1>1. a \in Runs \ {r} /\ Bare(cmd[r].eng, a) /\ pc[r] = "wipe"
  BY DEF SweepWipe, Good, Place, Progress
<1>2. CASE Goto(r, "exit") /\ cmd' = [Excused(r) EXCEPT ![r] = Fresh(r)]
  BY <1>2, LeaveGood DEF Excused, Goto, TypeOK, Ended
<1>3. CASE stage' = [stage EXCEPT ![a] = {}] /\ Goto(r, "each") /\ cmd' = Excused(r)
  <2>1. /\ pc'[r] = "each" /\ UNCHANGED <<objs, status, token>> /\ cmd'[r] = cmd[r]
        /\ \A q \in Runs \ {r} : pc'[q] = pc[q]
        /\ \A o \in Runs \ {a} : stage'[o] = stage[o]
    BY <1>1, <1>3 DEF SweepWipe, Excused, Goto, TypeOK, sess
  <2>2. Place(r)' /\ Progress(r)'
    BY <2>1 DEF Place, Progress, Ended
  <2>3. ASSUME NEW o \in cmd'[r].owed PROVE Owed(r, o)'
    <3>1. Owed(r, o)
      BY <2>1, <2>3 DEF Good
    <3>2. o \in Sessions => OwedSession(r, o)'
      BY <1>1, <2>1, <3>1, OwnersAssumption DEF Owed, OwedSession, Walking, Ahead, Reaps, Bare, At
    <3>3. o \in Runs => OwedRun(r, o)'
      BY <1>1, <2>1, <3>1 DEF Owed, OwedRun, Walking, Ahead, Reaps, Bare, At, Ended
    <3> QED BY <2>1, <3>2, <3>3 DEF Owed
  <2> QED BY <2>2, <2>3 DEF Good
<1> QED BY <1>2, <1>3 DEF SweepWipe

\* A command that launches owes nothing any more, and drives a runtime only
\* once it has detected one.
LEMMA LaunchGood ==
    ASSUME TypeOK, TypeOK', NEW r \in Runs, Good(r),
           WriteMarker(r) \/ StageCredentials(r) \/ DetectRuntime(r) \/ ComposeUp(r)
    PROVE  Good(r)'
<1>1. Bare(None, r)'
  BY EnginesAssumption DEF TypeOK, Bare, At
<1>2. CASE WriteMarker(r)
  <2>1. pc'[r] \in {"creds", "clean"} /\ cmd'[r] = Fresh(r)
    BY <1>2 DEF WriteMarker, Goto, TypeOK
  <2> QED BY <1>1, <2>1 DEF Good, Place, Progress, Fresh, Ended
<1>3. CASE StageCredentials(r)
  <2>1. pc[r] = "creds" /\ pc'[r] \in {"detect", "clean"} /\ cmd' = cmd
    BY <1>3 DEF StageCredentials, Goto, TypeOK
  <2> QED BY <1>1, <2>1 DEF Good, Place, Progress, Ended
<1>4. CASE DetectRuntime(r)
  <2>1. pc[r] = "detect" /\ pc'[r] = IF Detected(r) = None THEN "clean" ELSE "upnet"
    BY <1>4 DEF DetectRuntime, Goto, TypeOK
  <2>2. cmd'[r].eng = Detected(r) /\ cmd'[r].aim = cmd[r].aim /\ cmd'[r].owed = cmd[r].owed
    <3>1. cmd[r] \in Locals
      BY DEF TypeOK
    <3> QED BY <1>4, <3>1 DEF DetectRuntime, TypeOK, Locals
  <2> QED BY <1>1, <2>1, <2>2 DEF Good, Place, Progress, Ended
<1>5. CASE ComposeUp(r)
  <2>1. /\ pc[r] \in {"upnet", "upctr", "agent"} /\ cmd' = cmd
        /\ pc'[r] \in {"upctr", "agent", "reapc"} /\ (pc'[r] = "upctr" => pc[r] = "upnet")
    BY <1>5 DEF ComposeUp, Goto, TypeOK
  <2> QED BY <2>1 DEF Good, Place, Progress, Ended
<1> QED BY <1>2, <1>3, <1>4, <1>5

-----------------------------------------------------------------------------
(* The theorems *)

\* The command that takes a step keeps its part of the invariant.
LEMMA ActorGood ==
    ASSUME TypeOK, TypeOK', SessionInv, \A q \in Runs : Good(q), NEW r \in Runs,
           RunStep(r) \/ Crash(r)
    PROVE  Good(r)'
<1>1. CASE CleanStage(r) \/ Crash(r)
  BY <1>1, LeaveGood DEF CleanStage, Crash, Leave, Goto, TypeOK, Ended
<1> QED BY <1>1, BeginGood, LiveGood, ListGood, OneGood, NextGood, ContainersGood, NetworksGood,
   WipeGood, LaunchGood, Zenon DEF RunStep

\* IInv is inductive: the actor by ActorGood, all others by their frames.
LEMMA NextIInv == IInv /\ [Next]_vars => IInv'
<1> SUFFICES ASSUME IInv, [Next]_vars PROVE IInv'
  OBVIOUS
<1>1. TypeOK /\ SessionInv /\ \A q \in Runs : Good(q)
  BY DEF IInv
<1>2. TypeOK' /\ SessionInv'
  BY <1>1, TypeNext, SessionNext DEF Good
<1>3. ASSUME NEW r \in Runs, RunStep(r) \/ Crash(r), NEW q \in Runs PROVE Good(q)'
  <2>1. CASE q = r
    BY <1>1, <1>2, <1>3, <2>1, ActorGood, Zenon
  <2>2. CASE q # r
    <3>1. Frame(q)
      BY <1>1, <1>3, <2>2, RunSteps, StepFrame, WipeFrame
    <3> QED BY <1>1, <1>3, <3>1, FrameGood
  <2> QED BY <2>1, <2>2
<1>4. ASSUME NEW q \in Runs,
             \/ SwitchRuntime \/ DownContainers \/ DownNetworks \/ UNCHANGED vars
             \/ \E s \in Sessions : SessionStep(s)
      PROVE  Good(q)'
  BY <1>1, <1>4, CalmFrame, FrameGood
<1>5. ASSUME NEW q \in Runs PROVE Good(q)'
  BY <1>3, <1>4, <1>5, Zenon DEF Next
<1> QED BY <1>2, <1>5 DEF IInv

\* It holds initially.
LEMMA InitIInv == Init => IInv
<1> SUFFICES ASSUME Init PROVE IInv
  OBVIOUS
<1>1. TypeOK
  BY FreshType, SwitchesAssumption DEF Init, TypeOK, PCs
<1>2. SessionInv
  BY DEF Init, SessionInv, At
<1>3. ASSUME NEW r \in Runs PROVE Good(r)
  BY <1>3 DEF Init, Good, Place, Progress, Fresh, Ended
<1> QED BY <1>1, <1>2, <1>3 DEF IInv

\* IInv holds in every reachable state.
LEMMA Invariance == Spec => []IInv
<1> QED BY InitIInv, NextIInv, PTL DEF Spec

\* Every variable stays in its domain: above all, a command never brings up or
\* removes an object in a runtime it has not detected.
THEOREM TypeCorrect == Spec => []TypeOK
<1>1. IInv => TypeOK
  BY DEF IInv
<1> QED BY <1>1, Invariance, PTL

\* A run goes on to launch only when what was orphaned on its runtime as its
\* sweep began is gone, whatever other commands, sessions and `down` did
\* meanwhile (SweepManagedOrphans and SweepDeadInvocations).
THEOREM ThoroughSweep == Spec => []SweepIsThorough
<1>1. IInv => SweepIsThorough
  <2> SUFFICES ASSUME IInv, NEW r \in Runs, pc[r] = "prep", NEW o \in cmd[r].owed
               PROVE  Objects(cmd[r].eng, o) = {}
    BY DEF SweepIsThorough
  <2>1. Bare(cmd[r].eng, o)
    BY DEF IInv, Good, Owed
  <2> QED BY <2>1, ObjectFacts DEF IInv, TypeOK, Objects, Bare, At
<1> QED BY <1>1, Invariance, PTL

\* The marker of a run is removed only when nothing of that run is left in the
\* runtime its remover drives (SweepDeadInvocations and the deferred cleanup
\* with RetainInvocationMarker).
THEOREM HandleKept == Spec => HandleOutlivesBoundary
<1>1. ASSUME IInv, [Next]_vars, NEW o \in Runs, NEW r \in Runs, pc'[r] # pc[r], cmd[r].aim = o,
             "marker" \in stage[o] \ stage'[o]
      PROVE  Objects(cmd[r].eng, o) = {}
  <2>1. Good(r) /\ TypeOK
    BY <1>1 DEF IInv
  <2>2. PICK a \in Runs : RunStep(a) \/ Crash(a)
    BY <1>1 DEF Next, SwitchRuntime, DownContainers, DownNetworks, SessionStep, SessionPrepare,
       SessionMarkRunning, SessionUp, SessionFinish, SessionReap, Others, vars
  <2>3. a = r
    BY <1>1, <2>1, <2>2, RunSteps DEF Step, SweepWipe, Goto, TypeOK
  <2>4. CleanStage(r) \/ SweepWipe(r)
    <3>1. ~WriteMarker(r) /\ ~StageCredentials(r)
      BY <1>1, <2>1 DEF WriteMarker, StageCredentials, files, TypeOK
    <3>2. stage' # stage
      BY <1>1
    <3>3. /\ ~SweepBegin(r) /\ ~SweepLive(r) /\ ~SweepList(r) /\ ~SweepOne(r) /\ ~SweepNext(r)
          /\ ~ReapContainers(r) /\ ~ReapNetworks(r) /\ ~DetectRuntime(r) /\ ~ComposeUp(r) /\ ~Crash(r)
      BY <3>2, Zenon DEF SweepBegin, SweepLive, SweepList, SweepOne, SweepNext, ReapContainers, ReapNetworks,
         Reap, DetectRuntime, ComposeUp, Crash, files
    <3> QED BY <2>2, <2>3, <3>1, <3>3, Zenon DEF RunStep
  <2>5. Bare(cmd[r].eng, o)
    <3>1. CASE SweepWipe(r)
      BY <1>1, <2>1, <3>1 DEF SweepWipe, Good, Progress
    <3>2. CASE CleanStage(r)
      <4>1. pc[r] = "clean" /\ o = r
        BY <1>1, <2>1, <3>2 DEF CleanStage, Good, Place
      <4>2. ~cmd[r].retain
        BY <1>1, <2>1, <3>2, <4>1 DEF CleanStage, Retained, TypeOK
      <4> QED BY <2>1, <4>1, <4>2 DEF Good, Progress
    <3> QED BY <2>4, <3>1, <3>2
  <2> QED BY <2>1, <2>5, ObjectFacts DEF TypeOK, Objects, Bare, At
<1>2. IInv /\ [Next]_vars =>
        [\A o, r \in Runs :
            (pc'[r] # pc[r] /\ cmd[r].aim = o /\ "marker" \in stage[o] \ stage'[o])
                => Objects(cmd[r].eng, o) = {}]_vars
  BY <1>1
<1> QED BY <1>2, Invariance, PTL DEF Spec, HandleOutlivesBoundary

\* No command but its own and `safeslop down` deletes what a living run has
\* brought up: a sweep condemns only runs that have ended.
THEOREM LivingSpared == Spec => SweepSparesTheLiving
<1>1. ASSUME IInv, [Next]_vars, NEW o \in Runs, Alive(o), pc' # pc, pc'[o] = pc[o], NEW e \in Engines
      PROVE  Objects(e, o) \subseteq objs'
  <2>1. TypeOK /\ \A q \in Runs : Good(q)
    BY <1>1 DEF IInv
  <2>2. PICK r \in Runs : RunStep(r) \/ Crash(r)
    BY <1>1 DEF Next, SwitchRuntime, DownContainers, DownNetworks, SessionStep, SessionPrepare,
       SessionMarkRunning, SessionUp, SessionFinish, SessionReap, Others, vars
  <2>3. CASE ReapContainers(r) \/ ReapNetworks(r)
    <3>1. r # o
      BY <1>1, <2>1, <2>3 DEF ReapContainers, ReapNetworks, Reap, ReapFailed, AfterContainers, Reaped,
         Leave, Goto, TypeOK
    <3>2. cmd[r].aim # o
      BY <1>1, <2>1, <2>3, <3>1 DEF ReapContainers, ReapNetworks, Good, Place, Alive
    <3>3. \A x \in objs \ objs' : x[2] = cmd[r].aim
      BY <2>3 DEF ReapContainers, ReapNetworks, Reap, Of
    <3> QED BY <3>2, <3>3 DEF Objects
  <2>4. CASE ~(ReapContainers(r) \/ ReapNetworks(r))
    <3>1. objs \subseteq objs'
      BY <2>2, <2>4 DEF RunStep, SweepBegin, SweepLive, SweepList, SweepOne, SweepNext, SweepWipe,
         WriteMarker, StageCredentials, DetectRuntime, ComposeUp, CleanStage, Crash
    <3> QED BY <3>1 DEF Objects
  <2> QED BY <2>3, <2>4
<1>2. IInv /\ [Next]_vars =>
        [\A o \in Runs : (Alive(o) /\ pc' # pc /\ pc'[o] = pc[o]) =>
            \A e \in Engines : Objects(e, o) \subseteq objs']_vars
  BY <1>1
<1> QED BY <1>2, Invariance, PTL DEF Spec, SweepSparesTheLiving
=============================================================================
