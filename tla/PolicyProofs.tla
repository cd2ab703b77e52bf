---------------------------- MODULE PolicyProofs ----------------------------
(***************************************************************************)
(* Safety of the policy transaction, of promotion and of the trust gate,   *)
(* for every set of profiles, rules, commands and users; and of the review *)
(* of a profile (what its evaluation, its older views, its staged scopes   *)
(* and its readiness say of the same text), for every profile the schema   *)
(* decodes, with any finite set of repositories.                           *)
(***************************************************************************)
EXTENDS PolicyTrust, ProfileReview, FiniteSetTheorems, SequenceTheorems, TLAPS

\* The holder of the flock is the only command between check and sync, and a
\* command has swapped the file exactly while it is about to sync.
LockInv ==
    \A c \in Commands :
        /\ pc[c] \in {"check", "swap", "sync"} => lock = {c}
        /\ wrote[c] <=> pc[c] = "sync"

\* A transaction of a promotion: the text it expects is the one reviewed, and
\* its content adds to that text one profile of egress rules only.
Exact(t) ==
    /\ t.expected = t.reviewed /\ (t.createOnly <=> t.reviewed = Absent)
    /\ \E n \in Names, g \in SUBSET Rules :
          n \notin Profiles(t.reviewed) \cup Builtins /\ t.content = With(t.reviewed, n, g)

PromotionInv ==
    /\ plan # Absent => plan.name \in Names
    /\ \A c \in Commands : cmd[c].op = "promote" =>
          /\ Exact(cmd[c])
          /\ pc[c] = "swap" => file = cmd[c].reviewed

EditInv == TypeOK /\ LockInv /\ PromotionInv /\ OutcomeIsHonest

\* What a user holds between two of its steps.
Held == [op : UserOps, path : Paths, bytes : Texts \cup {Absent}, pin : Texts \cup {Absent},
         entries : Entries]

UserTypes ==
    /\ trust = Torn \/ trust \in Entries
    /\ upc \in [Users -> {"idle", "load", "write", "torn", "launch"}]
    /\ use \in [Users -> Held]
    /\ pinned \in Texts \cup {Absent} /\ uses \in 0..MaxUses /\ approvals \subseteq Texts

\* Approving is the only way into the store, and a store in memory differs
\* from an approved one by the entry of its own command at most.
StoreInv ==
    /\ trust # Torn => trust["policy"] \in approvals \cup {Absent}
    /\ \A u \in Users : upc[u] \in {"write", "torn"} =>
          \/ use[u].entries["policy"] \in approvals \cup {Absent}
          \/ /\ use[u].op # "untrust" /\ use[u].path = "policy"
             /\ use[u].entries["policy"] = use[u].bytes

\* A command on its way, and one that passed the gate.
GateInv ==
    \A u \in Users :
        /\ upc[u] # "idle" => use[u].bytes # Absent
        /\ use[u].op # "trust" => use[u].path = "policy"
        /\ upc[u] \in {"write", "torn"} => use[u].op \in {"trust", "untrust", "run --trust"}
        /\ upc[u] = "launch" =>
              /\ use[u].bytes \in approvals
              /\ use[u].op = "session run" => use[u].bytes = use[u].pin

TrustInv == UserTypes /\ StoreInv /\ GateInv
-----------------------------------------------------------------------------
(* Texts *)

\* A text gives each of its profiles a set of powers.
LEMMA TextDomain ==
    ASSUME NEW t \in Texts \cup {Absent}
    PROVE  /\ Profiles(t) \subseteq Names
           /\ \A n \in Profiles(t) : t[n] \subseteq Powers
  BY DEF Profiles, Texts

LEMMA FunctionIsText ==
    ASSUME NEW S \in SUBSET Names, NEW t \in [S -> SUBSET Powers]
    PROVE  t \in Texts
  BY DEF Texts

\* Setting or removing a profile gives a text.
LEMMA WithIsText ==
    ASSUME NEW t \in Texts \cup {Absent}, NEW n \in Names, NEW p \in SUBSET Powers
    PROVE  With(t, n, p) \in Texts
<1>1. Profiles(t) \cup {n} \in SUBSET Names
  BY TextDomain
<1>2. With(t, n, p) \in [Profiles(t) \cup {n} -> SUBSET Powers]
  BY TextDomain DEF With
<1> QED BY <1>1, <1>2, FunctionIsText

LEMMA WithoutIsText ==
    ASSUME NEW t \in Texts \cup {Absent}, NEW n
    PROVE  Without(t, n) \in Texts
<1>1. Profiles(t) \ {n} \in SUBSET Names
  BY TextDomain
<1>2. Without(t, n) \in [Profiles(t) \ {n} -> SUBSET Powers]
  BY TextDomain DEF Without
<1> QED BY <1>1, <1>2, FunctionIsText

\* What adding one profile leaves of a text.
LEMMA WithKeeps ==
    ASSUME NEW t \in Texts \cup {Absent}, NEW n \in Names, NEW p \in SUBSET Powers
    PROVE  /\ DOMAIN With(t, n, p) = Profiles(t) \cup {n}
           /\ With(t, n, p)[n] = p
           /\ \A m \in Profiles(t) \ {n} : With(t, n, p)[m] = t[m]
  BY DEF With

-----------------------------------------------------------------------------
(* Transactions *)

LEMMA EditInit == Init => EditInv
<1> SUFFICES ASSUME Init PROVE EditInv
  OBVIOUS
<1>1. NoCmd \in [op : Ops, content : Texts \cup {Absent}, createOnly : BOOLEAN,
                 expected : Texts \cup {Absent}, reviewed : Texts \cup {Absent}]
  BY DEF NoCmd, Ops
<1>2. wrote \in [Commands -> BOOLEAN] /\ \A c \in Commands : wrote[c] = FALSE
  BY Zenon DEF Init
<1>3. report \in {"none", "known-committed", "known-failed", "commit-uncertain"} \X BOOLEAN
  BY DEF Init
<1>4. TypeOK
  BY <1>1, <1>2, <1>3, BoundsAssumption DEF Init, TypeOK
<1>5. LockInv
  BY <1>2 DEF Init, LockInv
<1>6. PromotionInv
  BY DEF Init, PromotionInv, NoCmd
<1>7. OutcomeIsHonest
  <2>1. report[1] = "none" /\ report[2] = FALSE
    BY Zenon DEF Init
  <2>2. report[1] \notin {"known-committed", "commit-uncertain"}
    BY <2>1
  <2> QED BY <2>1, <2>2, Zenon DEF OutcomeIsHonest
<1> QED BY <1>4, <1>5, <1>6, <1>7 DEF EditInv

\* Starting a transaction, whichever command it is for.
LEMMA SubmitEdit ==
    ASSUME EditInv, NEW c \in Commands, pc[c] = "idle",
           NEW t \in [op : Ops, content : Texts \cup {Absent}, createOnly : BOOLEAN,
                      expected : Texts \cup {Absent}, reviewed : Texts \cup {Absent}],
           t.op = "promote" => Exact(t),
           Submit(c, t)
    PROVE  EditInv'
<1> USE DEF EditInv, Submit, Goto, store, sess
<1>1. TypeOK'
  <2>1. cmd' \in [Commands -> [op : Ops, content : Texts \cup {Absent}, createOnly : BOOLEAN,
                             expected : Texts \cup {Absent}, reviewed : Texts \cup {Absent}]]
    BY DEF TypeOK
  <2>2. edits' \in 0..MaxEdits
    BY BoundsAssumption DEF TypeOK
  <2>3. report' \in {"none", "known-committed", "known-failed", "commit-uncertain"} \X BOOLEAN
    OBVIOUS
  <2> QED BY <2>1, <2>2, <2>3 DEF TypeOK
<1>2. LockInv'
  BY DEF TypeOK, LockInv
<1>3. PromotionInv'
  BY DEF TypeOK, PromotionInv, Exact
<1>4. OutcomeIsHonest'
  <2>1. report'[1] = "none" /\ report'[2] = FALSE
    BY Zenon
  <2>2. report'[1] \notin {"known-committed", "commit-uncertain"}
    BY <2>1
  <2> QED BY <2>1, <2>2, Zenon DEF OutcomeIsHonest
<1> QED BY <1>1, <1>2, <1>3, <1>4

\* Ending one with a report that is true of it.
LEMMA FinishEdit ==
    ASSUME EditInv, NEW c \in Commands,
           NEW r \in {"known-committed", "known-failed", "commit-uncertain"},
           wrote[c] <=> r # "known-failed",
           Finish(c, r), UNCHANGED <<file, sess, plan, edits>>
    PROVE  EditInv'
<1> USE DEF EditInv, Finish, Goto, sess
<1>1. TypeOK'
  <2>1. cmd' \in [Commands -> [op : Ops, content : Texts \cup {Absent}, createOnly : BOOLEAN,
                             expected : Texts \cup {Absent}, reviewed : Texts \cup {Absent}]]
    BY DEF TypeOK, NoCmd, Ops
  <2>2. wrote' \in [Commands -> BOOLEAN]
    BY Zenon DEF TypeOK
  <2>3. report' \in {"none", "known-committed", "known-failed", "commit-uncertain"} \X BOOLEAN
    BY DEF TypeOK
  <2> QED BY <2>1, <2>2, <2>3 DEF TypeOK
<1>2. LockInv'
  BY DEF TypeOK, LockInv
<1>3. PromotionInv'
  BY DEF TypeOK, PromotionInv, Exact, NoCmd
<1>4. OutcomeIsHonest'
  BY DEF TypeOK, OutcomeIsHonest
<1> QED BY <1>1, <1>2, <1>3, <1>4
\* Every step of a command, a transaction or the session preserves EditInv.
LEMMA EditNext == EditInv /\ [Next]_vars => EditInv'
<1> SUFFICES ASSUME EditInv, [Next]_vars PROVE EditInv'
  OBVIOUS
<1> DEFINE Tx == [op : Ops, content : Texts \cup {Absent}, createOnly : BOOLEAN,
                  expected : Texts \cup {Absent}, reviewed : Texts \cup {Absent}]
<1>0. /\ file \in Texts \cup {Absent} /\ grants \subseteq Rules /\ Absent \in Texts \cup {Absent}
      /\ Rules \subseteq Powers /\ Forge \in Powers
  BY DEF EditInv, TypeOK, Powers
<1>1. ASSUME NEW t \in Texts PROVE Blind(t) \in Tx /\ Blind(t).op = "edit"
  BY DEF Blind, NoCmd, Ops
<1>2. ASSUME NEW c \in Commands, ProfileCreate(c) PROVE EditInv'
  <2>1. PICK n \in Names : Submit(c, Blind(With(file, n, {})))
    BY <1>2 DEF ProfileCreate
  <2>2. With(file, n, {}) \in Texts
    BY <1>0, WithIsText
  <2> QED BY <1>2, <2>1, <2>2, <1>1, SubmitEdit DEF ProfileCreate
<1>3. ASSUME NEW c \in Commands, ProfileDelete(c) PROVE EditInv'
  <2>1. PICK n \in Profiles(file) : Submit(c, Blind(Without(file, n)))
    BY <1>3 DEF ProfileDelete
  <2>2. Without(file, n) \in Texts
    BY <1>0, WithoutIsText
  <2> QED BY <1>3, <2>1, <2>2, <1>1, SubmitEdit DEF ProfileDelete
<1>4. ASSUME NEW c \in Commands, ProfileCredentials(c) PROVE EditInv'
  <2>1. PICK n \in Profiles(file) : \E t \in CredentialEdits(n, file) : Submit(c, Blind(t))
    BY <1>4 DEF ProfileCredentials
  <2>2. PICK t \in CredentialEdits(n, file) : Submit(c, Blind(t))
    BY <2>1
  <2>3. n \in Names /\ file[n] \cup {Forge} \in SUBSET Powers /\ file[n] \ {Forge} \in SUBSET Powers
    BY <1>0, TextDomain
  <2>4. t \in Texts
    BY <1>0, <2>3, WithIsText DEF CredentialEdits
  <2> QED BY <1>4, <2>2, <2>4, <1>1, SubmitEdit DEF ProfileCredentials
<1>5. ASSUME NEW c \in Commands, ProfileEgress(c) PROVE EditInv'
  <2>1. PICK n \in Profiles(file) : \E t \in EgressMutations(n, file) :
            Submit(c, [NoCmd EXCEPT !.op = "egress", !.content = t, !.reviewed = file])
    BY <1>5 DEF ProfileEgress
  <2>2. PICK t \in EgressMutations(n, file) :
            Submit(c, [NoCmd EXCEPT !.op = "egress", !.content = t, !.reviewed = file])
    BY <2>1
  <2>3. n \in Names /\ \A g \in Rules : /\ file[n] \cup {g} \in SUBSET Powers
                                        /\ file[n] \ {g} \in SUBSET Powers
    BY <1>0, TextDomain
  <2>4. \A g \in Rules : With(file, n, file[n] \cup {g}) \in Texts /\ With(file, n, file[n] \ {g}) \in Texts
    BY <1>0, <2>3, WithIsText
  <2>5. t \in Texts
    BY <2>4 DEF EgressMutations
  <2> DEFINE e == [NoCmd EXCEPT !.op = "egress", !.content = t, !.reviewed = file]
  <2>6. e \in Tx /\ e.op = "egress"
    BY <1>0, <2>5 DEF NoCmd, Ops
  <2> HIDE DEF e
  <2> QED BY <1>5, <2>2, <2>6, SubmitEdit DEF ProfileEgress, e
<1>6. ASSUME NEW c \in Commands, PromoteApply(c) PROVE EditInv'
  <2> DEFINE t == Promotion(plan, Candidate(file, plan.name, plan.sel))
  <2>1. /\ pc[c] = "idle" /\ plan # Absent /\ Submit(c, t)
        /\ TargetFree(plan.name, file) /\ plan.base = file
    BY <1>6 DEF PromoteApply, CheckApply
  <2>2. plan.name \in Names /\ plan.sel \cap grants \in SUBSET Rules
    BY <1>0, <2>1 DEF EditInv, PromotionInv
  <2>3. Candidate(file, plan.name, plan.sel) \in Texts
    BY <1>0, <2>2, WithIsText DEF Candidate
  <2>4. t \in Tx
    BY <1>0, <2>1, <2>3 DEF Promotion, Ops, Exists
  <2>5. Exact(t)
    BY <2>1, <2>2 DEF Exact, Promotion, Candidate, TargetFree, Exists
  <2> HIDE DEF t
  <2> QED BY <2>1, <2>4, <2>5, SubmitEdit
<1>7. ASSUME NEW c \in Commands, TakeLock(c) PROVE EditInv'
  <2> USE <1>7 DEF EditInv, TakeLock, LockFree, Goto, ghost, sess
  <2>1. TypeOK'
    BY DEF TypeOK
  <2>2. LockInv'
    BY DEF TypeOK, LockInv
  <2>3. PromotionInv' /\ OutcomeIsHonest'
    BY DEF TypeOK, PromotionInv, Exact, OutcomeIsHonest
  <2> QED BY <2>1, <2>2, <2>3
<1>8. ASSUME NEW c \in Commands, CheckAndStage(c) PROVE EditInv'
  <2>1. CASE Finish(c, "known-failed")
    <3>1. ~wrote[c]
      BY <1>8 DEF CheckAndStage, EditInv, LockInv
    <3> QED BY <1>8, <2>1, <3>1, FinishEdit DEF CheckAndStage
  <2>2. CASE ~Refused(cmd[c]) /\ Goto(c, "swap") /\ UNCHANGED <<lock, cmd, ghost>>
    <3> USE <1>8, <2>2 DEF EditInv, CheckAndStage, Goto, ghost, sess
    <3>1. TypeOK'
      BY DEF TypeOK
    <3>2. LockInv'
      BY DEF TypeOK, LockInv
    <3>3. PromotionInv'
      <4>1. cmd[c].op = "promote" => file = cmd[c].reviewed
        BY DEF PromotionInv, Exact, Refused, Exists
      <4> QED BY <4>1 DEF TypeOK, PromotionInv, Exact
    <3>4. OutcomeIsHonest'
      BY DEF OutcomeIsHonest
    <3> QED BY <3>1, <3>2, <3>3, <3>4
  <2> QED BY <1>8, <2>1, <2>2 DEF CheckAndStage
<1>9. ASSUME NEW c \in Commands, Swap(c) PROVE EditInv'
  <2>1. CASE Finish(c, "known-failed") /\ UNCHANGED file
    <3>1. ~wrote[c]
      BY <1>9 DEF Swap, EditInv, LockInv
    <3> QED BY <1>9, <2>1, <3>1, FinishEdit DEF Swap
  <2>2. CASE /\ file' = cmd[c].content /\ wrote' = [wrote EXCEPT ![c] = TRUE]
             /\ Goto(c, "sync") /\ UNCHANGED <<lock, cmd, report>>
    <3> USE <1>9, <2>2 DEF EditInv, Swap, Goto, sess
    <3>1. wrote' \in [Commands -> BOOLEAN]
      BY Zenon DEF TypeOK
    <3>2. TypeOK'
      BY <3>1 DEF TypeOK
    <3>3. LockInv'
      BY DEF TypeOK, LockInv
    <3>4. PromotionInv'
      <4>1. \A d \in Commands : pc'[d] # "swap"
        BY DEF TypeOK, LockInv
      <4> QED BY <4>1 DEF TypeOK, PromotionInv, Exact
    <3>5. OutcomeIsHonest'
      BY DEF OutcomeIsHonest
    <3> QED BY <3>2, <3>3, <3>4, <3>5
  <2> QED BY <1>9, <2>1, <2>2 DEF Swap
<1>10. ASSUME NEW c \in Commands, SyncDir(c) PROVE EditInv'
  <2>1. wrote[c]
    BY <1>10 DEF SyncDir, EditInv, LockInv
  <2> QED BY <1>10, <2>1, FinishEdit DEF SyncDir, SyncFailed
<1>11. ASSUME NEW c \in Commands, Crash(c) PROVE EditInv'
  <2> USE <1>11 DEF EditInv, Crash, Goto, sess
  <2>1. NoCmd \in Tx
    BY DEF NoCmd, Ops
  <2>2. wrote' \in [Commands -> BOOLEAN]
    BY Zenon DEF TypeOK
  <2>3. TypeOK'
    BY <2>1, <2>2 DEF TypeOK
  <2>4. LockInv'
    BY DEF TypeOK, LockInv
  <2>5. PromotionInv' /\ OutcomeIsHonest'
    BY DEF TypeOK, PromotionInv, Exact, NoCmd, OutcomeIsHonest
  <2> QED BY <2>3, <2>4, <2>5
<1>12. CASE PromotePreview
  <2> USE <1>12 DEF EditInv, PromotePreview, Plan, store, ghost, sess
  <2>1. TypeOK' /\ LockInv'
    BY <1>0 DEF TypeOK, LockInv
  <2>2. PromotionInv' /\ OutcomeIsHonest'
    BY DEF PromotionInv, Exact, OutcomeIsHonest
  <2> QED BY <2>1, <2>2
<1>13. CASE SessionStatus \/ SessionGrants
  <2> USE <1>13 DEF EditInv, SessionStatus, SessionGrants, store, ghost
  <2>1. TypeOK'
    BY BoundsAssumption DEF TypeOK
  <2>2. LockInv' /\ PromotionInv' /\ OutcomeIsHonest'
    BY DEF LockInv, PromotionInv, Exact, OutcomeIsHonest
  <2> QED BY <2>1, <2>2
<1>14. CASE UNCHANGED vars
  BY <1>14 DEF EditInv, TypeOK, LockInv, PromotionInv, Exact, OutcomeIsHonest, vars, store, ghost, sess
<1> QED BY <1>2, <1>3, <1>4, <1>5, <1>6, <1>7, <1>8, <1>9, <1>10, <1>11, <1>12, <1>13, <1>14,
     Zenon DEF Next, Transaction

LEMMA EditInvariance == Spec => []EditInv
  BY EditInit, EditNext, PTL DEF Spec

\* What a transaction reports is what it did to the file.
THEOREM HonestOutcome == Spec => []OutcomeIsHonest
<1>1. EditInv => OutcomeIsHonest
  BY DEF EditInv
<1> QED BY EditInvariance, <1>1, PTL

\* The file, and the claim to have swapped it, change by the swap of the command
\* that holds the lock and by nothing else.
LEMMA OnlySwap ==
    ASSUME EditInv, Next
    PROVE  \/ file' = file /\ \A c \in Commands : wrote'[c] => wrote[c]
           \/ \E c \in Commands :
                /\ pc[c] = "swap" /\ lock = {c} /\ lock' = {c}
                /\ file' = cmd[c].content
                /\ \A d \in Commands : wrote'[d] => wrote[d] \/ d = c
<1> DEFINE Quiet == file' = file /\ \A c \in Commands : wrote'[c] => wrote[c]
<1>0. wrote \in [Commands -> BOOLEAN]
  BY DEF EditInv, TypeOK
<1>1. ASSUME NEW c \in Commands, NEW t, Submit(c, t) PROVE Quiet
  BY <1>1 DEF Submit, store
<1>2. ASSUME NEW c \in Commands, NEW r, Finish(c, r), file' = file PROVE Quiet
  BY <1>0, <1>2 DEF Finish
<1>3. ASSUME NEW c \in Commands, Swap(c), ~ Quiet
      PROVE  /\ pc[c] = "swap" /\ lock = {c} /\ lock' = {c} /\ file' = cmd[c].content
             /\ \A d \in Commands : wrote'[d] => wrote[d] \/ d = c
  BY <1>0, <1>2, <1>3 DEF Swap, EditInv, LockInv
<1>4. ASSUME NEW c \in Commands, Crash(c) PROVE Quiet
  BY <1>0, <1>4 DEF Crash
<1>5. ASSUME NEW c \in Commands,
             TakeLock(c) \/ CheckAndStage(c) \/ SyncDir(c)
      PROVE  Quiet
  BY <1>2, <1>5, Zenon DEF TakeLock, CheckAndStage, SyncDir, ghost
<1>6. ASSUME NEW c \in Commands,
             \/ ProfileCreate(c) \/ ProfileDelete(c) \/ ProfileCredentials(c)
             \/ ProfileEgress(c) \/ PromoteApply(c)
      PROVE  Quiet
  BY <1>1, <1>6, Zenon DEF ProfileCreate, ProfileDelete, ProfileCredentials, ProfileEgress, PromoteApply
<1>7. CASE PromotePreview \/ SessionStatus \/ SessionGrants
  BY <1>7 DEF PromotePreview, SessionStatus, SessionGrants, store, ghost
<1> QED BY <1>3, <1>4, <1>5, <1>6, <1>7, Zenon DEF Next, Transaction

\* A promotion replaces the text its operator previewed by the text previewed.
THEOREM ExactPromotion == Spec => PromotionIsExact
<1> DEFINE Step(c) == (cmd[c].op = "promote" /\ ~wrote[c] /\ wrote'[c]) =>
        /\ file = cmd[c].reviewed
        /\ \A n \in Profiles(file) : n \in Profiles(file') /\ file'[n] = file[n]
        /\ \A n \in Profiles(file') \ Profiles(file) :
            n \notin Builtins /\ Forge \notin file'[n]
<1>1. EditInv /\ [Next]_vars => [\A c \in Commands : Step(c)]_vars
  <2> SUFFICES ASSUME EditInv, Next, NEW c \in Commands,
                      cmd[c].op = "promote", ~wrote[c], wrote'[c]
               PROVE  Step(c)
    OBVIOUS
  <2>1. pc[c] = "swap" /\ file' = cmd[c].content
    BY OnlySwap
  <2>2. file = cmd[c].reviewed /\ Exact(cmd[c])
    BY <2>1 DEF EditInv, PromotionInv
  <2>3. PICK n \in Names, g \in SUBSET Rules :
            n \notin Profiles(file) \cup Builtins /\ file' = With(file, n, g)
    BY <2>1, <2>2 DEF Exact
  <2>4. g \in SUBSET Powers /\ Forge \notin g
    BY PowersAssumption DEF Powers
  <2>5. file \in Texts \cup {Absent}
    BY DEF EditInv, TypeOK
  <2>6. /\ DOMAIN file' = Profiles(file) \cup {n} /\ file'[n] = g
        /\ \A m \in Profiles(file) : file'[m] = file[m]
    BY <2>3, <2>4, <2>5, WithKeeps
  <2>7. Profiles(file') \subseteq Profiles(file) \cup {n}
    BY <2>6 DEF Profiles
  <2>8. Profiles(file) \subseteq Profiles(file')
    <3>1. file' \in Texts
      BY <2>3, <2>4, <2>5, WithIsText
    <3> QED BY <2>6, <3>1, AbsentAssumption DEF Profiles
  <2> QED BY <2>2, <2>3, <2>4, <2>6, <2>7, <2>8
<1> QED BY EditInvariance, <1>1, PTL DEF Spec, PromotionIsExact

\* The text changes only under the lock, to the content of its holder.
THEOREM LockedSwap == Spec => SwapIsLocked
<1>1. EditInv /\ [Next]_vars =>
        [file' # file => \E c \in Commands : lock = {c} /\ lock' = {c} /\ file' = cmd[c].content]_vars
  BY OnlySwap
<1> QED BY EditInvariance, <1>1, PTL DEF Spec, SwapIsLocked

-----------------------------------------------------------------------------
(* Trust *)

\* Trust commands and launches beside it do not disturb the policy file: a run
\* of the whole is a run of PolicyEdits.
THEOREM TrustImplementsEdits == TrustSpec => Spec
<1>1. TrustInit => Init
  BY DEF TrustInit
<1>2. [TrustNext]_allvars => [Next]_vars
  BY Zenon DEF TrustNext, allvars, User, Begin, LoadFails, RefusedByTrust, Approve, Revoke, RunTrusted,
     CreateSession, SessionRun, TruncateTrust, WriteTrust, Launch, UserCrash
<1> QED BY <1>1, <1>2, PTL DEF TrustSpec, Spec

LEMMA TrustInitInv == TrustInit => TrustInv
<1> SUFFICES ASSUME TrustInit PROVE TrustInv
  OBVIOUS
<1>1. Idle.entries \in Entries /\ Idle.entries["policy"] = Absent
  BY DEF Idle, Entries, Paths
<1>2. Idle \in Held
  BY <1>1 DEF Idle, Held, UserOps, Paths
<1>3. UserTypes
  BY <1>1, <1>2, UsesAssumption DEF TrustInit, UserTypes
<1>4. StoreInv
  BY <1>1 DEF TrustInit, StoreInv
<1>5. GateInv
  BY DEF TrustInit, GateInv, Idle
<1> QED BY <1>3, <1>4, <1>5 DEF TrustInv

LEMMA EmptyIsText == NewText \in Texts
<1>1. NewText \in [{} -> SUBSET Powers]
  BY DEF NewText
<1> QED BY <1>1, FunctionIsText

\* A command of user u is over, and has changed nothing of the others.
LEMMA EndKeeps ==
    ASSUME TrustInv, NEW u \in Users, End(u), pinned' \in Texts \cup {Absent},
           UNCHANGED <<trust, uses, approvals>>
    PROVE  TrustInv'
<1> USE DEF TrustInv, End, UserGoto
<1>1. Idle \in Held /\ Idle.op = "none" /\ Idle.path = "policy"
  BY DEF Idle, Held, UserOps, Paths, Entries
<1>2. UserTypes'
  BY <1>1 DEF UserTypes
<1>3. \A v \in Users : v # u => upc'[v] = upc[v] /\ use'[v] = use[v]
  BY DEF UserTypes
<1>4. upc'[u] = "idle" /\ use'[u] = Idle
  BY DEF UserTypes
<1>5. StoreInv'
  BY <1>3, <1>4 DEF StoreInv
<1>6. GateInv'
  <2> SUFFICES ASSUME NEW v \in Users PROVE GateInv!(v)'
    BY DEF GateInv
  <2>1. CASE v = u
    BY <1>1, <1>4, <2>1
  <2>2. CASE v # u
    <3>1. upc'[v] = upc[v] /\ use'[v] = use[v] /\ approvals' = approvals
      BY <1>3, <2>2
    <3>2. GateInv!(v)
      BY DEF GateInv
    <3> QED BY <3>1, <3>2
  <2> QED BY <2>1, <2>2
<1> QED BY <1>2, <1>5, <1>6

\* Every step of a user, and of the commands beside it, preserves TrustInv.
LEMMA TrustNextInv == EditInv /\ TrustInv /\ [TrustNext]_allvars => TrustInv'
<1> SUFFICES ASSUME EditInv, TrustInv, [TrustNext]_allvars PROVE TrustInv'
  OBVIOUS
<1> USE DEF TrustInv, tstore, UserGoto
<1>1. ASSUME NEW u \in Users, Begin(u) PROVE TrustInv'
  <2>1. PICK op \in UserOps \ {"none"}, p \in Paths :
        /\ p = "other" => op = "trust"
        /\ Readable(p)
        /\ use' = [use EXCEPT ![u] = [Idle EXCEPT !.op = op, !.path = p, !.bytes = Bytes(p),
                                !.pin = IF op = "session run" THEN pinned ELSE Absent]]
    BY <1>1 DEF Begin
  <2>2. Bytes(p) \in Texts /\ Bytes(p) # Absent
    BY <2>1, EmptyIsText, AbsentAssumption DEF Bytes, Readable, EditInv, TypeOK
  <2> DEFINE h == [Idle EXCEPT !.op = op, !.path = p, !.bytes = Bytes(p),
                               !.pin = IF op = "session run" THEN pinned ELSE Absent]
  <2>3. h \in Held /\ h.op = op /\ h.path = p /\ h.bytes = Bytes(p)
    BY <2>1, <2>2 DEF Held, Idle, UserTypes, Paths, Entries
  <2>4. use' = [use EXCEPT ![u] = h] /\ upc' = [upc EXCEPT ![u] = "load"]
    BY <1>1, <2>1 DEF Begin
  <2> HIDE DEF h
  <2>5. uses' \in 0..MaxUses
    <3>1. uses < MaxUses /\ uses' = uses + 1
      BY <1>1 DEF Begin
    <3>2. uses \in 0..MaxUses
      BY DEF UserTypes
    <3> QED BY <3>1, <3>2, UsesAssumption
  <2>6. UserTypes'
    BY <1>1, <2>3, <2>4, <2>5 DEF Begin, UserTypes
  <2>7. StoreInv'
    BY <1>1, <2>3, <2>4 DEF Begin, UserTypes, StoreInv
  <2>8. GateInv'
    <3>1. approvals' = approvals
      BY <1>1 DEF Begin
    <3>2. \A v \in Users : v # u => upc'[v] = upc[v] /\ use'[v] = use[v]
      BY <2>4 DEF UserTypes
    <3>3. upc'[u] = "load" /\ use'[u] = h
      BY <2>4 DEF UserTypes
    <3>4. op # "trust" => p = "policy"
      BY <2>1 DEF Paths
    <3> SUFFICES ASSUME NEW v \in Users PROVE GateInv!(v)'
      BY DEF GateInv
    <3>5. CASE v # u
      BY <3>1, <3>2, <3>5 DEF GateInv
    <3>6. CASE v = u
      BY <2>2, <2>3, <3>3, <3>4, <3>6
    <3> QED BY <3>5, <3>6
  <2> QED BY <2>6, <2>7, <2>8
<1>2. ASSUME NEW u \in Users, LoadFails(u) \/ RefusedByTrust(u) \/ Launch(u) \/ UserCrash(u)
      PROVE  TrustInv'
  BY <1>2, EndKeeps DEF LoadFails, RefusedByTrust, Launch, UserCrash, UserTypes
<1>3. ASSUME NEW u \in Users, NEW e \in Entries, upc[u] = "load",
             use[u].op \in {"trust", "untrust", "run --trust"},
             \/ e["policy"] \in approvals \cup {Absent}
             \/ use[u].op # "untrust" /\ use[u].path = "policy" /\ e["policy"] = use[u].bytes,
             use' = [use EXCEPT ![u].entries = e], upc' = [upc EXCEPT ![u] = "write"],
             UNCHANGED <<tstore, uses, approvals>>
      PROVE  TrustInv'
  <2>1. /\ use' \in [Users -> Held] /\ use'[u].entries = e
        /\ use'[u].op = use[u].op /\ use'[u].path = use[u].path /\ use'[u].bytes = use[u].bytes
    BY <1>3 DEF UserTypes, Held
  <2>2. \A v \in Users : v # u => upc'[v] = upc[v] /\ use'[v] = use[v]
    BY <1>3 DEF UserTypes
  <2>3. UserTypes' /\ upc'[u] = "write"
    BY <1>3, <2>1 DEF UserTypes
  <2>4. StoreInv'
    BY <1>3, <2>1, <2>2, <2>3 DEF StoreInv
  <2>5. GateInv'
    <3> SUFFICES ASSUME NEW v \in Users PROVE GateInv!(v)'
      BY DEF GateInv
    <3>1. GateInv!(v)
      BY DEF GateInv
    <3>2. CASE v # u
      <4>1. upc'[v] = upc[v] /\ use'[v] = use[v] /\ approvals' = approvals
        BY <1>3, <2>2, <3>2
      <4> QED BY <3>1, <4>1
    <3>3. CASE v = u
      BY <1>3, <2>1, <2>3, <3>1, <3>3
    <3> QED BY <3>2, <3>3
  <2> QED BY <2>3, <2>4, <2>5
<1>4. ASSUME NEW u \in Users, Approve(u) PROVE TrustInv'
  <2> DEFINE e == [trust EXCEPT ![use[u].path] = use[u].bytes]
  <2>1. /\ e \in Entries
        /\ \/ e["policy"] = trust["policy"]
           \/ use[u].path = "policy" /\ e["policy"] = use[u].bytes
    BY <1>4 DEF Approve, Loaded, UserTypes, Held, Entries, Paths
  <2>2. trust["policy"] \in approvals \cup {Absent}
    BY <1>4 DEF Approve, Loaded, StoreInv
  <2> HIDE DEF e
  <2> QED BY <1>3, <1>4, <2>1, <2>2 DEF Approve, Loaded, e
<1>5. ASSUME NEW u \in Users, Revoke(u) PROVE TrustInv'
  <2>1. CASE End(u)
    BY <1>5, <2>1, EndKeeps DEF Revoke, UserTypes
  <2>2. CASE ~ End(u)
    <3> DEFINE e == [trust EXCEPT ![use[u].path] = Absent]
    <3>1. e \in Entries /\ e["policy"] \in {trust["policy"], Absent}
      BY <1>5 DEF Revoke, Loaded, UserTypes, Held, Entries, Paths
    <3>2. trust["policy"] \in approvals \cup {Absent}
      BY <1>5 DEF Revoke, Loaded, StoreInv
    <3> HIDE DEF e
    <3> QED BY <1>3, <1>5, <2>2, <3>1, <3>2 DEF Revoke, Loaded, e
  <2> QED BY <2>1, <2>2
<1>6. ASSUME NEW u \in Users, upc[u] = "load", use[u].op \in {"run", "session run"}, trust # Torn, Trusted(u),
             use[u].op = "session run" => use[u].bytes = use[u].pin,
             upc' = [upc EXCEPT ![u] = "launch"], UNCHANGED <<use, tstore, uses, approvals>>
      PROVE  TrustInv'
  <2>1. use[u].bytes \in approvals
    BY <1>6 DEF Trusted, Check, StoreInv, GateInv
  <2>2. UserTypes'
    BY <1>6 DEF UserTypes
  <2>3. StoreInv' /\ GateInv'
    BY <1>6, <2>1 DEF UserTypes, StoreInv, GateInv
  <2> QED BY <2>2, <2>3
<1>7. ASSUME NEW u \in Users, RunTrusted(u) \/ SessionRun(u) PROVE TrustInv'
  <2>1. CASE End(u)
    BY <1>7, <2>1, EndKeeps DEF RunTrusted, SessionRun, UserTypes
  <2> QED BY <1>6, <1>7, <2>1 DEF RunTrusted, SessionRun, Loaded
<1>8. ASSUME NEW u \in Users, CreateSession(u) PROVE TrustInv'
  <2>1. use[u].bytes \in Texts \cup {Absent}
    BY DEF UserTypes, Held
  <2> QED BY <1>8, <2>1, EndKeeps DEF CreateSession
<1>9. ASSUME NEW u \in Users, TruncateTrust(u) PROVE TrustInv'
  BY <1>9 DEF TruncateTrust, UserTypes, StoreInv, GateInv
<1>10. ASSUME NEW u \in Users, WriteTrust(u) PROVE TrustInv'
  <2>1. /\ use[u] \in Held /\ use[u].bytes \in Texts
        /\ use[u].op \in {"trust", "untrust", "run --trust"}
        /\ use[u].op # "trust" => use[u].path = "policy"
    BY <1>10 DEF WriteTrust, UserTypes, Held, GateInv
  <2>2. /\ approvals \subseteq approvals' /\ approvals' \subseteq Texts
        /\ use[u].op # "untrust" /\ use[u].path = "policy" => use[u].bytes \in approvals'
    BY <1>10, <2>1 DEF WriteTrust, UserTypes
  <2>3. trust' = Torn \/ trust' = use[u].entries
    BY <1>10 DEF WriteTrust
  <2>4. use[u].entries["policy"] \in approvals' \cup {Absent}
    BY <1>10, <2>2 DEF WriteTrust, StoreInv
  <2>5. /\ upc' \in [Users -> {"idle", "load", "write", "torn", "launch"}]
        /\ \A v \in Users : v # u => upc'[v] = upc[v]
        /\ \/ upc'[u] = "launch" /\ use' = use /\ use[u].op = "run --trust"
           \/ upc'[u] = "idle" /\ use' = [use EXCEPT ![u] = Idle]
    BY <1>10 DEF WriteTrust, End, UserTypes
  <2>6. Idle \in Held /\ Idle.op = "none" /\ Idle.path = "policy"
    BY DEF Idle, Held, UserOps, Paths, Entries
  <2>7. UserTypes'
    <3>1. use' \in [Users -> Held]
      BY <2>5, <2>6 DEF UserTypes
    <3>2. use[u].entries \in Entries
      BY <2>1 DEF Held
    <3> QED BY <1>10, <2>2, <2>3, <2>5, <3>1, <3>2 DEF WriteTrust, UserTypes
  <2>8. \A v \in Users : v # u => use'[v] = use[v]
    BY <2>5 DEF UserTypes
  <2>9. StoreInv'
    BY <2>2, <2>3, <2>4, <2>5, <2>8 DEF StoreInv
  <2>10. GateInv'
    <3> SUFFICES ASSUME NEW v \in Users PROVE GateInv!(v)'
      BY DEF GateInv
    <3>1. CASE v # u
      BY <2>2, <2>5, <2>8, <3>1 DEF GateInv
    <3>2. CASE v = u /\ upc'[u] = "launch"
      BY <1>10, <2>1, <2>2, <2>5, <3>2 DEF WriteTrust, GateInv
    <3>3. CASE v = u /\ upc'[u] = "idle"
      BY <2>5, <2>6, <3>3 DEF UserTypes
    <3> QED BY <2>5, <3>1, <3>2, <3>3
  <2> QED BY <2>7, <2>9, <2>10
<1>11. CASE UNCHANGED tvars
  BY <1>11 DEF tvars, UserTypes, StoreInv, GateInv
<1> QED BY <1>1, <1>2, <1>4, <1>5, <1>7, <1>8, <1>9, <1>10, <1>11, Zenon
     DEF TrustNext, User, allvars

LEMMA TrustInvariance == TrustSpec => [](EditInv /\ TrustInv)
<1>1. TrustInit => TrustInv
  BY TrustInitInv
<1> QED BY TrustImplementsEdits, EditInvariance, <1>1, TrustNextInv, PTL DEF TrustSpec

\* Every text that is launched was approved as it stands, and a session runs
\* the text it was created from.
THEOREM ApprovedLaunch == TrustSpec => []LaunchIsApproved
<1>1. EditInv /\ TrustInv => LaunchIsApproved
  BY DEF TrustInv, GateInv, LaunchIsApproved, LaunchText
<1> QED BY TrustInvariance, <1>1, PTL

\* Every variable of both stays in its domain: the store is torn or holds one
\* entry per path, and a command holds whole texts (trust/trust.go).
THEOREM TrustTypeCorrect == TrustSpec => []TrustTypeOK
<1>1. EditInv /\ TrustInv => TrustTypeOK
  <2> SUFFICES ASSUME EditInv, UserTypes PROVE TrustTypeOK
    BY DEF TrustInv
  <2>1. TypeOK
    BY DEF EditInv
  <2>2. ASSUME NEW u \in Users
        PROVE  /\ use[u].op \in UserOps /\ use[u].path \in Paths
               /\ use[u].bytes \in Texts \cup {Absent} /\ use[u].entries \in Entries
    BY DEF UserTypes, Held
  <2> QED BY <2>1, <2>2, Zenon DEF UserTypes, TrustTypeOK
<1> QED BY TrustInvariance, <1>1, PTL
-----------------------------------------------------------------------------
(* The review of a profile *)

Fields == DOMAIN Values
\* A profile as the schema decodes it: every field in its domain, every forge
\* declared with its own fields and finitely many repositories, or not at all.
IsProfile(p) ==
    /\ p = [f \in Fields \cup Forges |-> p[f]]
    /\ \A f \in Fields : p[f] \in Values[f]
    /\ p.github \in Github \cup {NoForge} /\ p.forgejo \in Forgejo \cup {NoForge}
    /\ \A k \in Forges : p[k].declared => IsFiniteSet(p[k].repos)

\* The plain fields of a profile, apart from the two forges.
LEMMA FieldsIs ==
    /\ Fields = {"env", "network", "agent", "egress", "persistent", "projection", "secrets", "toolchain",
                 "pnpm", "aws", "gcp", "kube", "pi"}
    /\ Fields \cap Forges = {}
  BY DEF Fields, Values, Forges

\* The domains of the fields, one by one.
LEMMA ProfileFields ==
    ASSUME NEW p, IsProfile(p)
    PROVE  /\ p.env \in {"host", "container", "future"} /\ p.network \in {"allow", "deny", "future"}
           /\ p.egress \subseteq {"ok", "odd"} /\ p.projection \in {"none", "items", "empty"}
           /\ p.secrets \in {"none", "env", "op"} /\ p.pnpm \in {"none", "env", "op", "odd"}
           /\ p.aws \in {"none", "role", "profile", "brittle", "half", "odd"}
           /\ p.gcp \in {"none", "default", "scoped", "odd"}
           /\ p.kube \in {"none", "eks", "gke", "both", "neither", "odd"} /\ p.pi \in {"none", "luna", "other"}
<1>1. \A f \in Fields : p[f] \in Values[f]
  BY DEF IsProfile
<1> QED BY <1>1, FieldsIs DEF Values

\* A declared GitHub credential has its own fields and finitely many repositories.
LEMMA GithubFields ==
    ASSUME NEW p, IsProfile(p), p.github.declared
    PROVE  /\ p.github \in Github /\ IsFiniteSet(p.github.repos)
           /\ p.github.mode \in {"app", "pat", "future"} /\ p.github.pat \in {"none", "env", "op"}
           /\ p.github.write \in BOOLEAN /\ p.github.repos \subseteq RepoCreds
           /\ p.github.api \in {"off", "default", "perm", "brittle", "odd"}
<1>1. p.github \in Github \/ p.github = NoForge
  BY DEF IsProfile
<1>2. p.github \in Github
  BY <1>1 DEF NoForge
<1>3. IsFiniteSet(p.github.repos)
  BY DEF IsProfile, Forges
<1> QED BY <1>2, <1>3 DEF Github

\* A declared Forgejo credential likewise.
LEMMA ForgejoFields ==
    ASSUME NEW p, IsProfile(p), p.forgejo.declared
    PROVE  /\ p.forgejo \in Forgejo /\ IsFiniteSet(p.forgejo.repos)
           /\ p.forgejo.write \in BOOLEAN /\ p.forgejo.repos \subseteq RepoCreds
           /\ p.forgejo.url \in {"none", "http", "https"}
           /\ p.forgejo.api \in {"off", "acked", "unacked"}
<1>1. p.forgejo \in Forgejo \/ p.forgejo = NoForge
  BY DEF IsProfile
<1>2. p.forgejo \in Forgejo
  BY <1>1 DEF NoForge
<1>3. IsFiniteSet(p.forgejo.repos)
  BY DEF IsProfile, Forges
<1> QED BY <1>2, <1>3 DEF Forgejo

\* Editing one plain field leaves a profile a profile.
LEMMA FieldEdited ==
    ASSUME NEW p, IsProfile(p), NEW f \in Fields, NEW v \in Values[f],
           NEW q, q = [p EXCEPT ![f] = v]
    PROVE  IsProfile(q) /\ q[f] = v /\ \A g \in (Fields \cup Forges) \ {f} : q[g] = p[g]
<1>1. /\ q = [g \in Fields \cup Forges |-> q[g]] /\ q[f] = v
      /\ \A g \in (Fields \cup Forges) \ {f} : q[g] = p[g]
  BY DEF IsProfile
<1>2. f \notin Forges /\ q["github"] = p["github"] /\ q["forgejo"] = p["forgejo"]
  BY <1>1, FieldsIs DEF Forges
<1>3. IsProfile(q)
  <2>1. \A g \in Fields : q[g] \in Values[g]
    BY <1>1 DEF IsProfile
  <2> QED BY <1>1, <1>2, <2>1 DEF IsProfile, Forges
<1> QED BY <1>1, <1>3

\* So does replacing one forge.
LEMMA ForgeEdited ==
    ASSUME NEW p, IsProfile(p), NEW k \in Forges, NEW g,
           g \in IF k = "github" THEN Github ELSE Forgejo, IsFiniteSet(g.repos),
           NEW q, q = [p EXCEPT ![k] = g]
    PROVE  IsProfile(q) /\ q[k] = g /\ \A f \in (Fields \cup Forges) \ {k} : q[f] = p[f]
<1>1. /\ q = [f \in Fields \cup Forges |-> q[f]] /\ q[k] = g
      /\ \A f \in (Fields \cup Forges) \ {k} : q[f] = p[f]
  BY DEF IsProfile
<1>2. \A f \in Fields : f # k
  BY FieldsIs
<1>3. IsProfile(q)
  <2>1. \A f \in Fields : q[f] \in Values[f]
    BY <1>1, <1>2 DEF IsProfile
  <2>2. q.github \in Github \cup {NoForge} /\ q.forgejo \in Forgejo \cup {NoForge}
    BY <1>1 DEF IsProfile, Forges
  <2>3. \A j \in Forges : q[j].declared => IsFiniteSet(q[j].repos)
    BY <1>1 DEF IsProfile
  <2> QED BY <1>1, <2>1, <2>2, <2>3 DEF IsProfile
<1> QED BY <1>1, <1>3

\* A part of a forge edited to a value of its domain.
LEMMA GithubPart ==
    ASSUME NEW g \in Github, NEW part \in DOMAIN ForgeValues.github, NEW v \in ForgeValues.github[part]
    PROVE  [g EXCEPT ![part] = v] \in Github /\ [g EXCEPT ![part] = v].repos = g.repos
<1>1. CASE part = "mode"
  BY <1>1 DEF ForgeValues, Github
<1>2. CASE part = "pat"
  BY <1>2 DEF ForgeValues, Github
<1>3. CASE part = "write"
  BY <1>3 DEF ForgeValues, Github
<1>4. CASE part = "api"
  BY <1>4 DEF ForgeValues, Github
<1>5. part \in {"mode", "pat", "write", "api"}
  BY DEF ForgeValues
<1> QED BY <1>1, <1>2, <1>3, <1>4, <1>5

\* And one field of a Forgejo credential.
LEMMA ForgejoPart ==
    ASSUME NEW f \in Forgejo, NEW part \in DOMAIN ForgeValues.forgejo, NEW v \in ForgeValues.forgejo[part]
    PROVE  [f EXCEPT ![part] = v] \in Forgejo /\ [f EXCEPT ![part] = v].repos = f.repos
<1>1. CASE part = "write"
  BY <1>1 DEF ForgeValues, Forgejo
<1>2. CASE part = "url"
  BY <1>2 DEF ForgeValues, Forgejo
<1>3. CASE part = "api"
  BY <1>3 DEF ForgeValues, Forgejo
<1>4. part \in {"write", "url", "api"}
  BY DEF ForgeValues
<1> QED BY <1>1, <1>2, <1>3, <1>4

\* Every profile a review starts from is one the schema decodes.
LEMMA ReviewInitially == ReviewInit => IsProfile(prof)
<1> SUFFICES ASSUME ReviewInit PROVE IsProfile(prof)
  OBVIOUS
<1>1. \A f \in Fields : prof[f] \in Values[f]
  <2>1. prof["persistent"] \in Values["persistent"]
    <3>1. prof["persistent"] = FALSE /\ Values["persistent"] = BOOLEAN
      BY Zenon DEF ReviewInit, DefaultProfile, Values
    <3> QED BY <3>1
  <2>2. prof["egress"] \in Values["egress"]
    BY DEF ReviewInit, DefaultProfile, Values
  <2>3. \A f \in Fields \ {"persistent", "egress"} : prof[f] \in Values[f]
    BY FieldsIs DEF Values, ReviewInit, DefaultProfile
  <2> QED BY <2>1, <2>2, <2>3
<1>2. prof = [f \in Fields \cup Forges |-> prof[f]]
  BY FieldsIs DEF Forges, ReviewInit, DefaultProfile
<1>3. prof.github = NoForge /\ prof.forgejo = NoForge /\ NoForge.declared = FALSE
  BY DEF ReviewInit, DefaultProfile, NoForge
<1> QED BY <1>1, <1>2, <1>3 DEF IsProfile, Forges

\* Every edit of the policy file leaves it so.
LEMMA ReviewStep == IsProfile(prof) /\ [ReviewNext]_reviewVars => IsProfile(prof)'
<1> SUFFICES ASSUME IsProfile(prof), [ReviewNext]_reviewVars PROVE IsProfile(prof')
  BY DEF IsProfile
<1>1. CASE EditField
  <2>1. PICK f \in DOMAIN Values : \E v \in Values[f] \ {prof[f]} : prof' = [prof EXCEPT ![f] = v]
    BY <1>1, Zenon DEF EditField
  <2>2. PICK v \in Values[f] : prof' = [prof EXCEPT ![f] = v]
    BY <2>1
  <2> QED BY <2>2, FieldEdited DEF Fields
<1>2. CASE DeclareForge
  <2>1. PICK k \in Forges : prof' = [prof EXCEPT ![k] = DefaultForge[k]]
    BY <1>2, Zenon DEF DeclareForge
  <2>2. /\ DefaultForge[k] \in IF k = "github" THEN Github ELSE Forgejo
        /\ DefaultForge[k].repos = {}
    <3>1. DefaultForge["github"] \in Github /\ DefaultForge["github"].repos = {}
      BY DEF DefaultForge, Github
    <3>2. DefaultForge["forgejo"] \in Forgejo /\ DefaultForge["forgejo"].repos = {}
      BY DEF DefaultForge, Forgejo
    <3> QED BY <3>1, <3>2 DEF Forges
  <2>3. IsFiniteSet(DefaultForge[k].repos)
    BY <2>2, FS_EmptySet
  <2> QED BY <2>1, <2>2, <2>3, ForgeEdited
<1>3. CASE EditForge
  <2>1. PICK k \in {f \in Forges : prof[f].declared} : \E part \in DOMAIN ForgeValues[k] :
           /\ prof[k][part] = DefaultForge[k][part]
           /\ \E v \in ForgeValues[k][part] \ {prof[k][part]} : prof' = [prof EXCEPT ![k][part] = v]
    BY <1>3, Zenon DEF EditForge
  <2>0. PICK part \in DOMAIN ForgeValues[k] :
           \E v \in ForgeValues[k][part] : prof' = [prof EXCEPT ![k][part] = v]
    BY <2>1, Zenon
  <2>2. PICK v \in ForgeValues[k][part] : prof' = [prof EXCEPT ![k][part] = v]
    BY <2>0, Zenon
  <2> DEFINE g == [prof[k] EXCEPT ![part] = v]
  <2>3. g \in (IF k = "github" THEN Github ELSE Forgejo) /\ g.repos = prof[k].repos
    <3>1. CASE k = "github"
      <4>1. prof[k] \in Github
        BY <2>1, <3>1, GithubFields
      <4>2. ForgeValues[k] = ForgeValues.github
        BY <3>1
      <4> QED BY <2>0, <2>2, <3>1, <4>1, <4>2, GithubPart
    <3>2. CASE k = "forgejo"
      <4>1. prof[k] \in Forgejo
        BY <2>1, <3>2, ForgejoFields
      <4>2. ForgeValues[k] = ForgeValues.forgejo
        BY <3>2
      <4> QED BY <2>0, <2>2, <3>2, <4>1, <4>2, ForgejoPart
    <3> QED BY <3>1, <3>2 DEF Forges
  <2>4. IsFiniteSet(g.repos)
    BY <2>1, <2>3 DEF IsProfile
  <2> HIDE DEF g
  <2>5. prof' = [prof EXCEPT ![k] = g]
    BY <2>2 DEF g
  <2> QED BY <2>3, <2>4, <2>5, ForgeEdited
<1>4. CASE AddRepository
  <2>1. PICK k \in Forges, r \in RepoCreds : /\ prof[k].declared
                            /\ prof' = [prof EXCEPT ![k].repos = @ \cup {r}]
    BY <1>4, Zenon DEF AddRepository
  <2> DEFINE g == [prof[k] EXCEPT !.repos = @ \cup {r}]
  <2>3. g \in (IF k = "github" THEN Github ELSE Forgejo) /\ g.repos = prof[k].repos \cup {r}
    <3>1. CASE k = "github"
      BY <2>1, <3>1, GithubFields DEF Github
    <3>2. CASE k = "forgejo"
      BY <2>1, <3>2, ForgejoFields DEF Forgejo
    <3> QED BY <3>1, <3>2 DEF Forges
  <2>4. IsFiniteSet(g.repos)
    <3>1. IsFiniteSet(prof[k].repos)
      BY <2>1 DEF IsProfile
    <3> QED BY <2>3, <3>1, FS_AddElement
  <2>5. prof' = [prof EXCEPT ![k] = g]
    BY <2>1
  <2> HIDE DEF g
  <2> QED BY <2>3, <2>4, <2>5, ForgeEdited
<1>5. CASE ChangeHost
  BY <1>5 DEF ChangeHost
<1>6. CASE ChangeLink
  BY <1>6 DEF ChangeLink
<1>7. CASE UNCHANGED reviewVars
  BY <1>7 DEF reviewVars
<1> QED BY <1>1, <1>2, <1>3, <1>4, <1>5, <1>6, <1>7 DEF ReviewNext

\* The profile under review is always one the schema decodes.
LEMMA ReviewInvariant == ReviewSpec => []IsProfile(prof)
  BY ReviewInitially, ReviewStep, PTL DEF ReviewSpec

-----------------------------------------------------------------------------
(* Readiness *)

\* requiredHelpers, spelled out per helper.
LEMMA RequiredHelper ==
    ASSUME NEW p, NEW h, NEW accounts, NEW n
    PROVE  n \in RequiredHelpers(p, h, accounts) <=>
             \/ n = "op" /\ \/ p.secrets = "op" \/ p.pnpm = "op"
                            \/ p.github.declared /\ p.github.mode = "pat" /\ p.github.pat = "op"
                            \/ /\ p.github.declared /\ p.github.mode # "pat" /\ accounts /\ LinkHost(p, "github")
                               /\ \E o \in OwnersFromRepos(p["github"]) : OpLink(h, "github", o)
                            \/ /\ p.forgejo.declared /\ accounts /\ LinkHost(p, "forgejo")
                               /\ \E o \in OwnersFromRepos(p["forgejo"]) : OpLink(h, "forgejo", o)
             \/ n = "aws" /\ (p.aws # "none" \/ p.kube \in {"eks", "odd", "both"})
             \/ n = "gcloud" /\ p.gcp # "none"
             \/ n \in {"gke-gcloud-auth-plugin", "gcloud"} /\ p.kube \in {"gke", "both"}
             \/ n = "git" /\ \/ p.github.declared /\ p.github.mode # "pat" /\ p.github.repos = {}
                             \/ p.forgejo.declared /\ p.forgejo.repos = {}
             \/ n \in {"ssh-keygen", "ssh-keyscan"} /\ p.forgejo.declared
  BY Zenon DEF RequiredHelpers

\* Which forges need an account link.
LEMMA LinkRequiredIs ==
    ASSUME NEW p
    PROVE  /\ LinkRequired(p, "github") <=> p.github.declared /\ p.github.mode # "pat"
           /\ LinkRequired(p, "forgejo") <=> p.forgejo.declared
  BY DEF LinkRequired

\* What each answer of the account-link check means.
LEMMA AccountLinksIs ==
    ASSUME NEW p, NEW h, NEW k
    PROVE  /\ AccountLinks(p, h, k) # "unknown" =>
                 h.accounts /\ LinkHost(p, k) /\ OwnersFromRepos(p[k]) # {}
           /\ AccountLinks(p, h, k) = "pass" => \A o \in OwnersFromRepos(p[k]) : Linked(h, k, o)
           /\ AccountLinks(p, h, k) = "fail" => \E o \in OwnersFromRepos(p[k]) : ~Linked(h, k, o)
           /\ AccountLinks(p, h, k) \in {"pass", "fail", "unknown"}
  BY DEF AccountLinks

\* What a launch requires beyond what the readiness section inspects is the op
\* of a linked owner, and it is inspected once the links can be looked up.
LEMMA InspectedIsRequired ==
    ASSUME NEW p, NEW h
    PROVE  /\ InspectedHelpers(p, h) \subseteq RequiredHelpers(p, h, TRUE)
           /\ (\A k \in Forges : LinkRequired(p, k) => AccountLinks(p, h, k) # "unknown") =>
                 RequiredHelpers(p, h, TRUE) \subseteq InspectedHelpers(p, h)
<1>1. ASSUME NEW n \in InspectedHelpers(p, h) PROVE n \in RequiredHelpers(p, h, TRUE)
  <2>1. CASE n \in RequiredHelpers(p, h, FALSE)
    BY <2>1, RequiredHelper, Zenon
  <2>2. CASE \E k \in Forges : n = "op" /\ LinkRequiresOp(p, h, k)
    <3>1. PICK k \in Forges : n = "op" /\ LinkRequiresOp(p, h, k)
      BY <2>2
    <3>2. /\ LinkRequired(p, k) /\ AccountLinks(p, h, k) # "unknown"
          /\ \E o \in OwnersFromRepos(p[k]) : OpLink(h, k, o)
      BY <3>1, Zenon DEF LinkRequiresOp
    <3>3. LinkHost(p, k)
      BY <3>2, AccountLinksIs
    <3>4. CASE k = "github"
      BY <3>1, <3>2, <3>3, <3>4, LinkRequiredIs, RequiredHelper, Zenon
    <3>5. CASE k = "forgejo"
      BY <3>1, <3>2, <3>3, <3>5, LinkRequiredIs, RequiredHelper, Zenon
    <3> QED BY <3>4, <3>5 DEF Forges
  <2> QED BY <1>1, <2>1, <2>2, Zenon DEF InspectedHelpers
<1>2. ASSUME \A k \in Forges : LinkRequired(p, k) => AccountLinks(p, h, k) # "unknown",
             NEW n \in RequiredHelpers(p, h, TRUE)
      PROVE  n \in InspectedHelpers(p, h)
  <2>1. CASE n \in RequiredHelpers(p, h, FALSE)
    BY <2>1, Zenon DEF InspectedHelpers
  <2>2. CASE n \notin RequiredHelpers(p, h, FALSE)
    <3>1. n = "op" /\ \E k \in Forges : LinkRequired(p, k) /\ \E o \in OwnersFromRepos(p[k]) : OpLink(h, k, o)
      BY <1>2, <2>2, RequiredHelper, LinkRequiredIs, Zenon DEF Forges
    <3> QED BY <1>2, <3>1, Zenon DEF InspectedHelpers, LinkRequiresOp
  <2> QED BY <2>1, <2>2
<1> QED BY <1>1, <1>2

\* A fit repository gives a forge an owner, so not more than one is exactly one.
LEMMA OneOwner ==
    ASSUME NEW f, IsFiniteSet(f.repos), NEW r \in f.repos, r.repo # "odd",
           ~(Cardinality(OwnersFromRepos(f)) > 1)
    PROVE  Cardinality(OwnersFromRepos(f)) = 1
<1> DEFINE owners == {s.repo : s \in f.repos}
           of == [s \in f.repos |-> s.repo]
<1>1. IsFiniteSet(owners)
  <2>1. of \in Surjection(f.repos, owners)
    BY DEF Surjection
  <2> QED BY <2>1, FS_Surjection
<1>2. IsFiniteSet(OwnersFromRepos(f))
  BY <1>1, FS_Subset DEF OwnersFromRepos
<1>3. r.repo \in OwnersFromRepos(f)
  BY DEF OwnersFromRepos
<1>4. Cardinality(OwnersFromRepos(f)) \in Nat /\ Cardinality(OwnersFromRepos(f)) # 0
  BY <1>2, <1>3, FS_CardinalityType, FS_EmptySet
<1> QED BY <1>4

\* The value of each finding, as its place in the outcomes tells.
LEMMA Outcomes ==
    ASSUME NEW p, NEW h
    PROVE  /\ ReadinessState(p, h) = "blocked" <=> "fail" \in ReadinessOutcomes(p, h)
           /\ ReadinessState(p, h) = "ready" <=> "fail" \notin ReadinessOutcomes(p, h)
                                                 /\ "unknown" \notin ReadinessOutcomes(p, h)
           /\ \A o : o \in ReadinessOutcomes(p, h) <=>
                 \/ o = WorkspaceOutcome(h) \/ o = RuntimeOutcome(p, h) \/ o = AgentOutcome(p, h)
                 \/ o = SecretOutcome(p, h) \/ o = ToolchainOutcome(p, h)
                 \/ \E k \in Forges : o = AccountOutcome(p, h, k)
<1>1. \A o : o \in ReadinessOutcomes(p, h) <=>
                 \/ o = WorkspaceOutcome(h) \/ o = RuntimeOutcome(p, h) \/ o = AgentOutcome(p, h)
                 \/ o = SecretOutcome(p, h) \/ o = ToolchainOutcome(p, h)
                 \/ \E k \in Forges : o = AccountOutcome(p, h, k)
  BY Zenon DEF ReadinessOutcomes
<1>2. "blocked" # "ready" /\ "blocked" # "unknown" /\ "ready" # "unknown"
  OBVIOUS
<1> QED BY <1>1, <1>2 DEF ReadinessState


\* A profile that is ready and trusted, but for what readiness overlooks.
LEMMA ReadyIsAdmitted ==
    ASSUME NEW p, NEW h, IsProfile(p), Loadable(p), ReadinessState(p, h) = "ready",
           h.trust = "trusted", ~Overlooked(p, h)
    PROVE  LaunchAdmitted(p, h)
<1>1. ASSUME NEW o, o \in {"fail", "unknown"}
      PROVE  /\ o # WorkspaceOutcome(h) /\ o # RuntimeOutcome(p, h) /\ o # AgentOutcome(p, h)
             /\ o # SecretOutcome(p, h) /\ o # ToolchainOutcome(p, h)
             /\ \A k \in Forges : o # AccountOutcome(p, h, k)
  BY <1>1, Outcomes
<1>2. h.workspace = "ok"
  BY <1>1 DEF WorkspaceOutcome
<1>3. p.env = "container" => h.runtime = "ok"
  BY <1>1 DEF RuntimeOutcome
<1>4. p.env # "container" => h.helpers["agent"] = "ok"
  BY <1>1 DEF AgentOutcome, HelperOutcome
<1>5. \A n \in InspectedHelpers(p, h) : h.helpers[n] = "ok"
  BY <1>1 DEF SecretOutcome, HelperOutcome
<1>6. Wraps(p) => h.helpers["mise"] = "ok"
  BY <1>1 DEF ToolchainOutcome, HelperOutcome
<1>7. ASSUME NEW k \in Forges, LinkRequired(p, k)
      PROVE  AccountLinks(p, h, k) = "pass"
  BY <1>1, <1>7, AccountLinksIs DEF AccountOutcome
<1>8. \A n \in RequiredHelpers(p, h, TRUE) : h.helpers[n] = "ok"
  <2>1. \A k \in Forges : LinkRequired(p, k) => AccountLinks(p, h, k) # "unknown"
    BY <1>7
  <2> QED BY <1>5, <2>1, InspectedIsRequired
<1>9. (p.github.declared \/ p.forgejo.declared) => h.accounts
  <2>1. CASE p.github.declared /\ p.github.mode = "pat"
    BY <2>1, Zenon DEF Overlooked
  <2>2. CASE \E k \in Forges : LinkRequired(p, k)
    BY <1>7, <2>2, AccountLinksIs
  <2> QED BY <2>1, <2>2, LinkRequiredIs, Zenon DEF Forges
<1>10. RepositoryGate(p) /\ ClusterGate(p)
  BY Zenon DEF Overlooked, RepositoryGate, ClusterGate
<1>11. ASSUME NEW k \in Forges PROVE ForgeGate(p, h, k)
  <2> SUFFICES ASSUME LinkRequired(p, k), p[k].repos # {}
               PROVE  /\ \A o \in OwnersFromRepos(p[k]) : Linked(h, k, o)
                      /\ k = "forgejo" => p.forgejo.url # "none"
                      /\ k = "forgejo" /\ p.forgejo.api # "off" =>
                            Cardinality(OwnersFromRepos(p.forgejo)) = 1
    BY Zenon DEF ForgeGate
  <2>1. AccountLinks(p, h, k) = "pass"
    BY <1>7
  <2>2. ASSUME NEW r \in p[k].repos PROVE r.repo # "odd"
    <3>1. p[k].declared
      BY Zenon DEF LinkRequired
    <3> QED BY <1>10, <3>1, Zenon DEF RepositoryGate
  <2>3. \A o \in OwnersFromRepos(p[k]) : Linked(h, k, o)
    BY <2>1, AccountLinksIs
  <2>4. ASSUME k = "forgejo" PROVE p.forgejo.url # "none"
    BY <2>1, <2>4, AccountLinksIs DEF LinkHost
  <2>5. ASSUME k = "forgejo", p.forgejo.api # "off" PROVE Cardinality(OwnersFromRepos(p.forgejo)) = 1
    <3>1. p.forgejo.declared
      BY <2>5, LinkRequiredIs
    <3>2. PICK r \in p.forgejo.repos : r.repo # "odd"
      BY <2>2, <2>5
    <3>3. IsFiniteSet(p.forgejo.repos)
      BY <3>1, ForgejoFields
    <3>4. ~(Cardinality(OwnersFromRepos(p.forgejo)) > 1)
      BY <2>5, <3>1, Zenon DEF Overlooked
    <3> QED BY <3>2, <3>3, <3>4, OneOwner
  <2> QED BY <2>3, <2>4, <2>5
<1>12. ~(p.github.declared /\ p.forgejo.declared)
  BY Zenon DEF Overlooked
<1>13. StageGate(p, h)
  BY <1>8, <1>9, <1>10, <1>11, <1>12, Zenon DEF StageGate, PreflightGate
<1>14. ExecGate(p, h)
  BY <1>4, <1>6 DEF ExecGate
<1>15. WorkspaceGate(p, h)
  BY <1>2 DEF WorkspaceGate
<1> QED BY <1>3, <1>13, <1>14, <1>15, Zenon DEF LaunchAdmitted

\* A launch that is admitted was not reported blocked, unless the inspection
\* is stricter.
LEMMA AdmittedIsNotBlocked ==
    ASSUME NEW p, NEW h, LaunchAdmitted(p, h), ~Overcautious(p, h)
    PROVE  ReadinessState(p, h) # "blocked"
<1>1. /\ Loadable(p) /\ WorkspaceGate(p, h) /\ (p.env = "container" => h.runtime = "ok")
      /\ PreflightGate(p, h) /\ \A k \in Forges : ForgeGate(p, h, k)
  BY Zenon DEF LaunchAdmitted, StageGate
<1>2. p.env \in {"host", "container"}
  BY <1>1, Zenon DEF Loadable
<1>3. p.env = "host" => h.helpers["agent"] = "ok" /\ h.helpers["mise"] = "ok" /\ h.workspace # "stage"
  BY Zenon DEF Overcautious
<1>4. WorkspaceOutcome(h) # "fail"
  BY <1>1, <1>2, <1>3 DEF WorkspaceGate, WorkspaceOutcome
<1>5. RuntimeOutcome(p, h) # "fail"
  BY <1>1 DEF RuntimeOutcome
<1>6. AgentOutcome(p, h) # "fail"
  BY <1>2, <1>3 DEF AgentOutcome, HelperOutcome
<1>7. SecretOutcome(p, h) # "fail"
  <2>1. \A n \in InspectedHelpers(p, h) : h.helpers[n] = "ok"
    BY <1>1, InspectedIsRequired DEF PreflightGate
  <2> QED BY <2>1 DEF SecretOutcome, HelperOutcome
<1>8. ToolchainOutcome(p, h) # "fail"
  <2>1. Wraps(p) => h.helpers["mise"] = "ok"
    BY <1>2, Zenon DEF Overcautious
  <2> QED BY <2>1 DEF ToolchainOutcome, HelperOutcome
<1>9. ASSUME NEW k \in Forges PROVE AccountOutcome(p, h, k) # "fail"
  <2> SUFFICES ASSUME LinkRequired(p, k), AccountLinks(p, h, k) = "fail" PROVE FALSE
    BY DEF AccountOutcome
  <2>1. PICK o \in OwnersFromRepos(p[k]) : ~Linked(h, k, o)
    BY AccountLinksIs
  <2>2. p[k].repos # {}
    BY <2>1 DEF OwnersFromRepos
  <2> QED BY <1>1, <2>1, <2>2, Zenon DEF ForgeGate
<1> QED BY <1>4, <1>5, <1>6, <1>7, <1>8, <1>9, Outcomes

\* Readiness and launch agree about every profile the schema decodes and every
\* host: a ready profile passes the gates of stageProfile and cmdRun, a blocked
\* one is refused, the listed exceptions apart (profile_evaluation.go).
THEOREM Readiness == ReviewSpec => []ReadinessAgrees
<1>1. IsProfile(prof) => ReadinessAgrees
  <2>1. TrustState(host) = "trusted" => host.trust = "trusted"
    BY DEF TrustState
  <2> QED BY <2>1, ReadyIsAdmitted, AdmittedIsNotBlocked, Zenon DEF ReadinessAgrees
<1> QED BY <1>1, ReviewInvariant, PTL

-----------------------------------------------------------------------------
(* Scopes *)

\* A finite set is listed once, in full, by SetToSeq.
LEMMA Enumeration ==
    ASSUME NEW S, IsFiniteSet(S)
    PROVE  /\ Cardinality(S) \in Nat
           /\ SetToSeq(S) \in [1..Cardinality(S) -> S]
           /\ \A i, j \in 1..Cardinality(S) : SetToSeq(S)[i] = SetToSeq(S)[j] => i = j
           /\ \A x \in S : \E i \in 1..Cardinality(S) : SetToSeq(S)[i] = x
<1>1. Cardinality(S) \in Nat /\ \E f : f \in Bijection(1..Cardinality(S), S)
  BY FS_CardinalityType DEF ExistsBijection
<1>2. \E f \in [1..Cardinality(S) -> S] : IsInjective(f)
  BY <1>1 DEF Bijection, Injection, IsInjective
<1>3. SetToSeq(S) \in [1..Cardinality(S) -> S] /\ IsInjective(SetToSeq(S))
  BY <1>2 DEF SetToSeq
<1>4. \A i, j \in 1..Cardinality(S) : SetToSeq(S)[i] = SetToSeq(S)[j] => i = j
  BY <1>3 DEF IsInjective
<1>5. SetToSeq(S) \in Injection(1..Cardinality(S), S)
  BY <1>3, <1>4 DEF Injection, IsInjective
<1>6. Cardinality(1..Cardinality(S)) = Cardinality(S)
  BY <1>1, FS_Interval
<1>7. SetToSeq(S) \in Surjection(1..Cardinality(S), S)
  BY <1>5, <1>6, FS_Injection
<1> QED BY <1>1, <1>3, <1>4, <1>7 DEF Surjection

\* The domain and the range of a concatenation.
LEMMA ConcatRange ==
    ASSUME NEW a, NEW b, NEW m \in Nat, NEW n \in Nat,
           a = [i \in 1..m |-> a[i]], b = [i \in 1..n |-> b[i]]
    PROVE  /\ DOMAIN (a \o b) = 1..(m + n)
           /\ \A i \in 1..m : (a \o b)[i] = a[i]
           /\ Range(a \o b) = Range(a) \cup Range(b)
<1> DEFINE T == Range(a) \cup Range(b)
<1>1. a \in Seq(T) /\ b \in Seq(T) /\ Len(a) = m /\ Len(b) = n
  <2>1. a \in [1..m -> T] /\ b \in [1..n -> T]
    BY DEF Range
  <2> HIDE DEF T
  <2>2. a \in Seq(T) /\ b \in Seq(T)
    BY <2>1, SeqDef
  <2> QED BY <2>1, <2>2, LenProperties
<1> HIDE DEF T
<1>2. /\ Len(a \o b) = m + n /\ a \o b \in Seq(T)
      /\ \A i \in 1..(m + n) : (a \o b)[i] = IF i <= m THEN a[i] ELSE b[i - m]
  BY <1>1, ConcatProperties
<1>3. DOMAIN (a \o b) = 1..(m + n)
  BY <1>2
<1>4. ASSUME NEW x \in Range(a \o b) PROVE x \in T
  BY <1>2, <1>3, ElementOfSeq DEF Range
<1>5. ASSUME NEW x \in Range(a) PROVE x \in Range(a \o b)
  BY <1>2, <1>3 DEF Range
<1>6. ASSUME NEW x \in Range(b) PROVE x \in Range(a \o b)
  <2>1. PICK i \in 1..n : x = b[i]
    BY DEF Range
  <2>2. (a \o b)[m + i] = x /\ m + i \in 1..(m + n)
    BY <1>2, <2>1
  <2> QED BY <1>3, <2>2 DEF Range
<1>7. \A i \in 1..m : (a \o b)[i] = a[i]
  BY <1>2
<1> QED BY <1>3, <1>4, <1>5, <1>6, <1>7 DEF T

\* The repository drafts of a forge, as a set.
LEMMA RepositoryRange ==
    ASSUME NEW f, IsFiniteSet(f.repos), NEW lifetime, NEW unknown
    PROVE  LET D == RepositoryDrafts(f, lifetime, unknown)
           IN  /\ Cardinality(f.repos) \in Nat
               /\ D = [i \in 1..Cardinality(f.repos) |-> D[i]]
               /\ Range(D) = {RepositoryDraft(f, r, lifetime, unknown) : r \in f.repos}
<1> DEFINE n == Cardinality(f.repos)
           s == SetToSeq(f.repos)
           D == RepositoryDrafts(f, lifetime, unknown)
<1>1. n \in Nat /\ s \in [1..n -> f.repos] /\ \A x \in f.repos : \E i \in 1..n : s[i] = x
  BY Enumeration
<1>2. D = [i \in 1..n |-> RepositoryDraft(f, s[i], lifetime, unknown)]
  BY <1>1 DEF RepositoryDrafts
<1> HIDE DEF n, s, D
<1>3. n \in Nat /\ D = [i \in 1..n |-> D[i]]
  BY <1>1, <1>2
<1>4. ASSUME NEW x \in Range(D) PROVE \E r \in f.repos : x = RepositoryDraft(f, r, lifetime, unknown)
  <2>1. PICK i \in 1..n : x = RepositoryDraft(f, s[i], lifetime, unknown)
    BY <1>2 DEF Range
  <2>2. s[i] \in f.repos
    BY <1>1, <2>1
  <2> QED BY <2>1, <2>2
<1>5. ASSUME NEW r \in f.repos PROVE RepositoryDraft(f, r, lifetime, unknown) \in Range(D)
  <2>1. PICK i \in 1..n : s[i] = r
    BY <1>1
  <2>2. D[i] = RepositoryDraft(f, r, lifetime, unknown) /\ i \in DOMAIN D
    BY <1>2, <2>1
  <2> QED BY <2>2 DEF Range
<1> QED BY <1>3, <1>4, <1>5 DEF n, D

\* The drafts of a forge: of its repositories, or its origin, and of its API.
Lifetime(p, k) == IF k = "github" THEN GithubLifetime(p.github) ELSE "short_lived"
UnknownMode(p, k) == IF k = "github" THEN GithubUnknownMode(p.github) ELSE FALSE
RepositorySet(p, k) ==
    IF p[k].repos = {} THEN {OriginDraft(p[k], Lifetime(p, k), UnknownMode(p, k))}
    ELSE {RepositoryDraft(p[k], r, Lifetime(p, k), UnknownMode(p, k)) : r \in p[k].repos}
APISet(p, k) ==
    IF p[k].api = "off" THEN {}
    ELSE IF k = "forgejo" THEN {Draft("account", "external_policy", "persistent", "provider_default",
                                      p.forgejo.api = "unacked", FALSE)}
    ELSE IF p.github.api = "default" THEN {Draft("api-default", "provider_default", GithubLifetime(p.github),
                                                 "provider_default", FALSE, FALSE)}
    ELSE {Draft(Labelled(Shown(p.github.api)), "scoped_api", GithubLifetime(p.github), "declared",
                p.github.api = "odd", FALSE)}

\* The one-element and the empty sequence, as functions.
LEMMA One == ASSUME NEW x PROVE <<x>> = [i \in 1..1 |-> <<x>>[i]] /\ Range(<<x>>) = {x}
  BY DEF Range
LEMMA None == <<>> = [i \in 1..0 |-> <<>>[i]] /\ Range(<<>>) = {}
  BY DEF Range

\* The drafts of a forge are those of its repositories and of its API grant.
LEMMA ForgeRange ==
    ASSUME NEW p, IsProfile(p), NEW k \in Forges, p[k].declared
    PROVE  /\ \E n \in Nat : DOMAIN Drafts(p, k) = 1..n
           /\ Range(Drafts(p, k)) = RepositorySet(p, k) \cup APISet(p, k)
<1>1. ASSUME NEW f, IsFiniteSet(f.repos), NEW l, NEW u
      PROVE  LET d == IF f.repos = {} THEN <<OriginDraft(f, l, u)>> ELSE RepositoryDrafts(f, l, u)
             IN  /\ \E m \in Nat : d = [i \in 1..m |-> d[i]]
                 /\ Range(d) = IF f.repos = {} THEN {OriginDraft(f, l, u)}
                               ELSE {RepositoryDraft(f, r, l, u) : r \in f.repos}
  <2>1. CASE f.repos = {}
    BY <2>1, One
  <2>2. CASE f.repos # {}
    <3> DEFINE D == RepositoryDrafts(f, l, u)
    <3>1. /\ Cardinality(f.repos) \in Nat /\ D = [i \in 1..Cardinality(f.repos) |-> D[i]]
          /\ Range(D) = {RepositoryDraft(f, r, l, u) : r \in f.repos}
      BY <1>1, RepositoryRange
    <3> HIDE DEF D
    <3>2. \E m \in Nat : D = [i \in 1..m |-> D[i]]
      BY <3>1
    <3> QED BY <2>2, <3>1, <3>2 DEF D
  <2> QED BY <2>1, <2>2
<1>2. CASE k = "github"
  <2> DEFINE g == p.github
             d == IF g.repos = {} THEN <<OriginDraft(g, GithubLifetime(g), GithubUnknownMode(g))>>
                  ELSE RepositoryDrafts(g, GithubLifetime(g), GithubUnknownMode(g))
             a == GithubAPIDrafts(g)
  <2>1. /\ \E m \in Nat : d = [i \in 1..m |-> d[i]]
        /\ Range(d) = RepositorySet(p, k)
    <3>1. RepositorySet(p, k) = IF g.repos = {} THEN {OriginDraft(g, GithubLifetime(g), GithubUnknownMode(g))}
                                ELSE {RepositoryDraft(g, r, GithubLifetime(g), GithubUnknownMode(g)) : r \in g.repos}
      BY <1>2 DEF RepositorySet, Lifetime, UnknownMode
    <3>2. IsFiniteSet(g.repos)
      BY <1>2, GithubFields
    <3> HIDE DEF g
    <3> QED BY <1>1, <3>1, <3>2
  <2>2. /\ \E m \in Nat : a = [i \in 1..m |-> a[i]]
        /\ Range(a) = APISet(p, k)
    BY <1>2, GithubFields, One, None DEF GithubAPIDrafts, APISet
  <2>3. Drafts(p, k) = d \o a
    BY <1>2 DEF Drafts, GithubDrafts
  <2> HIDE DEF d, a
  <2>4. PICK m \in Nat : d = [i \in 1..m |-> d[i]]
    BY <2>1
  <2>5. PICK n \in Nat : a = [i \in 1..n |-> a[i]]
    BY <2>2
  <2>6. DOMAIN (d \o a) = 1..(m + n) /\ Range(d \o a) = Range(d) \cup Range(a)
    BY <2>4, <2>5, ConcatRange
  <2>7. DOMAIN Drafts(p, k) = 1..(m + n) /\ Range(Drafts(p, k)) = Range(d) \cup Range(a)
    BY <2>3, <2>6, Zenon
  <2>8. m + n \in Nat
    OBVIOUS
  <2> QED BY <2>1, <2>2, <2>7, <2>8, Zenon
<1>3. CASE k = "forgejo"
  <2> DEFINE f == p.forgejo
             d == IF f.repos = {} THEN <<OriginDraft(f, "short_lived", FALSE)>>
                  ELSE RepositoryDrafts(f, "short_lived", FALSE)
             a == IF f.api = "off" THEN <<>>
                  ELSE <<Draft("account", "external_policy", "persistent", "provider_default",
                               f.api = "unacked", FALSE)>>
  <2>1. /\ \E m \in Nat : d = [i \in 1..m |-> d[i]]
        /\ Range(d) = RepositorySet(p, k)
    <3>1. RepositorySet(p, k) = IF f.repos = {} THEN {OriginDraft(f, "short_lived", FALSE)}
                                ELSE {RepositoryDraft(f, r, "short_lived", FALSE) : r \in f.repos}
      BY <1>3 DEF RepositorySet, Lifetime, UnknownMode
    <3>2. IsFiniteSet(f.repos)
      BY <1>3, ForgejoFields
    <3> HIDE DEF f
    <3> QED BY <1>1, <3>1, <3>2
  <2>2. /\ \E m \in Nat : a = [i \in 1..m |-> a[i]]
        /\ Range(a) = APISet(p, k)
    BY <1>3, ForgejoFields, One, None DEF APISet
  <2>3. Drafts(p, k) = d \o a
    BY <1>3 DEF Drafts, ForgejoDrafts
  <2> HIDE DEF d, a
  <2>4. PICK m \in Nat : d = [i \in 1..m |-> d[i]]
    BY <2>1
  <2>5. PICK n \in Nat : a = [i \in 1..n |-> a[i]]
    BY <2>2
  <2>6. DOMAIN (d \o a) = 1..(m + n) /\ Range(d \o a) = Range(d) \cup Range(a)
    BY <2>4, <2>5, ConcatRange
  <2>7. DOMAIN Drafts(p, k) = 1..(m + n) /\ Range(Drafts(p, k)) = Range(d) \cup Range(a)
    BY <2>3, <2>6, Zenon
  <2>8. m + n \in Nat
    OBVIOUS
  <2> QED BY <2>1, <2>2, <2>7, <2>8, Zenon
<1> QED BY <1>2, <1>3 DEF Forges

\* The fields of a draft, of an origin draft and of a repository draft.
LEMMA DraftFields ==
    ASSUME NEW t, NEW a, NEW l, NEW b, NEW u, NEW w
    PROVE  /\ Draft(t, a, l, b, u, w).target = t /\ Draft(t, a, l, b, u, w).access = a
           /\ Draft(t, a, l, b, u, w).unknown = u /\ Draft(t, a, l, b, u, w).write = w
  BY DEF Draft

LEMMA OriginFields ==
    ASSUME NEW f, NEW l, NEW u
    PROVE  /\ OriginDraft(f, l, u).target = "origin" /\ OriginDraft(f, l, u).write = f.write
           /\ OriginDraft(f, l, u).access = WriteAccess(f.write) /\ OriginDraft(f, l, u).unknown = u
  BY DEF OriginDraft, Draft

LEMMA RepositoryFields ==
    ASSUME NEW f, NEW r, NEW l, NEW u
    PROVE  LET d == RepositoryDraft(f, r, l, u) IN
           /\ d.target = Shown(r.repo) /\ d.write = EffectiveWrite(f, r)
           /\ d.access = IF u THEN "unknown" ELSE WriteAccess(EffectiveWrite(f, r))
           /\ d.unknown = (u \/ r.repo = "odd")
  BY DEF RepositoryDraft, Draft

\* A draft can be found by its index.
LEMMA DraftScope ==
    ASSUME NEW p, NEW k \in DeclaredProviders(p), NEW d \in Range(Drafts(p, k))
    PROVE  \E s \in CredentialScopes(p) :
              /\ s.provider = k /\ s.draft = d /\ s.id \in ScopeIDs(p, k)
              /\ d.write => s.id \in WriteScopeIDs(p, k)
<1>1. PICK i \in DOMAIN Drafts(p, k) : d = Drafts(p, k)[i]
  BY DEF Range
<1> DEFINE s == [id |-> <<k, i>>, provider |-> k, draft |-> Drafts(p, k)[i]]
<1>2. s \in CredentialScopes(p)
  <2>1. s \in {[id |-> <<k, j>>, provider |-> k, draft |-> Drafts(p, k)[j]] : j \in DOMAIN Drafts(p, k)}
    BY <1>1, Zenon
  <2> HIDE DEF s
  <2> QED BY <2>1 DEF CredentialScopes
<1>3. s.provider = k /\ s.draft = d /\ s.id = <<k, i>>
  BY <1>1
<1>4. <<k, i>> \in ScopeIDs(p, k) /\ (d.write => <<k, i>> \in WriteScopeIDs(p, k))
  BY <1>1, Zenon DEF ScopeIDs, WriteScopeIDs
<1> QED BY <1>2, <1>3, <1>4

\* A provider has a write scope exactly when one of its drafts writes.
LEMMA WriteScopes ==
    ASSUME NEW p, NEW k
    PROVE  WriteScopeIDs(p, k) # {} <=> \E d \in Range(Drafts(p, k)) : d.write
  BY Zenon DEF WriteScopeIDs, Range

\* Which providers a profile declares.
LEMMA Declared ==
    ASSUME NEW p
    PROVE  /\ \A k \in Forges : k \in DeclaredProviders(p) <=> p[k].declared
           /\ \A k \in {"pnpm", "aws", "gcp", "kube"} : k \in DeclaredProviders(p) <=> p[k] # "none"
           /\ "pi-oauth" \in DeclaredProviders(p) <=> p.pi # "none"
           /\ DeclaredProviders(p) \subseteq Providers
  BY DEF DeclaredProviders, Declares, Providers, Forges

\* The write-with-open-egress rules belong to the credentials axis.
LEMMA WriteRuleAxis ==
    ASSUME NEW k \in Forges
    PROVE  WriteRule(k) \in RuleNames /\ Registry[WriteRule(k)].axis = "credentials"
  BY DEF Forges, WriteRule, Registry, RuleNames, RuleOf, Rule

\* What staging opens for writing has a draft that says so.
LEMMA StagedDraft ==
    ASSUME NEW p, IsProfile(p), NEW k \in Forges, NEW repo \in StagedWrite(p, k)
    PROVE  /\ p[k].declared
           /\ \E d \in Range(Drafts(p, k)) : /\ d.target = Shown(repo) /\ d.write
                                              /\ d.access \in {"read_write", "unknown"}
<1>1. p[k].declared
  BY DEF StagedWrite, LinkRequired
<1>2. CASE p[k].repos = {}
  <2>1. repo = "origin" /\ p[k].write
    BY <1>2 DEF StagedWrite
  <2> DEFINE d == OriginDraft(p[k], Lifetime(p, k), UnknownMode(p, k))
  <2>2. d \in Range(Drafts(p, k))
    BY <1>1, <1>2, ForgeRange DEF RepositorySet
  <2>3. d.target = "origin" /\ d.write /\ d.access = "read_write"
    <3>1. d.target = "origin" /\ d.write = p[k].write /\ d.access = WriteAccess(p[k].write)
      BY OriginFields
    <3> QED BY <2>1, <3>1, Zenon DEF WriteAccess
  <2>4. Shown("origin") = "origin"
    BY DEF Shown, Fit
  <2> QED BY <1>1, <2>1, <2>2, <2>3, <2>4
<1>3. CASE p[k].repos # {}
  <2>1. PICK r \in p[k].repos : repo = r.repo /\ r.write
    BY <1>3 DEF StagedWrite
  <2> DEFINE d == RepositoryDraft(p[k], r, Lifetime(p, k), UnknownMode(p, k))
  <2>2. d \in Range(Drafts(p, k))
    BY <1>1, <1>3, ForgeRange DEF RepositorySet
  <2>3. EffectiveWrite(p[k], r)
    BY <2>1 DEF EffectiveWrite
  <2>4. d.target = Shown(repo) /\ d.write /\ d.access \in {"read_write", "unknown"}
    <3>1. /\ d.target = Shown(r.repo) /\ d.write = EffectiveWrite(p[k], r)
          /\ d.access = IF UnknownMode(p, k) THEN "unknown" ELSE WriteAccess(EffectiveWrite(p[k], r))
      BY RepositoryFields
    <3>2. d.access \in {"read_write", "unknown"}
      BY <2>3, <3>1 DEF WriteAccess
    <3> QED BY <2>1, <2>3, <3>1, <3>2, Zenon
  <2> QED BY <1>1, <2>2, <2>4
<1> QED BY <1>2, <1>3

\* A repository staged for writing is in the recorded scopes.
LEMMA StagedIsRecorded ==
    ASSUME NEW p, NEW k \in Forges, NEW repo \in StagedWrite(p, k)
    PROVE  \E s \in RecordedScopes(p) : s.kind = k /\ s.name = repo /\ s.write
<1>1. p[k].declared
  BY DEF StagedWrite, LinkRequired
<1>2. CASE p[k].repos = {}
  <2>1. repo = "origin" /\ p[k].write
    BY <1>2 DEF StagedWrite
  <2> DEFINE s == [kind |-> k, name |-> "origin", write |-> p[k].write]
  <2>2. s \in RecordedScopes(p)
    BY <1>1, <1>2, Zenon DEF RecordedScopes
  <2> QED BY <2>1, <2>2
<1>3. CASE p[k].repos # {}
  <2>1. PICK r \in p[k].repos : repo = r.repo /\ r.write
    BY <1>3 DEF StagedWrite
  <2> DEFINE s == [kind |-> k, name |-> r.repo, write |-> r.write]
  <2>2. s \in {[kind |-> k, name |-> t.repo, write |-> t.write] : t \in p[k].repos}
    BY <2>1, Zenon
  <2>3. s.kind = k /\ s.name = r.repo /\ s.write = r.write
    BY Zenon
  <2> HIDE DEF s
  <2>4. s \in RecordedScopes(p)
    BY <1>1, <1>3, <2>2 DEF RecordedScopes
  <2> QED BY <2>1, <2>3, <2>4, Zenon
<1> QED BY <1>2, <1>3

\* Under open egress a writable scope has its critical finding.
LEMMA CriticalFinding ==
    ASSUME NEW p, NEW k \in Forges, p[k].declared, OpenEgress(p), WriteScopeIDs(p, k) # {}
    PROVE  /\ Finding(WriteRule(k), Concern("critical"), WriteScopeIDs(p, k)) \in Findings(p)
           /\ WriteRule(k) \in Lint(p)
<1>1. k \in {j \in DeclaredProviders(p) : WriteOpenEgress(p, j)}
  BY Declared DEF WriteOpenEgress, Forges
<1> QED BY <1>1, Zenon DEF Findings, CredentialFindings, Lint

\* The fields of a finding.
LEMMA FindingFields ==
    ASSUME NEW r, NEW d, NEW ids
    PROVE  /\ Finding(r, d, ids).rule = r /\ Finding(r, d, ids).axis = Registry[r].axis
           /\ Finding(r, d, ids).outcome = d[1] /\ Finding(r, d, ids).severity = d[2]
           /\ Finding(r, d, ids).scopes = ids
  BY DEF Finding

\* A staged write has its scope, and under open egress a critical finding names it.
LEMMA WriteIsReported ==
    ASSUME NEW p, IsProfile(p), NEW k \in Forges, NEW repo \in StagedWrite(p, k)
    PROVE  /\ \E s \in ScopesOf(p, k, repo) : s.draft.access \in {"read_write", "unknown"}
           /\ OpenEgress(p) =>
                 \E f \in Findings(p) : /\ f.severity = "critical" /\ f.axis = "credentials"
                                        /\ \E s \in ScopesOf(p, k, repo) : s.id \in f.scopes
<1>1. p[k].declared
  BY StagedDraft
<1>2. PICK d \in Range(Drafts(p, k)) : d.target = Shown(repo) /\ d.write /\ d.access \in {"read_write", "unknown"}
  BY StagedDraft
<1>3. PICK s \in CredentialScopes(p) : s.provider = k /\ s.draft = d /\ s.id \in WriteScopeIDs(p, k)
  BY <1>1, <1>2, DraftScope, Declared
<1>4. s \in ScopesOf(p, k, repo)
  BY <1>2, <1>3 DEF ScopesOf
<1>5. ASSUME OpenEgress(p)
      PROVE  \E f \in Findings(p) : f.severity = "critical" /\ f.axis = "credentials" /\ s.id \in f.scopes
  <2> DEFINE f == Finding(WriteRule(k), Concern("critical"), WriteScopeIDs(p, k))
  <2>1. f \in Findings(p)
    BY <1>1, <1>3, <1>5, CriticalFinding
  <2>2. f.severity = "critical" /\ f.axis = "credentials" /\ f.scopes = WriteScopeIDs(p, k)
    BY FindingFields, WriteRuleAxis DEF Concern
  <2> QED BY <1>3, <2>1, <2>2
<1> QED BY <1>2, <1>3, <1>4, <1>5, Zenon

\* What staging opens for writing is recorded in the session, shown in the
\* review and, under open egress, found critical, whatever repositories the
\* forges list (credentialScopesFromProfile, EvaluateAuthority).
THEOREM WriteReported == ReviewSpec => []StagedWriteIsReported
<1>1. IsProfile(prof) => StagedWriteIsReported
  <2> SUFFICES ASSUME IsProfile(prof), NEW k \in Forges, NEW repo \in StagedWrite(prof, k)
               PROVE  /\ \E s \in RecordedScopes(prof) : s.kind = k /\ s.name = repo /\ s.write
                      /\ \E s \in ScopesOf(prof, k, repo) : s.draft.access \in {"read_write", "unknown"}
                      /\ OpenEgress(prof) =>
                            \E f \in Findings(prof) :
                               /\ f.severity = "critical" /\ f.axis = "credentials"
                               /\ \E s \in ScopesOf(prof, k, repo) : s.id \in f.scopes
    BY Zenon DEF StagedWriteIsReported
  <2>1. \E s \in RecordedScopes(prof) : s.kind = k /\ s.name = repo /\ s.write
    BY StagedIsRecorded
  <2>2. \E s \in ScopesOf(prof, k, repo) : s.draft.access \in {"read_write", "unknown"}
    BY WriteIsReported
  <2>3. OpenEgress(prof) => \E f \in Findings(prof) :
                               /\ f.severity = "critical" /\ f.axis = "credentials"
                               /\ \E s \in ScopesOf(prof, k, repo) : s.id \in f.scopes
    BY WriteIsReported
  <2> QED BY <2>1, <2>2, <2>3, Zenon
<1> QED BY <1>1, ReviewInvariant, PTL

-----------------------------------------------------------------------------
(* Findings *)

Outs == {"concern", "unknown", "bounded", "not_applicable"}
Severities == {"critical", "high", "medium", "info"}

\* A finding that its rule allows, on the rule's axis.
Registered(f, axis) ==
    /\ f.rule \in RuleNames /\ f.axis = axis /\ Registry[f.rule].axis = axis
    /\ <<f.outcome, f.severity>> \in Registry[f.rule].allowed
    /\ f.outcome \in Outs /\ f.severity \in Severities

\* A finding of a registered rule with an allowed disposition is registered.
LEMMA RuleIsRegistered ==
    ASSUME NEW r \in RuleNames, NEW a, NEW o, NEW A, NEW x \in Outs, NEW y \in Severities,
           RuleOf(r) = Rule(a, o, A), <<x, y>> \in A, NEW ids
    PROVE  Registered(Finding(r, <<x, y>>, ids), a)
<1>1. Registry[r].axis = a /\ Registry[r].allowed = A
  BY DEF Registry, Rule
<1> HIDE DEF Registry
<1> QED BY <1>1, FindingFields DEF Registered

\* The rules of the registry.
LEMMA RulesAre ==
    /\ RuleOf("host-unrestricted") = Rule("network", 100, {Concern("critical")})
    /\ RuleOf("container-open-egress") = Rule("network", 110, {Concern("high")})
    /\ RuleOf("network.unknown") = Rule("network", 120, {Unknown("critical")})
    /\ RuleOf("egress-ignored") = Rule("network", 130, {Concern("medium")})
    /\ RuleOf("container-allowlist") = Rule("network", 140, {Bounded})
    /\ RuleOf("host-account") = Rule("files", 200, {Concern("critical")})
    /\ RuleOf("files.unknown") = Rule("files", 210, {Unknown("critical")})
    /\ RuleOf("files.workspace") = Rule("files", 220, {Bounded})
    /\ RuleOf("live-host-config") = Rule("projection", 300, {Concern("medium")})
    /\ RuleOf("projection.unknown") = Rule("projection", 310, {Unknown("high")})
    /\ RuleOf("projection.absent") = Rule("projection", 320, {Bounded})
    /\ RuleOf("projection.n/a") = Rule("projection", 330, {<<"not_applicable", "info">>})
    /\ RuleOf("secrets.injected") = Rule("secrets", 400, {Concern("high")})
    /\ RuleOf("secrets.absent") = Rule("secrets", 410, {Bounded})
    /\ RuleOf("github-write-open-egress") = Rule("credentials", 500, {Concern("critical")})
    /\ RuleOf("forgejo-write-open-egress") = Rule("credentials", 510, {Concern("critical")})
    /\ RuleOf("credentials.absent") = Rule("credentials", 590, {Bounded})
    /\ \A k \in Providers : \E o \in Nat : RuleOf(k) = CredentialRule(o)
  BY DEF RuleOf, Providers

\* Every disposition the evaluator gives is one its rule allows.
LEMMA RulesRegistered ==
    ASSUME NEW ids
    PROVE  /\ Registered(Finding("host-unrestricted", Concern("critical"), ids), "network")
           /\ Registered(Finding("container-open-egress", Concern("high"), ids), "network")
           /\ Registered(Finding("network.unknown", Unknown("critical"), ids), "network")
           /\ Registered(Finding("egress-ignored", Concern("medium"), ids), "network")
           /\ Registered(Finding("container-allowlist", Bounded, ids), "network")
           /\ Registered(Finding("host-account", Concern("critical"), ids), "files")
           /\ Registered(Finding("files.unknown", Unknown("critical"), ids), "files")
           /\ Registered(Finding("files.workspace", Bounded, ids), "files")
           /\ Registered(Finding("live-host-config", Concern("medium"), ids), "projection")
           /\ Registered(Finding("projection.unknown", Unknown("high"), ids), "projection")
           /\ Registered(Finding("projection.absent", Bounded, ids), "projection")
           /\ Registered(Finding("projection.n/a", <<"not_applicable", "info">>, ids), "projection")
           /\ Registered(Finding("secrets.injected", Concern("high"), ids), "secrets")
           /\ Registered(Finding("secrets.absent", Bounded, ids), "secrets")
           /\ Registered(Finding("github-write-open-egress", Concern("critical"), ids), "credentials")
           /\ Registered(Finding("forgejo-write-open-egress", Concern("critical"), ids), "credentials")
           /\ Registered(Finding("credentials.absent", Bounded, ids), "credentials")
           /\ \A k \in Providers : \A d \in {Concern("medium"), Concern("high"), Unknown("high")} :
                 Registered(Finding(k, d, ids), "credentials")
<1>1. /\ Registered(Finding("host-unrestricted", Concern("critical"), ids), "network")
      /\ Registered(Finding("container-open-egress", Concern("high"), ids), "network")
      /\ Registered(Finding("network.unknown", Unknown("critical"), ids), "network")
      /\ Registered(Finding("egress-ignored", Concern("medium"), ids), "network")
      /\ Registered(Finding("container-allowlist", Bounded, ids), "network")
  BY RulesAre, RuleIsRegistered DEF RuleNames, Concern, Unknown, Bounded, Outs, Severities
<1>2. /\ Registered(Finding("host-account", Concern("critical"), ids), "files")
      /\ Registered(Finding("files.unknown", Unknown("critical"), ids), "files")
      /\ Registered(Finding("files.workspace", Bounded, ids), "files")
  BY RulesAre, RuleIsRegistered DEF RuleNames, Concern, Unknown, Bounded, Outs, Severities
<1>3. /\ Registered(Finding("live-host-config", Concern("medium"), ids), "projection")
      /\ Registered(Finding("projection.unknown", Unknown("high"), ids), "projection")
      /\ Registered(Finding("projection.absent", Bounded, ids), "projection")
      /\ Registered(Finding("projection.n/a", <<"not_applicable", "info">>, ids), "projection")
  BY RulesAre, RuleIsRegistered DEF RuleNames, Concern, Unknown, Bounded, Outs, Severities
<1>4. /\ Registered(Finding("secrets.injected", Concern("high"), ids), "secrets")
      /\ Registered(Finding("secrets.absent", Bounded, ids), "secrets")
  BY RulesAre, RuleIsRegistered DEF RuleNames, Concern, Unknown, Bounded, Outs, Severities
<1>5. /\ Registered(Finding("github-write-open-egress", Concern("critical"), ids), "credentials")
      /\ Registered(Finding("forgejo-write-open-egress", Concern("critical"), ids), "credentials")
      /\ Registered(Finding("credentials.absent", Bounded, ids), "credentials")
  BY RulesAre, RuleIsRegistered DEF RuleNames, Concern, Unknown, Bounded, Outs, Severities
<1>6. ASSUME NEW k \in Providers, NEW d \in {Concern("medium"), Concern("high"), Unknown("high")}
      PROVE  Registered(Finding(k, d, ids), "credentials")
  BY RulesAre, RuleIsRegistered DEF RuleNames, Concern, Unknown, CredentialRule, Outs, Severities
<1> QED BY <1>1, <1>2, <1>3, <1>4, <1>5, <1>6, Zenon

\* The findings of each axis, case by case.
LEMMA NetworkCases ==
    ASSUME NEW p, NEW f
    PROVE  f \in NetworkFindings(p) <=>
             \/ Network(p) = "host" /\ f = Finding("host-unrestricted", Concern("critical"), {})
             \/ Network(p) = "open" /\ f = Finding("container-open-egress", Concern("high"), {})
             \/ /\ Network(p) = "allowlisted" /\ EgressValid(p)
                /\ f = Finding("container-allowlist", Bounded, {})
             \/ /\ Network(p) \notin {"host", "open"} /\ ~(Network(p) = "allowlisted" /\ EgressValid(p))
                /\ f = Finding("network.unknown", Unknown("critical"), {})
             \/ EgressIgnored(p) /\ f = Finding("egress-ignored", Concern("medium"), {})
  BY DEF NetworkFindings


LEMMA FileCases ==
    ASSUME NEW p, NEW f
    PROVE  f \in FileFindings(p) <=>
             \/ Files(p) = "account" /\ f = Finding("host-account", Concern("critical"), {})
             \/ Files(p) = "workspace" /\ f = Finding("files.workspace", Bounded, {})
             \/ Files(p) \notin {"account", "workspace"} /\ f = Finding("files.unknown", Unknown("critical"), {})
  BY DEF FileFindings

LEMMA ProjectionCases ==
    ASSUME NEW p, NEW f
    PROVE  f \in ProjectionFindings(p) <=>
             \/ Projection(p) = "n/a" /\ f = Finding("projection.n/a", <<"not_applicable", "info">>, {})
             \/ Projection(p) = "absent" /\ f = Finding("projection.absent", Bounded, {})
             \/ Projection(p) = "live" /\ f = Finding("live-host-config", Concern("medium"), {})
             \/ /\ Projection(p) \notin {"n/a", "absent", "live"}
                /\ f = Finding("projection.unknown", Unknown("high"), {})
  BY DEF ProjectionFindings

LEMMA SecretCases ==
    ASSUME NEW p, NEW f
    PROVE  f \in SecretFindings(p) <=>
             \/ p.secrets = "none" /\ f = Finding("secrets.absent", Bounded, {})
             \/ p.secrets # "none" /\ f = Finding("secrets.injected", Concern("high"), {})
  BY DEF SecretFindings

LEMMA CredentialCases ==
    ASSUME NEW p, NEW f
    PROVE  f \in CredentialFindings(p) <=>
             \/ DeclaredProviders(p) = {} /\ f = Finding("credentials.absent", Bounded, {})
             \/ \E k \in DeclaredProviders(p) : f = Finding(k, CredentialDisposition(p, k), ScopeIDs(p, k))
             \/ \E k \in DeclaredProviders(p) : /\ WriteOpenEgress(p, k)
                     /\ f = Finding(WriteRule(k), Concern("critical"), WriteScopeIDs(p, k))
  BY Zenon DEF CredentialFindings

\* Each part of an evaluation is registered on its own axis.
LEMMA AllRegistered ==
    ASSUME NEW p, NEW f
    PROVE  /\ f \in NetworkFindings(p) => Registered(f, "network") /\ f.scopes = {}
           /\ f \in FileFindings(p) => Registered(f, "files") /\ f.scopes = {}
           /\ f \in ProjectionFindings(p) => Registered(f, "projection") /\ f.scopes = {}
           /\ f \in SecretFindings(p) => Registered(f, "secrets") /\ f.scopes = {}
           /\ f \in CredentialFindings(p) => Registered(f, "credentials")
<1>1. f \in NetworkFindings(p) => Registered(f, "network") /\ f.scopes = {}
  BY NetworkCases, RulesRegistered, FindingFields
<1>2. f \in FileFindings(p) => Registered(f, "files") /\ f.scopes = {}
  BY FileCases, RulesRegistered, FindingFields
<1>3. f \in ProjectionFindings(p) => Registered(f, "projection") /\ f.scopes = {}
  BY ProjectionCases, RulesRegistered, FindingFields
<1>4. f \in SecretFindings(p) => Registered(f, "secrets") /\ f.scopes = {}
  BY SecretCases, RulesRegistered, FindingFields
<1>5. ASSUME f \in CredentialFindings(p) PROVE Registered(f, "credentials")
  <2>1. CASE f = Finding("credentials.absent", Bounded, {})
    BY <2>1, RulesRegistered
  <2>2. CASE \E k \in DeclaredProviders(p) : f = Finding(k, CredentialDisposition(p, k), ScopeIDs(p, k))
    <3>1. PICK k \in DeclaredProviders(p) : f = Finding(k, CredentialDisposition(p, k), ScopeIDs(p, k))
      BY <2>2
    <3>2. k \in Providers /\ CredentialDisposition(p, k) \in {Concern("medium"), Concern("high"), Unknown("high")}
      BY DEF DeclaredProviders, CredentialDisposition
    <3> QED BY <3>1, <3>2, RulesRegistered, Zenon
  <2>3. CASE \E k \in DeclaredProviders(p) : /\ WriteOpenEgress(p, k)
                     /\ f = Finding(WriteRule(k), Concern("critical"), WriteScopeIDs(p, k))
    <3>1. PICK k \in DeclaredProviders(p) : /\ WriteOpenEgress(p, k)
                     /\ f = Finding(WriteRule(k), Concern("critical"), WriteScopeIDs(p, k))
      BY <2>3
    <3>2. WriteRule(k) \in {"github-write-open-egress", "forgejo-write-open-egress"}
      BY DEF WriteRule
    <3> QED BY <3>1, <3>2, RulesRegistered
  <2> QED BY <1>5, <2>1, <2>2, <2>3, CredentialCases
<1> QED BY <1>1, <1>2, <1>3, <1>4, <1>5

\* The findings on an axis are those of its part.
LEMMA FindingsOnAxis ==
    ASSUME NEW p, NEW f \in Findings(p)
    PROVE  /\ f.axis \in Axes /\ Registered(f, f.axis)
           /\ f.axis = "network" <=> f \in NetworkFindings(p)
           /\ f.axis = "files" <=> f \in FileFindings(p)
           /\ f.axis = "projection" <=> f \in ProjectionFindings(p)
           /\ f.axis = "secrets" <=> f \in SecretFindings(p)
           /\ f.axis = "credentials" <=> f \in CredentialFindings(p)
<1>1. \/ f \in NetworkFindings(p) \/ f \in FileFindings(p) \/ f \in ProjectionFindings(p)
      \/ f \in SecretFindings(p) \/ f \in CredentialFindings(p)
  BY DEF Findings
<1>2. \A a : Registered(f, a) => f.axis = a
  BY DEF Registered
<1> QED BY <1>1, <1>2, AllRegistered DEF Axes

\* A part that bounds says so of its axis.
LEMMA BoundedAxes ==
    ASSUME NEW p, NEW f \in Findings(p)
    PROVE  /\ f.axis = "network" /\ Network(p) = "allowlisted" /\ EgressValid(p) => f.outcome = "bounded"
           /\ f.axis = "files" /\ Files(p) = "workspace" => f.outcome = "bounded"
<1>1. \A r : Finding(r, Bounded, {}).outcome = "bounded"
  BY FindingFields DEF Bounded
<1>2. ASSUME f \in NetworkFindings(p), Network(p) = "allowlisted", EgressValid(p) PROVE f.outcome = "bounded"
  BY <1>1, <1>2, NetworkCases DEF EgressIgnored
<1>3. ASSUME f \in FileFindings(p), Files(p) = "workspace" PROVE f.outcome = "bounded"
  BY <1>1, <1>3, FileCases
<1> QED BY <1>2, <1>3, FindingsOnAxis

\* The risk summary and the launch advisories never understate what the
\* evaluation reports (risk.go, lint.go against EvaluateAuthority).
THEOREM LegacyViews == ReviewSpec => []LegacyNeverSofter
<1>1. ASSUME IsProfile(prof), NEW axis \in {"network", "files"},
             RiskRestricted(prof, axis) \/ (axis = "network" /\ RiskLevel(prof) = "contained"),
             ~(axis = "network" /\ ~EgressValid(prof)), NEW f \in Findings(prof), f.axis = axis
      PROVE  f.outcome = "bounded"
  <2>1. CASE axis = "network"
    <3>1. Network(prof) = "allowlisted"
      BY <1>1, <2>1 DEF RiskRestricted, RiskLevel
    <3> QED BY <1>1, <2>1, <3>1, BoundedAxes
  <2>2. CASE axis = "files"
    BY <1>1, <2>2, BoundedAxes DEF RiskRestricted
  <2> QED BY <2>1, <2>2
<1>2. ASSUME IsProfile(prof), NEW k \in Forges, StagedWrite(prof, k) # {}
      PROVE  /\ LegacyForgeAccess(prof, k) = "read-WRITE"
             /\ OpenEgress(prof) => WriteRule(k) \in Lint(prof)
  <2>1. PICK repo : repo \in StagedWrite(prof, k)
    BY <1>2
  <2>2. prof[k].declared /\ \E d \in Range(Drafts(prof, k)) : d.write
    BY <1>2, <2>1, StagedDraft
  <2>3. WriteScopeIDs(prof, k) # {}
    BY <2>2, WriteScopes
  <2> QED BY <1>2, <2>2, <2>3, CriticalFinding DEF LegacyForgeAccess
<1>3. IsProfile(prof) => LegacyNeverSofter
  BY <1>1, <1>2, Zenon DEF LegacyNeverSofter
<1> QED BY <1>3, ReviewInvariant, PTL

-----------------------------------------------------------------------------
(* Widening *)

\* The repositories of a forge are the same, and whatever it grants it still
\* grants.
ForgeGrows(f, g) ==
    /\ g.declared /\ g.repos = f.repos /\ (f.write => g.write)
    /\ f.api # "off" => g.api # "off"

\* What all the edits of Widened have in common: q differs from p only where
\* it grants more.
Grows(p, q) ==
    /\ q.env = p.env \/ q.env = "host"
    /\ q.network = p.network \/ q.network = "allow"
    /\ q.egress = p.egress /\ q.projection = p.projection
    /\ q.secrets = p.secrets \/ q.secrets # "none"
    /\ \A k \in {"pnpm", "aws", "gcp", "kube", "pi"} : p[k] # "none" => q[k] # "none"
    /\ \A k \in Forges : p[k].declared => ForgeGrows(p[k], q[k])

\* Every widening of the run is a growth.
LEMMA WidenedGrows ==
    ASSUME NEW p, IsProfile(p), NEW q \in Widened(p)
    PROVE  IsProfile(q) /\ Grows(p, q)
<1>0. \A k \in Forges : p[k].declared => ForgeGrows(p[k], p[k])
  BY DEF ForgeGrows
<1>1. ASSUME NEW f \in {"env", "network", "secrets", "aws"}, NEW v \in Values[f], q = [p EXCEPT ![f] = v],
             <<f, v>> \in {<<"env", "host">>, <<"network", "allow">>, <<"secrets", "env">>, <<"aws", "profile">>}
      PROVE  IsProfile(q) /\ Grows(p, q)
  <2>1. IsProfile(q) /\ q[f] = v /\ \A g \in (Fields \cup Forges) \ {f} : q[g] = p[g]
    <3>1. f \in Fields
      BY FieldsIs
    <3>2. q = [p EXCEPT ![f] = v]
      BY <1>1, Zenon
    <3>3. IsProfile(q)
      BY <3>1, <3>2, FieldEdited
    <3>4. q[f] = v
      BY <3>1, <3>2 DEF IsProfile
    <3>5. ASSUME NEW g \in (Fields \cup Forges) \ {f} PROVE q[g] = p[g]
      BY <3>1, <3>2, FieldEdited
    <3> QED BY <3>3, <3>4, <3>5
  <2>2. \A k \in Forges : q[k] = p[k]
    BY <1>1, <2>1 DEF Forges
  <2>3. \A k \in Forges : p[k].declared => ForgeGrows(p[k], q[k])
    BY <1>0, <2>2
  <2> QED BY <1>1, <2>1, <2>3, FieldsIs DEF Grows
<1>2. ASSUME NEW k \in Forges, NEW g, g \in IF k = "github" THEN Github ELSE Forgejo, IsFiniteSet(g.repos),
             p[k].declared => ForgeGrows(p[k], g), q = [p EXCEPT ![k] = g]
      PROVE  IsProfile(q) /\ Grows(p, q)
  <2>1. IsProfile(q) /\ q[k] = g /\ \A f \in (Fields \cup Forges) \ {k} : q[f] = p[f]
    <3>1. q = [p EXCEPT ![k] = g]
      BY <1>2, Zenon
    <3>2. (g \in IF k = "github" THEN Github ELSE Forgejo) /\ IsFiniteSet(g.repos)
      BY <1>2, Zenon
    <3>3. IsProfile(q)
      BY <3>1, <3>2, ForgeEdited
    <3>4. q[k] = g
      BY <3>1, <3>2 DEF IsProfile
    <3>5. ASSUME NEW f \in (Fields \cup Forges) \ {k} PROVE q[f] = p[f]
      BY <3>1, <3>2, ForgeEdited
    <3> QED BY <3>3, <3>4, <3>5
  <2>2. \A f \in Fields : q[f] = p[f]
    BY <2>1, FieldsIs
  <2>3. \A j \in Forges : p[j].declared => ForgeGrows(p[j], q[j])
    BY <1>0, <1>2, <2>1
  <2> QED BY <2>1, <2>2, <2>3, FieldsIs DEF Grows
<1>3. CASE q = [p EXCEPT !.env = "host"]
  BY <1>1, <1>3 DEF Values
<1>4. CASE q = [p EXCEPT !.network = "allow"]
  BY <1>1, <1>4 DEF Values
<1>5. CASE q = [p EXCEPT !.secrets = "env"]
  BY <1>1, <1>5 DEF Values
<1>6. CASE q = [p EXCEPT !.aws = "profile"]
  BY <1>1, <1>6 DEF Values
<1>7. CASE ~p.github.declared /\ q = [p EXCEPT !.github = DefaultForge.github]
  <2>1. DefaultForge.github \in Github /\ IsFiniteSet(DefaultForge.github.repos)
    <3>1. DefaultForge.github \in Github /\ DefaultForge.github.repos = {}
      BY DEF DefaultForge, Github
    <3> QED BY <3>1, FS_EmptySet
  <2> QED BY <1>2, <1>7, <2>1 DEF Forges
<1>8. CASE \E k \in Forges : p[k].declared /\ q = [p EXCEPT ![k].write = TRUE]
  <2>1. PICK k \in Forges : p[k].declared /\ q = [p EXCEPT ![k].write = TRUE]
    BY <1>8
  <2> DEFINE g == [p[k] EXCEPT !.write = TRUE]
  <2>2. CASE k = "github"
    <3>1. p.github \in Github /\ IsFiniteSet(p.github.repos)
      BY <2>1, <2>2, GithubFields
    <3>2. g \in Github /\ g.repos = p.github.repos /\ ForgeGrows(p[k], g)
      BY <2>2, <3>1 DEF Github, ForgeGrows
    <3> HIDE DEF g
    <3>3. q = [p EXCEPT ![k] = g]
      BY <2>1 DEF g
    <3> QED BY <1>2, <2>2, <3>1, <3>2, <3>3
  <2>3. CASE k = "forgejo"
    <3>1. p.forgejo \in Forgejo /\ IsFiniteSet(p.forgejo.repos)
      BY <2>1, <2>3, ForgejoFields
    <3>2. g \in Forgejo /\ g.repos = p.forgejo.repos /\ ForgeGrows(p[k], g)
      BY <2>3, <3>1 DEF Forgejo, ForgeGrows
    <3> HIDE DEF g
    <3>3. q = [p EXCEPT ![k] = g]
      BY <2>1 DEF g
    <3> QED BY <1>2, <2>3, <3>1, <3>2, <3>3
  <2> QED BY <2>2, <2>3 DEF Forges
<1>9. CASE p.github.declared /\ q = [p EXCEPT !.github.api = "perm"]
  <2> DEFINE g == [p.github EXCEPT !.api = "perm"]
  <2>1. p.github \in Github /\ IsFiniteSet(p.github.repos)
    BY <1>9, GithubFields
  <2>2. g \in Github /\ g.repos = p.github.repos /\ ForgeGrows(p["github"], g)
    BY <2>1 DEF Github, ForgeGrows
  <2> HIDE DEF g
  <2>3. q = [p EXCEPT !["github"] = g]
    BY <1>9 DEF g
  <2> QED BY <1>2, <2>1, <2>2, <2>3 DEF Forges
<1>10. CASE p.forgejo.declared /\ q = [p EXCEPT !.forgejo.api = "acked"]
  <2> DEFINE g == [p.forgejo EXCEPT !.api = "acked"]
  <2>1. p.forgejo \in Forgejo /\ IsFiniteSet(p.forgejo.repos)
    BY <1>10, ForgejoFields
  <2>2. g \in Forgejo /\ g.repos = p.forgejo.repos /\ ForgeGrows(p["forgejo"], g)
    BY <2>1 DEF Forgejo, ForgeGrows
  <2> HIDE DEF g
  <2>3. q = [p EXCEPT !["forgejo"] = g]
    BY <1>10 DEF g
  <2> QED BY <1>2, <2>1, <2>2, <2>3 DEF Forges
<1> QED BY <1>3, <1>4, <1>5, <1>6, <1>7, <1>8, <1>9, <1>10 DEF Widened

\* Loading admits two environments and two network modes.
LEMMA ReviewedFields ==
    ASSUME NEW p, IsProfile(p), Reviewed(p)
    PROVE  p.env \in {"host", "container"} /\ p.network \in {"allow", "deny"}
<1> DEFINE q == [p EXCEPT !.projection = "none"]
<1>1. q.env \in {"host", "container"} /\ q.network \in {"allow", "deny"}
  BY DEF Reviewed, Loadable
<1>2. q.env = p.env /\ q.network = p.network
  BY FieldsIs DEF IsProfile
<1> QED BY <1>1, <1>2, Zenon

\* The severities in order, and the place of every finding in it.
LEMMA SeverityOrders ==
    /\ SeverityOrder("critical") = 1 /\ SeverityOrder("high") = 2
    /\ SeverityOrder("medium") = 3 /\ SeverityOrder("info") = 4
  BY DEF SeverityOrder

LEMMA SeverityBounds ==
    ASSUME NEW p, NEW f \in Findings(p)
    PROVE  SeverityOrder(f.severity) \in 1..4
<1>1. f.severity \in Severities
  BY FindingsOnAxis DEF Registered
<1> QED BY <1>1, SeverityOrders DEF Severities

\* What one part of an evaluation must find for its axis not to get milder.
LEMMA NoMilderPart ==
    ASSUME NEW p, NEW q, NEW axis,
           \A f \in Findings(p) : f.axis = axis =>
              \/ f.outcome = "unknown"
              \/ \E g \in Findings(q) : g.axis = axis /\ SeverityOrder(g.severity) <= SeverityOrder(f.severity)
    PROVE  NoMilder(Findings(p), Findings(q), axis)
  BY Zenon DEF NoMilder

\* Widening makes no axis milder: the network,
LEMMA NetworkWidens ==
    ASSUME NEW p, IsProfile(p), Reviewed(p), NEW q, IsProfile(q), Reviewed(q), Grows(p, q)
    PROVE  NoMilder(Findings(p), Findings(q), "network")
<1> SUFFICES ASSUME NEW f \in Findings(p), f.axis = "network", f.outcome # "unknown"
             PROVE  \E g \in NetworkFindings(q) : SeverityOrder(g.severity) <= SeverityOrder(f.severity)
  <2>1. \A g \in NetworkFindings(q) : g \in Findings(q) /\ g.axis = "network"
    BY AllRegistered DEF Findings, Registered
  <2> QED BY <2>1, NoMilderPart
<1>1. f \in NetworkFindings(p) /\ SeverityOrder(f.severity) \in 1..4
  BY FindingsOnAxis, SeverityBounds
<1>2. CASE q.env = "host"
  <2> DEFINE g == Finding("host-unrestricted", Concern("critical"), {})
  <2>1. g \in NetworkFindings(q)
    BY <1>2, NetworkCases DEF Network
  <2>2. g.severity = "critical"
    BY FindingFields DEF Concern
  <2> QED BY <1>1, <2>1, <2>2, SeverityOrders
<1>3. CASE q.env # "host"
  <2>1. p.env = "container" /\ q.env = "container"
    BY <1>3, ReviewedFields DEF Grows
  <2>2. CASE p.network = "deny" /\ q.network = "allow"
    <3> DEFINE g == Finding("container-open-egress", Concern("high"), {})
    <3>1. g \in NetworkFindings(q) /\ g.severity = "high"
      BY <2>1, <2>2, NetworkCases, FindingFields DEF Network, Concern
    <3>2. f = Finding("container-allowlist", Bounded, {})
      <4>1. Network(p) = "allowlisted" /\ ~EgressIgnored(p)
        BY <2>1, <2>2 DEF Network, EgressIgnored
      <4>2. Finding("network.unknown", Unknown("critical"), {}).outcome = "unknown"
        BY FindingFields DEF Unknown
      <4> QED BY <1>1, <4>1, <4>2, NetworkCases
    <3>3. f.severity = "info"
      BY <3>2, FindingFields DEF Bounded
    <3> QED BY <3>1, <3>3, SeverityOrders
  <2>3. CASE q.network = p.network
    <3>1. Network(q) = Network(p) /\ EgressValid(q) = EgressValid(p) /\ EgressIgnored(q) = EgressIgnored(p)
      BY <2>1, <2>3 DEF Network, EgressValid, EgressIgnored, Grows
    <3>2. f \in NetworkFindings(q)
      BY <1>1, <3>1, NetworkCases
    <3> QED BY <1>1, <3>2
  <2> QED BY <2>2, <2>3, ReviewedFields DEF Grows
<1> QED BY <1>2, <1>3

\* the files,
LEMMA FilesWiden ==
    ASSUME NEW p, NEW q, Grows(p, q)
    PROVE  NoMilder(Findings(p), Findings(q), "files")
<1> SUFFICES ASSUME NEW f \in Findings(p), f.axis = "files"
             PROVE  \E g \in FileFindings(q) : SeverityOrder(g.severity) <= SeverityOrder(f.severity)
  <2>1. \A g \in FileFindings(q) : g \in Findings(q) /\ g.axis = "files"
    BY AllRegistered DEF Findings, Registered
  <2> QED BY <2>1, NoMilderPart
<1>1. f \in FileFindings(p) /\ SeverityOrder(f.severity) \in 1..4
  BY FindingsOnAxis, SeverityBounds
<1>2. CASE q.env = "host"
  <2> DEFINE g == Finding("host-account", Concern("critical"), {})
  <2>1. g \in FileFindings(q) /\ g.severity = "critical"
    BY <1>2, FileCases, FindingFields DEF Files, Concern
  <2> QED BY <1>1, <2>1, SeverityOrders
<1>3. CASE q.env = p.env
  <2>1. Files(q) = Files(p)
    BY <1>3 DEF Files
  <2>2. f \in FileFindings(q)
    BY <1>1, <2>1, FileCases
  <2> QED BY <1>1, <2>2
<1> QED BY <1>2, <1>3 DEF Grows

\* the projected host configuration (which a host profile does not have),
LEMMA ProjectionWidens ==
    ASSUME NEW p, NEW q, Grows(p, q), q.env # "host"
    PROVE  NoMilder(Findings(p), Findings(q), "projection")
<1> SUFFICES ASSUME NEW f \in Findings(p), f.axis = "projection"
             PROVE  \E g \in ProjectionFindings(q) : SeverityOrder(g.severity) <= SeverityOrder(f.severity)
  <2>1. \A g \in ProjectionFindings(q) : g \in Findings(q) /\ g.axis = "projection"
    BY AllRegistered DEF Findings, Registered
  <2> QED BY <2>1, NoMilderPart
<1>1. f \in ProjectionFindings(p) /\ SeverityOrder(f.severity) \in 1..4
  BY FindingsOnAxis, SeverityBounds
<1>2. Projection(q) = Projection(p)
  BY DEF Grows, Projection
<1>3. f \in ProjectionFindings(q)
  BY <1>1, <1>2, ProjectionCases
<1> QED BY <1>1, <1>3

\* the secrets,
LEMMA SecretsWiden ==
    ASSUME NEW p, NEW q, Grows(p, q)
    PROVE  NoMilder(Findings(p), Findings(q), "secrets")
<1> SUFFICES ASSUME NEW f \in Findings(p), f.axis = "secrets"
             PROVE  \E g \in SecretFindings(q) : SeverityOrder(g.severity) <= SeverityOrder(f.severity)
  <2>1. \A g \in SecretFindings(q) : g \in Findings(q) /\ g.axis = "secrets"
    BY AllRegistered DEF Findings, Registered
  <2> QED BY <2>1, NoMilderPart
<1>1. f \in SecretFindings(p) /\ SeverityOrder(f.severity) \in 1..4
  BY FindingsOnAxis, SeverityBounds
<1>2. CASE q.secrets = p.secrets
  <2>1. f \in SecretFindings(q)
    BY <1>1, <1>2, SecretCases
  <2> QED BY <1>1, <2>1
<1>3. CASE q.secrets # "none"
  <2> DEFINE g == Finding("secrets.injected", Concern("high"), {})
  <2>1. g \in SecretFindings(q) /\ g.severity = "high"
    BY <1>3, SecretCases, FindingFields DEF Concern
  <2>2. f.severity \in {"high", "info"}
    BY <1>1, SecretCases, FindingFields DEF Concern, Bounded
  <2> QED BY <2>1, <2>2, SeverityOrders
<1> QED BY <1>2, <1>3 DEF Grows

\* A draft of a forge can write when its origin or a repository can.
LEMMA HasWrite ==
    ASSUME NEW p, IsProfile(p), NEW k \in Forges, p[k].declared
    PROVE  (\E d \in Range(Drafts(p, k)) : d.write) <=>
             \/ p[k].repos = {} /\ p[k].write
             \/ \E r \in p[k].repos : EffectiveWrite(p[k], r)
<1>1. Range(Drafts(p, k)) = RepositorySet(p, k) \cup APISet(p, k)
  BY ForgeRange
<1>2. \A d \in APISet(p, k) : ~d.write
  BY DEF APISet, Draft
<1>3. CASE p[k].repos = {}
  <2> DEFINE d == OriginDraft(p[k], Lifetime(p, k), UnknownMode(p, k))
  <2>1. d.write = p[k].write
    BY OriginFields
  <2>2. RepositorySet(p, k) = {d}
    BY <1>3 DEF RepositorySet
  <2> HIDE DEF d
  <2> QED BY <1>1, <1>2, <1>3, <2>1, <2>2, Zenon
<1>4. CASE p[k].repos # {}
  <2> DEFINE d(r) == RepositoryDraft(p[k], r, Lifetime(p, k), UnknownMode(p, k))
  <2>1. \A r : d(r).write = EffectiveWrite(p[k], r)
    BY RepositoryFields
  <2>2. RepositorySet(p, k) = {d(r) : r \in p[k].repos}
    BY <1>4 DEF RepositorySet
  <2> HIDE DEF d
  <2> QED BY <1>1, <1>2, <1>4, <2>1, <2>2, Zenon
<1> QED BY <1>3, <1>4

\* A forge that writes still writes when it grows.
LEMMA WriteWidens ==
    ASSUME NEW p, IsProfile(p), NEW q, IsProfile(q), Grows(p, q), NEW k \in Forges, p[k].declared,
           \E d \in Range(Drafts(p, k)) : d.write
    PROVE  q[k].declared /\ \E d \in Range(Drafts(q, k)) : d.write
<1>1. q[k].declared /\ q[k].repos = p[k].repos /\ (p[k].write => q[k].write)
  BY DEF Grows, ForgeGrows
<1>2. \/ p[k].repos = {} /\ p[k].write
      \/ \E r \in p[k].repos : EffectiveWrite(p[k], r)
  BY HasWrite
<1>3. \/ q[k].repos = {} /\ q[k].write
      \/ \E r \in q[k].repos : EffectiveWrite(q[k], r)
  BY <1>1, <1>2, Zenon DEF EffectiveWrite
<1> QED BY <1>1, <1>3, HasWrite

\* A provider's finding gets no milder, unless either is unknown.
LEMMA ProviderWidens ==
    ASSUME NEW p, IsProfile(p), NEW q, IsProfile(q), Grows(p, q), NEW k \in DeclaredProviders(p),
           ~ProviderUnknown(p, k), HighAuthority(p, k)
    PROVE  HighAuthority(q, k)
<1>1. CASE k \notin {"github", "forgejo"}
  BY <1>1, Zenon DEF HighAuthority
<1>2. CASE k \in {"github", "forgejo"}
  <2>1. k \in Forges /\ p[k].declared
    BY <1>2, Declared DEF Forges
  <2>2. p[k].api # "off" \/ \E d \in Range(Drafts(p, k)) : d.write
    BY <1>2, Zenon DEF HighAuthority, ProviderUnknown
  <2>3. CASE p[k].api # "off"
    <3>1. q[k].api # "off"
      BY <2>1, <2>3 DEF Grows, ForgeGrows
    <3> QED BY <3>1, Zenon DEF HighAuthority
  <2>4. CASE \E d \in Range(Drafts(p, k)) : d.write
    <3>1. \E d \in Range(Drafts(q, k)) : d.write
      BY <2>1, <2>4, WriteWidens
    <3> QED BY <3>1, Zenon DEF HighAuthority
  <2> QED BY <2>2, <2>3, <2>4
<1> QED BY <1>1, <1>2

\* A declared provider stays declared.
LEMMA DeclaredWidens ==
    ASSUME NEW p, NEW q, Grows(p, q)
    PROVE  DeclaredProviders(p) \subseteq DeclaredProviders(q)
<1> SUFFICES ASSUME NEW k \in DeclaredProviders(p) PROVE k \in DeclaredProviders(q)
  OBVIOUS
<1>1. k \in Forges \/ k \in {"pnpm", "aws", "gcp", "kube"} \/ k = "pi-oauth"
  BY Declared DEF Providers, Forges
<1>2. CASE k \in Forges
  BY <1>2, Declared DEF Grows, ForgeGrows
<1>3. CASE k \in {"pnpm", "aws", "gcp", "kube"}
  BY <1>3, Declared DEF Grows
<1>4. CASE k = "pi-oauth"
  <2>1. p["pi"] # "none" => q["pi"] # "none"
    BY DEF Grows
  <2> QED BY <1>4, <2>1, Declared
<1> QED BY <1>1, <1>2, <1>3, <1>4

\* and the credentials.
LEMMA CredentialsWiden ==
    ASSUME NEW p, IsProfile(p), NEW q, IsProfile(q), Grows(p, q)
    PROVE  NoMilder(Findings(p), Findings(q), "credentials")
<1> USE DEF Concern, Unknown, Bounded
<1>1. \A g \in CredentialFindings(q) : g \in Findings(q) /\ g.axis = "credentials"
  BY AllRegistered DEF Findings, Registered
<1>2. \A f \in Findings(p) : f.axis = "credentials" => f \in CredentialFindings(p)
  BY FindingsOnAxis
<1>3. CASE \E g \in CredentialFindings(q) : g.outcome = "unknown"
  BY <1>1, <1>3, Zenon DEF NoMilder
<1>4. CASE \A g \in CredentialFindings(q) : g.outcome # "unknown"
  <2> SUFFICES ASSUME NEW f \in CredentialFindings(p), f.outcome # "unknown", f \in Findings(p)
               PROVE  \E g \in CredentialFindings(q) : SeverityOrder(g.severity) <= SeverityOrder(f.severity)
    BY <1>1, <1>2, NoMilderPart
  <2>0. SeverityOrder(f.severity) \in 1..4
    BY SeverityBounds
  <2>1. CASE f = Finding("credentials.absent", Bounded, {})
    <3>1. f.severity = "info"
      BY <2>1, FindingFields
    <3>2. PICK g : g \in CredentialFindings(q)
      BY Zenon DEF CredentialFindings
    <3>3. SeverityOrder(g.severity) \in 1..4
      BY <1>1, <3>2, SeverityBounds
    <3> QED BY <3>1, <3>2, <3>3, SeverityOrders
  <2>2. CASE \E k \in DeclaredProviders(p) : f = Finding(k, CredentialDisposition(p, k), ScopeIDs(p, k))
    <3>1. PICK k \in DeclaredProviders(p) : f = Finding(k, CredentialDisposition(p, k), ScopeIDs(p, k))
      BY <2>2
    <3> DEFINE g == Finding(k, CredentialDisposition(q, k), ScopeIDs(q, k))
    <3>2. k \in DeclaredProviders(q) /\ g \in CredentialFindings(q)
      BY DeclaredWidens, CredentialCases
    <3>3. /\ f.outcome = CredentialDisposition(p, k)[1] /\ f.severity = CredentialDisposition(p, k)[2]
          /\ g.outcome = CredentialDisposition(q, k)[1] /\ g.severity = CredentialDisposition(q, k)[2]
      BY <3>1, FindingFields
    <3>4. ~ProviderUnknown(p, k) /\ ~ProviderUnknown(q, k)
      BY <1>4, <3>2, <3>3 DEF CredentialDisposition
    <3>5. HighAuthority(p, k) => HighAuthority(q, k)
      BY <3>4, ProviderWidens
    <3>6. f.severity = (IF HighAuthority(p, k) THEN "high" ELSE "medium")
          /\ g.severity = (IF HighAuthority(q, k) THEN "high" ELSE "medium")
      BY <3>3, <3>4 DEF CredentialDisposition
    <3> HIDE DEF g
    <3> QED BY <3>2, <3>5, <3>6, SeverityOrders
  <2>3. CASE \E k \in DeclaredProviders(p) : /\ WriteOpenEgress(p, k)
                     /\ f = Finding(WriteRule(k), Concern("critical"), WriteScopeIDs(p, k))
    <3>1. PICK k \in DeclaredProviders(p) : /\ WriteOpenEgress(p, k)
                     /\ f = Finding(WriteRule(k), Concern("critical"), WriteScopeIDs(p, k))
      BY <2>3
    <3>2. k \in Forges /\ p[k].declared
      BY <3>1, Declared DEF WriteOpenEgress, Forges
    <3>3. \E d \in Range(Drafts(q, k)) : d.write
      BY <3>1, <3>2, WriteScopes, WriteWidens DEF WriteOpenEgress
    <3>4. OpenEgress(q)
      BY <3>1 DEF WriteOpenEgress, OpenEgress, Grows
    <3>5. WriteOpenEgress(q, k) /\ k \in DeclaredProviders(q)
      BY <3>2, <3>3, <3>4, WriteScopes, DeclaredWidens DEF WriteOpenEgress, Forges
    <3> DEFINE g == Finding(WriteRule(k), Concern("critical"), WriteScopeIDs(q, k))
    <3>6. g \in CredentialFindings(q) /\ g.severity = "critical"
      BY <3>5, CredentialCases, FindingFields
    <3> QED BY <2>0, <3>6, SeverityOrders
  <2> QED BY <2>1, <2>2, <2>3, CredentialCases
<1> QED BY <1>3, <1>4

\* Authority that grows is never reported as smaller by EvaluateAuthority:
\* every widening is a growth, and no axis gets milder under growth.
THEOREM WideningReported == ReviewSpec => []WideningNeverSoftens
<1>1. ASSUME IsProfile(prof), Reviewed(prof), NEW q \in Widened(prof), Reviewed(q), NEW axis \in Axes
      PROVE  NoMilder(Findings(prof), Findings(q), axis) \/ (axis = "projection" /\ q.env = "host")
  <2>1. IsProfile(q) /\ Grows(prof, q)
    BY <1>1, WidenedGrows
  <2> QED BY <1>1, <2>1, NetworkWidens, FilesWiden, ProjectionWidens, SecretsWiden, CredentialsWiden DEF Axes
<1>2. IsProfile(prof) => WideningNeverSoftens
  BY <1>1, Zenon DEF WideningNeverSoftens, Authored
<1> QED BY <1>2, ReviewInvariant, PTL

-----------------------------------------------------------------------------
(* Validation *)

\* A finite set under a strict total order, and the rank of its elements.
StrictOrder(S, L) ==
    /\ \A f \in S : <<f, f>> \notin L
    /\ \A f, g, h \in S : <<f, g>> \in L /\ <<g, h>> \in L => <<f, h>> \in L
    /\ \A f, g \in S : f = g \/ <<f, g>> \in L \/ <<g, f>> \in L
Below(S, L, f) == {g \in S : <<g, f>> \in L}

\* In a strict order the number of elements below grows along the order,
LEMMA RankGrows ==
    ASSUME NEW S, IsFiniteSet(S), NEW L, StrictOrder(S, L), NEW f \in S, NEW g \in S, <<f, g>> \in L
    PROVE  /\ Cardinality(Below(S, L, f)) \in Nat /\ Cardinality(Below(S, L, g)) \in Nat
           /\ Cardinality(Below(S, L, f)) < Cardinality(Below(S, L, g))
<1>1. IsFiniteSet(Below(S, L, g))
  BY FS_Subset DEF Below
<1>2. Below(S, L, f) \in SUBSET Below(S, L, g)
  BY DEF StrictOrder, Below
<1>3. f \in Below(S, L, g) /\ f \notin Below(S, L, f)
  BY DEF StrictOrder, Below
<1>4. IsFiniteSet(Below(S, L, f)) /\ Cardinality(Below(S, L, f)) <= Cardinality(Below(S, L, g))
      /\ Cardinality(Below(S, L, g)) # Cardinality(Below(S, L, f))
  BY <1>1, <1>2, <1>3, FS_Subset
<1>5. Cardinality(Below(S, L, f)) \in Nat /\ Cardinality(Below(S, L, g)) \in Nat
  BY <1>1, <1>4, FS_CardinalityType
<1> QED BY <1>4, <1>5

\* tells the elements apart,
LEMMA RankTells ==
    ASSUME NEW S, IsFiniteSet(S), NEW L, StrictOrder(S, L), NEW f \in S, NEW g \in S,
           Cardinality(Below(S, L, f)) = Cardinality(Below(S, L, g))
    PROVE  f = g
<1>1. CASE <<f, g>> \in L
  BY <1>1, RankGrows
<1>2. CASE <<g, f>> \in L
  BY <1>2, RankGrows
<1> QED BY <1>1, <1>2 DEF StrictOrder

\* and is below the size of the set,
LEMMA RankBound ==
    ASSUME NEW S, IsFiniteSet(S), NEW L, StrictOrder(S, L), NEW f \in S
    PROVE  Cardinality(Below(S, L, f)) \in 0..(Cardinality(S) - 1)
<1>1. Cardinality(S) \in Nat
  BY FS_CardinalityType
<1>2. Below(S, L, f) \in SUBSET S /\ Below(S, L, f) # S
  BY DEF StrictOrder, Below
<1>3. /\ IsFiniteSet(Below(S, L, f)) /\ Cardinality(Below(S, L, f)) <= Cardinality(S)
      /\ Cardinality(S) # Cardinality(Below(S, L, f))
  BY <1>2, FS_Subset
<1>4. Cardinality(Below(S, L, f)) \in Nat
  BY <1>3, FS_CardinalityType
<1> QED BY <1>1, <1>3, <1>4

\* Every rank is taken, once.
LEMMA RanksAreTaken ==
    ASSUME NEW S, IsFiniteSet(S), NEW L, StrictOrder(S, L), NEW i \in 1..Cardinality(S)
    PROVE  \E f \in S : Cardinality(Below(S, L, f)) = i - 1
<1> DEFINE n == Cardinality(S)
           rank == [f \in S |-> Cardinality(Below(S, L, f))]
<1>1. n \in Nat
  BY FS_CardinalityType
<1>2. ASSUME NEW f \in S PROVE Cardinality(Below(S, L, f)) \in 0..(n - 1)
  BY RankBound
<1>3. ASSUME NEW f \in S, NEW g \in S, Cardinality(Below(S, L, f)) = Cardinality(Below(S, L, g))
      PROVE  f = g
  BY <1>3, RankTells
<1>4. rank \in Injection(S, 0..(n - 1))
  BY <1>2, <1>3 DEF Injection, IsInjective
<1>5. IsFiniteSet(0..(n - 1)) /\ Cardinality(0..(n - 1)) = n
  <2> HIDE DEF n
  <2>1. 0 \in Int /\ n - 1 \in Int
    BY <1>1
  <2>2. /\ IsFiniteSet(0..(n - 1))
        /\ Cardinality(0..(n - 1)) = IF 0 > n - 1 THEN 0 ELSE (n - 1) - 0 + 1
    BY <2>1, FS_Interval
  <2> QED BY <1>1, <2>2
<1>6. rank \in Surjection(S, 0..(n - 1))
  BY <1>4, <1>5, FS_Injection
<1>7. i - 1 \in 0..(n - 1)
  BY <1>1
<1> QED BY <1>6, <1>7 DEF Surjection

AxisKey(f) == AxisOrder(f.axis)
OutcomeKey(f) == OutcomeOrder(f.outcome)
SeverityKey(f) == SeverityOrder(f.severity)
OrdinalKey(f) == Registry[f.rule].ordinal

\* compareFindings, as an order by four keys.
LEMMA LessIs ==
    ASSUME NEW f, NEW g
    PROVE  FindingLess(f, g) <=>
             \/ AxisKey(f) < AxisKey(g)
             \/ AxisKey(f) = AxisKey(g) /\ OutcomeKey(f) < OutcomeKey(g)
             \/ AxisKey(f) = AxisKey(g) /\ OutcomeKey(f) = OutcomeKey(g) /\ SeverityKey(f) < SeverityKey(g)
             \/ /\ AxisKey(f) = AxisKey(g) /\ OutcomeKey(f) = OutcomeKey(g) /\ SeverityKey(f) = SeverityKey(g)
                /\ OrdinalKey(f) < OrdinalKey(g)
<1> DEFINE a == <<AxisKey(f), OutcomeKey(f), SeverityKey(f), OrdinalKey(f)>>
           b == <<AxisKey(g), OutcomeKey(g), SeverityKey(g), OrdinalKey(g)>>
<1>1. FindingLess(f, g) <=> \E i \in 1..4 : a[i] < b[i] /\ \A j \in 1..(i - 1) : a[j] = b[j]
  BY Zenon DEF FindingLess, AxisKey, OutcomeKey, SeverityKey, OrdinalKey
<1>2. /\ a[1] = AxisKey(f) /\ a[2] = OutcomeKey(f) /\ a[3] = SeverityKey(f) /\ a[4] = OrdinalKey(f)
      /\ b[1] = AxisKey(g) /\ b[2] = OutcomeKey(g) /\ b[3] = SeverityKey(g) /\ b[4] = OrdinalKey(g)
  OBVIOUS
<1> HIDE DEF a, b
<1>3. /\ 1..4 = {1, 2, 3, 4} /\ 1..(1 - 1) = {} /\ 1..(2 - 1) = {1} /\ 1..(3 - 1) = {1, 2}
      /\ 1..(4 - 1) = {1, 2, 3}
  OBVIOUS
<1> QED BY <1>1, <1>2, <1>3

\* The keys of a registered finding are numbers, and its axis can be told
\* from its key.
LEMMA KeyTypes ==
    /\ \A r \in RuleNames : RuleOf(r).ordinal \in Nat
    /\ \A a \in Axes : AxisOrder(a) \in Nat
    /\ \A a, b \in Axes : AxisOrder(a) = AxisOrder(b) => a = b
    /\ \A o \in Outs : OutcomeOrder(o) \in Nat
    /\ \A s \in Severities : SeverityOrder(s) \in Nat
<1>1. ASSUME NEW r \in RuleNames PROVE RuleOf(r).ordinal \in Nat
  BY DEF RuleNames, Providers, RuleOf, Rule, CredentialRule
<1>2. /\ \A a \in Axes : AxisOrder(a) \in Nat
      /\ \A a, b \in Axes : AxisOrder(a) = AxisOrder(b) => a = b
  <2>1. /\ AxisOrder("network") = 1 /\ AxisOrder("files") = 2 /\ AxisOrder("projection") = 3
        /\ AxisOrder("secrets") = 4 /\ AxisOrder("credentials") = 5
    BY DEF AxisOrder
  <2> QED BY <2>1 DEF Axes
<1>3. \A o \in Outs : OutcomeOrder(o) \in Nat
  BY DEF Outs, OutcomeOrder
<1>4. \A s \in Severities : SeverityOrder(s) \in Nat
  BY DEF Severities, SeverityOrder
<1> QED BY <1>1, <1>2, <1>3, <1>4

\* A rule speaks at most once in an evaluation.
LEMMA RuleTells ==
    ASSUME NEW p, NEW f \in Findings(p), NEW g \in Findings(p), f.rule = g.rule
    PROVE  f = g
<1>1. f.axis = g.axis /\ f.axis \in Axes
  BY FindingsOnAxis DEF Registered
<1>2. CASE f.axis = "network"
  <2>1. f \in NetworkFindings(p) /\ g \in NetworkFindings(p)
    BY <1>1, <1>2, FindingsOnAxis
  <2>2. \A x \in NetworkFindings(p) :
           \/ x.rule = "host-unrestricted" /\ x = Finding("host-unrestricted", Concern("critical"), {})
           \/ x.rule = "container-open-egress" /\ x = Finding("container-open-egress", Concern("high"), {})
           \/ x.rule = "container-allowlist" /\ x = Finding("container-allowlist", Bounded, {})
           \/ x.rule = "network.unknown" /\ x = Finding("network.unknown", Unknown("critical"), {})
           \/ x.rule = "egress-ignored" /\ x = Finding("egress-ignored", Concern("medium"), {})
    BY NetworkCases, FindingFields
  <2> QED BY <2>1, <2>2
<1>3. CASE f.axis = "files"
  <2>1. f \in FileFindings(p) /\ g \in FileFindings(p)
    BY <1>1, <1>3, FindingsOnAxis
  <2>2. \A x \in FileFindings(p) :
           \/ x.rule = "host-account" /\ x = Finding("host-account", Concern("critical"), {})
           \/ x.rule = "files.workspace" /\ x = Finding("files.workspace", Bounded, {})
           \/ x.rule = "files.unknown" /\ x = Finding("files.unknown", Unknown("critical"), {})
    BY FileCases, FindingFields
  <2> QED BY <2>1, <2>2
<1>4. CASE f.axis = "projection"
  <2>1. f \in ProjectionFindings(p) /\ g \in ProjectionFindings(p)
    BY <1>1, <1>4, FindingsOnAxis
  <2>2. \A x \in ProjectionFindings(p) :
           \/ x.rule = "projection.n/a" /\ x = Finding("projection.n/a", <<"not_applicable", "info">>, {})
           \/ x.rule = "projection.absent" /\ x = Finding("projection.absent", Bounded, {})
           \/ x.rule = "live-host-config" /\ x = Finding("live-host-config", Concern("medium"), {})
           \/ x.rule = "projection.unknown" /\ x = Finding("projection.unknown", Unknown("high"), {})
    BY ProjectionCases, FindingFields
  <2> QED BY <2>1, <2>2
<1>5. CASE f.axis = "secrets"
  <2>1. f \in SecretFindings(p) /\ g \in SecretFindings(p)
    BY <1>1, <1>5, FindingsOnAxis
  <2>2. \A x \in SecretFindings(p) :
           \/ x.rule = "secrets.absent" /\ x = Finding("secrets.absent", Bounded, {})
           \/ x.rule = "secrets.injected" /\ x = Finding("secrets.injected", Concern("high"), {})
    BY SecretCases, FindingFields
  <2> QED BY <2>1, <2>2
<1>6. CASE f.axis = "credentials"
  <2> DEFINE Of(x, k) == x = Finding(k, CredentialDisposition(p, k), ScopeIDs(p, k))
             Critical(x, k) == x = Finding(WriteRule(k), Concern("critical"), WriteScopeIDs(p, k))
  <2>1. ASSUME NEW x \in CredentialFindings(p)
        PROVE  \/ DeclaredProviders(p) = {} /\ x = Finding("credentials.absent", Bounded, {})
               \/ \E k \in DeclaredProviders(p) : Of(x, k)
               \/ \E k \in {"github", "forgejo"} : Critical(x, k)
    BY <2>1, CredentialCases, Zenon DEF WriteOpenEgress
  <2>2. ASSUME NEW x, NEW k, Of(x, k) PROVE x.rule = k
    BY <2>2, FindingFields
  <2>3. ASSUME NEW x, NEW k, Critical(x, k) PROVE x.rule = WriteRule(k)
    BY <2>3, FindingFields
  <2>4. \A k \in DeclaredProviders(p) : k \in Providers
    BY Declared
  <2>5. Finding("credentials.absent", Bounded, {}).rule = "credentials.absent"
    BY FindingFields
  <2>6. f \in CredentialFindings(p) /\ g \in CredentialFindings(p)
    BY <1>1, <1>6, FindingsOnAxis
  <2>7. \A k \in {"github", "forgejo"} : WriteRule(k) \notin Providers /\ WriteRule(k) # "credentials.absent"
    BY DEF WriteRule, Providers
  <2>8. \A k, l \in {"github", "forgejo"} : WriteRule(k) = WriteRule(l) => k = l
    BY DEF WriteRule
  <2>9. CASE f = Finding("credentials.absent", Bounded, {}) /\ DeclaredProviders(p) = {}
    BY <2>1, <2>3, <2>5, <2>6, <2>7, <2>9
  <2>10. CASE \E k \in DeclaredProviders(p) : Of(f, k)
    <3>1. PICK k \in DeclaredProviders(p) : Of(f, k)
      BY <2>10
    <3>2. f.rule = k
      BY <2>2, <3>1
    <3> HIDE DEF Of, Critical
    <3>3. Of(g, k)
      BY <2>1, <2>2, <2>3, <2>4, <2>6, <2>7, <3>1, <3>2
    <3> QED BY <3>1, <3>3 DEF Of
  <2>11. CASE \E k \in {"github", "forgejo"} : Critical(f, k)
    <3>1. PICK k \in {"github", "forgejo"} : Critical(f, k)
      BY <2>11
    <3>2. f.rule = WriteRule(k)
      BY <2>3, <3>1
    <3> HIDE DEF Of, Critical
    <3>3. Critical(g, k)
      BY <2>1, <2>2, <2>3, <2>4, <2>5, <2>6, <2>7, <2>8, <3>1, <3>2
    <3> QED BY <3>1, <3>3 DEF Critical
  <2> QED BY <2>1, <2>6, <2>9, <2>10, <2>11
<1> QED BY <1>1, <1>2, <1>3, <1>4, <1>5, <1>6 DEF Axes

\* There are finitely many rules, and so finitely many findings.
LEMMA RuleNamesFinite == IsFiniteSet(RuleNames)
<1> DEFINE ordinal == [r \in RuleNames |-> RuleOf(r).ordinal]
<1>1. \A r \in RuleNames : RuleOf(r).ordinal \in 0..590
  BY DEF RuleNames, Providers, RuleOf, Rule, CredentialRule
<1>2. ASSUME NEW r \in RuleNames, NEW s \in RuleNames, RuleOf(r).ordinal = RuleOf(s).ordinal
      PROVE  r = s
  BY <1>2 DEF RuleNames, Providers, RuleOf, Rule, CredentialRule
<1>3. ordinal \in Injection(RuleNames, 0..590)
  BY <1>1, <1>2 DEF Injection, IsInjective
<1>4. IsFiniteSet(0..590)
  <2>1. 0 \in Int /\ 590 \in Int
    OBVIOUS
  <2> QED BY <2>1, FS_Interval, Zenon
<1> QED BY <1>3, <1>4, FS_Injection

LEMMA FindingsFinite ==
    ASSUME NEW p
    PROVE  IsFiniteSet(Findings(p))
<1> DEFINE rule == [f \in Findings(p) |-> f.rule]
<1>1. rule \in Injection(Findings(p), RuleNames)
  BY RuleTells, FindingsOnAxis DEF Registered, Injection, IsInjective
<1> QED BY <1>1, RuleNamesFinite, FS_Injection

LessPairs(p) == {fg \in Findings(p) \X Findings(p) : FindingLess(fg[1], fg[2])}

\* authorityFindingLess orders the findings of an evaluation: two that agree
\* on every key would have the same place on the same axis, hence the same
\* rule.
LEMMA FindingsOrdered ==
    ASSUME NEW p
    PROVE  StrictOrder(Findings(p), LessPairs(p))
<1>1. ASSUME NEW f \in Findings(p)
      PROVE  /\ AxisKey(f) \in Nat /\ OutcomeKey(f) \in Nat /\ SeverityKey(f) \in Nat
             /\ OrdinalKey(f) \in Nat /\ f.rule \in RuleNames /\ f.axis \in Axes
             /\ Registry[f.rule].axis = f.axis
  <2>1. f.axis \in Axes /\ Registered(f, f.axis)
    BY FindingsOnAxis
  <2>2. OrdinalKey(f) = RuleOf(f.rule).ordinal
    BY <2>1 DEF OrdinalKey, Registry, Registered
  <2> QED BY <2>1, <2>2, KeyTypes DEF Registered, AxisKey, OutcomeKey, SeverityKey
<1>2. ASSUME NEW f \in Findings(p), NEW g \in Findings(p)
      PROVE  <<f, g>> \in LessPairs(p) <=> FindingLess(f, g)
  BY DEF LessPairs
<1>3. ASSUME NEW f \in Findings(p) PROVE ~FindingLess(f, f)
  BY <1>1, LessIs
<1>4. ASSUME NEW f \in Findings(p), NEW g \in Findings(p), NEW h \in Findings(p),
             FindingLess(f, g), FindingLess(g, h)
      PROVE  FindingLess(f, h)
  BY <1>1, <1>4, LessIs
<1>5. ASSUME NEW f \in Findings(p), NEW g \in Findings(p), ~FindingLess(f, g), ~FindingLess(g, f)
      PROVE  f = g
  <2>1. AxisKey(f) = AxisKey(g) /\ OrdinalKey(f) = OrdinalKey(g)
    BY <1>1, <1>5, LessIs
  <2>2. f.axis = g.axis
    BY <1>1, <2>1, KeyTypes DEF AxisKey
  <2>3. f.rule = g.rule
    <3>1. DOMAIN Registry = RuleNames
      BY DEF Registry
    <3> QED BY <1>1, <2>1, <2>2, <3>1, RegistryAssumption DEF ValidateFindingRegistry, OrdinalKey
  <2> QED BY <2>3, RuleTells
<1> QED BY <1>2, <1>3, <1>4, <1>5 DEF StrictOrder

\* EvaluateAuthority lists every finding once, in order.
LEMMA EvaluationLists ==
    ASSUME NEW p
    PROVE  /\ Cardinality(Findings(p)) \in Nat
           /\ DOMAIN EvaluateAuthority(p) = 1..Cardinality(Findings(p))
           /\ \A i \in 1..Cardinality(Findings(p)) :
                 /\ EvaluateAuthority(p)[i] \in Findings(p)
                 /\ Cardinality(Below(Findings(p), LessPairs(p), EvaluateAuthority(p)[i])) = i - 1
           /\ Range(EvaluateAuthority(p)) = Findings(p)
<1> DEFINE F == Findings(p)
           n == Cardinality(F)
           e == EvaluateAuthority(p)
<1>1. n \in Nat /\ IsFiniteSet(F) /\ StrictOrder(F, LessPairs(p))
  BY FindingsFinite, FindingsOrdered, FS_CardinalityType
<1>2. \A f \in F : {g \in F : FindingLess(g, f)} = Below(F, LessPairs(p), f)
  BY DEF LessPairs, Below
<1>3. e = [i \in 1..n |-> CHOOSE f \in F : Cardinality({g \in F : FindingLess(g, f)}) = i - 1]
  BY Zenon DEF EvaluateAuthority
<1> HIDE DEF F, n, e
<1>4. ASSUME NEW i \in 1..n PROVE e[i] \in F /\ Cardinality(Below(F, LessPairs(p), e[i])) = i - 1
  <2>1. \E f \in F : Cardinality({g \in F : FindingLess(g, f)}) = i - 1
    <3>1. PICK f \in F : Cardinality(Below(F, LessPairs(p), f)) = i - 1
      BY <1>1, RanksAreTaken DEF n
    <3>2. {g \in F : FindingLess(g, f)} = Below(F, LessPairs(p), f)
      BY <1>2
    <3> QED BY <3>1, <3>2, Zenon
  <2>2. e[i] = CHOOSE f \in F : Cardinality({g \in F : FindingLess(g, f)}) = i - 1
    BY <1>3
  <2>3. e[i] \in F /\ Cardinality({g \in F : FindingLess(g, e[i])}) = i - 1
    BY <2>1, <2>2, Zenon
  <2> QED BY <1>2, <2>3
<1>5. DOMAIN e = 1..n
  BY <1>3
<1>6. ASSUME NEW f \in F PROVE f \in Range(e)
  <2> DEFINE i == Cardinality(Below(F, LessPairs(p), f)) + 1
  <2>1. i \in 1..n
    BY <1>1, RankBound DEF n
  <2>2. Cardinality(Below(F, LessPairs(p), e[i])) = Cardinality(Below(F, LessPairs(p), f)) /\ e[i] \in F
    <3>1. Cardinality(Below(F, LessPairs(p), f)) \in Int
      BY <1>1, RankBound DEF n
    <3> QED BY <1>4, <2>1, <3>1
  <2>3. e[i] = f
    BY <1>1, <2>2, RankTells
  <2> QED BY <1>5, <2>1, <2>3 DEF Range
<1>7. Range(e) = F
  BY <1>4, <1>5, <1>6 DEF Range
<1> QED BY <1>1, <1>4, <1>5, <1>7 DEF F, n, e

\* No scope has a target that is not fit to be shown.
LEMMA ShownIsFit == \A t : Fit(Shown(t)) /\ (t # "brittle" => Fit(Labelled(Shown(t))))
  BY DEF Shown, Fit, Labelled

\* Which values lose their fitness in a label.
LEMMA MislabelledIs ==
    ASSUME NEW p
    PROVE  Mislabelled(p) <=> p.aws = "brittle" \/ (p.github.declared /\ p.github.api = "brittle")
  BY DEF Mislabelled, Fit, Labelled

\* Every scope of a reviewed profile has a target that validation accepts, but
\* for that of a mislabelled value.
LEMMA ScopesAreValid ==
    ASSUME NEW p, IsProfile(p), Reviewed(p), ~Mislabelled(p), NEW s \in CredentialScopes(p)
    PROVE  ScopeValid(s)
<1>1. PICK k \in DeclaredProviders(p) :
         s \in {[id |-> <<k, i>>, provider |-> k, draft |-> Drafts(p, k)[i]] : i \in DOMAIN Drafts(p, k)}
  BY DEF CredentialScopes
<1>2. PICK i \in DOMAIN Drafts(p, k) : s = [id |-> <<k, i>>, provider |-> k, draft |-> Drafts(p, k)[i]]
  BY <1>1
<1>3. s.provider = k /\ s.draft = Drafts(p, k)[i] /\ s.draft \in Range(Drafts(p, k))
  BY <1>2 DEF Range
<1>4. CASE k \in Forges
  <2>1. s.draft \in RepositorySet(p, k) \cup APISet(p, k)
    BY <1>3, <1>4, ForgeRange, Declared
  <2>2. ASSUME NEW d \in RepositorySet(p, k) PROVE Fit(d.target)
    <3>1. Fit("origin")
      BY DEF Fit
    <3> QED BY <3>1, ShownIsFit, OriginFields, RepositoryFields DEF RepositorySet
  <2>3. ASSUME NEW d \in APISet(p, k) PROVE Fit(d.target)
    <3>1. Fit("account") /\ Fit("api-default")
      BY DEF Fit
    <3>2. k = "github" => p.github.api # "brittle"
      BY <1>4, Declared, MislabelledIs DEF Forges
    <3> QED BY <3>1, <3>2, <1>4, ShownIsFit DEF APISet, Draft, Forges
  <2> QED BY <1>3, <1>4, <2>1, <2>2, <2>3 DEF ScopeValid, Forges
<1>5. CASE k = "pi-oauth"
  <2>1. Drafts(p, k) = <<PiDraft(p)>>
    BY <1>5 DEF Drafts
  <2>2. s.draft = PiDraft(p)
    BY <1>3, <2>1 DEF Range
  <2>3. p.pi = "luna"
    <3> DEFINE q == [p EXCEPT !.projection = "none"]
    <3>1. p.pi # "none"
      BY <1>5, Declared
    <3>2. q.pi = p.pi
      BY FieldsIs DEF IsProfile
    <3>3. q.pi # "none" => q.pi = "luna"
      BY Zenon DEF Reviewed, Loadable, ValidatePi
    <3> QED BY <3>1, <3>2, <3>3, Zenon
  <2>4. s.draft.target = "luna"
    BY <2>2, <2>3 DEF PiDraft, Draft
  <2> QED BY <2>4 DEF ScopeValid, Fit
<1>6. CASE k \in {"pnpm", "aws", "gcp", "kube"}
  <2>1. Drafts(p, k) = <<CloudDraft(k, p)>>
    BY <1>6 DEF Drafts
  <2>2. s.draft = CloudDraft(k, p)
    BY <1>3, <2>1 DEF Range
  <2>3. Fit(CloudDraft(k, p).target)
    <3>1. Fit("declared") /\ Fit("registry") /\ Fit("adc")
      BY DEF Fit
    <3>2. CASE k = "pnpm"
      BY <3>1, <3>2 DEF CloudDraft, Draft
    <3>3. CASE k = "aws"
      <4>1. p.aws # "brittle"
        BY MislabelledIs
      <4> QED BY <3>3, <4>1, ShownIsFit DEF CloudDraft, Draft
    <3>4. CASE k = "gcp"
      BY <3>1, <3>4, ShownIsFit DEF CloudDraft, Draft
    <3>5. CASE k = "kube"
      BY <3>1, <3>5, ShownIsFit DEF CloudDraft, Draft
    <3> QED BY <1>6, <3>2, <3>3, <3>4, <3>5
  <2> QED BY <1>3, <1>6, <2>2, <2>3 DEF ScopeValid
<1> QED BY <1>4, <1>5, <1>6, Declared DEF Providers, Forges

\* A mislabelled value has a scope that validation refuses.
LEMMA MislabelledScope ==
    ASSUME NEW p, IsProfile(p), Mislabelled(p)
    PROVE  \E s \in CredentialScopes(p) : ~ScopeValid(s)
<1>1. \E k \in DeclaredProviders(p) : \E d \in Range(Drafts(p, k)) : ~Fit(d.target)
  <2>1. Labelled(Shown("brittle")) = "odd" /\ ~Fit("odd")
    BY DEF Labelled, Shown, Fit
  <2>2. CASE p.aws = "brittle"
    <3>1. "aws" \in DeclaredProviders(p)
      BY <2>2, Declared
    <3>2. Range(Drafts(p, "aws")) = {CloudDraft("aws", p)}
      BY One DEF Drafts
    <3>3. CloudDraft("aws", p).target = "odd"
      BY <2>1, <2>2 DEF CloudDraft, Draft
    <3> QED BY <2>1, <3>1, <3>2, <3>3
  <2>3. CASE p.github.declared /\ p.github.api = "brittle"
    <3> DEFINE d == Draft(Labelled(Shown(p.github.api)), "scoped_api", GithubLifetime(p.github), "declared",
                          p.github.api = "odd", FALSE)
    <3>1. "github" \in DeclaredProviders(p)
      BY <2>3, Declared DEF Forges
    <3>2. d \in APISet(p, "github")
      BY <2>3 DEF APISet
    <3>3. d.target = "odd"
      BY <2>1, <2>3 DEF Draft
    <3> HIDE DEF d
    <3>4. d \in Range(Drafts(p, "github"))
      BY <2>3, <3>2, ForgeRange DEF Forges
    <3> QED BY <2>1, <3>1, <3>3, <3>4
  <2> QED BY <2>2, <2>3, MislabelledIs
<1>2. PICK k \in DeclaredProviders(p) : \E d \in Range(Drafts(p, k)) : ~Fit(d.target)
  BY <1>1
<1>3. PICK d \in Range(Drafts(p, k)) : ~Fit(d.target)
  BY <1>2
<1>4. PICK s \in CredentialScopes(p) : s.draft = d
  BY DraftScope
<1> QED BY <1>3, <1>4, Zenon DEF ScopeValid

\* The identifiers of the scopes are those the findings name.
LEMMA ScopesAreFound ==
    ASSUME NEW p
    PROVE  {s.id : s \in CredentialScopes(p)} = UNION {f.scopes : f \in Findings(p)}
<1> DEFINE ids == {s.id : s \in CredentialScopes(p)}
<1>1. ASSUME NEW x \in ids PROVE \E k \in DeclaredProviders(p) : x \in ScopeIDs(p, k)
  BY DEF CredentialScopes, ScopeIDs
<1>2. ASSUME NEW k \in DeclaredProviders(p), NEW x \in ScopeIDs(p, k) PROVE x \in ids
  <2>1. PICK i \in DOMAIN Drafts(p, k) : x = <<k, i>>
    BY <1>2 DEF ScopeIDs
  <2> DEFINE s == [id |-> <<k, i>>, provider |-> k, draft |-> Drafts(p, k)[i]]
  <2>2. s \in {[id |-> <<k, j>>, provider |-> k, draft |-> Drafts(p, k)[j]] : j \in DOMAIN Drafts(p, k)}
    BY <2>1, Zenon
  <2>3. s.id = x
    BY <2>1
  <2> HIDE DEF s
  <2>4. s \in CredentialScopes(p)
    BY <2>2 DEF CredentialScopes
  <2> QED BY <2>3, <2>4
<1>3. ASSUME NEW k \in DeclaredProviders(p)
      PROVE  \E f \in Findings(p) : f.scopes = ScopeIDs(p, k)
  <2> DEFINE f == Finding(k, CredentialDisposition(p, k), ScopeIDs(p, k))
  <2>1. f \in Findings(p)
    BY CredentialCases DEF Findings
  <2> QED BY <2>1, FindingFields
<1>4. ASSUME NEW f \in Findings(p), NEW x \in f.scopes
      PROVE  \E k \in DeclaredProviders(p) : x \in ScopeIDs(p, k)
  <2>1. f \in CredentialFindings(p)
    BY AllRegistered DEF Findings
  <2>2. \A k : WriteScopeIDs(p, k) \subseteq ScopeIDs(p, k)
    BY DEF WriteScopeIDs, ScopeIDs
  <2> QED BY <2>1, <2>2, CredentialCases, FindingFields
<1> HIDE DEF ids
<1>5. ids = UNION {f.scopes : f \in Findings(p)}
  BY <1>1, <1>2, <1>3, <1>4
<1> QED BY <1>5 DEF ids

\* Every axis has an answer.
LEMMA AxesAnswered ==
    ASSUME NEW p
    PROVE  {f.axis : f \in Findings(p)} = Axes
<1>1. PICK a, b, c, d, e : /\ a \in NetworkFindings(p) /\ b \in FileFindings(p) /\ c \in ProjectionFindings(p)
                           /\ d \in SecretFindings(p) /\ e \in CredentialFindings(p)
  <2>1. /\ NetworkFindings(p) # {} /\ FileFindings(p) # {} /\ ProjectionFindings(p) # {}
        /\ SecretFindings(p) # {}
    BY Zenon DEF NetworkFindings, FileFindings, ProjectionFindings, SecretFindings
  <2>2. CredentialFindings(p) # {}
    BY Zenon DEF CredentialFindings
  <2> QED BY <2>1, <2>2
<1>2. /\ a.axis = "network" /\ b.axis = "files" /\ c.axis = "projection" /\ d.axis = "secrets"
      /\ e.axis = "credentials" /\ {a, b, c, d, e} \subseteq Findings(p)
  <2>1. a.axis = "network"
    BY <1>1, AllRegistered, Zenon DEF Registered
  <2>2. b.axis = "files"
    BY <1>1, AllRegistered, Zenon DEF Registered
  <2>3. c.axis = "projection"
    BY <1>1, AllRegistered, Zenon DEF Registered
  <2>4. d.axis = "secrets"
    BY <1>1, AllRegistered, Zenon DEF Registered
  <2>5. e.axis = "credentials"
    BY <1>1, AllRegistered, Zenon DEF Registered
  <2>6. a \in Findings(p) /\ b \in Findings(p) /\ c \in Findings(p) /\ d \in Findings(p) /\ e \in Findings(p)
    BY <1>1 DEF Findings
  <2> QED BY <2>1, <2>2, <2>3, <2>4, <2>5, <2>6
<1>3. \A f \in Findings(p) : f.axis \in Axes
  BY FindingsOnAxis
<1> QED BY <1>2, <1>3 DEF Axes

\* The evaluation of a reviewed profile without a mislabelled value satisfies
\* every clause of its validation.
LEMMA ReviewedIsValid ==
    ASSUME NEW p, IsProfile(p), Reviewed(p), ~Mislabelled(p)
    PROVE  EvaluationValid(EvaluateAuthority(p), CredentialScopes(p))
<1> DEFINE e == EvaluateAuthority(p)
           n == Cardinality(Findings(p))
           ids == {s.id : s \in CredentialScopes(p)}
           rank(f) == Cardinality(Below(Findings(p), LessPairs(p), f))
<1>1. /\ n \in Nat /\ DOMAIN e = 1..n /\ Range(e) = Findings(p)
      /\ \A i \in 1..n : e[i] \in Findings(p) /\ rank(e[i]) = i - 1
  BY EvaluationLists
<1>2. DOMAIN Registry = RuleNames
  BY DEF Registry
<1>3. ASSUME NEW i \in DOMAIN e
      PROVE  /\ e[i].rule \in DOMAIN Registry /\ e[i].axis = Registry[e[i].rule].axis
             /\ <<e[i].outcome, e[i].severity>> \in Registry[e[i].rule].allowed
             /\ e[i].scopes \subseteq ids
  <2>1. e[i] \in Findings(p)
    BY <1>1
  <2>2. e[i].scopes \subseteq ids
    BY <2>1, ScopesAreFound
  <2>3. Registered(e[i], e[i].axis)
    BY <2>1, FindingsOnAxis
  <2> QED BY <1>2, <2>2, <2>3 DEF Registered
<1>4. ASSUME NEW i \in DOMAIN e, NEW j \in 1..(i - 1)
      PROVE  e[j].rule # e[i].rule /\ ~FindingLess(e[i], e[j])
  <2>1. /\ i \in 1..n /\ j \in 1..n /\ j < i
        /\ e[i] \in Findings(p) /\ e[j] \in Findings(p) /\ rank(e[i]) = i - 1 /\ rank(e[j]) = j - 1
    BY <1>1
  <2>2. e[j].rule # e[i].rule
    <3>1. e[j] # e[i]
      BY <2>1
    <3> QED BY <2>1, <3>1, RuleTells
  <2>3. ASSUME FindingLess(e[i], e[j]) PROVE FALSE
    <3>1. <<e[i], e[j]>> \in LessPairs(p)
      BY <2>1, <2>3 DEF LessPairs
    <3>2. rank(e[i]) < rank(e[j])
      BY <2>1, <3>1, FindingsFinite, FindingsOrdered, RankGrows
    <3> QED BY <2>1, <3>2
  <2> QED BY <2>2, <2>3
<1>5. {f.axis : f \in Range(e)} = Axes /\ ids = UNION {f.scopes : f \in Range(e)}
  BY <1>1, AxesAnswered, ScopesAreFound
<1>6. \A s \in CredentialScopes(p) : ScopeValid(s)
  BY ScopesAreValid
<1> QED BY <1>3, <1>4, <1>5, <1>6, Zenon DEF EvaluationValid

\* The evaluation of a reviewed profile passes ValidateAuthorityEvaluation, its
\* findings registered, in order and without repetition, answering all five
\* axes and naming every credential scope, exactly when no AWS identity and no
\* API permission became unfit in its label.
THEOREM EvaluationPasses == ReviewSpec => []EvaluationIsValid
<1>1. IsProfile(prof) => EvaluationIsValid
  <2>1. ASSUME IsProfile(prof), Reviewed(prof), ~Mislabelled(prof)
        PROVE  EvaluationValid(EvaluateAuthority(prof), CredentialScopes(prof))
    BY <2>1, ReviewedIsValid
  <2>2. ASSUME IsProfile(prof), Mislabelled(prof)
        PROVE  ~EvaluationValid(EvaluateAuthority(prof), CredentialScopes(prof))
    BY <2>2, MislabelledScope, Zenon DEF EvaluationValid
  <2> QED BY <2>1, <2>2, Zenon DEF EvaluationIsValid, Authored
<1> QED BY <1>1, ReviewInvariant, PTL
=============================================================================
