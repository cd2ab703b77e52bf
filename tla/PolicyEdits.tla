---------------------------- MODULE PolicyEdits ----------------------------
(***************************************************************************)
(* Commands that rewrite one safeslop.cue: profile create and delete,      *)
(* profile egress add and remove, profile credentials set and clear, and   *)
(* profile promote, which turns an ad-hoc session into a profile through a *)
(* plan that was previewed earlier.  Each reads the file, renders a whole  *)
(* new text and hands it to ReplacePolicyAtomic, which takes the policy    *)
(* lock, checks what it was told to check, and swaps the file.             *)
(*                                                                         *)
(* A text maps the names of its profiles to what each of them grants:      *)
(* exact egress rules and Forge, the forge credentials.  A SHA-256 of a    *)
(* text is the text.                                                       *)
(***************************************************************************)
EXTENDS Naturals, FiniteSets, TLC

CONSTANTS
    Names,       \* profile names a command may use
    Builtins,    \* those of builtin profiles
    Rules,       \* exact egress rules (fqdn and port)
    Forge,       \* forge credentials of a profile
    Commands,    \* commands that may run at the same time
    Absent,      \* no file, no text
    MaxRev,      \* bound: grant changes of the session
    MaxEdits     \* bound: transactions

ASSUME NamesAssumption == Builtins \subseteq Names
ASSUME PowersAssumption == Forge \notin Rules
ASSUME BoundsAssumption == MaxRev \in Nat /\ MaxEdits \in Nat

VARIABLES
    file,            \* the policy file
    lock,            \* {} or the command that holds its flock
    pc, cmd,         \* commands, and the transaction each has in hand
    wrote, report,   \* ghosts: whether it swapped the file; the last report
    status, grants, rev,   \* the ad-hoc session: Status, EgressGrants, GrantRevision
    plan,            \* the promotion plan on disk
    edits            \* transactions so far

store == <<file, lock>>
ghost == <<report, wrote>>
sess  == <<status, grants, rev>>
vars  == <<store, pc, cmd, ghost, sess, plan, edits>>

Powers   == Rules \cup {Forge}
NewText  == [n \in {} |-> {}]
Texts    == UNION {[S -> SUBSET Powers] : S \in SUBSET Names}
ASSUME AbsentAssumption == Absent \notin Texts   \* a missing file is no text
Exists   == file # Absent
Profiles(t) == IF t = Absent THEN {} ELSE DOMAIN t
\* The text with profile n set to p.
With(t, n, p) == [m \in Profiles(t) \cup {n} |-> IF m = n THEN p ELSE t[m]]
\* The text without profile n.
Without(t, n) == [m \in Profiles(t) \ {n} |-> t[m]]

\* What a command hands to ReplacePolicyAtomic: the content, ExpectedHash,
\* CreateOnly; and (ghost) the text its operator reviewed.
NoCmd == [op |-> "none", content |-> Absent, expected |-> Absent, createOnly |-> FALSE,
          reviewed |-> Absent]
Ops == {"none", "edit", "egress", "promote"}

Goto(c, l) == pc' = [pc EXCEPT ![c] = l]

\* Every variable stays in its domain.
TypeOK ==
    /\ file \in Texts \cup {Absent} /\ lock \in SUBSET Commands
    /\ pc \in [Commands -> {"idle", "wait", "check", "swap", "sync"}]
    /\ cmd \in [Commands -> [op : Ops, content : Texts \cup {Absent}, createOnly : BOOLEAN,
                             expected : Texts \cup {Absent}, reviewed : Texts \cup {Absent}]]
    /\ wrote \in [Commands -> BOOLEAN]
    /\ report \in {"none", "known-committed", "known-failed", "commit-uncertain"} \X BOOLEAN
    /\ status \in {"created", "running", "stopped"}
    /\ grants \in SUBSET Rules /\ rev \in 0..MaxRev
    /\ plan = Absent \/ plan.base \in Texts \cup {Absent}
    /\ edits \in 0..MaxEdits

Init ==
    /\ file = Absent /\ lock = {}
    /\ pc = [c \in Commands |-> "idle"] /\ cmd = [c \in Commands |-> NoCmd]
    /\ wrote = [c \in Commands |-> FALSE] /\ report = <<"none", FALSE>>
    /\ status = "created" /\ grants = {} /\ rev = 0
    /\ plan = Absent /\ edits = 0

-----------------------------------------------------------------------------
(* Commands read the file and prepare a transaction *)

\* Start command c with transaction t.
Submit(c, t) ==
    /\ cmd' = [cmd EXCEPT ![c] = t]
    /\ Goto(c, "wait")
    /\ edits < MaxEdits /\ edits' = edits + 1
    /\ report' = <<"none", FALSE>>
    /\ UNCHANGED <<store, wrote, sess, plan>>

\* An edit without any expectation of the text it replaces.
Blind(t) == [NoCmd EXCEPT !.op = "edit", !.content = t]

\* profile create: create or update, from an empty configuration if need be.
ProfileCreate(c) ==
    /\ pc[c] = "idle"
    /\ \E n \in Names : Submit(c, Blind(With(file, n, {})))

ProfileDelete(c) ==
    /\ pc[c] = "idle"
    /\ \E n \in Profiles(file) : Submit(c, Blind(Without(file, n)))

\* applyProfileForgeCredentials, clearProfileForgeCredentials
CredentialEdits(n, t) == {With(t, n, t[n] \cup {Forge}), With(t, n, t[n] \ {Forge})}

\* profile credentials set and clear.
ProfileCredentials(c) ==
    /\ pc[c] = "idle"
    /\ \E n \in Profiles(file) : \E t \in CredentialEdits(n, file) : Submit(c, Blind(t))

\* mutateProfilePersistentEgress: add what is absent, remove what is there.
EgressMutations(n, t) ==
    {With(t, n, t[n] \cup {g}) : g \in Rules \ t[n]}
        \cup {With(t, n, t[n] \ {g}) : g \in Rules \cap t[n]}

\* profile egress add and remove compare --expected-policy-hash with the text
\* they load, and then write without an ExpectedHash.
ProfileEgress(c) ==
    /\ pc[c] = "idle"
    /\ \E n \in Profiles(file) : \E t \in EgressMutations(n, file) :
        Submit(c, [NoCmd EXCEPT !.op = "egress", !.content = t, !.reviewed = file])

-----------------------------------------------------------------------------
(* Promotion *)

\* renderPromotionCandidate: the selected grants become persistent rules.
Candidate(t, n, sel) == With(t, n, sel \cap grants)

\* targetFree
TargetFree(n, t) == n \notin Profiles(t) \cup Builtins

\* Prepare: the evidence of now, and the candidate it leads to.
Plan(n, sel) ==
    [base |-> file, name |-> n, sel |-> sel, rev |-> rev, source |-> grants,
     candidate |-> Candidate(file, n, sel)]

\* profile promote preview writes the plan.  The source may be running.
PromotePreview ==
    /\ \E n \in Names, sel \in SUBSET grants : TargetFree(n, file) /\ plan' = Plan(n, sel)
    /\ UNCHANGED <<store, pc, cmd, ghost, sess, edits>>

\* CheckApply against the session, the text and the candidate of now.
CheckApply(p) ==
    /\ Candidate(file, p.name, p.sel) = p.candidate
    /\ TargetFree(p.name, file)
    /\ p.rev = rev /\ p.source = grants
    /\ status \in {"created", "stopped"}
    /\ p.base = file

\* Mutant: the transaction is not told which text it replaces.
NoExpectation(p, t) == [NoCmd EXCEPT !.op = "promote", !.content = t, !.reviewed = p.base]
\* The transaction of a promotion: replace exactly this text, or create only.
Promotion(p, t) ==
    [op |-> "promote", content |-> t, expected |-> file, createOnly |-> ~Exists,
     reviewed |-> p.base]

PromoteApply(c) ==
    /\ pc[c] = "idle" /\ plan # Absent
    /\ CheckApply(plan)
    /\ Submit(c, Promotion(plan, Candidate(file, plan.name, plan.sel)))

-----------------------------------------------------------------------------
(* ReplacePolicyAtomic *)

\* Release the lock and report.
Finish(c, r) ==
    /\ Goto(c, "idle") /\ lock' = lock \ {c}
    /\ cmd' = [cmd EXCEPT ![c] = NoCmd]
    /\ report' = <<r, wrote[c]>> /\ wrote' = [wrote EXCEPT ![c] = FALSE]

\* flock(LOCK_EX)
LockFree(c) == lock = {}

TakeLock(c) ==
    /\ pc[c] = "wait" /\ LockFree(c)
    /\ lock' = lock \cup {c} /\ Goto(c, "check")
    /\ UNCHANGED <<file, cmd, ghost, sess, plan, edits>>

\* ErrPolicyExists, ErrPolicyStale
Refused(t) ==
    \/ t.createOnly /\ Exists
    \/ t.expected # Absent /\ file # t.expected

\* Read the current text, check, validate, and write the temporary file;
\* validation and every write may fail.
CheckAndStage(c) ==
    /\ pc[c] = "check"
    /\ \/ ~Refused(cmd[c]) /\ Goto(c, "swap") /\ UNCHANGED <<lock, cmd, ghost>>
       \/ Finish(c, "known-failed")
    /\ UNCHANGED <<file, sess, plan, edits>>

\* rename, or link for a file that must not exist.
Swap(c) ==
    /\ pc[c] = "swap"
    /\ \/ /\ cmd[c].createOnly => ~Exists
          /\ file' = cmd[c].content
          /\ wrote' = [wrote EXCEPT ![c] = TRUE]
          /\ Goto(c, "sync") /\ UNCHANGED <<lock, cmd, report>>
       \/ Finish(c, "known-failed") /\ UNCHANGED file
    /\ UNCHANGED <<sess, plan, edits>>

\* Mutant: a failed directory sync is a failed write.
SyncFailureIsFailure(c) == "known-failed"
\* ErrPolicyCommitUncertain: the file is swapped, the directory not synced.
SyncFailed(c) == "commit-uncertain"

SyncDir(c) ==
    /\ pc[c] = "sync"
    /\ \E r \in {"known-committed", SyncFailed(c)} : Finish(c, r)
    /\ UNCHANGED <<file, sess, plan, edits>>

\* The process dies: the kernel releases its lock, the temporary file stays.
Crash(c) ==
    /\ pc[c] # "idle"
    /\ Goto(c, "idle") /\ lock' = lock \ {c}
    /\ cmd' = [cmd EXCEPT ![c] = NoCmd] /\ wrote' = [wrote EXCEPT ![c] = FALSE]
    /\ UNCHANGED <<file, report, sess, plan, edits>>

-----------------------------------------------------------------------------
(* The ad-hoc session *)

SessionStatus ==
    /\ \/ status = "created" /\ status' = "running"
       \/ status = "running" /\ status' = "stopped"
    /\ UNCHANGED <<store, pc, cmd, ghost, grants, rev, plan, edits>>

SessionGrants ==
    /\ rev < MaxRev /\ rev' = rev + 1
    /\ \E g \in Rules : grants' = IF g \in grants THEN grants \ {g} ELSE grants \cup {g}
    /\ UNCHANGED <<store, pc, cmd, ghost, status, plan, edits>>

Transaction(c) == TakeLock(c) \/ CheckAndStage(c) \/ Swap(c) \/ SyncDir(c)

Next ==
    \/ \E c \in Commands :
        \/ ProfileCreate(c) \/ ProfileDelete(c) \/ ProfileCredentials(c)
        \/ ProfileEgress(c) \/ PromoteApply(c)
        \/ Transaction(c) \/ Crash(c)
    \/ PromotePreview \/ SessionStatus \/ SessionGrants

Spec == Init /\ [][Next]_vars

\* Commands are interchangeable.
Symmetry == Permutations(Commands)

-----------------------------------------------------------------------------
(* Properties *)

\* A promotion replaces exactly the text its operator previewed it on, by
\* exactly the text previewed, and overwrites no profile (CheckApply,
\* ExpectedHash and CreateOnly together), whatever other commands do between
\* the check and the swap.
PromotionIsExact ==
    [][\A c \in Commands : (cmd[c].op = "promote" /\ ~wrote[c] /\ wrote'[c]) =>
        /\ file = cmd[c].reviewed
        /\ \A n \in Profiles(file) : n \in Profiles(file') /\ file'[n] = file[n]
        /\ \A n \in Profiles(file') \ Profiles(file) :
            n \notin Builtins /\ Forge \notin file'[n]]_vars

\* What a transaction reports is what happened to the file: it never reports
\* failure for a file it swapped nor success for one it did not
\* (TransactionOutcome).
OutcomeIsHonest ==
    report[2] <=> report[1] \in {"known-committed", "commit-uncertain"}

\* The text changes only under the lock, and only by the holder's content: no
\* two transactions overlap between check and swap (withPolicyLock).
SwapIsLocked ==
    [][file' # file => \E c \in Commands : lock = {c} /\ lock' = {c} /\ file' = cmd[c].content]_vars
=============================================================================
