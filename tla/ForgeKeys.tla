----------------------------- MODULE ForgeKeys -----------------------------
(***************************************************************************)
(* The deploy keys safeslop registers at a Forgejo instance.  A run mints  *)
(* one key per repository and registers it, records what it registered in  *)
(* revoke-info once all of them are, and revokes what is recorded when it  *)
(* tears down; a TTL timer and `session stop` revoke the same keys from    *)
(* elsewhere.  What escapes them is left to `safeslop creds gc`, which     *)
(* lists the keys of named repositories page by page, twice, and deletes   *)
(* those that carry the title safeslop gives.                              *)
(*                                                                         *)
(* The title is the same for every run, the identifier is the instance's.  *)
(* The profile declares an API token, and perhaps a TTL.                   *)
(* Every request may fail before or after it takes effect.                 *)
(***************************************************************************)
EXTENDS Naturals, FiniteSets

CONSTANTS
    Repos,       \* repositories of one instance, all in the profile
    Shared,      \* the one that has keys of other origin
    Others,      \* how many of them
    Spaced,      \* the sets of repositories whose account may name its token by
                 \* a reference with a space in it
    None,        \* no revoke-info; no repository
    MaxKeys,     \* bound: keys ever registered
    PageSize,    \* forgejoGCPageSize
    MaxPages     \* forgejoGCMaxPages

ASSUME ReposAssumption == Shared \in Repos /\ Spaced \subseteq SUBSET Repos
ASSUME BoundsAssumption ==
    /\ Others \in Nat /\ MaxKeys \in Nat /\ Others <= MaxKeys
    /\ PageSize \in Nat \ {0} /\ MaxPages \in Nat \ {0}

VARIABLES
    keys, nextId,      \* the instance: the keys of each repository, and the next identifier
    pc, todo, lines,   \* the run: where it is, repositories to do, keys recorded in memory
    spaced,            \* the repositories whose token reference holds a space
    dir, info, token,  \* its stage: whether it exists, revoke-info, the API token
    timer, exp,        \* the TTL timer, and the lines its callback has left
    rev,               \* the lines the teardown has left
    stop, srev,        \* a `session stop`, and the lines it has left
    gc,                \* a `creds gc`
    made, fate         \* ghosts: keys this run registered; whether it owes their revocation

forge == <<keys, nextId>>
stage == <<dir, info, token>>
run   == <<pc, todo, lines, spaced, rev>>
alarm == <<timer, exp>>
ext   == <<stop, srev>>
vars  == <<forge, run, stage, alarm, ext, gc, made, fate>>

Lines == Repos \X (1..MaxKeys)
ASSUME NoneAssumption == \A S \in SUBSET Lines : S # None
Live  == {"begin", "register", "record", "finish", "agent", "stopped", "revoke", "wipe"}
\* A gc: whether it may delete; the targets it has left to list and the
\* candidates it has left to delete; the repository it lists, for which
\* candidate, at which page and with what result; whether a request failed;
\* ghosts: what it was given, what was there, and whether somebody interfered.
NoGC  == [pc |-> "idle", confirm |-> FALSE, todo |-> {}, cands |-> {},
          repo |-> None, id |-> 0, page |-> 1, seen |-> {},
          failed |-> FALSE, targets |-> {}, owed |-> {}, disturbed |-> FALSE]

Keys == [id : 1..MaxKeys, title : {"ours", "other"}]
GcType ==
    [pc : {"idle", "list", "check", "delete", "done"}, confirm : BOOLEAN,
     todo : SUBSET Repos, cands : SUBSET Lines,
     repo : Repos \cup {None}, id : 0..MaxKeys, page : 1..(MaxPages + 1), seen : SUBSET Keys,
     failed : BOOLEAN, targets : SUBSET Repos, owed : SUBSET Lines, disturbed : BOOLEAN]

\* Every variable stays in its domain; a repository has no two keys with one
\* identifier, and none with one still to be given; no file without the
\* directory it is in.
TypeOK ==
    /\ keys \in [Repos -> SUBSET Keys] /\ nextId \in 1..(MaxKeys + 1)
    /\ \A r \in Repos : \A k \in keys[r] :
        k.id < nextId /\ \A j \in keys[r] : j.id = k.id => j = k
    /\ pc \in Live \cup {"idle", "done", "dead"} /\ todo \subseteq Repos
    /\ spaced \subseteq Repos
    /\ lines \subseteq Lines /\ rev \subseteq Lines /\ exp \subseteq Lines /\ srev \subseteq Lines
    /\ dir \in BOOLEAN /\ token \in BOOLEAN /\ (info = None \/ info \subseteq Lines)
    /\ (info # None \/ token) => dir
    /\ timer \in {"off", "armed", "run"} /\ stop \in {"idle", "revoke", "wipe", "over"}
    /\ gc \in GcType
    /\ made \subseteq Lines /\ fate \in {"early", "owed", "excused"}

\* Keys of other origin.
Foreign == [id : 1..Others, title : {"other"}]

Init ==
    /\ keys = [r \in Repos |-> IF r = Shared THEN Foreign ELSE {}]
    /\ nextId = Others + 1
    /\ pc = "idle" /\ todo = {} /\ lines = {} /\ spaced = {} /\ rev = {}
    /\ dir = FALSE /\ info = None /\ token = FALSE
    /\ timer = "off" /\ exp = {} /\ stop = "idle" /\ srev = {}
    /\ gc = NoGC /\ made = {} /\ fate = "early"

-----------------------------------------------------------------------------
(* The instance *)

Registered(l) == \E k \in keys[l[1]] : k.id = l[2]
Removed(l)    == [keys EXCEPT ![l[1]] = {k \in @ : k.id # l[2]}]

\* POST: a key of repository r is added.
Add(r) ==
    /\ nextId <= MaxKeys /\ nextId' = nextId + 1
    /\ keys' = [keys EXCEPT ![r] = @ \cup {[id |-> nextId, title |-> "ours"]}]

\* Somebody else changes the keys under a gc.
Interfered(g) == [g EXCEPT !.disturbed = TRUE, !.owed = {}]
Disturb == gc' = IF gc.pc \in {"idle", "done"} THEN gc ELSE Interfered(gc)

\* A DELETE whose answer is ignored: it takes effect, or it does not.
Delete(l) ==
    /\ \/ keys' = Removed(l) /\ UNCHANGED fate
       \/ UNCHANGED keys /\ fate' = "excused"
    /\ Disturb /\ UNCHANGED <<nextId, made>>

\* An operator removes a key of his own.
Operate ==
    /\ \E r \in Repos : \E k \in keys[r] :
        k.title = "other" /\ keys' = Removed(<<r, k.id>>)
    /\ Disturb
    /\ UNCHANGED <<nextId, run, stage, alarm, ext, made, fate>>

-----------------------------------------------------------------------------
(* The run: stageForgejo, and the teardown of runProfile *)

\* Files can be written while nobody has removed the stage.
Writable == dir

Goto(l) == pc' = l

\* The stage of an earlier attempt is removed, unrevoked; the accounts are read.
Begin ==
    /\ pc \in {"idle", "dead"} /\ stop \in {"idle", "over"}
    /\ Goto("begin") /\ dir' = FALSE /\ info' = None /\ token' = FALSE
    /\ todo' = Repos /\ lines' = {} /\ rev' = {} /\ made' = {} /\ fate' = "early"
    /\ stop' = "idle" /\ spaced' \in Spaced
    /\ UNCHANGED <<forge, alarm, srev, gc>>

\* MkdirAll and the host key.
MakeStage ==
    /\ pc = "begin" /\ dir' = TRUE
    /\ Goto("register") \/ Goto("wipe")
    /\ UNCHANGED <<forge, todo, lines, spaced, rev, info, token, alarm, ext, gc, made, fate>>

\* keygen and POST: registered and recorded, registered with the answer lost,
\* or not registered.  Either failure ends the run before any revocation.
RegisterKey ==
    /\ pc = "register"
    /\ \E r \in todo :
        \/ /\ Writable /\ Add(r) /\ made' = made \cup {<<r, nextId>>} /\ Disturb
           /\ \/ /\ lines' = lines \cup {<<r, nextId>>} /\ todo' = todo \ {r}
                 /\ Goto(IF todo = {r} THEN "record" ELSE "register")
              \/ Goto("wipe") /\ UNCHANGED <<lines, todo>>
        \/ Goto("wipe") /\ UNCHANGED <<forge, lines, todo, made, gc>>
    /\ UNCHANGED <<spaced, rev, stage, alarm, ext, fate>>

\* revoke-info is written once, when every key is registered.
WriteInfo ==
    /\ pc = "record"
    /\ \/ Writable /\ info' = lines /\ Goto("finish")
       \/ Goto("wipe") /\ UNCHANGED info
    /\ UNCHANGED <<forge, todo, lines, spaced, rev, dir, token, alarm, ext, gc, made, fate>>

\* The SSH files, the API token, the other providers and the lease manager;
\* when one of them fails, the revocation is not registered yet.
Launch ==
    /\ pc = "finish"
    /\ \/ /\ Writable /\ token' = TRUE /\ timer' \in {"off", "armed"}
          /\ Goto("agent") /\ fate' = IF fate = "early" THEN "owed" ELSE fate
       \/ Goto("wipe") /\ token' \in {FALSE, Writable} /\ UNCHANGED <<timer, fate>>
    /\ UNCHANGED <<forge, todo, lines, spaced, rev, dir, info, exp, ext, gc, made>>

\* Mutant: the stage is removed first.
WipeFirst == "wipe"
\* After the agent the deferred calls run, last registered first.
AfterStop == "revoke"

\* A line of revoke-info is split at its spaces, the reference of its token is
\* the last part; a line of more than four parts is skipped.
Legible(l) == l[1] \notin spaced
\* What a revocation has to do: the legible lines, if the file can be read.
ReadInfo == IF info = None THEN {} ELSE {l \in info : Legible(l)}

\* manager.Stop does not wait for a callback that has started.
AgentExits ==
    /\ pc = "agent" /\ Goto(AfterStop)
    /\ timer' = IF timer = "armed" THEN "off" ELSE timer
    /\ rev' = ReadInfo
    /\ UNCHANGED <<forge, todo, lines, spaced, stage, exp, ext, gc, made, fate>>

Revoke ==
    /\ pc = "revoke"
    /\ \/ \E l \in rev : Delete(l) /\ rev' = rev \ {l} /\ UNCHANGED pc
       \/ rev = {} /\ Goto("wipe") /\ UNCHANGED <<forge, rev, gc, made, fate>>
    /\ UNCHANGED <<todo, lines, spaced, stage, alarm, ext>>

\* The stage is removed and the process ends, with its callback.
Wipe ==
    /\ pc = "wipe" /\ Goto("done")
    /\ dir' = FALSE /\ info' = None /\ token' = FALSE
    /\ timer' = "off" /\ exp' = {} /\ rev' = {} /\ todo' = {} /\ lines' = {}
    /\ UNCHANGED <<forge, spaced, ext, gc, made, fate>>

\* Nothing deferred runs; the stage stays.
Crash ==
    /\ pc \in Live /\ Goto("dead")
    /\ timer' = "off" /\ exp' = {} /\ rev' = {} /\ todo' = {} /\ lines' = {}
    /\ fate' = "excused"
    /\ UNCHANGED <<forge, spaced, stage, ext, gc, made>>

-----------------------------------------------------------------------------
(* ExpireForgejo, and sessionRevokeCredentials of a stop *)

\* Mutant: the horizon ends the API token only.
TokenOnly == {}
\* The lines ExpireForgejo revokes, after it has removed the token.
Expiring == ReadInfo

TimerFires ==
    /\ timer = "armed" /\ timer' = "run" /\ exp' = Expiring /\ token' = FALSE
    /\ UNCHANGED <<forge, run, dir, info, ext, gc, made, fate>>

Expire ==
    /\ timer = "run"
    /\ \/ \E l \in exp : Delete(l) /\ exp' = exp \ {l} /\ UNCHANGED timer
       \/ exp = {} /\ timer' = "off" /\ UNCHANGED <<forge, exp, gc, made, fate>>
    /\ UNCHANGED <<run, stage, ext>>

\* A stop that comes while the keys are still being registered finds no
\* revoke-info.
StopBegin ==
    /\ stop = "idle" /\ pc \in Live \cup {"dead"} /\ stop' = "revoke" /\ srev' = ReadInfo
    /\ fate' = IF info = None THEN "excused" ELSE fate
    /\ UNCHANGED <<forge, run, stage, alarm, gc, made>>

StopRevoke ==
    /\ stop = "revoke"
    /\ \/ \E l \in srev : Delete(l) /\ srev' = srev \ {l} /\ UNCHANGED stop
       \/ srev = {} /\ stop' = "wipe" /\ UNCHANGED <<forge, srev, gc, made, fate>>
    /\ UNCHANGED <<run, stage, alarm>>

StopWipe ==
    /\ stop = "wipe" /\ stop' = "over"
    /\ dir' = FALSE /\ info' = None /\ token' = FALSE
    /\ UNCHANGED <<forge, run, alarm, srev, gc, made, fate>>

-----------------------------------------------------------------------------
(* creds gc *)

GcKeep == UNCHANGED <<forge, run, stage, alarm, ext, made, fate>>
Ours(R) == {l \in R \X (1..MaxKeys) : [id |-> l[2], title |-> "ours"] \in keys[l[1]]}

\* A listing starts from its first page: of a target, or, to see that it is
\* still there, for a candidate.  Targets come in any order the command line
\* gives; the order of the candidates is left open.
NextTarget(g) == {[g EXCEPT !.repo = r, !.page = 1, !.seen = {}] : r \in g.todo}
NextCandidate(g) ==
    {[g EXCEPT !.pc = "check", !.repo = l[1], !.id = l[2], !.page = 1, !.seen = {}] : l \in g.cands}

\* What --repo may name; a repository named twice is one target.
Targets == SUBSET Repos \ {{}}

\* --repo ... [--yes]
GcBegin ==
    /\ gc.pc = "idle"
    /\ \E T \in Targets : \E confirm \in BOOLEAN :
        gc' \in NextTarget([NoGC EXCEPT !.pc = "list", !.confirm = confirm, !.targets = T,
                                        !.todo = T, !.owed = Ours(T)])
    /\ GcKeep

Current == <<gc.repo, gc.id>>

\* Mutant: any key that safeslop might have made.
AnyTitle(k) == TRUE
\* The title is exactly the one safeslop gives to keys of this repository.
Matches(k) == k.title = "ours"
Candidates(r, found) == {<<r, k.id>> : k \in {j \in found : Matches(j)}}

\* The gc is over; owed is what its report vouches for.
Report(g) ==
    [NoGC EXCEPT !.pc = "done", !.owed = IF g.confirm /\ ~g.failed /\ ~g.disturbed THEN g.owed ELSE {}]

\* Discovery of all targets comes first; an error there, or a dry run, ends it.
Discovered(g) ==
    LET rest == [g EXCEPT !.todo = @ \ {g.repo}]
    IN  IF rest.todo # {} THEN NextTarget(rest)
        ELSE IF g.failed \/ ~g.confirm \/ g.cands = {} THEN {Report(rest)}
        ELSE NextCandidate(rest)

\* A candidate is dealt with: deleted, absent, or in error.
Settled(g) ==
    LET rest == [g EXCEPT !.cands = @ \ {<<g.repo, g.id>>}]
    IN  IF rest.cands = {} THEN {Report(rest)} ELSE NextCandidate(rest)

\* A listing that came to nothing.
Skipped(g) == IF g.pc = "list" THEN Discovered(g) ELSE Settled(g)

\* A repository's keys are listed by identifier, a page at a time.
Rank(r, k) == Cardinality({j \in keys[r] : j.id < k.id})
Page(r, p) == {k \in keys[r] : (p - 1) * PageSize <= Rank(r, k) /\ Rank(r, k) < p * PageSize}
IsEmptyPage(r, p) == Cardinality(keys[r]) <= (p - 1) * PageSize

\* Mutant: the last page allowed ends the list.
EndOrLimit == IsEmptyPage(gc.repo, gc.page) \/ gc.page > MaxPages
\* A page without keys ends the list.
EndOfList == gc.page <= MaxPages /\ IsEmptyPage(gc.repo, gc.page)

\* One request: a page of keys, each listed once; the end; an error, which one
\* page too many is as well; or 404 for the repository.
GcPage ==
    /\ gc.pc \in {"list", "check"}
    /\ \/ /\ gc.page <= MaxPages /\ ~IsEmptyPage(gc.repo, gc.page)
          /\ gc' = [gc EXCEPT !.page = @ + 1, !.seen = @ \cup Page(gc.repo, gc.page)]
       \/ /\ EndOfList /\ gc.pc = "list"
          /\ gc' \in Discovered([gc EXCEPT !.cands = @ \cup Candidates(gc.repo, gc.seen)])
       \/ /\ EndOfList /\ gc.pc = "check" /\ Current \in Candidates(gc.repo, gc.seen)
          /\ gc' = [gc EXCEPT !.pc = "delete"]
       \/ /\ EndOfList /\ gc.pc = "check" /\ Current \notin Candidates(gc.repo, gc.seen)
          /\ gc' \in Settled(gc)
       \/ gc' \in Skipped([gc EXCEPT !.failed = TRUE])
       \/ gc' \in Skipped(Interfered(gc))
    /\ GcKeep

\* DELETE: done, already gone, or an error that may have taken effect.
GcDelete ==
    /\ gc.pc = "delete"
    /\ \/ keys' = Removed(Current) /\ gc' \in Settled(gc)
       \/ keys' \in {keys, Removed(Current)} /\ gc' \in Settled([gc EXCEPT !.failed = TRUE])
    /\ UNCHANGED <<nextId, run, stage, alarm, ext, made, fate>>

-----------------------------------------------------------------------------
RunStep == \/ MakeStage \/ RegisterKey \/ WriteInfo \/ Launch \/ Revoke \/ Wipe
Callback == TimerFires \/ Expire
StopStep == StopRevoke \/ StopWipe

Next ==
    \/ Begin \/ RunStep \/ AgentExits \/ Crash
    \/ Callback \/ StopBegin \/ StopStep
    \/ GcBegin \/ GcPage \/ GcDelete
    \/ Operate

\* The scheduler runs every thread; an armed timer fires.  Nobody is obliged
\* to exit, to stop a session or to collect garbage.
Spec == Init /\ [][Next]_vars /\ WF_vars(RunStep) /\ WF_vars(Callback) /\ WF_vars(StopStep)

-----------------------------------------------------------------------------
(* Properties *)

\* creds gc deletes only keys with safeslop's exact title, in repositories it
\* was given, after it was told to and after every one of them was listed
\* without error ("discovers every requested repository before any deletion").
GcStaysInScope ==
    [][gc.pc = "delete" /\ gc'.pc # "delete" =>
        \A r \in Repos : \A k \in keys[r] \ keys'[r] :
            k.title = "ours" /\ r \in gc.targets /\ gc.confirm /\ gc.todo = {}]_vars

\* A confirmed gc that reports no error leaves none of the keys that carried
\* the title when it began, if nobody else changed keys meanwhile and no
\* listing was answered by 404.
GcIsThorough ==
    gc.pc = "done" => \A l \in gc.owed : ~Registered(l)

\* A run whose agent was launched and that ended by itself has revoked every
\* key it registered, whatever its timer and a stop did meanwhile, unless a
\* request failed, the stop came before revoke-info, or the reference of the
\* key's token has a space in it, which revokeForgejoWithHTTP cannot read back
\* (RevokeForgejo before the wipe; ExpireForgejo racing manager.Stop).
TeardownRevokes ==
    pc = "done" /\ fate = "owed" => \A l \in made : Legible(l) => ~Registered(l)

\* Once a run with a TTL is launched its keys are revoked, though its agent
\* never exits: by the timer's callback, or by the teardown that stopped it;
\* unless a request fails, a crash or an early stop takes revoke-info away, or
\* the key's line in it cannot be read back.
HorizonRevokes ==
    timer = "armed" ~>
        (fate = "excused" \/ \A l \in made : Legible(l) => ~Registered(l))
=============================================================================
