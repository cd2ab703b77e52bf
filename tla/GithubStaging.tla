--------------------------- MODULE GithubStaging ---------------------------
(***************************************************************************)
(* The GitHub App tokens of one run: the process that runs the agent       *)
(* stages a batch, renews it while the agent runs and revokes it when the  *)
(* agent is over; a `session stop --revoke-credentials` in another process *)
(* revokes, signals and wipes at any moment.  They share only the stage    *)
(* directory.                                                              *)
(*                                                                         *)
(* A slot is one token of a batch: the git token of a partition (an owner  *)
(* and an access) or its API token.  A token is a slot and an expiry:      *)
(* expiries have the granularity of the RFC 3339 text the metadata holds,  *)
(* one tick of `now`.  File contents other than tokens and expiries (git   *)
(* configuration, the API manifest) are left out.                          *)
(***************************************************************************)
EXTENDS Integers, FiniteSets

CONSTANTS
    Partitions,    \* number of partitions
    HasAPI,        \* API access was opted in
    Life,          \* lifetime of a token
    MaxTime        \* bound of the clock

ASSUME StagingAssumption ==
    /\ Partitions \in Nat \ {0} /\ HasAPI \in BOOLEAN
    /\ Life \in Nat \ {0} /\ MaxTime \in Nat

VARIABLES
    now,
    pc, at,           \* the runner, and the slot its loop is at
    agent,            \* none, up, over
    cancelled,        \* contexts that were cancelled: the run's, the lease's
    new, old,         \* the batch in memory; the metadata read before it
    file, temp,       \* canonical files and their .new siblings
    meta, metaTemp,   \* github-meta.json and its sibling
    retired,          \* .github-retired: records of a name and a token
    dir, rdir,        \* do the token and the retirement directories exist?
    leaseExp,         \* CurrentExpiresAt of the lease
    stop,             \* the stopping command
    due,              \* history: unexpired tokens an agent could read as it began
    pend,             \* files each revoking process has still to read
    asked,            \* tokens whose revocation was requested
    served,           \* history: tokens an agent could read
    wiped,            \* history: a stop wiped the stage directory
    orphaned,         \* history: the stage of a crashed run was wiped unrevoked
    torn              \* history: a batch commit failed half way

stage == <<file, temp, meta, metaTemp, retired, dir, rdir>>
batch == <<at, new, old, leaseExp>>
vars  == <<now, pc, agent, cancelled, batch, stage, stop, due, pend, asked, served, wiped, orphaned, torn>>

NSlots == Partitions * (IF HasAPI THEN 2 ELSE 1)
Slots  == 1..NSlots
Tokens == [slot : Slots, exp : Life..(MaxTime + Life)]
NoTok  == [slot |-> 0, exp |-> 0]
Names  == (0..Partitions) \X (Life..(MaxTime + Life))
Metas  == [exp : [Slots -> Life..(MaxTime + Life)], retired : SUBSET Names]
NoMeta == [exp |-> <<>>, retired |-> {}]
Empty  == [k \in Slots |-> NoTok]
Revokers == {"runner", "stop"}

\* Minting and committing go partition by partition, git before API.
IsAPI(k) == HasAPI /\ k % 2 = 0
Partition(k) == IF HasAPI THEN (k + 1) \div 2 ELSE k
\* The metadata lists every git token before the first API token.
RetainSlot(j) ==
    IF ~HasAPI THEN j ELSE IF j <= Partitions THEN 2 * j - 1 ELSE 2 * (j - Partitions)

\* The last element of the token path: a lone partition's API token is named
\* "token" (here 0), every other token after its partition.
Base(k) ==
    IF IsAPI(k) /\ Partitions = 1 THEN 0 ELSE Partition(k)
RetiredName(k, exp) == <<Base(k), exp>>

\* Every variable stays in its domain, a slot's files hold only its own tokens
\* and a retirement name is one file.
TypeOK ==
    /\ now \in 0..MaxTime
    /\ pc \in {"start", "mint", "prepare", "write", "retain", "commit", "expire",
               "held", "revoke", "scan", "wipe", "ended", "crashed"}
    /\ at \in 1..(NSlots + 1)
    /\ agent \in {"none", "up", "over"} /\ cancelled \subseteq {"run", "lease"}
    /\ {new, file, temp} \subseteq [Slots -> Tokens \cup {NoTok}]
    /\ \A k \in Slots : {new[k].slot, file[k].slot, temp[k].slot} \subseteq {0, k}
    /\ {old, meta, metaTemp} \subseteq Metas \cup {NoMeta}
    /\ retired \subseteq [name : Names, tok : Tokens]
    /\ \A r, s \in retired : r.name = s.name => r = s
    /\ {dir, rdir, wiped, orphaned, torn} \subseteq BOOLEAN
    /\ leaseExp \in Nat
    /\ stop \in {"none", "revoke", "scan", "signal", "wipe", "wait", "rewipe", "quiet"}
    /\ pend \in [Revokers -> SUBSET ({<<k>> : k \in Slots} \cup Names)]
    /\ {asked, served, due} \subseteq SUBSET Tokens

Init ==
    /\ now = 0 /\ pc = "start" /\ at = 1 /\ agent = "none" /\ cancelled = {}
    /\ new = Empty /\ old = NoMeta /\ leaseExp = 0
    /\ file = Empty /\ temp = Empty /\ meta = NoMeta /\ metaTemp = NoMeta
    /\ retired = {} /\ dir = FALSE /\ rdir = FALSE
    /\ stop = "none" /\ due = {} /\ pend = [r \in Revokers |-> {}]
    /\ asked = {} /\ served = {} /\ wiped = FALSE /\ orphaned = FALSE /\ torn = FALSE

-----------------------------------------------------------------------------
(* Staging a batch, first or renewed *)

\* An error ends the first staging with the run, a renewal with a retry.
Fail == pc' = IF agent = "none" THEN "wipe" ELSE "held"

\* An agent can read every token that is in a canonical file while it is up.
Serve(f, a) ==
    served' = IF a = "up" THEN served \cup ({f[k] : k \in Slots} \ {NoTok}) ELSE served

Start ==
    /\ pc = "start" /\ pc' = "mint" /\ at' = 1
    /\ UNCHANGED <<now, agent, cancelled, new, old, leaseExp, stage, stop, due, pend, asked, served, wiped, orphaned, torn>>

\* The lease fires: before the expiry, and later than the previous batch by two
\* thirds of its life or a retry delay, so in another second.
Renew ==
    /\ pc = "held" /\ "lease" \notin cancelled /\ now < leaseExp
    /\ \A k \in Slots : new[k].exp < now + Life
    /\ pc' = "mint" /\ at' = 1
    /\ UNCHANGED <<now, agent, cancelled, new, old, leaseExp, stage, stop, due, pend, asked, served, wiped, orphaned, torn>>

\* MintToken, under the context of the run or of the lease.
Mint ==
    /\ pc = "mint"
    /\ \/ /\ (IF agent = "none" THEN "run" ELSE "lease") \notin cancelled
          /\ new' = [new EXCEPT ![at] = [slot |-> at, exp |-> now + Life]]
          /\ at' = at + 1
          /\ pc' = IF at = NSlots THEN "prepare" ELSE "mint"
       \/ Fail /\ UNCHANGED <<new, at>>
    /\ UNCHANGED <<now, agent, cancelled, old, leaseExp, stage, stop, due, pend, asked, served, wiped, orphaned, torn>>

\* MkdirAll of the token directories, readGithubMeta.
Prepare ==
    /\ pc = "prepare" /\ pc' = "write"
    /\ dir' = TRUE /\ old' = meta
    /\ UNCHANGED <<now, agent, cancelled, at, new, leaseExp, file, temp, meta, metaTemp, retired, rdir>>
    /\ UNCHANGED <<stop, due, pend, asked, served, wiped, orphaned, torn>>

\* retainedGithubMetadata: the names the replaced tokens will be retired under.
RetainedNames ==
    {n \in old.retired : n[2] > now}
        \cup (IF old = NoMeta THEN {} ELSE {RetiredName(k, old.exp[k]) : k \in Slots})

\* writeGithubBatchTemps, or removeGithubBatchTemps after an error.
WriteTemps ==
    /\ pc = "write"
    /\ \/ /\ dir /\ temp' = new
          /\ metaTemp' = [exp |-> [k \in Slots |-> new[k].exp], retired |-> RetainedNames]
          /\ at' = 1 /\ pc' = IF old = NoMeta THEN "commit" ELSE "retain"
          /\ rdir' = (rdir \/ old # NoMeta)
       \/ temp' = Empty /\ metaTemp' = NoMeta /\ Fail /\ UNCHANGED <<at, rdir>>
    /\ UNCHANGED <<now, agent, cancelled, new, old, leaseExp, file, meta, retired, dir>>
    /\ UNCHANGED <<stop, due, pend, asked, served, wiped, orphaned, torn>>

\* Mutant: the replaced token is moved away, not copied.
LeftInPlaceMoved(k) == [file EXCEPT ![k] = NoTok]
\* What retaining slot k leaves in the canonical files.
LeftInPlace(k) == file

\* The rename of a retired file replaces one of the same name.
Others(name) == {r \in retired : r.name # name}

\* retainGithubTokens: copy one canonical file to its retirement name; a missing
\* file is skipped.
Retain ==
    LET k == RetainSlot(at)
        name == RetiredName(k, old.exp[k]) IN
    /\ pc = "retain"
    /\ \/ /\ file[k] = NoTok \/ rdir
          /\ IF file[k] = NoTok
             THEN UNCHANGED <<retired, file>>
             ELSE /\ retired' = Others(name) \cup {[name |-> name, tok |-> file[k]]}
                  /\ file' = LeftInPlace(k)
          /\ at' = IF at = NSlots THEN 1 ELSE at + 1
          /\ pc' = IF at = NSlots THEN "commit" ELSE "retain"
          /\ UNCHANGED <<temp, metaTemp>>
       \/ /\ temp' = Empty /\ metaTemp' = NoMeta /\ Fail
          /\ UNCHANGED <<at, retired, file>>
    /\ UNCHANGED <<now, agent, cancelled, new, old, leaseExp, meta, dir, rdir>>
    /\ UNCHANGED <<stop, due, pend, asked, served, wiped, orphaned, torn>>

\* The metadata is renamed after every token file.
MetaTurn == at = NSlots + 1

\* commitGithubBatch, one rename; a failed one, of a sibling that is gone too,
\* leaves the other siblings.
Commit ==
    /\ pc = "commit"
    /\ \/ /\ at <= NSlots /\ temp[at] # NoTok
          /\ file' = [file EXCEPT ![at] = temp[at]]
          /\ temp' = [temp EXCEPT ![at] = NoTok]
          /\ at' = at + 1 /\ Serve(file', agent)
          /\ IF MetaTurn THEN meta' = metaTemp ELSE UNCHANGED meta
          /\ UNCHANGED <<pc, metaTemp, torn>>
       \/ /\ at = NSlots + 1 /\ metaTemp # NoMeta
          /\ IF MetaTurn THEN meta' = metaTemp ELSE UNCHANGED meta
          /\ metaTemp' = NoMeta /\ pc' = "expire"
          /\ UNCHANGED <<file, temp, at, served, torn>>
       \/ /\ Fail /\ at' = 1 /\ torn' = (torn \/ at > 1)
          /\ UNCHANGED <<file, temp, meta, metaTemp, served>>
    /\ UNCHANGED <<now, agent, cancelled, new, old, leaseExp, retired, dir, rdir, stop, due, pend, asked, wiped, orphaned>>

MinExp(m) == CHOOSE e \in {m.exp[k] : k \in Slots} : \A k \in Slots : e <= m.exp[k]

\* A cancelled run's agent does not start.
Launched == IF "run" \in cancelled THEN "over" ELSE "up"

\* removeExpiredGithubRetired, then GithubCredsExpiry of the metadata on disk:
\* without it a renewal fails, and a first batch starts its agent with no lease.
\* An unrelated error before the launch ends the run unrevoked.
Staged ==
    /\ pc = "expire" /\ at' = 1
    /\ retired' = {r \in retired : r.name \notin meta.retired \/ r.name[2] > now}
    /\ \/ /\ meta # NoMeta \/ agent = "none"
          /\ leaseExp' = IF meta = NoMeta THEN 0 ELSE MinExp(meta)
          /\ pc' = "held"
          /\ agent' = IF agent = "none" THEN Launched ELSE agent
          /\ Serve(file, agent')
       \/ /\ meta = NoMeta \/ agent = "none"
          /\ Fail /\ UNCHANGED <<leaseExp, agent, served>>
    /\ UNCHANGED <<now, cancelled, new, old, file, temp, meta, metaTemp, dir, rdir, stop, due, pend, asked, wiped, orphaned, torn>>

-----------------------------------------------------------------------------
(* Revocation, by the runner and by a stop *)

\* Mutant: only the git tokens of the metadata are revoked.
ManifestedGitOnly ==
    IF meta = NoMeta THEN {} ELSE {<<k>> : k \in {j \in Slots : ~IsAPI(j)}} \cup meta.retired
\* RevokeGithub goes through the files the metadata names...
Manifested ==
    IF meta = NoMeta THEN {} ELSE {<<k>> : k \in Slots} \cup meta.retired
\* ... and then through the files it finds in the retirement directory.
Listed == {r.name : r \in retired}

Content(f) ==
    IF f \in Names THEN {r.tok : r \in {q \in retired : q.name = f}}
                   ELSE {file[f[1]]} \ {NoTok}

\* Read one file and ask the service to revoke its token; a file that is gone
\* is skipped, an error reported.
RevokeOne(r) ==
    /\ \E f \in pend[r] :
          /\ asked' = asked \cup Content(f)
          /\ pend' = [pend EXCEPT ![r] = @ \ {f}]
    /\ UNCHANGED <<now, pc, agent, cancelled, batch, stage, stop, due, served, wiped, orphaned, torn>>

Wiped ==
    /\ file' = Empty /\ temp' = Empty /\ meta' = NoMeta /\ metaTemp' = NoMeta
    /\ retired' = {} /\ dir' = FALSE /\ rdir' = FALSE

AgentExits ==
    /\ agent = "up" /\ agent' = "over"
    /\ UNCHANGED <<now, pc, cancelled, batch, stage, stop, due, pend, asked, served, wiped, orphaned, torn>>

\* Lease.Stop returns when the renewal loop has ended.
RenewalOver == pc = "held"

\* The deferred calls of runProfileCtx: cancel the lease and wait for its
\* loop, revoke, wipe.
CancelLease ==
    /\ agent = "over" /\ pc \notin {"ended", "crashed"} /\ "lease" \notin cancelled
    /\ cancelled' = cancelled \cup {"lease"}
    /\ UNCHANGED <<now, pc, agent, batch, stage, stop, due, pend, asked, served, wiped, orphaned, torn>>
Teardown ==
    /\ "lease" \in cancelled /\ RenewalOver /\ pc' = "revoke"
    /\ pend' = [pend EXCEPT !["runner"] = Manifested]
    /\ UNCHANGED <<now, agent, cancelled, batch, stage, stop, due, asked, served, wiped, orphaned, torn>>
TeardownScan ==
    /\ pc = "revoke" /\ pend["runner"] = {} /\ pc' = "scan"
    /\ pend' = [pend EXCEPT !["runner"] = Listed]
    /\ UNCHANGED <<now, agent, cancelled, batch, stage, stop, due, asked, served, wiped, orphaned, torn>>
TeardownWipe ==
    /\ \/ pc = "scan" /\ pend["runner"] = {}
       \/ pc = "wipe"
    /\ pc' = "ended"
    /\ Wiped \/ UNCHANGED stage
    /\ UNCHANGED <<now, agent, cancelled, batch, stop, due, pend, asked, served, wiped, orphaned, torn>>

\* SIGKILL of the runner; its agent goes with it.
Crash ==
    /\ pc \notin {"start", "ended", "crashed"} /\ pc' = "crashed"
    /\ agent' = IF agent = "up" THEN "over" ELSE agent
    /\ pend' = [pend EXCEPT !["runner"] = {}]
    /\ UNCHANGED <<now, cancelled, batch, stage, stop, due, asked, served, wiped, orphaned, torn>>

-----------------------------------------------------------------------------
(* session stop --revoke-credentials *)

\* GetReconciled, which begins a stop and every status, list and prune: the
\* stage of a dead runner is wiped, and what it held is not revoked.  The record
\* of a runner that ended is running only if its Finish failed.
Reconcile ==
    /\ stop = "none" /\ pc \in {"ended", "crashed"} /\ Wiped
    /\ orphaned' = (orphaned \/ pc = "crashed")
    /\ UNCHANGED <<now, pc, agent, cancelled, batch, stop, due, pend, asked, served, wiped, torn>>

\* Store.Stop, of a run that is alive, of one that ended, of one that was
\* reconciled and of one that crashed since: it revokes what the directory
\* holds now.
StopBegin ==
    /\ stop = "none" /\ pc # "start" /\ stop' = "revoke"
    /\ pend' = [pend EXCEPT !["stop"] = Manifested]
    /\ due' = {t \in served : now < t.exp}
    /\ UNCHANGED <<now, pc, agent, cancelled, batch, stage, asked, served, wiped, orphaned, torn>>
\* Mutant: a stop trusts the metadata to name every retired token.
StopScanNothing ==
    /\ stop = "revoke" /\ pend["stop"] = {} /\ stop' = "scan"
    /\ UNCHANGED <<now, pc, agent, cancelled, batch, stage, pend, due, asked, served, wiped, orphaned, torn>>
StopScan ==
    /\ stop = "revoke" /\ pend["stop"] = {} /\ stop' = "scan"
    /\ pend' = [pend EXCEPT !["stop"] = Listed]
    /\ UNCHANGED <<now, pc, agent, cancelled, batch, stage, due, asked, served, wiped, orphaned, torn>>

\* The signal cancels the run's context.
StopSignal ==
    /\ stop = "scan" /\ pend["stop"] = {} /\ stop' = "wipe"
    /\ cancelled' = cancelled \cup {"run"}
    /\ UNCHANGED <<now, pc, agent, batch, stage, due, pend, asked, served, wiped, orphaned, torn>>
StopWipe ==
    /\ stop = "wipe" /\ stop' = "wait" /\ Wiped /\ wiped' = TRUE
    /\ UNCHANGED <<now, pc, agent, cancelled, batch, due, pend, asked, served, orphaned, torn>>

\* The group is gone, by itself or killed after the grace period.
StopWaited ==
    /\ stop = "wait" /\ pc \in {"ended", "crashed"} /\ stop' = "rewipe"
    /\ UNCHANGED <<now, pc, agent, cancelled, batch, stage, due, pend, asked, served, wiped, orphaned, torn>>
StopRewipe ==
    /\ stop = "rewipe" /\ stop' = "quiet" /\ Wiped
    /\ UNCHANGED <<now, pc, agent, cancelled, batch, due, pend, asked, served, wiped, orphaned, torn>>

Tick ==
    /\ now < MaxTime /\ now' = now + 1
    /\ UNCHANGED <<pc, agent, cancelled, batch, stage, stop, due, pend, asked, served, wiped, orphaned, torn>>

Batch == Start \/ Renew \/ Mint \/ Prepare \/ WriteTemps \/ Retain \/ Commit \/ Staged
Next ==
    \/ Batch \/ AgentExits \/ CancelLease \/ Teardown \/ TeardownScan \/ TeardownWipe \/ Crash
    \/ \E r \in Revokers : RevokeOne(r)
    \/ Reconcile \/ StopBegin \/ StopScan \/ StopSignal \/ StopWipe \/ StopWaited \/ StopRewipe
    \/ Tick

Spec == Init /\ [][Next]_vars

-----------------------------------------------------------------------------
(* Properties *)

\* While the agent is up and nobody stops the session, every canonical file
\* holds a token that was not revoked: a renewal, whole or failed half way,
\* never takes a working credential away (stageGithubAppWithAPI).
AgentKeepsTokens ==
    agent = "up" /\ stop = "none" =>
        \A k \in Slots : file[k] # NoTok /\ file[k] \notin asked

\* The metadata never says more than the files can keep: a token expires no
\* earlier than github-meta.json, from which the lease plans, says
\* (commitGithubBatch renames the metadata last).
MetaNeverOverstates ==
    meta # NoMeta => \A k \in Slots : file[k] # NoTok => meta.exp[k] <= file[k].exp

Reachable(t) ==
    \/ meta # NoMeta /\ \E k \in Slots : file[k] = t
    \/ \E r \in retired : r.tok = t
Lives(t) == now < t.exp

\* Every token an agent could read and that has not expired is in a file that
\* a teardown reads: "Previous tokens are copied to a stage-private retirement
\* directory for teardown-only best-effort revoke" (stageGithubAppWithAPI).
PriorTokensRetained ==
    pc \notin {"ended", "crashed"} /\ ~wiped =>
        \A t \in served : Lives(t) => Reachable(t)

\* The same as long as every batch was committed whole or not at all.
WholeBatchesRetained == ~torn => PriorTokensRetained

\* A run that ends without a stop and whose batches were committed whole has
\* asked to revoke every unexpired token its agent could read, the one of a
\* renewal that was in flight when the agent exited included (the order of
\* runProfileCtx's deferred calls).
TeardownRevokes ==
    pc = "ended" /\ stop = "none" /\ ~torn => \A t \in served : Lives(t) => t \in asked

\* A stop has asked to revoke every unexpired token an agent could read when it
\* began, although a renewal may be moving them from the canonical files to the
\* retirement directory meanwhile (RevokeGithub reads the former first), or the
\* run be tearing down, have ended or crash, as long as batches are committed
\* whole and no reconciliation found the runner crashed: it wipes the stage of
\* such a run (GetReconciled), and the stop finds nothing to revoke.
StopRevokesHeld ==
    stop \in {"wipe", "wait", "rewipe", "quiet"} /\ ~torn /\ ~orphaned =>
        \A t \in due : Lives(t) => t \in asked
=============================================================================
