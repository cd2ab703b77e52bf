# Verification of safeslop

safeslop runs coding agents inside a container boundary (or on the host) and
gives them network destinations, credentials and a workspace only as far as a
policy and an operator allow. This directory models the parts of it whose
correctness depends on the order of commits, effects, crashes and concurrent
processes, checks them with TLC and proves the central properties with TLAPS.

## The system

| Component | State it keeps | Operations | Hard behaviour |
|---|---|---|---|
| Session protocol reducer (`internal/engine/session/protocol.go`) | a pure `ProtocolState`: lifecycle, owner, durable/recorded/runtime/inspected generations, operation in flight | 18 actions with their outcomes | unknown commits, recovery in the right direction |
| Record store (`session/store.go`, `atomic.go`) | one JSON record per session, a lock file, a revision | create, locked transaction, commit, list, remove | a commit that is renamed but not synced is neither old nor new |
| Egress drivers (`cli/session_protocol.go`, `cli/session.go`) | a transaction on the record, the target generation | grant, revoke, dismiss, recover, fail closed | crash between commit, apply, inspect and final commit; failing rollback |
| Egress runtime (`container/egress_grant_apply.go`, `launch.go`, `container.go`) | stage directory (compose file, overlay), proxy container and its labels | install, replace, inspect, launch | proxy dies or is replaced outside the lock |
| Session lifecycle (`session/session.go`, `cli/session.go`, `cli/supervise.go`) | status, PID, process token, detached flag, credential flags, sockets | claim, hand off, release, finish, stop, reconcile, remove, prune | PID reuse, a parent and a supervisor acting on one record, timeouts |
| Attach hub (`cli/supervise.go`, `session/wire`) | the one attached client, the PTY, the JSONL log | accept, replace, broadcast, exit frame | a client replaced while it is being written to |
| Credential leases (`creds/lease.go`, `cli/runtime.go`) | the current lease, a timer, renewal state | start, renew, retry, expire, stop | renewal racing stop, revoke and wipe |
| GitHub staging (`creds/github.go`, `creds/githubapp`) | token files, metadata, retired tokens | mint, stage, retain, commit, revoke | a batch that stops half way, a stop during a renewal |
| Forgejo staging (`creds/forgejo.go`, `multirepo.go`, `cli/creds_gc.go`) | deploy keys at the instance, `revoke-info`, a TTL timer | register, record, revoke, expire, collect | requests that fail after they took effect, a timer nobody waits for, pagination |
| Other providers (`creds/*`) | staged files | stage, inspect | host tools |
| Reaping and markers (`container/reap.go`, `cli/runtime.go`) | labelled containers, invocation markers | reap by session/invocation, sweep, GC images | a sweep acts on a stale list of live sessions |
| Evaluation and readiness (`policy/evaluation.go`, `policy/risk.go`, `cli/profile_evaluation.go`) | none (pure over a profile and a host) | normalize, evaluate, validate, inspect | rules that say twice what staging and launching do |
| Policy file (`policy/transaction.go`, `cli/profile*.go`) | one `safeslop.cue`, a lock file | create, edit, delete | concurrent edits, a swap that is not synced |
| Catalog, resolution (`policy/catalog*.go`, `resolve.go`) | none (pure) | parse, resolve, bump | remote versions |
| Promotion (`promotion/*`, `cli/profile_promote.go`) | a plan file | preview, apply | the session or the policy changed since the preview |
| Trust store (`trust/trust.go`) | approved policy hashes | check, approve, revoke | two writers without a lock |
| Host boundary (`hostpath`, `hostexec`, `hostenv`, `workspace`) | none | resolve, project, exec | path races |
| Emacs UI (`emacs/*.el`), JSON contract, CLI plumbing | editor buffers | calls the CLI | I/O |

How they interact. A `session run` process claims the record, hands it to a
detached supervisor if asked, launches the containers without holding the
record lock, and finishes the record when the agent exits. Every other command
(grant, revoke, dismiss, stop, status, remove, prune) is a process of its own
that takes the record lock, acts on the record and on the container engine, and
releases it. Processes share only the record, the stage directory, the
containers and signals.

What makes each part correct: runtime network authority never exceeds the
record; an operation that says it succeeded is in effect and one that says it
failed was undone; what cannot be proven is blocked until it is; a record that
is written can be read; one owner per running session; nothing is signalled on
a stale identity; no credential outlives the session that holds it; a promotion
is applied only to what was reviewed; what is launched was approved; a review
never understates what staging and launching will do; a sweep deletes what is
orphaned, all of it and nothing else.

## Modules

| Module | Models |
|---|---|
| `SessionProtocol` | the reducer, one action per `ProtocolAction` and outcome |
| `SessionProtocolProofs` | its inductive invariant and theorems |
| `EgressSession` | the record, the stage directory, the proxy, one command under the record lock and the owner process without it |
| `EgressAuthority` | what an operator is promised: an authority and the part of it in effect |
| `EgressSessionRefinement` | the mapping under which `EgressSession` implements `EgressAuthority` |
| `EgressSessionProofs` | its inductive invariant, theorems and the refinement |
| `SessionLifecycle` | the record's status and owner, the wrappers, supervisors and operator commands that compete for it |
| `SessionLifecycleProofs` | its inductive invariant and theorems |
| `AttachHub` | the hub of a detached supervisor: PTY reader, log, attach slot, input loops, teardown, and the attaching clients |
| `AttachHubProofs` | its inductive invariant and theorems |
| `GithubStaging` | the GitHub App tokens of one run: staging, renewal, retirement, revocation, and a stop that revokes and wipes |
| `GithubStagingProofs` | its inductive invariant and theorems |
| `ForgeKeys` | the deploy keys of one run at a Forgejo instance: registration, TTL timer, teardown, stop, and `creds gc` |
| `Reaping` | run commands, a container session and `down` on several runtimes: markers, sweeps, launches, reaps |
| `ReapingProofs` | its inductive invariant and theorems |
| `PolicyEdits` | commands that rewrite one policy file, promotion among them, and the transaction they use |
| `PolicyTrust` | `PolicyEdits` composed with the trust store and the launches it gates |
| `PolicyProofs` | the inductive invariants of both, the theorems about the profile review below, and their proofs |
| `ProfileAuthority` | pure: what a profile authorizes, the evaluation, the legacy risk and lint, the load checks |
| `ProfileReadiness` | pure: what a profile needs of a host, as readiness tells it and as a launch asks it; what staging grants |
| `ProfileReview` | enumerates profiles and hosts and compares the two |
| `CredentialLease` | the renewal loop of a lease, its timer and `Stop` |
| `CredentialProofs` | the inductive invariants and theorems of `CredentialLease` and `ForgeKeys` |

### SessionProtocol

The variables are the fields of `ProtocolState`; a generation is a record of an
authority (a set of grants) and a revision, `NoGen` the invalid one. A commit
has the four outcomes of the reducer: known new, known old, and unknown with
either truth. `EnabledProtocolWithin` enumerates exactly the events for which
`ReduceProtocolWithin` returns true; that is `Next`.

### EgressSession

`rec` is the record on disk. A command takes the lock by leaving `pc = "idle"`;
`tx` is its `RecordTx`, `base` the record it may roll back to, `goal` the
generation it is bringing the proxy to and `phase` on whose behalf. A commit is
`new`, `old`, or `unknown`: the record is then replaced on disk and `tx` is
not. `compose` and `overlay` are the stage directory, `proxy` the container
with the grants it loaded when it started and the label it carries. `owner` is
the launching process: it claims the record under the lock, then cleans the
stage directory, reads the grants, writes the overlay and starts the proxy with
no lock, and finishes the record under the lock.

Abstractions: the profile's own egress is part of every generation and is left
out; generation hashes are the authority itself (equal exactly when the grants
are); a dismissal's acknowledgement and the credential flags do not touch
network authority and are left out here.

### SessionLifecycle

A session has coupled commands (`session run`), issuing commands (`session run
--detach`), each with the supervisor it spawns, and operators (stop, status,
list, rm, prune). `status` and `owner` are the record; `owner` stands for PID
and process token together, so a process is never confused with a later one on
its PID: that one is a stranger, `reused` holds the PIDs strangers have and
`foreign` remembers whether one was ever signalled. `pc` is where each process
is in its code, `term` the processes whose context SIGTERM cancelled, `opc` and
`target` the operators and the group each has signalled, `lock` the record lock
while a stop holds it across its signal and its commit; every other store
operation is one step taken while the lock is free, and `Get` reads without it.
`sock` and `staged` are the attach socket and the credential files.

A SIGTERM ends a process that has no handler yet and cancels the run of one
that has (`Handles`). An exited supervisor stays in the process table until its
wrapper exits, because `Process.Release` never reaps it; `ZombieGroup` says
whether `kill(-pid, 0)` may still find the group of such a process: it does on
Linux, it does not on macOS, and `lifecycle` allows both answers. The code reads
a token and sends the signal with no I/O between the two, so that is one step.

Abstractions: a boundary reap only succeeds or fails (its effect is the subject
of `EgressSession`); the credentials-revoked flag and records without a process
token are left out; a process can always read its own token; credentials are
files that are there or wiped, tokens are for the credential modules.

### AttachHub

`reader`, `acceptor`, `input[c]` and `main` are the goroutines of a supervisor;
`slot` is `h.conn`, read and written under its mutex while writes and closes
happen outside it, so a drop is two steps (`Clear`, `Close`). A connection has
a hub end and a peer end and `Buf` frames of room; a write blocks while it is
full. Output chunks are numbered, the log holds their numbers and 0 for its
truncation marker. `sent` remembers the last frame written to each client.

Abstractions: a frame is read and written whole; what a client types has no
content; `ln.Close` resets connections nobody accepted; the PTY refuses input
once the agent is gone or swallows it (systems differ). SIGKILL of the
supervisor belongs to `SessionLifecycle`. A connection that ends without an exit
frame ends `Attach` with code 1 and, because `dropExpected` maps the end of file
to nil, no error; a refused client is one such.

### GithubStaging

One runner stages a batch, starts the agent, renews and tears down; one `session
stop --revoke-credentials` acts from another process. They share the stage
directory: `file` and `meta` are the canonical token files and
`github-meta.json`, `temp` and `metaTemp` their `.new` siblings, `retired` the
retirement directory. Each rename, each retained copy and each revocation is a
step. A stop, like every status, list or prune, first reconciles the record:
`Reconcile` wipes the stage of a runner that is dead, and `orphaned` remembers
that this happened to one that had crashed. `due` remembers what was in use when
the stop began, `served` what an agent could read and `asked` what a revocation
was requested for.

Abstractions: a token is its slot and its expiry, at the one-second granularity
of the metadata; a revocation is asked for and its answer does not matter (the
code reports it and goes on); a wipe is one step; the git configuration and the
API manifest are left out, as is a renewal within the second of the one before,
which the lease's delays exclude. Tokens minted for a batch that was never
committed were never in a file and are not accounted for.

### ForgeKeys

One run registers a key per repository, writes `revoke-info` once all of them
are registered, and revokes what it says at teardown; the TTL timer and a stop
revoke the same lines from elsewhere; `creds gc` lists the keys of the named
repositories page by page, then lists again before each deletion. `keys` is the
instance, `pc` the run, `timer` and `exp` the callback that `manager.Stop` does
not wait for, `stop` and `srev` the stop, `gc` the collector. A request may fail
before or after it took effect; a registration whose answer is lost is a key
nobody recorded. `made` and `fate` are ghosts: what this run registered, and
whether it still owes the revocation or a failed request, a crash or a stop
that came before `revoke-info` excuses it. `spaced` holds the repositories whose
account names its token by a reference with a space, a choice of the user's
`accounts` file: their lines of `revoke-info` have five fields, and whoever reads
it back skips them (`Legible`, `ReadInfo`).

The keys of a repository are a set; a listing returns them in the order of their
identifiers, `PageSize` to a page and at most `MaxPages` pages, so that the page
of a key is given by how many others come before it. The order in which a gc
goes through its targets and candidates is left open.

Abstractions: a title is safeslop's or not; key material, SSH and git
configuration are left out. A failed staging removes its stage
directory without a revocation, and so does the next run after a crash: such
keys stay registered, their private halves are gone, and `creds gc` is what
removes them. Titles do not name a run, so a gc also deletes the keys of runs
that are alive; and a deletion by somebody else while a gc is listing shifts the
pages, so that it can miss a key (`GcIsThorough` excludes that).

### Reaping

A boundary is a container and a network per owner and runtime, `objs`. `pc` and
`cmd` are the run commands, from the sweep at their start to the reap at their
end; `status` and `backend` the session's record; `stage` the stage directories
with their markers. Listing is one engine call and deleting another; every call
may fail, a run may crash anywhere, and the ambient runtime may change.

`owed` is a ghost: what was orphaned on a command's runtime when its sweep
began. A run has one marker for all runtimes. When a sweep that drives one
runtime removes the marker of a dead run, a sweep of another runtime no longer
finds what that run left there, and `Excused` takes it out of what that sweep
owes (`SweepDeadInvocations`, `container/reap.go` lines 205 to 243). Two
runtimes need three runs for this, one more than the run `reaping` has; it came
to light because the invariant of the proof was not inductive.

Abstractions: a deletion with its verification is one step; a run's identity is
random and never collides; image garbage collection is left out.

### PolicyEdits and PolicyTrust

`file` is the text of one `safeslop.cue`, a function from profile names to what
each grants; a hash is the text itself. A command reads the file, renders a
whole new text and runs the transaction: lock, check, write, sync, link or
rename, sync of the directory. A promotion is previewed on the text and the
session's grants as they are, and applied later from its plan. `wrote` and
`report` remember what a transaction did and what it said.

`PolicyTrust` adds the trust store to the same file: each user command loads it,
changes one entry in memory and writes the whole store back without a lock, in
two steps, because `os.WriteFile` truncates first. Launches check the text they
read; `session run` checks, and then reads the file a second time. Other edits,
approvals and revocations go on between any two reads.

### ProfileAuthority, ProfileReadiness and ProfileReview

The first two are operators over a profile and a host that keep of every field
only what the code distinguishes. They translate two tellings of one thing: the
evaluation and readiness that are shown to an operator, and the loading,
preflight and staging that a launch performs. `ProfileReview` departs from a
default profile and host one field at a time and compares the two tellings in
every state. The rules are a table (`Registry`), findings are a set listed in
the order of `FindingLess`, the scopes of a provider are numbered in some fixed
order, as the code numbers them after it sorted them. A name is fit to be shown,
`odd` (unfit) or `brittle`: fit by itself and unfit inside the longer label that
the evaluation makes of an AWS identity or an API permission (`Fit`,
`Labelled`).

`LaunchAdmitted` is the conjunction of the gates where a launch refuses for what
the profile and the host are, those of the staging code included (`ClusterGate`,
`RepositoryGate`, `ForgeGate`). What a secret reference resolves to, a login of
the host (AWS SSO, application default credentials, the Pi store) allows, or a
helper or a forge answers is not among them: readiness leaves it aside on purpose
(`cli/profile_evaluation.go` line 653). Nor are the packages of a profile, which
resolution against the catalog checks.

### CredentialLease

The `LeaseSnapshot`, the goroutine `loop`, the latest timer (`leaseTimer`) and
the `Stop` call (`leaseStop`), with a clock that may advance between any two
steps. `nextDelay` and `NewTimer` are one step: they take no time at the scale
of the delays. A renewal either fails (or brings a batch too short to use) or
succeeds with one of `Expiries`; what it does to the files is `GithubStaging`.
The notifications that persist a snapshot for display are left out. `NoHorizon`
is a model value.

## Runs

| Run | Checks | Shows |
|---|---|---|
| `protocol` | `RuntimeWithinDurable`, `BlockedUntilProven` | the reducer is safe for every outcome of every commit |
| `egress` | `RuntimeWithinDurable`, `RecordReadable`, `SuccessIsEnforced`, `ErrorIsRolledBack`, `BlockedIsFrozen`, `ImplementsAuthority`, `CommandEnds` | the drivers are safe against crashes, unknown commits, engine failures and the lock-free launch, implement the operator's view, and always release the record lock |
| `lifecycle` | `OneRun`, `RunIsAccounted`, `NoForeignSignal`, `UnreadyIsDead`, `StopIsQuiet`, `CancelledRunEnds` | one agent at a time, none forgotten, no stranger signalled, a stop that reports success left nothing, a run that was told to stop ends although stops keep taking its lock, unless an attached client holds its output |
| `attach` | `AttachedIsServed`, `ExitIsTold`, `StreamUnbroken`, `SupervisorEnds` | clients come, type, go and are refused in every order: each sees one unbroken run of the output, none is connected to nobody, the exit code is told, the supervisor ends unless a client that stays attached has stopped reading |
| `staging` | `AgentKeepsTokens`, `TeardownRevokes`, `StopRevokesHeld` | failing writes, copies and renames never take a working token from the agent; as long as batches are committed whole, every token is revoked at teardown, and a stop misses none that was in use when it began, although a renewal moves them under its hands, unless a reconciliation had wiped the stage of a crashed run |
| `lease` | `NeverOversleeps`, `StopLeavesNothing`, `HorizonEnds` | the loop keeps its deadlines, the horizon ends the lease, and `Stop` leaves neither loop nor timer |
| `forge` | `GcIsThorough`, `GcStaysInScope`, `TeardownRevokes`, `HorizonRevokes` | a launched run revokes every key it registered whose line of `revoke-info` can be read back, its horizon does so without it, and the collector deletes safeslop's keys of the named repositories, all of them and nothing else |
| `reaping` | `HandleOutlivesBoundary`, `SweepSparesTheLiving`, `SweepIsThorough` | the marker of a dead run outlives its boundary, sweeps spare living runs, and what was orphaned does not survive a sweep that succeeds |
| `reaping_sessions` (violation) | `SweepSparesSessions` | a sweep deletes the boundary of a session that came up after it read the records |
| `edits` | `PromotionIsExact`, `OutcomeIsHonest` | a promotion replaces exactly the reviewed text by exactly the previewed one, and every transaction says truly whether it swapped the file |
| `trust` | `LaunchIsApproved` | whatever edits, approvals, revocations, lost updates and torn stores do, what is launched was approved as it stands |
| `review` | `EvaluationIsValid`, `StagedWriteIsReported`, `LegacyNeverSofter`, `ReadinessAgrees`, `WideningNeverSoftens` | what an operator is shown of a profile agrees with what loading, staging and launching it do, but for the conditions named in the findings, and never gets milder as authority grows |

Further formulas of the modules are not in a configuration: the type invariants
(`TypeOK`, `LeaseTypeOK`, `TrustTypeOK`) and the smaller facts `SettledAgreement`,
`OwnerWhileRunning`, `RetryWithinBounds`, `StopReturns`, `LogIsHonest`,
`MetaNeverOverstates`, `WholeBatchesRetained` and `SwapIsLocked`. TLC confirms
them on the instances of the runs; all of them but `RetryWithinBounds` and
`StopReturns` are theorems of their own.

Bounds. Two grants let a widening and a narrowing be told apart from each other
and from the empty authority. The reducer runs with `MaxRevision` = 3; the
drivers with 2, a settled record and two edits: all an edit sees of earlier ones
is the record it starts from, and what the theorems state holds for every bound.
`lifecycle` has one coupled command, two detaching ones and two operators: two
supervisors for one record, a coupled command against both, and a stop against a
stop, a reconciliation or a removal. `attach` has two clients, enough for one to
be dropped late while the other takes its slot, and two chunks with one frame of
room, so that writes block. `staging` has a git and an API token, so that a
batch can stop between two renames, and time for two renewals on top of the
first batch. `forge` has two repositories, one of them with two keys of other
origin, so that its list fills the two pages of one key a listing may have and
one key more exceeds them, and two identifiers left to give out: the keys of one
whole run, or one each of two that fail; the token reference of the other
repository may hold a space (`Spaced`), so that one line is skipped beside one
that is not. `reaping` has two runs, one of which needs a verified runtime, a
session, two runtimes and one change between them: a sweep can meet a launching
run, a dead one and a session at once. `edits` has two commands, a builtin and
another name, one egress rule, the forge credentials, one change of grants and
four transactions, enough for a preview, an edit that invalidates it, one that
undoes the edit, and the promotion; `trust` has two users with four commands
between them beside one editor. `review` lets two fields of the profile or the
host and five fields and forge parts together depart from the defaults. The
lease's delays are scaled so that the third retry reaches the maximum, a
lifetime may be too short to use, and a horizon may lie at the start, within or
after the first token's life; 50 ticks let the retries run through. Deadlock is
checked for the reducer; elsewhere everything may be stopped and gone, or every
bounded number of commands used up, so it is not checked there.

Fairness. `CommandEnds` assumes weak fairness of the running command's own steps
and nothing of the other processes: engine calls have timeouts and commits
return, so a command that is not killed takes its next step.
`CancelledRunEnds` assumes that a process whose context was cancelled goes on
(the agent's group is killed, the other steps are local) and that a stop holding
the lock reaches its commit. The runner's fairness is strong because flock
queues its waiters: a lock that is free again and again is granted in the end.
`CloseSocket`, behind the writes of the last output and the exit frame to an
attached client, has no fairness: those writes have no deadline, and the property
promises the end, or those writes (`Draining`), and the end again from behind
them. No agent is assumed to exit by itself and nobody is assumed to start, crash
or be killed. The lease assumes that goroutines are scheduled, that a renewal
returns (its requests carry the lease's context) and that the clock advances;
nobody has to call `Stop`, but a `Stop` that was called takes its own steps.
`SupervisorEnds` assumes that the reader and the main goroutine are scheduled, and
of the clients nothing: neither that one reads nor that one leaves. Since the
code sets no write deadline, a client that stays attached and does not read holds
the supervisor; the property names exactly that (`HeldUp`) as the only thing it
may wait for, and demands the end again as soon as the client makes room or goes.
It also takes the code's word that no process but the agent keeps the PTY's slave
side open.
`HorizonRevokes` assumes that the run and the stop take their own steps (every
request has a timeout), that an armed timer fires and that its callback runs on;
nobody has to exit, to stop the session or to collect garbage.

## Findings

`reaping_sessions`: `sweepManagedOrphansWithDeps` reads the session records and
only then does `SweepManagedOrphans` list the labelled containers. A session
that is marked running and brings its boundary up between the two is listed and
not known to be live, so its containers and networks are removed under its
agent. The comment at `container/reap.go` line 246 says that the sweep is safe
at startup because live session ids come from the store.

Other disagreements between the code and what the repository says of it, or
between two parts of it, met while modelling. TLC reaches those about sequences
of steps when the expectation is stated as a property; the properties of the
runs leave them out by a condition or by name.

- `Finish` reduces `TeardownProven` and commits `Stopped` without running a
  reap; only direct `run-` invocations reap after the agent exits.
  `formal/session/README.md` (lines 70 and 94) says that only a proven teardown
  may claim Stopped.
- A command fails closed, signals the owner, its reap fails and it records
  `network_authority_uncertain`. The owner then exits and `Finish` commits
  `Stopped` with `LastFailure = nil`; `cli/session.go` line 1546 says not to
  claim stopped when teardown is unproven.
- On a readiness timeout the supervisor is killed and its group awaited, but it
  is this very process's unreaped child: on Linux the wait always fails and the
  command returns before its `Finish`. The comment at `cli/session.go` line 1195
  promises that no phantom is left; the next reconciliation repairs it.
- `Remove` refuses only a running record, and `Stop` commits `stopped` before
  the supervisor is gone. A removal in between, and a supervisor that stages once
  more and is killed, leave files no record names; the repository's README (line
  369) says that a removal can never orphan secrets on disk.
- A retired token's file is named after the last path element and the expiry.
  With several partitions a git and an API token of one owner share both, and
  one copy replaces the other (`creds/github.go` lines 100 and 395). `staging`
  therefore has one partition.
- A batch commit that stops between two renames leaves a new token under the old
  metadata; the retry retires it under the old token's name, and the old token,
  unexpired, is in no file any more. `torn` excludes this.
- `SweepDeadInvocations` removes the stage, and with it the marker, of a dead run
  once the runtime it drives shows nothing of that run. What the run left in
  another runtime then has no handle (`Excused`): the comment at
  `container/reap.go` line 203 takes the marker as proof of the process alone.
- A renewal that commits between a stop's revocation and its wipe leaves tokens
  that nobody revokes; the README (line 301) says credentials are revoked before
  the process is terminated. `StopRevokesHeld` is about the tokens in use when
  the stop began.
- A stop after the runner crashed revokes nothing: `session stop` reconciles first
  (`cli/session.go` line 920), which wipes the stage unrevoked, and `Store.Stop`
  then revokes from an empty directory and records `CredentialsRevoked`
  (`session/session.go` lines 571 to 582). The README (line 301) claims the
  revocation. `StopRevokesHeld` excepts it (`orphaned`).
- A line of `revoke-info` is written with spaces between its fields
  (`creds/multirepo.go` line 252) and skipped when it does not split into four
  (`creds/forgejo.go` line 315). A token reference with a space
  (`op://Vault/My item/field`) therefore leaves every deploy key of that account
  registered at teardown, stop and horizon, although no request failed. The
  properties of `ForgeKeys` except such lines (`Legible`).
- Output and the exit frame are written to an attached client without a deadline
  (`cli/supervise.go` lines 246 and 258): one that is suspended while attached
  holds the PTY reader and, once the agent is gone, the exit of the supervisor and
  with it the `Finish` of its record (`HeldUp`, `Draining`).
- `profile egress add` and `remove` say they fail closed when the expected hash
  is stale, but compare it before the lock and write without `ExpectedHash`.
- Two writers of the trust store lose one another's update, a revocation
  included; `trust/trust.go` line 111 says a crash cannot half-revoke, but
  `os.WriteFile` truncates first. A torn store makes launches fail closed.
- A host agent shadowed on `PATH` is reported as blocking the launch, but
  `resolveHostBinary` takes the first match. Likewise blocked and yet launched:
  a container profile without the host's toolchain manager, a host workspace
  that overlaps the stage root (`Overcautious`).
- Reported ready and always refused: GitHub and Forgejo together, a PAT with
  unreadable account links, a repository that is not `owner/name` (with a PAT as
  well, `creds/pat.go` line 37), Kubernetes credentials with both or neither of
  EKS and GKE (`creds/kube.go` line 191), a Forgejo API token for several owners
  (`Overlooked`).
- An AWS identity and a GitHub API permission are judged fit to show before they
  get a prefix or suffix (`policy/evaluation.go` lines 925 to 930 and 1070 to
  1075), and the scope is judged again with it (line 1429). Values exist that pass
  the first and fail the second, `aws.profile: "arn:aws:iam::1:role/x"` for one:
  the evaluation of such a profile fails its own validation. `EvaluationIsValid`
  says that these are the only ones (`Mislabelled`).
- GitHub API access with `contents: write` under open egress has no critical
  finding, since only repository scopes count; an app-mode profile with a stray
  PAT and no repositories is shown read-only; an egress list that cannot be
  classified is unknown to the evaluation and allowlisted to the risk summary;
  `persistentEgress` rules are not among the evaluated destinations.

## Proofs

`SessionProtocolProofs` and `EgressSessionProofs` prove the invariants above for
every set of grants and every natural `MaxRevision`, the only assumption.

The reducer's invariant `IInv` adds to the properties what each operation in
flight knows: which of durable, runtime and pending agree at each effect. The
egress invariant has seven parts, because `RuntimeWithinDurable` is not
inductive: `BeforeLaunch` (no proxy before the owner starts one and what the
owner's snapshot may be), `WorkingCopy` (how `tx` and `base` relate to the disk
after each commit outcome), `Target` (what `goal` is in each phase),
`TearingCopy` (what may be written back while failing closed), `RuntimeBound`
(overlay, snapshot and proxy all lie within the record's grants) and `Readable`
(the record and both copies validate). `Refinement` follows from the same
invariant: every change of the record is one abstract step and every change of
the proxy another.

`SuccessIsEnforced` and `ErrorIsRolledBack` need more, `EnforcedInv`: a command
about to decide or to commit has overlay and proxy at the authority it will
report (`HoldInv`), a phase belongs to an edit (`PhaseInv`), and a record at
revision 0 grants nothing (`Unedited`). The last is why the owner's label is
harmless: it labels its proxy with the snapshot at revision 0 although the
overlay may have changed since the snapshot, so a label at revision 0 proves
nothing about what was loaded, and only an unedited record ever matches it.

`CredentialProofs` proves `LeaseTypeOK`, `NeverOversleeps` and
`StopLeavesNothing` of `CredentialLease` for all lifetimes, horizons and delays
with 0 < `InitialRetry` <= `MaxRetry`. `LeaseTimerInv` says when a timer may be
running and unpublished (only between its creation and its publication, which is
why the second `timer.Stop` of `Stop` is enough) and that a sleeping loop's
deadline does not move; `LeaseStopInv` says what `Stop` knows after the loop
ended.

It also proves `TypeOK`, `TeardownRevokes`, `GcIsThorough` and `GcStaysInScope`
of `ForgeKeys` for any repositories, any of them with a token reference that
`revoke-info` cannot carry, any number of foreign keys and any page size and
limit. `IdsInv` says that what the run registered carries identifiers given
before. `RunInv` is its account: while nothing excuses it, `revoke-info` names
every key it registered from the end of the registration until a stop that has
revoked them removes it, and what the teardown or the stop no longer has before
it, and can read back, is not registered any more. `ScopeInv` says that what a
gc has seen under an identifier is what is there now, if anything is, so that
the second listing really protects a key that is not safeslop's. `ThoroughInv`
is why an undisturbed gc misses nothing: a key it owes is in a repository it has
still to list, is a candidate, or is gone, and pages already read have shown
every key of their ranks (`Shown`). An empty page ends the list because a key
beyond it would have more keys before it than the repository has, a fact about
cardinalities.

`SessionLifecycleProofs` proves its five invariants for any number of coupled
and detaching commands and of operators, and for both answers of `ZombieGroup`.
`OneRun` is not inductive: the invariant speaks of the processes that hold the
session from the claim or the handoff to their end, not only of those with an
agent. `HolderInv` says that there is at most one, that the record names it or
is terminal with the holder cancelled, and what a detaching command between its
claim and its report may find; `ReuseInv` that a stranger's PID belonged to a
process that has left the process table; `UnreadyInv` and `StopInv` what a
readiness timeout and a stop know after each of their steps, above all that
after its commit nobody but its target holds the session.

`PolicyProofs` proves `OutcomeIsHonest`, `PromotionIsExact` and
`SwapIsLocked` for any number of commands, names, rules and edits, that the
composition with the trust store implements `PolicyEdits`, and over that
`TrustTypeOK` and
`LaunchIsApproved` for any number of users. `LockInv` says that the holder of the
flock is the only command between check and sync; `PromotionInv` that a
promotion's content adds one profile of rules to the text it expects, which at
the swap is the file's. `StoreInv` is what makes lost updates harmless: a store
in memory differs from an approved one by its own command's entry at most.
`AbsentAssumption` says that the mark for a missing file is not a policy text.

It also proves the five invariants of `ProfileReview`, for every set of owners
and any number of departures from the defaults. The inductive invariant is
`IsProfile`: every field is in its domain and every forge is undeclared or
declared with finitely many repositories; each property then follows for every
such profile, reachable or not.

- `ReadinessAgrees` compares check by check: each outcome that lets readiness
  say ready implies its gate (`ReadyIsAdmitted`), and each admitted launch
  passes each check that could block (`AdmittedIsNotBlocked`).
- `StagedWriteIsReported` and `LegacyNeverSofter` rest on `ForgeRange`, which
  describes the numbered drafts of a forge as a set: no repository is lost in
  the numbering, so a staged write has a scope, and with open egress the rule
  for writing under open egress applies.
- `WideningNeverSoftens` generalises the edits to `Grows`, profiles that differ
  only where the second grants more, and shows for each axis that no finding
  becomes milder.
- `EvaluationIsValid` is an equivalence: validation passes exactly when no value is
  mislabelled. One direction shows that `FindingLess` orders the findings strictly
  (`RuleTells`: two findings of one profile have different rules, and rules have
  different ordinals), so that the number of findings before one is its place in
  the list and every place is taken (`RanksAreTaken`); that every disposition the
  evaluator gives is one its rule allows (`RulesRegistered`); and that every other
  label is fit to show (`ScopesAreValid`). The other finds the scope that carries
  the unfit label (`MislabelledScope`).

`AttachHubProofs` proves `AttachedIsServed`, `ExitIsTold`, `StreamUnbroken` and
`LogIsHonest` for every set of clients, buffer size, log cap and output.
`PendingInv` separates connections that were made from those registered;
`SentInv` gives the place in the stream of the client in the slot and of the one
a goroutine picked under the lock and writes to without it (they may differ, and
then the one in the slot has been sent nothing); `ServedInv` and `DueInv` carry a
client that stays from the exit of the agent to the exit frame.

`ReapingProofs` proves `SweepIsThorough`, `HandleOutlivesBoundary` and
`SweepSparesTheLiving` for any number of runs, sessions and runtimes. `Place`
says whom a command aims at (itself, or a run that is over), `Progress` how far
a reap is, and `Owed` why nothing that was orphaned is left out: it is ahead in
the pass for its kind, or being reaped, or gone, and a dead run keeps its marker
as long as it has something left. `Frame` collects what the step of any other
process may do to a command; most cases of the proof are an instance of it.

`GithubStagingProofs` proves `AgentKeepsTokens` for any number of partitions and
any lifetimes, and the token accounting (`TeardownRevokes`, `StopRevokesHeld`,
`WholeBatchesRetained`) under `Distinct`: there is one partition or no API
access, so that a retirement name belongs to one slot. Without it the name
collision listed above loses a token, and TLC shows `StopRevokesHeld` violated
for two partitions with API access. `MetaNeverOverstates` needs no such
condition: `FitInv` says that a slot's tokens only get later, that a batch being
committed is the one in memory, and that its metadata is renamed when all its
tokens are in place or gone. `CalmInv` says when anybody can be revoking,
`MemoryInv` and `FilesInv` how the runner's batch, the temporary and the
canonical files relate, `RetireInv` that a token is retired before it is
replaced, and `RunnerInv` and `StopInv` which of the tokens in use each revoker
has asked for, has still before it in a file it has not read, or will find in
the retirement directory. What they say of files ends where a reconciliation has
wiped the stage of a crashed run (`orphaned`).

Each of these invariants was checked by TLC on the instance of the module's run
(that of `GithubStaging` also with two partitions, with and without API access)
before it was proved. Every assumption the proofs use is an `ASSUME` of the
module that declares the constants, evaluated on every run: bounds are natural
numbers, sets of names that stand for different things are disjoint.

Only model-checked:

- `RetryWithinBounds`: the retry delay is a recursive function.
- The liveness properties (`CommandEnds`, `CancelledRunEnds`, `SupervisorEnds`,
  `HorizonEnds`, `HorizonRevokes`, `StopReturns`): liveness under fairness is outside the prover.

## Plan

Done: the models of the reducer, the egress drivers with their abstract
authority and refinement, `SessionLifecycle`, `AttachHub`, `CredentialLease`,
`GithubStaging`, `ForgeKeys`, `Reaping`, `PolicyEdits`, `PolicyTrust` and the
profile review, and the proofs of every safety property their passing runs
check. To do:

- `ForgeKeys`: several runs of one repository at a time, for which the title
  would have to be told apart.
- `ProfileReview`: resolution against the catalog, so that a review starts from
  the policy file and not from a resolved profile.

## Not modelled

- Catalog and profile resolution, version bumps and upstream lookups: pure
  transformations of documents and network reads, whose result enters here as a
  resolved profile.
- Host path walking, projection and environment reconstruction: what matters
  there is the behaviour of system calls.
- Container images, compose rendering, image garbage collection: text for, and
  calls to, an external engine.
- Egress observation and receipts: read-only parsing of logs and rendering.
- The staging of AWS, GCP, Kubernetes, pnpm and Pi credentials: each calls a host
  tool and writes a file; what they declare and ask of the host is in the review.
- Flag parsing, output envelopes, the Emacs client, user configuration files and
  secret managers: I/O with no state of its own to check.
