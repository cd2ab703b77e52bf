-------------------------- MODULE ProfileReadiness --------------------------
(***************************************************************************)
(* What a profile needs of the host, told twice: by the readiness section  *)
(* of an evaluation, which inspects and never stages, and by the gates     *)
(* where a launch refuses for what the profile and the host are: not for   *)
(* what a secret reference or a login of the host turns out to hold, or a  *)
(* helper or a forge answers, which readiness leaves aside by design. Also *)
(* what staging then grants, and what the session record says of it.       *)
(*                                                                         *)
(* A host is the state of what either of them looks at: the workspace, the *)
(* container runtime, the helpers on the sanitized PATH, the account links *)
(* and the recorded approval of the policy.                                *)
(***************************************************************************)
EXTENDS ProfileAuthority

Helpers == {"op", "aws", "gcloud", "gke-gcloud-auth-plugin", "git", "ssh-keygen", "ssh-keyscan", "agent", "mise"}
Forges  == {"github", "forgejo"}

Hosts == [workspace : {"ok", "missing", "unreadable", "stage"},
          runtime   : {"ok", "missing", "shadowed"},
          helpers   : [Helpers -> {"ok", "missing", "shadowed"}],
          accounts  : BOOLEAN,
          links     : [Forges \X Owners -> {"none", "env", "op"}],
          trust     : {"trusted", "changed", "untrusted", "unreadable"}]

\* Account links as Lookup finds them; accounts tells whether the file loads.
Linked(h, kind, owner) == h.links[<<kind, owner>>] # "none"
OpLink(h, kind, owner) == h.links[<<kind, owner>>] = "op"

\* ownersFromRepos skips what is not owner/name.
OwnersFromRepos(f) == {r.repo : r \in f.repos} \ {"odd"}

\* forgejoPreflightHost: without an instance URL no link can be looked up.
LinkHost(p, kind) == kind = "github" \/ p.forgejo.url # "none"

-----------------------------------------------------------------------------
(* Helpers *)

\* requiredProfileHostHelpers. Readiness passes no accounts, a launch does.
\* The cluster of unfit name is one of EKS.
RequiredHelpers(p, h, accounts) ==
    LET opLinks(kind) == accounts /\ LinkHost(p, kind)
                         /\ \E o \in OwnersFromRepos(p[kind]) : OpLink(h, kind, o)
        opRef == \/ p.secrets = "op" \/ p.pnpm = "op"
                 \/ p.github.declared /\ p.github.mode = "pat" /\ p.github.pat = "op"
                 \/ p.github.declared /\ p.github.mode # "pat" /\ opLinks("github")
                 \/ p.forgejo.declared /\ opLinks("forgejo")
    IN  (IF opRef THEN {"op"} ELSE {})
        \cup (IF p.aws # "none" \/ p.kube \in {"eks", "odd", "both"} THEN {"aws"} ELSE {})
        \cup (IF p.gcp # "none" THEN {"gcloud"} ELSE {})
        \cup (IF p.kube \in {"gke", "both"} THEN {"gke-gcloud-auth-plugin", "gcloud"} ELSE {})
        \cup (IF \/ p.github.declared /\ p.github.mode # "pat" /\ p.github.repos = {}
                 \/ p.forgejo.declared /\ p.forgejo.repos = {}
              THEN {"git"} ELSE {})
        \cup (IF p.forgejo.declared THEN {"ssh-keygen", "ssh-keyscan"} ELSE {})

-----------------------------------------------------------------------------
(* The readiness section *)

\* inspectGithubAccountLinks, inspectForgejoAccountLinks
AccountLinks(p, h, kind) ==
    IF ~h.accounts \/ ~LinkHost(p, kind) \/ OwnersFromRepos(p[kind]) = {} THEN "unknown"
    ELSE IF \A o \in OwnersFromRepos(p[kind]) : Linked(h, kind, o) THEN "pass" ELSE "fail"

LinkRequired(p, kind) == p[kind].declared /\ (kind = "github" => p.github.mode # "pat")

\* RequiresOp: set while the links of declared owners are looked up.
LinkRequiresOp(p, h, kind) ==
    /\ LinkRequired(p, kind) /\ AccountLinks(p, h, kind) # "unknown"
    /\ \E o \in OwnersFromRepos(p[kind]) : OpLink(h, kind, o)

\* Mutant: only the helpers the profile itself names.
ProfileHelpers(p, h) == RequiredHelpers(p, h, FALSE)
\* profileRequiredHelperNames
InspectedHelpers(p, h) ==
    RequiredHelpers(p, h, FALSE) \cup
        IF \E k \in Forges : LinkRequiresOp(p, h, k) THEN {"op"} ELSE {}

HelperOutcome(h, names) == IF \A n \in names : h.helpers[n] = "ok" THEN "pass" ELSE "fail"
Wraps(p) == p.toolchain # "none"

\* The findings that can keep a profile from ready.
WorkspaceOutcome(h) ==
    CASE h.workspace = "ok" -> "pass" [] h.workspace = "unreadable" -> "unknown" [] OTHER -> "fail"
RuntimeOutcome(p, h)   == IF p.env # "container" THEN "n/a" ELSE IF h.runtime = "ok" THEN "pass" ELSE "fail"
AgentOutcome(p, h)     == IF p.env = "container" THEN "n/a" ELSE HelperOutcome(h, {"agent"})
SecretOutcome(p, h)    == HelperOutcome(h, InspectedHelpers(p, h))
ToolchainOutcome(p, h) == IF Wraps(p) THEN HelperOutcome(h, {"mise"}) ELSE "n/a"
AccountOutcome(p, h, kind) == IF LinkRequired(p, kind) THEN AccountLinks(p, h, kind) ELSE "n/a"

\* evaluateProfileReadiness
ReadinessOutcomes(p, h) ==
    {WorkspaceOutcome(h), RuntimeOutcome(p, h), AgentOutcome(p, h), SecretOutcome(p, h),
     ToolchainOutcome(p, h)} \cup {AccountOutcome(p, h, k) : k \in Forges}

ReadinessState(p, h) ==
    LET outcomes == ReadinessOutcomes(p, h)
    IN  IF "fail" \in outcomes THEN "blocked" ELSE IF "unknown" \in outcomes THEN "unknown" ELSE "ready"

\* evaluateProfileTrust, of a saved project policy.
TrustState(h) == IF h.trust = "unreadable" THEN "unknown" ELSE h.trust

-----------------------------------------------------------------------------
(* The gates of a launch *)

\* workspaceboundary.Resolve, and the stage root a container may not mount.
WorkspaceGate(p, h) ==
    h.workspace = "ok" \/ (h.workspace = "stage" /\ p.env = "host")

\* resolveHostBinary takes the first match of PATH; a toolchain is what runs.
ExecGate(p, h) ==
    p.env = "host" => h.helpers[IF Wraps(p) THEN "mise" ELSE "agent"] # "missing"

\* The start of stageProfile: the account links load, the helpers are there.
PreflightGate(p, h) ==
    /\ (p.github.declared \/ p.forgejo.declared) => h.accounts
    /\ \A n \in RequiredHelpers(p, h, TRUE) : h.helpers[n] = "ok"

\* StageKube
ClusterGate(p) == p.kube # "none" => OneCluster(p)

\* splitOwnerRepo, of every declared repository, with a personal token too.
RepositoryGate(p) ==
    \A k \in Forges : p[k].declared => \A r \in p[k].repos : r.repo # "odd"

\* What looking up the account links of a forge's repositories demands.
ForgeGate(p, h, kind) ==
    LinkRequired(p, kind) /\ p[kind].repos # {} =>
        /\ \A o \in OwnersFromRepos(p[kind]) : Linked(h, kind, o)
        /\ kind = "forgejo" => p.forgejo.url # "none"
        /\ kind = "forgejo" /\ p.forgejo.api # "off" => Cardinality(OwnersFromRepos(p.forgejo)) = 1

StageGate(p, h) ==
    /\ PreflightGate(p, h)
    /\ ClusterGate(p)
    /\ ~(p.github.declared /\ p.forgejo.declared)
    /\ RepositoryGate(p)
    /\ \A k \in Forges : ForgeGate(p, h, k)

\* What of a launch depends on the profile and the host alone.
LaunchAdmitted(p, h) ==
    /\ Loadable(p)
    /\ WorkspaceGate(p, h)
    /\ h.trust = "trusted"
    /\ p.env = "container" => h.runtime = "ok"
    /\ StageGate(p, h)
    /\ ExecGate(p, h)

-----------------------------------------------------------------------------
(* What staging grants, and what is recorded of it *)

\* githubPartitions, stageForgejoMulti: a declared repository has the access
\* of its own entry, the origin that of the provider. What a personal token
\* may do is the forge's business.
StagedWrite(p, kind) ==
    IF ~LinkRequired(p, kind) THEN {}
    ELSE IF p[kind].repos = {} THEN (IF p[kind].write THEN {"origin"} ELSE {})
    ELSE {r.repo : r \in {s \in p[kind].repos : s.write}}

\* Mutant: every row has the access of the provider.
ProviderRows(p) ==
    UNION {{[kind |-> k, name |-> n, write |-> p[k].write] :
               n \in IF p[k].repos = {} THEN {"origin"} ELSE {r.repo : r \in p[k].repos}} :
              k \in {f \in Forges : p[f].declared}}
\* credentialScopesFromProfile: the value-free rows of a session record.
RecordedScopes(p) ==
    UNION {IF p[k].repos = {} THEN {[kind |-> k, name |-> "origin", write |-> p[k].write]}
           ELSE {[kind |-> k, name |-> r.repo, write |-> r.write] : r \in p[k].repos} :
              k \in {f \in Forges : p[f].declared}}
    \cup {[kind |-> k, name |-> "declared", write |-> FALSE] :
              k \in (DeclaredProviders(p) \ Forges)}
=============================================================================
