-------------------------- MODULE ProfileAuthority --------------------------
(***************************************************************************)
(* What a profile authorizes: the facts the engine normalizes from a       *)
(* decoded profile, the findings and credential scopes EvaluateAuthority   *)
(* derives from them, the older risk and lint views of the same facts, the *)
(* validation of an evaluation, and the checks that loading a policy makes *)
(* beyond its schema.                                                      *)
(*                                                                         *)
(* A profile keeps of each declared value what the code tells apart: a     *)
(* reference is present or absent, a name is fit to be shown, or it is     *)
(* "odd", or it is "brittle": fit by itself and not inside a longer label, *)
(* as a URL, which may hold slashes, or a name near the length limit.      *)
(***************************************************************************)
EXTENDS Naturals, Sequences, FiniteSets, SequencesExt, TLC

CONSTANT Owners   \* of repositories, one repository each

NoForge == [declared |-> FALSE]

\* repo: the owner's repository, or a target that is not owner/name.
RepoCreds == [repo : Owners \cup {"odd"}, write : BOOLEAN]
Github  == [declared : {TRUE}, mode : {"app", "pat", "future"}, pat : {"none", "env", "op"}, write : BOOLEAN,
            repos : SUBSET RepoCreds, api : {"off", "default", "perm", "brittle", "odd"}]
Forgejo == [declared : {TRUE}, write : BOOLEAN, repos : SUBSET RepoCreds, url : {"none", "http", "https"},
            api : {"off", "acked", "unacked"}]

-----------------------------------------------------------------------------
(* Normalized facts *)

Network(p) ==
    CASE p.env = "host"                               -> "host"
      [] p.env = "container" /\ p.network = "allow"   -> "open"
      [] p.env = "container" /\ p.network = "deny"    -> "allowlisted"
      [] OTHER                                        -> "unknown"

\* Mutant: open egress is an open container.
OpenContainer(p) == p.env = "container" /\ p.network = "allow"
OpenEgress(p) == p.env = "host" \/ p.network = "allow"

Files(p) ==
    CASE p.env = "host" -> "account" [] p.env = "container" -> "workspace" [] OTHER -> "unknown"

Projection(p) ==
    CASE p.env = "host"                                   -> "n/a"
      [] p.env = "container" /\ p.projection = "none"     -> "absent"
      [] p.env = "container" /\ p.projection = "items"    -> "live"
      [] OTHER                                            -> "unknown"

\* valueFreeEgressDestinations
EgressValid(p)   == "odd" \notin p.egress
EgressIgnored(p) == p.egress # {} /\ Network(p) # "allowlisted"

-----------------------------------------------------------------------------
(* Credential scopes *)

\* A scope before it has an identifier, with whether it is unclassified and
\* whether its credential can write to a repository.
Draft(target, access, lifetime, basis, unknown, write) ==
    [target |-> target, access |-> access, lifetime |-> lifetime, basis |-> basis,
     unknown |-> unknown, write |-> write]

WriteAccess(w) == IF w THEN "read_write" ELSE "read_only"

\* effectiveWrite
EffectiveWrite(f, r) == f.write \/ r.write

\* safeValueFreeMetadata
Fit(target) == target # "odd"
\* A target that is not fit to be shown is replaced by a fixed label.
Shown(target) == IF Fit(target) THEN target ELSE "declared"
\* A target that was checked and then put into a longer label.
Labelled(target) == IF target = "brittle" THEN "odd" ELSE target

RepositoryDraft(f, r, lifetime, forceUnknown) ==
    Draft(Shown(r.repo), IF forceUnknown THEN "unknown" ELSE WriteAccess(EffectiveWrite(f, r)),
          lifetime, "declared", forceUnknown \/ r.repo = "odd", EffectiveWrite(f, r))
RepositoryDrafts(f, lifetime, forceUnknown) ==
    LET repos == SetToSeq(f.repos)
    IN  [i \in DOMAIN repos |-> RepositoryDraft(f, repos[i], lifetime, forceUnknown)]

OriginDraft(f, lifetime, unknown) ==
    Draft("origin", WriteAccess(f.write), lifetime, "resolved_at_launch", unknown, f.write)

GithubLifetime(g) ==
    CASE g.mode = "app" -> "short_lived" [] g.mode = "pat" -> "persistent" [] OTHER -> "unknown"
GithubUnknownMode(g) ==
    CASE g.mode = "app" -> g.pat # "none"
      [] g.mode = "pat" -> g.pat = "none" \/ g.repos = {}
      [] OTHER          -> TRUE

GithubAPIDrafts(g) ==
    CASE g.api = "off"     -> <<>>
      [] g.api = "default" -> <<Draft("api-default", "provider_default", GithubLifetime(g),
                                      "provider_default", FALSE, FALSE)>>
      [] OTHER             -> <<Draft(Labelled(Shown(g.api)), "scoped_api", GithubLifetime(g),
                                      "declared", g.api = "odd", FALSE)>>

GithubDrafts(g) ==
    (IF g.repos = {} THEN <<OriginDraft(g, GithubLifetime(g), GithubUnknownMode(g))>>
     ELSE RepositoryDrafts(g, GithubLifetime(g), GithubUnknownMode(g)))
    \o GithubAPIDrafts(g)

ForgejoDrafts(f) ==
    (IF f.repos = {} THEN <<OriginDraft(f, "short_lived", FALSE)>>
     ELSE RepositoryDrafts(f, "short_lived", FALSE))
    \o IF f.api = "off" THEN <<>>
       ELSE <<Draft("account", "external_policy", "persistent", "provider_default",
                    f.api = "unacked", FALSE)>>

\* A declared cluster is in EKS or in GKE; the schema asks for neither.
OneCluster(p) == p.kube \notin {"both", "neither"}

\* A provider whose drafts do not depend on repositories.
CloudDraft(kind, p) ==
    CASE kind = "pnpm" -> Draft(IF p.pnpm = "odd" THEN "declared" ELSE "registry", "external_policy",
                                "persistent", "declared", p.pnpm = "odd", FALSE)
      [] kind = "aws"  -> Draft(Labelled(Shown(p.aws)), "external_policy", "short_lived", "resolved_at_launch",
                                p.aws \in {"odd", "half"}, FALSE)
      [] kind = "gcp"  -> IF p.gcp = "default"
                          THEN Draft("adc", "provider_default", "short_lived", "provider_default", FALSE, FALSE)
                          ELSE Draft(Shown(p.gcp), "scoped_api", "short_lived", "declared", p.gcp = "odd", FALSE)
      [] kind = "kube" -> Draft(IF OneCluster(p) THEN Shown(p.kube) ELSE "declared", "external_policy",
                                "short_lived", "declared", p.kube = "odd" \/ ~OneCluster(p), FALSE)
PiDraft(p) == Draft(IF p.pi = "luna" THEN "luna" ELSE "declared", "provider_default", "short_lived", "host_snapshot", p.pi # "luna", FALSE)

Providers == {"pnpm", "aws", "gcp", "kube", "github", "forgejo", "pi-oauth"}
Declares(p, kind) ==
    CASE kind = "github"   -> p.github.declared
      [] kind = "forgejo"  -> p.forgejo.declared
      [] kind = "pi-oauth" -> p.pi # "none"
      [] OTHER             -> p[kind] # "none"
DeclaredProviders(p) == {k \in Providers : Declares(p, k)}

\* The drafts of a provider. The code sorts them before it numbers them; the
\* order only has to be stable, so here it is any fixed one.
Drafts(p, kind) ==
    CASE kind = "github"  -> GithubDrafts(p.github)
      [] kind = "forgejo" -> ForgejoDrafts(p.forgejo)
      [] kind = "pi-oauth" -> <<PiDraft(p)>>
      [] OTHER            -> <<CloudDraft(kind, p)>>

\* Mutant: the finding of a provider lists the repositories only.
RepositoriesOnly(p, kind) == {<<kind, i>> : i \in {j \in DOMAIN Drafts(p, kind) :
                                 Drafts(p, kind)[j].access \in {"read_only", "read_write", "unknown"}}}
ScopeIDs(p, kind) == {<<kind, i>> : i \in DOMAIN Drafts(p, kind)}

WriteScopeIDs(p, kind) == {<<kind, i>> : i \in {j \in DOMAIN Drafts(p, kind) : Drafts(p, kind)[j].write}}

ProviderUnknown(p, kind) ==
    \/ \E d \in Range(Drafts(p, kind)) : d.unknown
    \/ kind = "forgejo" /\ Cardinality(p.forgejo.repos) > 1 /\ p.forgejo.url # "https"

HighAuthority(p, kind) ==
    \/ kind \notin {"github", "forgejo"}
    \/ p[kind].api # "off"
    \/ \E d \in Range(Drafts(p, kind)) : d.write \/ d.unknown

\* normalizeCredentialAuthority
CredentialScopes(p) ==
    UNION {{[id |-> <<k, i>>, provider |-> k, draft |-> Drafts(p, k)[i]] : i \in DOMAIN Drafts(p, k)} :
              k \in DeclaredProviders(p)}

-----------------------------------------------------------------------------
(* Findings *)

Rule(axis, ordinal, allowed) == [axis |-> axis, ordinal |-> ordinal, allowed |-> allowed]
Concern(s) == <<"concern", s>>
Unknown(s) == <<"unknown", s>>
Bounded    == <<"bounded", "info">>
CredentialRule(ordinal) ==
    Rule("credentials", ordinal, {Concern("medium"), Concern("high"), Unknown("high")})

\* The compatibility rule of a forge's write access under open egress.
WriteRule(kind) == IF kind = "github" THEN "github-write-open-egress" ELSE "forgejo-write-open-egress"

RuleNames == Providers \cup
    {"host-unrestricted", "container-open-egress", "network.unknown", "egress-ignored", "container-allowlist",
     "host-account", "files.unknown", "files.workspace",
     "live-host-config", "projection.unknown", "projection.absent", "projection.n/a",
     "secrets.injected", "secrets.absent",
     "github-write-open-egress", "forgejo-write-open-egress", "credentials.absent"}

\* authorityRuleRegistry
RuleOf(r) ==
    CASE r = "host-unrestricted"     -> Rule("network", 100, {Concern("critical")})
      [] r = "container-open-egress" -> Rule("network", 110, {Concern("high")})
      [] r = "network.unknown"       -> Rule("network", 120, {Unknown("critical")})
      [] r = "egress-ignored"        -> Rule("network", 130, {Concern("medium")})
      [] r = "container-allowlist"   -> Rule("network", 140, {Bounded})
      [] r = "host-account"          -> Rule("files", 200, {Concern("critical")})
      [] r = "files.unknown"         -> Rule("files", 210, {Unknown("critical")})
      [] r = "files.workspace"       -> Rule("files", 220, {Bounded})
      [] r = "live-host-config"      -> Rule("projection", 300, {Concern("medium")})
      [] r = "projection.unknown"    -> Rule("projection", 310, {Unknown("high")})
      [] r = "projection.absent"     -> Rule("projection", 320, {Bounded})
      [] r = "projection.n/a"        -> Rule("projection", 330, {<<"not_applicable", "info">>})
      [] r = "secrets.injected"      -> Rule("secrets", 400, {Concern("high")})
      [] r = "secrets.absent"        -> Rule("secrets", 410, {Bounded})
      [] r = "github-write-open-egress"  -> Rule("credentials", 500, {Concern("critical")})
      [] r = "forgejo-write-open-egress" -> Rule("credentials", 510, {Concern("critical")})
      [] r = "pnpm"                  -> CredentialRule(520)
      [] r = "aws"                   -> CredentialRule(530)
      [] r = "gcp"                   -> CredentialRule(540)
      [] r = "kube"                  -> CredentialRule(550)
      [] r = "github"                -> CredentialRule(560)
      [] r = "forgejo"               -> CredentialRule(570)
      [] r = "pi-oauth"              -> CredentialRule(580)
      [] r = "credentials.absent"    -> Rule("credentials", 590, {Bounded})
Registry == [r \in RuleNames |-> RuleOf(r)]

\* Every rule has dispositions and its own place on its axis.
ValidateFindingRegistry ==
    /\ \A r \in DOMAIN Registry : Registry[r].ordinal > 0 /\ Registry[r].allowed # {}
    /\ \A r, s \in DOMAIN Registry :
          Registry[r].axis = Registry[s].axis /\ Registry[r].ordinal = Registry[s].ordinal => r = s

ASSUME RegistryAssumption == ValidateFindingRegistry

\* makeAuthorityFinding; a rule has a remediation iff its outcome needs one.
Finding(rule, disposition, ids) ==
    [rule |-> rule, axis |-> Registry[rule].axis, outcome |-> disposition[1],
     severity |-> disposition[2], scopes |-> ids]

NetworkFindings(p) ==
    {CASE Network(p) = "host" -> Finding("host-unrestricted", Concern("critical"), {})
       [] Network(p) = "open" -> Finding("container-open-egress", Concern("high"), {})
       [] Network(p) = "allowlisted" /\ EgressValid(p) -> Finding("container-allowlist", Bounded, {})
       [] OTHER -> Finding("network.unknown", Unknown("critical"), {})}
    \cup IF EgressIgnored(p) THEN {Finding("egress-ignored", Concern("medium"), {})} ELSE {}

FileFindings(p) ==
    {CASE Files(p) = "account"   -> Finding("host-account", Concern("critical"), {})
       [] Files(p) = "workspace" -> Finding("files.workspace", Bounded, {})
       [] OTHER                  -> Finding("files.unknown", Unknown("critical"), {})}

ProjectionFindings(p) ==
    {CASE Projection(p) = "n/a"    -> Finding("projection.n/a", <<"not_applicable", "info">>, {})
       [] Projection(p) = "absent" -> Finding("projection.absent", Bounded, {})
       [] Projection(p) = "live"   -> Finding("live-host-config", Concern("medium"), {})
       [] OTHER                    -> Finding("projection.unknown", Unknown("high"), {})}

SecretFindings(p) ==
    {IF p.secrets = "none" THEN Finding("secrets.absent", Bounded, {})
     ELSE Finding("secrets.injected", Concern("high"), {})}

\* compatibilityRuleApplies
WriteOpenEgress(p, kind) ==
    kind \in {"github", "forgejo"} /\ OpenEgress(p) /\ WriteScopeIDs(p, kind) # {}

CredentialDisposition(p, kind) ==
    IF ProviderUnknown(p, kind) THEN Unknown("high")
    ELSE IF HighAuthority(p, kind) THEN Concern("high") ELSE Concern("medium")

CredentialFindings(p) ==
    IF DeclaredProviders(p) = {} THEN {Finding("credentials.absent", Bounded, {})}
    ELSE {Finding(k, CredentialDisposition(p, k), ScopeIDs(p, k)) : k \in DeclaredProviders(p)}
         \cup {Finding(WriteRule(k), Concern("critical"), WriteScopeIDs(p, k)) :
                  k \in {j \in DeclaredProviders(p) : WriteOpenEgress(p, j)}}

Axes == {"network", "files", "projection", "secrets", "credentials"}
AxisOrder(a)     == CASE a = "network" -> 1 [] a = "files" -> 2 [] a = "projection" -> 3
                      [] a = "secrets" -> 4 [] a = "credentials" -> 5
OutcomeOrder(o)  == CASE o \in {"concern", "fail", "unknown"} -> 0 [] o = "bounded" -> 1
                      [] o = "pass" -> 2 [] OTHER -> 3
SeverityOrder(s) == CASE s = "critical" -> 1 [] s = "high" -> 2 [] s = "medium" -> 3 [] s = "info" -> 4

\* authorityFindingLess
FindingLess(a, b) ==
    LET key(f) == <<AxisOrder(f.axis), OutcomeOrder(f.outcome), SeverityOrder(f.severity),
                    Registry[f.rule].ordinal>>
    IN  \E i \in 1..4 : key(a)[i] < key(b)[i] /\ \A j \in 1..(i - 1) : key(a)[j] = key(b)[j]

Findings(p) == NetworkFindings(p) \cup FileFindings(p) \cup ProjectionFindings(p)
               \cup SecretFindings(p) \cup CredentialFindings(p)

EvaluateAuthority(p) ==
    LET findings == Findings(p)
    IN  [i \in 1..Cardinality(findings) |->
            CHOOSE f \in findings : Cardinality({g \in findings : FindingLess(g, f)}) = i - 1]

-----------------------------------------------------------------------------
(* Validation, the older views, and loading *)

\* validateCredentialScope: the target is fit to be shown.
ScopeValid(s) == Fit(s.draft.target) /\ (s.provider = "pi-oauth" => s.draft.target = "luna")

\* ValidateAuthorityEvaluation; what does not depend on the wording.
EvaluationValid(findings, scopes) ==
    /\ \A s \in scopes : ScopeValid(s)
    /\ \A i \in DOMAIN findings :
          /\ findings[i].rule \in DOMAIN Registry
          /\ findings[i].axis = Registry[findings[i].rule].axis
          /\ <<findings[i].outcome, findings[i].severity>> \in Registry[findings[i].rule].allowed
          /\ findings[i].scopes \subseteq {s.id : s \in scopes}
          /\ \A j \in 1..(i - 1) : /\ findings[j].rule # findings[i].rule
                                   /\ ~FindingLess(findings[i], findings[j])
    /\ {f.axis : f \in Range(findings)} = Axes
    /\ {s.id : s \in scopes} = UNION {f.scopes : f \in Range(findings)}

\* Mutant: a container restricts.
ContainerRestricts(p, axis) == p.env = "container"
\* RiskAxes: whether the older view calls an axis restricted.
RiskRestricted(p, axis) ==
    IF axis = "network" THEN Network(p) = "allowlisted" ELSE Files(p) = "workspace"

\* RiskSummary: the band of the profile, and what it says of a forge credential.
RiskLevel(p) ==
    CASE Network(p) = "allowlisted" -> "contained" [] Network(p) = "open" -> "elevated" [] OTHER -> "high"
LegacyForgeAccess(p, kind) == IF WriteScopeIDs(p, kind) # {} THEN "read-WRITE" ELSE "read-only"

\* Lint: the codes of the advisories printed at launch.
Lint(p) ==
    {WriteRule(k) : k \in {j \in DeclaredProviders(p) : WriteOpenEgress(p, j)}}
    \cup IF EgressIgnored(p) THEN {"egress-ignored"} ELSE {}

\* What the schema and LoadBytes admit of a project's profile.
ValidateGithub(g) ==
    /\ g.mode \in {"app", "pat"}
    /\ g.mode = "pat" => g.pat # "none" /\ g.repos # {}
    /\ g.api # "off" => g.mode = "app" /\ g.api # "default"
ValidateForgejo(f) == f.api # "off" => f.api = "acked" /\ f.url = "https"
ValidatePi(p) == p.pi = "luna" /\ p.agent = "pi" /\ p.env = "container" /\ p.network = "deny"

Loadable(p) ==
    /\ p.env \in {"host", "container"}
    /\ p.network \in {"allow", "deny"}
    /\ p.projection = "none"
    /\ p.persistent => p.env = "container" /\ p.network = "deny"
    /\ p.github.declared => ValidateGithub(p.github)
    /\ p.forgejo.declared => ValidateForgejo(p.forgejo)
    /\ p.pi # "none" => ValidatePi(p)

\* A profile reaches a review from a project's policy or, with the projection
\* that only the engine may set, from the builtins.
Reviewed(p) == p.projection \in {"none", "items"} /\ Loadable([p EXCEPT !.projection = "none"])
=============================================================================
