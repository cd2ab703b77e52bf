---------------------------- MODULE ProfileReview ---------------------------
(***************************************************************************)
(* A profile under review and the host it would run on. The steps only     *)
(* enumerate: from the defaults, one field at a time departs from its      *)
(* default, within a bound on how many do. The properties relate what the  *)
(* evaluation of each pair says to what loading, staging and launching do. *)
(***************************************************************************)
EXTENDS ProfileReadiness

CONSTANTS MaxFields,       \* departed fields of the profile and the host, forges apart
          MaxDepartures    \* these and the departed parts of forges and their links

VARIABLES prof, host,
          departed   \* how many fields, and how many forge parts, have departed
reviewVars == <<prof, host, departed>>

DefaultProfile ==
    [env |-> "container", network |-> "deny", agent |-> "claude", egress |-> {}, persistent |-> FALSE,
     projection |-> "none", secrets |-> "none", toolchain |-> "none", pnpm |-> "none", aws |-> "none",
     gcp |-> "none", kube |-> "none", pi |-> "none", github |-> NoForge, forgejo |-> NoForge]

DefaultHost ==
    [workspace |-> "ok", runtime |-> "ok", helpers |-> [n \in Helpers |-> "ok"], accounts |-> TRUE,
     links |-> [l \in Forges \X Owners |-> "env"], trust |-> "trusted"]

\* The declaration of a forge starts from the schema's defaults.
DefaultForge ==
    [github  |-> [declared |-> TRUE, mode |-> "app", pat |-> "none", write |-> FALSE, repos |-> {}, api |-> "off"],
     forgejo |-> [declared |-> TRUE, write |-> FALSE, repos |-> {}, url |-> "none", api |-> "off"]]

-----------------------------------------------------------------------------
Values ==
    [env |-> {"host", "container", "future"}, network |-> {"allow", "deny", "future"},
     agent |-> {"claude", "pi"}, egress |-> SUBSET {"ok", "odd"}, persistent |-> BOOLEAN,
     projection |-> {"none", "items", "empty"}, secrets |-> {"none", "env", "op"},
     toolchain |-> {"none", "mise"}, pnpm |-> {"none", "env", "op", "odd"},
     aws |-> {"none", "role", "profile", "brittle", "half", "odd"}, gcp |-> {"none", "default", "scoped", "odd"},
     kube |-> {"none", "eks", "gke", "both", "neither", "odd"}, pi |-> {"none", "luna", "other"}]

ForgeValues ==
    [github  |-> [mode |-> {"app", "pat", "future"}, pat |-> {"none", "env", "op"}, write |-> BOOLEAN,
                  api |-> {"off", "default", "perm", "brittle", "odd"}],
     forgejo |-> [write |-> BOOLEAN, url |-> {"none", "http", "https"}, api |-> {"off", "acked", "unacked"}]]

HostValues ==
    [workspace |-> {"ok", "missing", "unreadable", "stage"}, runtime |-> {"ok", "missing", "shadowed"},
     accounts |-> BOOLEAN, trust |-> {"trusted", "changed", "untrusted", "unreadable"}]

\* One more field, or one more forge part, departs from its default.
Depart(kind) ==
    /\ departed.fields + departed.forge < MaxDepartures
    /\ kind = "fields" => departed.fields < MaxFields
    /\ departed' = [departed EXCEPT ![kind] = @ + 1]

EditField ==
    /\ Depart("fields") /\ UNCHANGED host
    /\ \E f \in DOMAIN Values :
          /\ prof[f] = DefaultProfile[f]
          /\ \E v \in Values[f] \ {prof[f]} : prof' = [prof EXCEPT ![f] = v]

DeclareForge ==
    /\ Depart("forge") /\ UNCHANGED host
    /\ \E k \in Forges : ~prof[k].declared /\ prof' = [prof EXCEPT ![k] = DefaultForge[k]]

EditForge ==
    /\ Depart("forge") /\ UNCHANGED host
    /\ \E k \in {f \in Forges : prof[f].declared} : \E part \in DOMAIN ForgeValues[k] :
          /\ prof[k][part] = DefaultForge[k][part]
          /\ \E v \in ForgeValues[k][part] \ {prof[k][part]} : prof' = [prof EXCEPT ![k][part] = v]

AddRepository ==
    /\ Depart("forge") /\ UNCHANGED host
    /\ \E k \in {f \in Forges : prof[f].declared} : \E r \in RepoCreds \ prof[k].repos :
          prof' = [prof EXCEPT ![k].repos = @ \cup {r}]

ChangeHost ==
    /\ Depart("fields") /\ UNCHANGED prof
    /\ \/ \E f \in DOMAIN HostValues :
             /\ host[f] = DefaultHost[f]
             /\ \E v \in HostValues[f] \ {host[f]} : host' = [host EXCEPT ![f] = v]
       \/ \E n \in Helpers : \E v \in {"missing", "shadowed"} :
             /\ host.helpers[n] = "ok"
             /\ v = "shadowed" => n \in {"agent", "mise"}   \* a preflight does not tell them apart
             /\ host' = [host EXCEPT !.helpers[n] = v]

ChangeLink ==
    /\ Depart("forge") /\ UNCHANGED prof
    /\ \E l \in Forges \X Owners : \E v \in {"none", "op"} :
          host.links[l] = "env" /\ host' = [host EXCEPT !.links[l] = v]

ReviewInit == prof = DefaultProfile /\ host = DefaultHost /\ departed = [fields |-> 0, forge |-> 0]
ReviewNext == EditField \/ DeclareForge \/ EditForge \/ AddRepository \/ ChangeHost \/ ChangeLink
ReviewSpec == ReviewInit /\ [][ReviewNext]_reviewVars

-----------------------------------------------------------------------------
(* Properties *)

\* The authority of a profile does not depend on the host, so the properties
\* of its evaluation are settled once, on the default host.
Authored == host = DefaultHost /\ Reviewed(prof)

\* Values that pass the check on their own and become a label that does not:
\* the prefix of an AWS identity, the suffix of an API permission.
Mislabelled(p) ==
    \/ Fit(p.aws) /\ ~Fit(Labelled(p.aws))
    \/ p.github.declared /\ Fit(p.github.api) /\ ~Fit(Labelled(p.github.api))

\* The evaluations the commands produce pass their own validation, each finding
\* registered with its disposition, all five axes answering, every credential
\* scope fit to be shown and named by a finding, and those of a mislabelled
\* value alone do not (EvaluateAuthority, ValidateAuthorityEvaluation).
EvaluationIsValid ==
    Authored => (EvaluationValid(EvaluateAuthority(prof), CredentialScopes(prof)) <=> ~Mislabelled(prof))

\* The scopes a review shows for a repository.
ScopesOf(p, kind, repo) == {s \in CredentialScopes(p) : s.provider = kind /\ s.draft.target = Shown(repo)}

\* What staging opens for writing is recorded in the session and shown in the
\* review, neither of them as read-only, and under open egress with a critical
\* finding on its own scope (credentialScopesFromProfile, EvaluateAuthority).
StagedWriteIsReported ==
    Authored => \A k \in Forges : \A repo \in StagedWrite(prof, k) :
        /\ \E s \in RecordedScopes(prof) : s.kind = k /\ s.name = repo /\ s.write
        /\ \E s \in ScopesOf(prof, k, repo) : s.draft.access \in {"read_write", "unknown"}
        /\ OpenEgress(prof) =>
              \E f \in Findings(prof) : /\ f.severity = "critical" /\ f.axis = "credentials"
                                        /\ \E s \in ScopesOf(prof, k, repo) : s.id \in f.scopes

\* The older views never understate: the risk summary calls no axis restricted
\* that the evaluation reports as a concern or as unknown, an unclassifiable
\* egress list excepted, and what staging opens for writing has a read-WRITE
\* line and, under open egress, a launch advisory (risk.go, lint.go).
LegacyNeverSofter ==
    Authored =>
        /\ \A axis \in {"network", "files"} :
              RiskRestricted(prof, axis) \/ (axis = "network" /\ RiskLevel(prof) = "contained") =>
                  \/ \A f \in Findings(prof) : f.axis = axis => f.outcome = "bounded"
                  \/ axis = "network" /\ ~EgressValid(prof)
        /\ \A k \in Forges : StagedWrite(prof, k) # {} =>
              /\ LegacyForgeAccess(prof, k) = "read-WRITE"
              /\ OpenEgress(prof) => WriteRule(k) \in Lint(prof)

\* What readiness does not look at although staging refuses it.
Overlooked(p, h) ==
    \/ p.github.declared /\ p.forgejo.declared
    \/ p.github.declared /\ p.github.mode = "pat" /\ ~h.accounts
    \/ \E k \in Forges : p[k].declared /\ \E r \in p[k].repos : r.repo = "odd"
    \/ p.kube # "none" /\ ~OneCluster(p)
    \/ p.forgejo.declared /\ p.forgejo.api # "off" /\ Cardinality(OwnersFromRepos(p.forgejo)) > 1

\* Where a launch proceeds although readiness reports it blocked: what the
\* inspection asks of the host and a launch does not.
Overcautious(p, h) ==
    \/ p.env = "container" /\ Wraps(p) /\ h.helpers["mise"] # "ok"
    \/ p.env = "host" /\ (h.helpers["agent"] # "ok" \/ h.helpers["mise"] # "ok" \/ h.workspace = "stage")

\* Readiness and launch agree. A profile reported ready and trusted passes
\* every gate of a launch that it and the host decide, but for the five
\* conditions only staging knows; one reported blocked is refused, but for a
\* toolchain, agent or host workspace that only the inspection is strict about
\* (profile_evaluation.go against stageProfile and cmdRun).
ReadinessAgrees ==
    /\ /\ Loadable(prof) /\ ReadinessState(prof, host) = "ready" /\ TrustState(host) = "trusted"
       /\ ~Overlooked(prof, host)
       => LaunchAdmitted(prof, host)
    /\ ReadinessState(prof, host) = "blocked" /\ ~Overcautious(prof, host) => ~LaunchAdmitted(prof, host)

-----------------------------------------------------------------------------
(* Widening *)

\* Every finding of p is matched on its axis by one of q at least as severe,
\* unless q is reported unknown, or p was: an unknown has no size.
NoMilder(before, after, axis) ==
    LET was == {f \in before : f.axis = axis}
        is  == {f \in after : f.axis = axis}
    IN  \/ \E f \in was \cup is : f.outcome = "unknown"
        \/ \A f \in was : \E g \in is : SeverityOrder(g.severity) <= SeverityOrder(f.severity)

\* The edits that grant more than p and nothing less: out of the container,
\* open egress, a secret, one more credential, write access, an API token.
Widened(p) ==
    {[p EXCEPT !.env = "host"], [p EXCEPT !.network = "allow"]}
    \cup {[p EXCEPT !.secrets = "env"]}
    \cup {[p EXCEPT !.aws = "profile"] : x \in {"none"} \cap {p.aws}}
    \cup {[p EXCEPT !.github = DefaultForge.github] : x \in {FALSE} \cap {p.github.declared}}
    \cup {[p EXCEPT ![k].write = TRUE] : k \in {f \in Forges : p[f].declared}}
    \cup {[p EXCEPT !.github.api = "perm"] : x \in {TRUE} \cap {p.github.declared /\ p.github.api = "off"}}
    \cup {[p EXCEPT !.forgejo.api = "acked"] : x \in {TRUE} \cap {p.forgejo.declared /\ p.forgejo.api = "off"}}

\* Authority that grows is never reported as smaller: no axis of the
\* evaluation gets milder when a profile is widened, although a profile that
\* moves to the host no longer projects host configuration.
WideningNeverSoftens ==
    Authored =>
        LET before == Findings(prof)
        IN  \A q \in Widened(prof) : Reviewed(q) =>
                LET after == Findings(q)
                IN  \A axis \in Axes :
                        NoMilder(before, after, axis) \/ (axis = "projection" /\ q.env = "host")

OwnerSymmetry == Permutations(Owners)
=============================================================================
