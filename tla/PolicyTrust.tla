---------------------------- MODULE PolicyTrust ----------------------------
(***************************************************************************)
(* The trust store and the launches it gates, beside the commands of       *)
(* PolicyEdits that rewrite the policy file.  safeslop trust and untrust   *)
(* load the store, change one entry and write the whole store back, with   *)
(* no lock; os.WriteFile truncates the file before it writes it.  safeslop *)
(* run and session create read the policy once, and what they checked is   *)
(* what they use; session run verifies the file against the store and the  *)
(* record, and then reads it again.                                        *)
(***************************************************************************)
EXTENDS PolicyEdits

CONSTANTS
    Torn,       \* a trust store that does not parse
    Users,      \* trust, untrust, run and session commands
    MaxUses     \* bound: commands of users

ASSUME UsesAssumption == MaxUses \in Nat

VARIABLES
    trust,      \* trust.json: the approved text of each path, or Torn
    upc, use,   \* users, and the command each has in hand
    pinned,     \* the profile session's PolicyHash
    uses,       \* commands of users so far
    approvals   \* ghost: texts an operator approved for the policy

tstore == <<trust, pinned>>
tvars  == <<tstore, upc, use, uses, approvals>>
allvars == <<vars, tvars>>

Paths   == {"policy", "other"}
Entries == [Paths -> Texts \cup {Absent}]
Idle    == [op |-> "none", path |-> "policy", bytes |-> Absent, pin |-> Absent,
            entries |-> [p \in Paths |-> Absent]]
UserOps == {"none", "trust", "untrust", "run", "run --trust", "create", "session run"}

UserGoto(u, l) == upc' = [upc EXCEPT ![u] = l]

\* Every variable stays in its domain.
TrustTypeOK ==
    /\ TypeOK
    /\ trust = Torn \/ trust \in Entries
    /\ upc \in [Users -> {"idle", "load", "write", "torn", "launch"}]
    /\ \A u \in Users : /\ use[u].op \in UserOps /\ use[u].path \in Paths
                        /\ use[u].bytes \in Texts \cup {Absent} /\ use[u].entries \in Entries
    /\ pinned \in Texts \cup {Absent} /\ uses \in 0..MaxUses
    /\ approvals \subseteq Texts

TrustInit ==
    /\ Init
    /\ trust = Idle.entries /\ upc = [u \in Users |-> "idle"] /\ use = [u \in Users |-> Idle]
    /\ pinned = Absent /\ uses = 0 /\ approvals = {}

-----------------------------------------------------------------------------
(* The commands *)

\* The bytes at a path.  The other policy never changes.
Bytes(p) == IF p = "policy" THEN file ELSE NewText

\* os.ReadFile of the policy succeeds.
Readable(p) == Bytes(p) # Absent

\* Read the policy; a command that cannot read it fails.
Begin(u) ==
    /\ upc[u] = "idle" /\ uses < MaxUses /\ uses' = uses + 1
    /\ \E op \in UserOps \ {"none"}, p \in Paths :
        /\ p = "other" => op = "trust"
        /\ op = "session run" => pinned # Absent
        /\ Readable(p)
        /\ use' = [use EXCEPT ![u] = [Idle EXCEPT !.op = op, !.path = p, !.bytes = Bytes(p),
                                !.pin = IF op = "session run" THEN pinned ELSE Absent]]
    /\ UserGoto(u, "load")
    /\ UNCHANGED <<vars, tstore, approvals>>

End(u) == UserGoto(u, "idle") /\ use' = [use EXCEPT ![u] = Idle]

\* Mutant: a policy that was ever approved is trusted.
AnyEntry(s, p, bytes) == s[p] # Absent
\* Store.Check
Check(s, p, bytes) == s[p] # Absent /\ s[p] = bytes

\* loadTrustStore; a torn store is an error.
LoadFails(u) ==
    /\ upc[u] = "load" /\ trust = Torn
    /\ End(u) /\ UNCHANGED <<vars, tstore, uses, approvals>>

\* The store is loaded and command c goes on, or its gate refuses it.
Loaded(u, ops)  == upc[u] = "load" /\ trust # Torn /\ use[u].op \in ops
Trusted(u)      == Check(trust, use[u].path, use[u].bytes)
RefusedByTrust(u) ==
    /\ Loaded(u, {"run", "create", "session run"}) /\ ~Trusted(u)
    /\ End(u) /\ UNCHANGED <<vars, tstore, uses, approvals>>

\* trust, run --trust: the store as loaded, with the entry of the bytes read.
Approve(u) ==
    /\ Loaded(u, {"trust", "run --trust"})
    /\ use' = [use EXCEPT ![u].entries = [trust EXCEPT ![use[u].path] = use[u].bytes]]
    /\ UserGoto(u, "write")
    /\ UNCHANGED <<vars, tstore, uses, approvals>>

\* untrust: nothing to do for an entry that is not there.
Revoke(u) ==
    /\ Loaded(u, {"untrust"})
    /\ \/ /\ trust[use[u].path] # Absent
          /\ use' = [use EXCEPT ![u].entries = [trust EXCEPT ![use[u].path] = Absent]]
          /\ UserGoto(u, "write")
       \/ trust[use[u].path] = Absent /\ End(u)
    /\ UNCHANGED <<vars, tstore, uses, approvals>>

\* run: the loaded policy is trusted.
RunTrusted(u) ==
    /\ Loaded(u, {"run"}) /\ Trusted(u)
    /\ UserGoto(u, "launch")
    /\ UNCHANGED <<vars, use, tstore, uses, approvals>>

\* session create records the hash of the bytes that were trusted.
CreateSession(u) ==
    /\ Loaded(u, {"create"}) /\ Trusted(u)
    /\ pinned' = use[u].bytes
    /\ End(u) /\ UNCHANGED <<vars, trust, uses, approvals>>

\* verifySessionTrust: trusted now, and the bytes of the record.
SessionRun(u) ==
    /\ Loaded(u, {"session run"}) /\ Trusted(u)
    /\ \/ use[u].bytes = use[u].pin /\ UserGoto(u, "launch") /\ UNCHANGED use
       \/ use[u].bytes # use[u].pin /\ End(u)
    /\ UNCHANGED <<vars, tstore, uses, approvals>>

\* os.WriteFile truncates the store ...
TruncateTrust(u) ==
    /\ upc[u] = "write" /\ trust' = Torn
    /\ UserGoto(u, "torn")
    /\ UNCHANGED <<vars, use, pinned, uses, approvals>>

\* How many entries a store has; the longer text outlasts the shorter.
Length(s) == Cardinality({p \in Paths : s[p] # Absent})

\* ... and writes it whole, over what another writer wrote since.
WriteTrust(u) ==
    /\ upc[u] = "torn"
    /\ trust' = IF trust # Torn /\ Length(trust) > Length(use[u].entries)
                THEN Torn ELSE use[u].entries
    /\ approvals' = IF use[u].op # "untrust" /\ use[u].path = "policy"
                    THEN approvals \cup {use[u].bytes} ELSE approvals
    /\ \/ use[u].op = "run --trust" /\ UserGoto(u, "launch") /\ UNCHANGED use
       \/ use[u].op # "run --trust" /\ End(u)
    /\ UNCHANGED <<vars, pinned, uses>>

\* The text a launch runs: what run read, or what sessionProfile reads now.
LaunchText(u) ==
    IF use[u].op # "session run" THEN use[u].bytes
    ELSE IF file = use[u].pin THEN file ELSE Absent

Launch(u) ==
    /\ upc[u] = "launch"
    /\ End(u)
    /\ UNCHANGED <<vars, tstore, uses, approvals>>

\* The process dies, and the store it truncated stays torn.  Anywhere else a
\* crash leaves what a failure leaves.
UserCrash(u) ==
    /\ upc[u] = "torn" /\ End(u)
    /\ UNCHANGED <<vars, tstore, uses, approvals>>

User(u) ==
    \/ Begin(u) \/ LoadFails(u) \/ RefusedByTrust(u)
    \/ Approve(u) \/ Revoke(u) \/ RunTrusted(u) \/ CreateSession(u) \/ SessionRun(u)
    \/ TruncateTrust(u) \/ WriteTrust(u) \/ Launch(u) \/ UserCrash(u)

TrustNext == (Next /\ UNCHANGED tvars) \/ \E u \in Users : User(u)

TrustSpec == TrustInit /\ [][TrustNext]_allvars

UserSymmetry == Permutations(Users) \cup Permutations(Commands)
-----------------------------------------------------------------------------
(* Properties *)

\* Every text that is launched is one an operator approved as it stands, and
\* a session runs the text it was created from, whatever edits, approvals and
\* revocations happen between the reads of a launch (loadPolicyForLaunch,
\* verifySessionTrust, sessionProfile).
LaunchIsApproved ==
    \A u \in Users : (upc[u] = "launch" /\ LaunchText(u) # Absent) =>
        /\ LaunchText(u) \in approvals
        /\ use[u].op = "session run" => LaunchText(u) = use[u].pin
=============================================================================
