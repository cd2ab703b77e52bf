--------------------------- MODULE EgressAuthority ---------------------------
(***************************************************************************)
(* What the session engine promises an operator about network authority,   *)
(* without commits, proxies, crashes or processes: a recorded authority    *)
(* and the part of it that is in effect while the session runs.            *)
(***************************************************************************)
CONSTANT Grants

VARIABLES
    phase,       \* Created, Running or Stopped
    authority,   \* destinations the record grants
    effective    \* destinations the running session can reach

vars == <<phase, authority, effective>>

Init == phase = "Created" /\ authority = {} /\ effective = {}

\* Sets that differ from s by at most one destination.
OneOff(s) == {s} \cup {s \cup {g} : g \in Grants} \cup {s \ {g} : g \in Grants}

\* Authority changes one destination at a time and is never narrowed below
\* what is in effect.
Edit ==
    /\ phase # "Stopped"
    /\ authority' \in OneOff(authority)
    /\ effective \subseteq authority'
    /\ UNCHANGED <<phase, effective>>

Claim ==
    /\ phase = "Created" /\ phase' = "Running"
    /\ UNCHANGED <<authority, effective>>

\* The proxy starts, is replaced or dies.
Enforce ==
    /\ phase = "Running" /\ effective' \in SUBSET authority
    /\ UNCHANGED <<phase, authority>>

\* A stop may take back the one destination of an unfinished edit.
Stop ==
    /\ phase # "Stopped" /\ phase' = "Stopped"
    /\ authority' \in OneOff(authority)
    /\ effective' = {}

Next == Edit \/ Claim \/ Enforce \/ Stop

Spec == Init /\ [][Next]_vars
=============================================================================
