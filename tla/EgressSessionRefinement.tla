----------------------- MODULE EgressSessionRefinement -----------------------
(***************************************************************************)
(* EgressSession implements EgressAuthority: the phase and the authority   *)
(* are the record's, and in effect is what the proxy has loaded while the  *)
(* record says Running.                                                    *)
(***************************************************************************)
EXTENDS EgressSession

InEffect == IF rec.status = "Running" /\ Up THEN proxy.loaded ELSE {}

Abstract == INSTANCE EgressAuthority
    WITH phase <- rec.status, authority <- rec.grants, effective <- InEffect

\* Every behaviour of the commands, the owner process and the proxy is one of
\* the abstract authority: one destination at a time, never narrowed under a
\* proxy that still admits it, and frozen once the record says Stopped.
ImplementsAuthority == Abstract!Spec
=============================================================================
