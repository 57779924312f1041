-------------------------- MODULE ProjectOwnership --------------------------
(***************************************************************************)
(* What the operator promises about Keystone projects: each target (a      *)
(* project name in a domain) belongs to at most one OpenstackProject CR,   *)
(* and changes hands only after its owner has let go of it.                *)
(***************************************************************************)
CONSTANTS CRs, Targets

VARIABLE owners   \* the CRs that own each target

Init == owners = [t \in Targets |-> {}]

Acquire(c, t) == owners[t] = {} /\ owners' = [owners EXCEPT ![t] = {c}]

Release(c, t) == owners[t] = {c} /\ owners' = [owners EXCEPT ![t] = {}]

Next == \E c \in CRs, t \in Targets : Acquire(c, t) \/ Release(c, t)

Spec == Init /\ [][Next]_owners
=============================================================================
