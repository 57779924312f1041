---------------------------- MODULE ClusterInput ----------------------------
(***************************************************************************)
(* What build_input accepts, and the provisioning input it makes of a      *)
(* ManagedCluster spec, a ClusterProfile and an OpenstackProject.          *)
(*                                                                         *)
(* A spec is [retain, suspended, complete, groups], a profile [complete,   *)
(* max, addresses, api, ingress, machines] and a project [ready, matches,  *)
(* id].  "complete" stands for all checks of the presence and the form of  *)
(* strings and references, "matches" for those against the project's spec. *)
(* An address is its offset in the profile's network.                      *)
(***************************************************************************)
EXTENDS Integers

MaxWorkerGroups == 80

\* Hosts of the network: all addresses but that of the network and broadcast.
Usable(p) == IF p.addresses > 2 THEN p.addresses - 2 ELSE 0

Capacity(p) == 3 * p.max + 11 <= Usable(p)

VipsValid(p) ==
  /\ {p.api, p.ingress} \subseteq 1 .. p.addresses - 2
  /\ p.api # p.ingress

\* build_input raises no ValidationError.
Accepted(s, p, project) ==
  /\ s.retain /\ ~s.suspended /\ s.complete /\ p.complete
  /\ s.groups > 0 /\ p.max > 0
  /\ p.max <= MaxWorkerGroups
  /\ s.groups <= p.max
  /\ Capacity(p)
  /\ VipsValid(p)
  /\ project.matches

\* The data that the hash covers: neither the profile's maximum nor the fields
\* of the spec that are not about infrastructure are part of it.
ProvisioningInput(s, p, project) ==
  [project |-> project.id, addresses |-> p.addresses, api |-> p.api,
   ingress |-> p.ingress, machines |-> p.machines, workers |-> 3 * s.groups]

\* Deterministic: the UID is that of the one CR, hash and input are one.
job_name(input, generation, bucket) ==
  [input |-> input, generation |-> generation, bucket |-> bucket]

\* Addresses taken: three controllers, workers, jumphost, VIPs, router and DHCP.
Taken(input) == 3 + input.workers + 1 + 2 + 1 + 1
Spare(input) == input.addresses - 2 - Taken(input)
=============================================================================
