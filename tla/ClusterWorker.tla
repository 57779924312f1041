---------------------------- MODULE ClusterWorker ----------------------------
(***************************************************************************)
(* The worker Pods of a ManagedCluster: Provisioner.provision finds each   *)
(* OpenStack resource of the cluster by its name, refuses what belongs to  *)
(* another UID or is not as it should be, and creates what is missing.     *)
(*                                                                         *)
(* A Pod is killed or fails at any call and is started again by its Job,   *)
(* or by the Job of a later verification interval; two Pods may overlap.   *)
(* OpenStack accepts several resources of one name, and a Neutron resource *)
(* is created first and tagged with its owner by a second call.            *)
(*                                                                         *)
(* A resource is <<kind, name>>, of which there may be several instances.  *)
(***************************************************************************)
EXTENDS Naturals, Sequences, Functions, FiniteSets

CONSTANTS
  Pods,                  \* slots for Pods that run at the same time, numbers
  Controllers, Workers,  \* names of the nodes, in order
  Budgets                \* what the environment may do at most, from the start (bounds)

WorkerActs == {"kills",        \* a Pod is killed, or one of its calls fails
               "overlaps",     \* a Pod starts while another one runs
               "switches",     \* of two Pods that run the other one goes on
               "recreations",  \* the ManagedCluster is deleted and created again
               "rotations",    \* the bootstrap key changes
               "tampers",      \* rules or ports are changed by others
               "errors",       \* Cinder fails to make a volume, or Nova a server
               "reruns"}       \* a Pod starts although all is published

ASSUME PodsAssumption == Pods \subseteq Nat
ASSUME BudgetAssumption == Budgets \subseteq [WorkerActs -> Nat]
\* Their names have the role and a number.
ASSUME NodesAssumption ==
  /\ Controllers \in Seq(STRING \ {"jumphost"}) /\ Workers \in Seq(STRING \ {"jumphost"})
  /\ IsInjective(Controllers \o Workers)

Nodes == Controllers \o Workers
Servers == <<"jumphost">> \o Nodes

\* provision: the steps in their order, up to the jumphost; those of the other
\* servers; and the inventory at last.
First ==
  << <<"network", "none">>, <<"subnet", "none">>, <<"external", "none">>, <<"router", "none">>,
     <<"group", "cluster">>, <<"group", "jumphost">>, <<"group", "api">>, <<"group", "ingress">>,
     <<"rule", "cluster">>, <<"rule", "jumphost">>, <<"rule", "api">>, <<"rule", "ingress">>,
     <<"rules", "none">>, <<"keypair", "none">>, <<"image", "none">>,
     <<"vip", "api">>, <<"vip", "ingress">>, <<"fip", "api">>, <<"fip", "ingress">>,
     <<"find", "jumphost">>, <<"volume", "jumphost">>, <<"port", "jumphost">>,
     <<"server", "jumphost">>, <<"fip", "jumphost">> >>
\* _server for each node.
Stages == <<"find", "volume", "port", "server">>
NodeStep(i) == << Stages[(i % 4) + 1], Nodes[(i \div 4) + 1] >>
LastStep == 25 + 4 * Len(Nodes)
Plan ==
  [i \in 1 .. LastStep |-> IF i <= 24 THEN First[i]
                           ELSE IF i < LastStep THEN NodeStep(i - 25) ELSE <<"publish", "none">>]

Kinds == {"network", "subnet", "router", "group", "keypair", "vip", "fip",
          "volume", "port", "server"}
Items == {x \in Range(Plan) : x[1] \in Kinds}

VARIABLES
  allowance,  \* what is left of the environment's budget
  uid,        \* the UID of the ManagedCluster there is now, one of many of this slug
  key,        \* the first public key of the mounted ConfigMap
  res,        \* OpenStack: the instances of each resource
  pod,        \* the Pods
  published,  \* the UIDs whose inventory has been committed
  overlapped, \* history: two Pods have run at the same time
  turn        \* which of the Pods that run goes on (a bound on interleavings)

workerVars == <<allowance, uid, key, res, pod, published, overlapped, turn>>

Nobody == 0

\* "got" has the instances a Pod works with (0: none).
NoPod == [pc |-> "idle", at |-> 1, uid |-> Nobody, key |-> Nobody, got |-> [x \in Items |-> 0]]

WorkerInit ==
  /\ allowance \in Budgets
  /\ uid = 1 /\ key = 1
  /\ res = [x \in Items |-> <<>>]
  /\ pod = [p \in Pods |-> NoPod]
  /\ published = {}
  /\ overlapped = FALSE
  /\ turn \in Pods

-----------------------------------------------------------------------------
Allow(act) ==
  /\ allowance[act] > 0
  /\ allowance' = [allowance EXCEPT ![act] = @ - 1]

Rules(group) ==
  CASE group = "cluster" -> {"internal", "ssh"}
    [] group = "jumphost" -> {"ssh"}
    [] group = "api" -> {"6443"}
    [] group = "ingress" -> {"80", "443"}

\* security_groups of a server, by its role.
GroupsOf(s) ==
  IF s = "jumphost" THEN {"jumphost"}
  ELSE IF s \in Range(Controllers) THEN {"cluster", "api"} ELSE {"cluster", "ingress"}

\* The port a floating IP belongs to.
PortOf(k) == IF k = "jumphost" THEN <<"port", "jumphost">> ELSE <<"vip", k>>

Item(p) == Plan[pod[p].at]
Uses(p, x) == <<x, pod[p].got[x]>>
Inst(x, k) == res[x][k]

\* What a new instance is linked to: the subnet's network, the subnet of a
\* router or port, the port of a floating IP.
Links(p, x) ==
  CASE x[1] = "subnet" -> {Uses(p, <<"network", "none">>)}
    [] x[1] \in {"vip", "port"} -> {Uses(p, <<"subnet", "none">>)}
    [] x[1] = "fip" -> {Uses(p, PortOf(x[2]))}
    [] x[1] = "server" -> {Uses(p, <<"volume", x[2]>>), Uses(p, <<"port", x[2]>>)}
    [] OTHER -> {}

\* Volumes and servers get their owner in the metadata of the request; Neutron
\* resources have none until they are tagged, key pairs never have one.
Tagged == {"network", "subnet", "router", "group", "vip", "fip", "port"}

New(p, x) ==
  [uid |-> IF x[1] \in {"volume", "server"} THEN pod[p].uid ELSE Nobody,
   maker |-> pod[p].uid, key |-> IF x[1] = "keypair" THEN pod[p].key ELSE Nobody,
   links |-> Links(p, x),
   rules |-> IF x[1] = "port" THEN GroupsOf(x[2]) ELSE {},
   state |-> CASE x[1] = "volume" -> "creating" [] x[1] = "server" -> "build" [] OTHER -> "none"]

-----------------------------------------------------------------------------
(* Pods start and end. *)

Running(p) == pod[p].pc # "idle"

BeginPod(p) ==
  /\ ~Running(p) /\ \A q \in Pods : q < p => Running(q)
  /\ LET again == uid \in published
         second == \E q \in Pods : Running(q)
     IN  /\ again \/ second =>
              allowance[IF second THEN "overlaps" ELSE "reruns"] > 0
         /\ allowance' = [allowance EXCEPT !["overlaps"] = IF second THEN @ - 1 ELSE @,
                                     !["reruns"] = IF again /\ ~second THEN @ - 1 ELSE @]
         /\ overlapped' = (overlapped \/ second)
  /\ pod' = [pod EXCEPT ![p] = [NoPod EXCEPT !.pc = "look", !.uid = uid, !.key = key]]
  /\ turn' = p
  /\ UNCHANGED <<uid, key, res, published>>

Switch(p) ==
  /\ Running(p) /\ Running(turn) /\ p # turn
  /\ Allow("switches")
  /\ turn' = p
  /\ UNCHANGED <<uid, key, res, pod, published, overlapped>>

Becomes(p, r) == pod' = [pod EXCEPT ![p] = r]

\* An exception: the Pod exits with an error, and its Job tries again.
Fail(p) == Becomes(p, NoPod)

\* The next step of the plan; "got" instance k of this one.
Next1(p, x, k) ==
  Becomes(p, [pod[p] EXCEPT !.pc = "look", !.at = @ + 1,
             !.got = IF x \in Items THEN [@ EXCEPT ![x] = k] ELSE @])
GoTo(p, pc, x, k) == Becomes(p, [pod[p] EXCEPT !.pc = pc, !.got[x] = k])

Kill(p) ==
  /\ Running(p)
  /\ Allow("kills")
  /\ Fail(p)
  /\ UNCHANGED <<uid, key, res, published, overlapped>>

-----------------------------------------------------------------------------
(* The steps of the plan. *)

SetInst(x, k, r) == res' = [res EXCEPT ![x][k] = r]

\* A mistake the code does not make: only what bears the tag is listed.
MatchesOwn(p, x) ==
  IF x[1] = "keypair" THEN {k \in DOMAIN res[x] : Inst(x, k).maker = pod[p].uid}
  ELSE {k \in DOMAIN res[x] : Inst(x, k).uid = pod[p].uid}

\* The instances that a list call returns: by name, a key pair's with part of
\* the UID; a floating IP by its description or its port.
Matches(p, x) ==
  IF x[1] = "fip"
  THEN {k \in DOMAIN res[x] : \/ Inst(x, k).maker = pod[p].uid
                              \/ Inst(x, k).links = {Uses(p, PortOf(x[2]))}}
  ELSE IF x[1] = "keypair" THEN {k \in DOMAIN res[x] : Inst(x, k).maker = pod[p].uid}
  ELSE DOMAIN res[x]

\* _require_owned; a key pair must have the key.
Owned(p, x, r) ==
  IF x[1] = "keypair" THEN r.key = pod[p].key ELSE r.uid = pod[p].uid

\* A mistake the code does not make: a router must have its interface.
FitsRouterDone(p, x, r) ==
  CASE x[1] \in {"subnet", "vip"} -> r.links = Links(p, x)
    [] x[1] = "router" -> r.links = {Uses(p, <<"subnet", "none">>)}
    [] x[1] = "port" -> Uses(p, <<"subnet", "none">>) \in r.links
    [] x[1] = "fip" -> r.links \subseteq {Uses(p, PortOf(x[2]))}
    [] x[1] = "volume" ->
         IF pod[p].got[<<"server", x[2]>>] = 0 THEN r.state = "available"
         ELSE r.state = "in-use" /\ r.links = {Uses(p, <<"server", x[2]>>)}
    [] OTHER -> TRUE

\* What an owned instance must be like.
Fits(p, x, r) ==
  CASE x[1] \in {"subnet", "vip"} -> r.links = Links(p, x)
    [] x[1] = "port" -> Uses(p, <<"subnet", "none">>) \in r.links
    [] x[1] = "router" -> r.links \subseteq {Uses(p, <<"subnet", "none">>)}
    [] x[1] = "fip" -> r.links \subseteq {Uses(p, PortOf(x[2]))}
    [] x[1] = "volume" ->
         IF pod[p].got[<<"server", x[2]>>] = 0 THEN r.state = "available"
         ELSE r.state = "in-use" /\ r.links = {Uses(p, <<"server", x[2]>>)}
    [] OTHER -> TRUE

\* What is still to be done about an instance that fits.
Todo(p, x, r) ==
  CASE x[1] = "router" /\ r.links = {} -> "interface"
    [] x[1] = "fip" /\ r.links = {} -> "associate"
    [] x[1] = "port" /\ r.rules # GroupsOf(x[2]) -> "regroup"
    [] OTHER -> "none"

\* _network, _subnet, _router, _security_group, _keypair, _vip, _floating_ip,
\* _volume and _node_port: list, verify, and create if there is none.
Look(p) ==
  /\ pod[p].pc = "look" /\ Item(p) \in Items /\ Item(p)[1] # "server"
  /\ LET x == Item(p)
         found == Matches(p, x)
     IN  \/ /\ Cardinality(found) > 1
            /\ Fail(p)
         \/ /\ found = {}
            /\ IF x[1] = "volume" /\ pod[p].got[<<"server", x[2]>>] # 0 THEN Fail(p)
               ELSE Becomes(p, [pod[p] EXCEPT !.pc = "create"])
         \/ \E k \in found :
              /\ found = {k}
              /\ LET r == Inst(x, k)
                 IN  IF ~Owned(p, x, r) \/ ~Fits(p, x, r) THEN Fail(p)
                     ELSE IF Todo(p, x, r) = "none" THEN Next1(p, x, k)
                     ELSE GoTo(p, "link", x, k)
  /\ UNCHANGED <<allowance, uid, key, res, published, overlapped>>

\* OpenStack accepts a second resource of a name, but for a key pair, and no
\* two subnets of one range, ports of one address, floating IPs of one port.
Refused(p, x) ==
  /\ x[1] \in {"keypair", "subnet", "vip", "fip"}
  /\ \E k \in DOMAIN res[x] :
       IF x[1] = "keypair" THEN Inst(x, k).maker = pod[p].uid ELSE Inst(x, k).links = Links(p, x)

\* The request may come after that of another Pod.
Create(p) ==
  /\ pod[p].pc = "create"
  /\ LET x == Item(p)
         k == Len(res[x]) + 1
     IN  IF Refused(p, x) THEN Fail(p) /\ UNCHANGED res ELSE
         /\ res' = [res EXCEPT ![x] = Append(@, New(p, x))]
         /\ IF x[1] \in Tagged THEN GoTo(p, "tag", x, k)
            ELSE IF x[1] = "volume" THEN GoTo(p, "wait", x, k)
            ELSE Next1(p, x, k)
  /\ UNCHANGED <<allowance, uid, key, published, overlapped>>

\* _set_network_tags
Tag(p) ==
  /\ pod[p].pc = "tag"
  /\ LET x == Item(p)
         k == pod[p].got[x]
     IN  /\ SetInst(x, k, [Inst(x, k) EXCEPT !.uid = pod[p].uid])
         /\ IF x[1] = "router" THEN GoTo(p, "link", x, k) ELSE Next1(p, x, k)
  /\ UNCHANGED <<allowance, uid, key, published, overlapped>>

\* add_interface_to_router, update_ip, or update_port. A subnet has one gateway.
Link(p) ==
  /\ pod[p].pc = "link"
  /\ LET x == Item(p)
         k == pod[p].got[x]
         taken == /\ x[1] = "router"
                  /\ \E o \in DOMAIN res[x] : Inst(x, o).links = {Uses(p, <<"subnet", "none">>)}
     IN  IF taken THEN Fail(p) /\ UNCHANGED res ELSE
         /\ SetInst(x, k,
              IF x[1] = "router" THEN [Inst(x, k) EXCEPT !.links = {Uses(p, <<"subnet", "none">>)}]
              ELSE IF x[1] = "fip" THEN [Inst(x, k) EXCEPT !.links = {Uses(p, PortOf(x[2]))}]
              ELSE [Inst(x, k) EXCEPT !.rules = GroupsOf(x[2])])
         /\ Next1(p, x, k)
  /\ UNCHANGED <<allowance, uid, key, published, overlapped>>

\* wait_for_status of a new volume, which may end in error: then this Pod fails
\* here and every later one at _verify_volume.
VolumeReady(p) ==
  /\ pod[p].pc = "wait" /\ Item(p)[1] = "volume"
  /\ Inst(Item(p), pod[p].got[Item(p)]).state # "creating"
  /\ IF Fits(p, Item(p), Inst(Item(p), pod[p].got[Item(p)]))
     THEN Next1(p, Item(p), pod[p].got[Item(p)]) ELSE Fail(p)
  /\ UNCHANGED <<allowance, uid, key, res, published, overlapped>>

\* External network and image belong to the cloud.
LookUp(p) ==
  /\ pod[p].pc = "look" /\ Item(p)[1] \in {"external", "image"}
  /\ Next1(p, Item(p), 0)
  /\ UNCHANGED <<allowance, uid, key, res, published, overlapped>>

Group(p, g) == Inst(<<"group", g>>, pod[p].got[<<"group", g>>])
Groups == {"cluster", "jumphost", "api", "ingress"}

\* _rule: the rules that are missing are added.
AddRules(p) ==
  /\ pod[p].pc = "look" /\ Item(p)[1] = "rule"
  /\ LET g == Item(p)[2]
     IN  SetInst(<<"group", g>>, pod[p].got[<<"group", g>>],
                 [Group(p, g) EXCEPT !.rules = @ \cup Rules(g)])
  /\ Next1(p, Item(p), 0)
  /\ UNCHANGED <<allowance, uid, key, published, overlapped>>

\* _security_groups: no unexpected rule.
CheckRules(p) ==
  /\ pod[p].pc = "look" /\ Item(p)[1] = "rules"
  /\ IF \A g \in Groups : Group(p, g).rules = Rules(g) THEN Next1(p, Item(p), 0) ELSE Fail(p)
  /\ UNCHANGED <<allowance, uid, key, res, published, overlapped>>

\* _server looks for the server before its volume and port.
Find(p) ==
  /\ pod[p].pc = "look" /\ Item(p)[1] = "find"
  /\ LET x == <<"server", Item(p)[2]>>
     IN  IF Len(res[x]) > 1 \/ (Len(res[x]) = 1 /\ Inst(x, 1).uid # pod[p].uid) THEN Fail(p)
         ELSE Becomes(p, [pod[p] EXCEPT !.at = @ + 1, !.got[x] = Len(res[x])])
  /\ UNCHANGED <<allowance, uid, key, res, published, overlapped>>

\* create_server. Nova takes a volume that is available only, and a free port.
CreateServer(p) ==
  /\ pod[p].pc = "look" /\ Item(p)[1] = "server" /\ pod[p].got[Item(p)] = 0
  /\ LET x == Item(p)
         v == <<"volume", x[2]>>
         vk == pod[p].got[v]
     IN  IF Inst(v, vk).state # "available" THEN Fail(p) /\ UNCHANGED res
         ELSE /\ res' = [res EXCEPT ![x] = Append(@, New(p, x)), ![v][vk].state = "reserved"]
              /\ GoTo(p, "look", x, Len(res[x]) + 1)
  /\ UNCHANGED <<allowance, uid, key, published, overlapped>>

\* A mistake the code does not make: it is enough that the server is active.
VerifyServerActive(p) ==
  /\ pod[p].pc = "look" /\ Item(p)[1] = "server" /\ pod[p].got[Item(p)] # 0
  /\ Inst(Item(p), pod[p].got[Item(p)]).state # "build"
  /\ Next1(p, Item(p), pod[p].got[Item(p)])
  /\ UNCHANGED <<allowance, uid, key, res, published, overlapped>>

\* wait_for_server and _verify_server: owner, volume, port and its groups.
VerifyServer(p) ==
  /\ pod[p].pc = "look" /\ Item(p)[1] = "server" /\ pod[p].got[Item(p)] # 0
  /\ LET x == Item(p)
         r == Inst(x, pod[p].got[x])
         port == Inst(<<"port", x[2]>>, pod[p].got[<<"port", x[2]>>])
     IN  /\ r.state # "build"
         /\ IF /\ r.state = "active" /\ r.uid = pod[p].uid
               /\ r.links = Links(p, x)
               /\ port.uid = pod[p].uid /\ port.rules = GroupsOf(x[2])
            THEN Next1(p, x, pod[p].got[x]) ELSE Fail(p)
  /\ UNCHANGED <<allowance, uid, key, res, published, overlapped>>

\* publish_inventory, main and write_termination_result; a push that is refused
\* three times is a failure of the Pod (Kill).
Publish(p) ==
  /\ pod[p].pc = "look" /\ Item(p)[1] = "publish"
  /\ published' = published \cup {pod[p].uid}
  /\ Fail(p)
  /\ UNCHANGED <<allowance, uid, key, res, overlapped>>

-----------------------------------------------------------------------------
(* OpenStack, and users. *)

VolumeCreated(s) ==
  /\ \E k \in DOMAIN res[<<"volume", s>>] :
       /\ Inst(<<"volume", s>>, k).state = "creating"
       /\ SetInst(<<"volume", s>>, k, [Inst(<<"volume", s>>, k) EXCEPT !.state = "available"])
  /\ UNCHANGED <<allowance, uid, key, pod, published, overlapped>>

\* It stays there in state error.
VolumeFails(s) ==
  /\ Allow("errors")
  /\ \E k \in DOMAIN res[<<"volume", s>>] :
       /\ Inst(<<"volume", s>>, k).state = "creating"
       /\ SetInst(<<"volume", s>>, k, [Inst(<<"volume", s>>, k) EXCEPT !.state = "error"])
  /\ UNCHANGED <<uid, key, pod, published, overlapped>>

\* The server runs: its volume is attached.
ServerBuilt(s) ==
  /\ \E k \in DOMAIN res[<<"server", s>>] :
       \E v \in Inst(<<"server", s>>, k).links :
         /\ Inst(<<"server", s>>, k).state = "build" /\ v[1] = <<"volume", s>>
         /\ res' = [res EXCEPT ![<<"server", s>>][k].state = "active",
                               ![<<"volume", s>>][v[2]] =
                                  [@ EXCEPT !.state = "in-use", !.links = {<<<<"server", s>>, k>>}]]
  /\ UNCHANGED <<allowance, uid, key, pod, published, overlapped>>

ServerFails(s) ==
  /\ Allow("errors")
  /\ \E k \in DOMAIN res[<<"server", s>>] :
       /\ Inst(<<"server", s>>, k).state = "build"
       /\ SetInst(<<"server", s>>, k, [Inst(<<"server", s>>, k) EXCEPT !.state = "error"])
  /\ UNCHANGED <<uid, key, pod, published, overlapped>>

\* The ManagedCluster is deleted, which retains all resources, and created again.
Recreate ==
  /\ Allow("recreations")
  /\ uid' = uid + 1
  /\ UNCHANGED <<key, res, pod, published, overlapped>>

RotateKey ==
  /\ Allow("rotations")
  /\ key' = key + 1
  /\ UNCHANGED <<uid, res, pod, published, overlapped, turn>>

\* Someone adds a rule to a group, or changes the groups of a node's port.
Tamper ==
  /\ Allow("tampers")
  /\ \E x \in Items :
       \E k \in DOMAIN res[x] :
         \/ x[1] = "group" /\ SetInst(x, k, [Inst(x, k) EXCEPT !.rules = @ \cup {"other"}])
         \/ x[1] = "port" /\ SetInst(x, k, [Inst(x, k) EXCEPT !.rules = {}])
         \/ x[1] = "fip" /\ SetInst(x, k, [Inst(x, k) EXCEPT !.links = {}])
  /\ UNCHANGED <<uid, key, pod, published, overlapped>>

-----------------------------------------------------------------------------
PodStep(p) ==
  /\ turn = p \/ ~Running(turn)
  /\ \/ Look(p) \/ Create(p) \/ Tag(p) \/ Link(p) \/ VolumeReady(p) \/ LookUp(p)
     \/ AddRules(p) \/ CheckRules(p) \/ Find(p) \/ CreateServer(p) \/ VerifyServer(p)
     \/ Publish(p)
  /\ UNCHANGED turn

CloudStep ==
  /\ \E s \in Range(Servers) : VolumeCreated(s) \/ ServerBuilt(s)
  /\ UNCHANGED turn

Outside ==
  /\ \/ \E p \in Pods : Kill(p)
     \/ \E s \in Range(Servers) : VolumeFails(s) \/ ServerFails(s)
     \/ Recreate \/ RotateKey \/ Tamper
  /\ UNCHANGED turn

WorkerNext ==
  \/ \E p \in Pods : BeginPod(p) \/ Switch(p) \/ PodStep(p)
  \/ CloudStep
  \/ Outside

\* Pods run and OpenStack completes what it has begun; a Pod that has failed is
\* followed by another, of its Job or of that of the next interval.
WorkerSpec ==
  /\ WorkerInit /\ [][WorkerNext]_workerVars
  /\ \A p \in Pods : WF_workerVars(PodStep(p))
  /\ WF_workerVars(\E p \in Pods : BeginPod(p))
  /\ WF_workerVars(CloudStep)

-----------------------------------------------------------------------------
(* Properties. *)

Instance == [uid : Nat, maker : Nat, key : Nat, links : SUBSET (Items \X Nat),
             rules : SUBSET (Groups \cup {"internal", "ssh", "6443", "80", "443", "other"}),
             state : {"none", "creating", "available", "reserved", "in-use", "build", "active", "error"}]
PodRecord == [pc : {"idle", "look", "create", "tag", "link", "wait"}, at : 1 .. LastStep,
              uid : Nat, key : Nat, got : [Items -> Nat]]

\* Every variable has its type.
WorkerTypeOK ==
  /\ allowance \in [WorkerActs -> Nat] /\ uid \in Nat \ {Nobody} /\ key \in Nat
  /\ res \in [Items -> Seq(Instance)]
  /\ pod \in [Pods -> PodRecord]
  /\ published \subseteq Nat \ {Nobody} /\ overlapped \in BOOLEAN /\ turn \in Pods

\* Without Pods that overlap there is one instance of everything a cluster has,
\* although Pods are killed between any two calls and start over.
OneOfEach == ~overlapped => \A x \in Items : x[1] # "keypair" => Len(res[x]) <= 1

\* The instance of a resource that its owner can work with and has made itself:
\* "Retained same-name resources are never adopted across cluster UIDs"
\* (README.md:113), nor are those that nobody owns.
Sound(u, x) ==
  \E k \in DOMAIN res[x] :
    LET r == res[x][k]
    IN  /\ r.maker = u /\ (x[1] = "keypair" \/ r.uid = u)
        /\ \A l \in r.links : res[l[1]][l[2]].uid = u
        /\ CASE x[1] = "router" -> r.links # {}
             [] x[1] = "group" -> Rules(x[2]) \subseteq r.rules
             [] x[1] = "volume" -> r.state = "in-use"
             [] x[1] = "server" -> r.state = "active"
             [] OTHER -> TRUE

\* What has been reported as ready is all there, of one owner and linked up,
\* however many Pods have each contributed a part before they died.
PublishedIsComplete == \A u \in published : \A x \in Items : Sound(u, x)

\* What makes every later Pod of this ManagedCluster fail until someone
\* intervenes: a duplicate, a resource that nobody owns and whose creator is
\* gone, one of another UID, another key, a foreign rule, a broken volume or
\* server.
InHand(x, k) == \E p \in Pods : pod[p].pc = "tag" /\ Item(p) = x /\ pod[p].got[x] = k
Blocked ==
  \E x \in Items :
    \/ x[1] \notin {"keypair", "fip"} /\ Len(res[x]) > 1
    \/ \E k \in DOMAIN res[x] :
         LET r == res[x][k]
         IN  \/ x[1] \in Tagged /\ r.uid = Nobody /\ ~InHand(x, k)
             \/ x[1] \notin {"keypair", "fip"} /\ r.maker # uid
             \/ x[1] = "keypair" /\ r.maker = uid /\ r.key # key
             \/ x[1] = "group" /\ "other" \in r.rules
             \/ x[1] \in {"volume", "server"} /\ r.state = "error"

\* Every cluster is provisioned in the end, after any number of Pods killed at
\* any call, unless one of these blocks it: nothing else that OpenStack or the
\* others do here makes the retries fail for ever.  The image, the flavors and
\* the external network that the CR names exist (LookUp).
Converges == <>(uid \in published \/ Blocked)

\* Not kept: "Idempotent OpenStack provisioning" (openstack.py:1), "runs an
\* idempotent worker Job" (README.md:7).  A Pod that is killed between the
\* creation of a network and its tag leaves a network that no Pod takes up.
Idempotent == <>(uid \in published)
=============================================================================
