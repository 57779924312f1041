--------------------------- MODULE ClusterRequests ---------------------------
(***************************************************************************)
(* What happens to a managed cluster in the portal once it exists: the     *)
(* requests of its customer admins (addons, resizes, backup), what the     *)
(* SUNET admins do with them, provisioning, and the lines that the monthly *)
(* report derives from the rows they leave behind.                         *)
(*                                                                         *)
(* Each endpoint of an administrator is one database transaction at READ   *)
(* COMMITTED: it reads the request, reads what the request is about, and   *)
(* commits what it decided.  Nothing is locked in between, so two of them  *)
(* may interleave, and git is written before the commit, which may fail.   *)
(*                                                                         *)
(* Time is counted in ticks, Month of them to a month.                     *)
(***************************************************************************)
EXTENDS BillingPrices, FiniteSets

CONSTANTS
  Clusters, ContractOf,  \* TenantCluster rows, and the contract of each
  Admins,                \* requests of SUNET admins that may run at once
  Wishes,                \* sequences of what customer admins ask for (bounds)
  Groups,                \* worker groups a cluster is created with
  MonthTicks,            \* ticks of a month
  LastTick               \* bound

\* The payloads of requests (schemas.py:606-625), in one type: a field that a type has not is empty.
Payload == [type : {"addon", "resize", "backup"}, target : Nat,
            action : {"enable", "disable", "none"}, addon : STRING]
ASSUME WishesAssumption == Wishes \subseteq Seq(Payload)
ASSUME GroupsAssumption == Groups \subseteq Nat
ASSUME MonthAssumption == MonthTicks \in Nat \ {0}
ASSUME BoundAssumption == LastTick \in Nat

VARIABLES
  wishes,      \* what the customer admins have yet to ask for
  clock,       \* the time
  cluster,     \* TenantCluster: worker groups, provisioned_at, the backup project
  requests,    \* ClusterRequest rows
  addons,      \* ClusterAddon rows
  git,         \* clusters whose backup project is in the project repository
  tx,          \* per admin, the endpoint that runs
  crossed,     \* history: clusters that two endpoints have worked on at the same time
  failed       \* history: a transaction failed after git was written

requestsVars == <<wishes, clock, cluster, requests, addons, git, tx, crossed, failed>>

Never == -1
MonthOf(t) == t \div MonthTicks
MonthStart(m) == m * MonthTicks
MonthEnd(m) == (m + 1) * MonthTicks

NoRequest == [pc |-> "idle"]
Step(pc, verb, id, begun) ==
  [pc |-> pc, verb |-> verb, id |-> id, begun |-> begun, stamp |-> Never, found |-> 0]
InProgress(a) == tx[a].pc # "idle"
Asked(a) == requests[tx[a].id].payload
Target(a) == IF tx[a].verb = "provision" THEN tx[a].id ELSE requests[tx[a].id].cluster

Active(c, addon) ==
  {i \in DOMAIN addons :
     addons[i].cluster = c /\ addons[i].addon = addon /\ addons[i].disabled = Never}

RequestsInit ==
  /\ wishes \in Wishes
  /\ clock = 0
  /\ cluster \in [Clusters -> {[groups |-> g, initial |-> g, provisioned |-> Never,
                                backup |-> FALSE] : g \in Groups}]
  /\ requests = << >>
  /\ addons = << >>
  /\ git = {}
  /\ tx = [a \in Admins |-> NoRequest]
  /\ crossed = {}
  /\ failed = FALSE

------------------------------------------------------------------------------
\* Customer admins.

\* create_request: the pre-checks of each type.
Sensible(c, p) ==
  /\ p.type = "resize" => p.target > cluster[c].groups
  /\ p.type = "backup" => cluster[c].backup = (p.action = "disable")

CreateRequest(c, p) ==
  /\ wishes # << >> /\ Head(wishes) = p
  /\ wishes' = Tail(wishes)
  /\ requests' = IF Sensible(c, p)
                 THEN Append(requests, [cluster |-> c, payload |-> p, status |-> "pending",
                                        before |-> 0, applied |-> Never])
                 ELSE requests
  /\ UNCHANGED <<clock, cluster, addons, git, tx, crossed, failed>>

------------------------------------------------------------------------------
\* SUNET admins: the first read of an endpoint.

BeginAs(a, pc, verb, id, on) ==
  /\ ~InProgress(a)
  /\ tx' = [tx EXCEPT ![a] = [Step(pc, verb, id, clock) EXCEPT !.stamp = clock]]
  /\ crossed' = crossed \cup {c \in {on} : \E b \in Admins : InProgress(b) /\ Target(b) = c}
  /\ UNCHANGED <<wishes, clock, cluster, requests, addons, git, failed>>

\* admin_apply_request: _load_request_for_admin, and the status as it was then.
BeginApply(a, r) ==
  /\ requests[r].status = "pending"
  /\ BeginAs(a, "loaded", "apply", r, requests[r].cluster)

BeginDeny(a, r) ==
  /\ requests[r].status = "pending"
  /\ BeginAs(a, "decided", "deny", r, requests[r].cluster)

\* A mistake the code does not make: provisioning again.
BeginProvisionAgain(a, c) == BeginAs(a, "decided", "provision", c, c)

\* admin_provision_cluster.
BeginProvision(a, c) ==
  /\ cluster[c].provisioned = Never
  /\ BeginAs(a, "decided", "provision", c, c)

\* The second read of apply_request and what it decides: a conflict ends the
\* endpoint.  The row is stamped with the time of this step.
Conclude(a, found) ==
  tx' = [tx EXCEPT ![a].pc = "decided", ![a].stamp = clock, ![a].found = found]
Conflict(a) == tx' = [tx EXCEPT ![a] = NoRequest]

\* _apply_resize.
ExamineResize(a) ==
  /\ tx[a].pc = "loaded" /\ Asked(a).type = "resize"
  /\ LET groups == cluster[Target(a)].groups
     IN IF Asked(a).target > groups THEN Conclude(a, groups) ELSE Conflict(a)
  /\ UNCHANGED <<wishes, clock, cluster, requests, addons, git, crossed, failed>>

\* _apply_addon.
ExamineAddon(a) ==
  /\ tx[a].pc = "loaded" /\ Asked(a).type = "addon"
  /\ LET active == Active(Target(a), Asked(a).addon)
     IN CASE Asked(a).action = "enable" /\ active = {} -> Conclude(a, 0)
          [] Asked(a).action = "disable" /\ active # {} -> Conclude(a, CHOOSE i \in active : TRUE)
          [] OTHER -> Conflict(a)
  /\ UNCHANGED <<wishes, clock, cluster, requests, addons, git, crossed, failed>>

\* A mistake the code does not make: disabling leaves the project in git.
ExamineBackupKeep(a) ==
  /\ tx[a].pc = "loaded" /\ Asked(a).type = "backup"
  /\ LET c == Target(a)
         enable == Asked(a).action = "enable"
     IN IF enable = cluster[c].backup
        THEN Conflict(a) /\ UNCHANGED git
        ELSE /\ Conclude(a, 0)
             /\ git' = IF enable THEN git \cup {c} ELSE git
  /\ UNCHANGED <<wishes, clock, cluster, requests, addons, crossed, failed>>

\* _apply_backup: git is written here, before the transaction commits.  A
\* project that is there already is an error, one that is gone is not.
ExamineBackup(a) ==
  /\ tx[a].pc = "loaded" /\ Asked(a).type = "backup"
  /\ LET c == Target(a)
         enable == Asked(a).action = "enable"
     IN IF \/ enable = cluster[c].backup
           \/ enable /\ c \in git
        THEN Conflict(a) /\ UNCHANGED git
        ELSE /\ Conclude(a, 0)
             /\ git' = IF enable THEN git \cup {c} ELSE git \ {c}
  /\ UNCHANGED <<wishes, clock, cluster, requests, addons, crossed, failed>>

------------------------------------------------------------------------------
\* SUNET admins: the commit.

Close(a, status) ==
  requests' = [requests EXCEPT ![tx[a].id].status = status,
                               ![tx[a].id].applied = tx[a].stamp]

CommitDeny(a) ==
  /\ tx[a].pc = "decided" /\ tx[a].verb = "deny"
  /\ Close(a, "denied")
  /\ tx' = [tx EXCEPT ![a] = NoRequest]
  /\ UNCHANGED <<wishes, clock, cluster, addons, git, crossed, failed>>

CommitProvision(a) ==
  /\ tx[a].pc = "decided" /\ tx[a].verb = "provision"
  /\ cluster' = [cluster EXCEPT ![Target(a)].provisioned = tx[a].stamp]
  /\ tx' = [tx EXCEPT ![a] = NoRequest]
  /\ UNCHANGED <<wishes, clock, requests, addons, git, crossed, failed>>

Applying(a, type) ==
  /\ tx[a].pc = "decided" /\ tx[a].verb = "apply"
  /\ Asked(a).type = type
  /\ tx' = [tx EXCEPT ![a] = NoRequest]
  /\ UNCHANGED <<wishes, clock, git, crossed, failed>>

\* The count before is kept in the payload; the cluster gets the target.
CommitResize(a) ==
  /\ Applying(a, "resize")
  /\ requests' = [requests EXCEPT ![tx[a].id].status = "applied",
                                  ![tx[a].id].applied = tx[a].stamp,
                                  ![tx[a].id].before = tx[a].found]
  /\ cluster' = [cluster EXCEPT ![Target(a)].groups = Asked(a).target]
  /\ UNCHANGED addons

\* enabled_at is the database's now(), the time the transaction began; the
\* partial unique index refuses a second active row.
CommitEnable(a) ==
  /\ Applying(a, "addon") /\ Asked(a).action = "enable"
  /\ IF Active(Target(a), Asked(a).addon) = {}
     THEN /\ addons' = Append(addons, [cluster |-> Target(a), addon |-> Asked(a).addon,
                                       enabled |-> tx[a].begun, disabled |-> Never])
          /\ Close(a, "applied")
     ELSE UNCHANGED <<addons, requests>>
  /\ UNCHANGED cluster

CommitDisable(a) ==
  /\ Applying(a, "addon") /\ Asked(a).action = "disable"
  /\ addons' = [addons EXCEPT ![tx[a].found].disabled = tx[a].stamp]
  /\ Close(a, "applied")
  /\ UNCHANGED cluster

CommitBackup(a) ==
  /\ Applying(a, "backup")
  /\ Close(a, "applied")
  /\ cluster' = [cluster EXCEPT ![Target(a)].backup = (Asked(a).action = "enable")]
  /\ UNCHANGED addons

\* The connection or the portal is lost: the transaction is rolled back, what
\* was pushed to git stays.
Abort(a) ==
  /\ InProgress(a)
  /\ failed' = (failed \/ (/\ tx[a].verb = "apply" /\ tx[a].pc = "decided"
                           /\ Asked(a).type = "backup"))
  /\ tx' = [tx EXCEPT ![a] = NoRequest]
  /\ UNCHANGED <<wishes, clock, cluster, requests, addons, git, crossed>>

Tick ==
  /\ clock < LastTick
  /\ clock' = clock + 1
  /\ UNCHANGED <<wishes, cluster, requests, addons, git, tx, crossed, failed>>

------------------------------------------------------------------------------
\* _emit_synthetic_cluster_lines: the report of month m for a set of contracts.

Line(c, label, from, quantity, price, type) ==
  [cluster |-> c, label |-> label, from |-> from, quantity |-> quantity,
   cost |-> quantity * ContractPrice(price, type, ContractOf[c])]

\* A mistake the code does not make: the first instant of the next month counts.
InOrAt(t, m) == t # Never /\ MonthStart(m) <= t /\ t <= MonthEnd(m)

In(t, m) == t # Never /\ MonthStart(m) <= t /\ t < MonthEnd(m)
Reported(contracts) == {c \in Clusters : ContractOf[c] \in contracts}
Live(m, contracts) ==
  {c \in Reported(contracts) :
     cluster[c].provisioned # Never /\ cluster[c].provisioned < MonthEnd(m)}

\* The report fails, and has no line, when a cluster has no package price.
CanReport(m, contracts) == \A c \in Live(m, contracts) : HasManagementFee(cluster[c].groups)

ManagementLines(m, contracts) ==
  {Line(c, "management", 0, 1, ManagementFee(cluster[c].groups), "cluster_management_fee") :
     c \in Live(m, contracts)}

SetupPrice(group) == FindPrice("cluster_setup_fee", [group_type |-> group])

SetupLines(m, contracts) ==
  LET new == {c \in Live(m, contracts) : In(cluster[c].provisioned, m)}
      controllers == SetupPrice("controllers")
      workers == SetupPrice("workers")
  IN {Line(c, "controllers", 0, 1, controllers.price, "cluster_setup_fee") :
        c \in {d \in new : controllers # NoPrice}}
     \cup
     {Line(c, "workers", 0, cluster[c].initial, workers.price, "cluster_setup_fee") :
        c \in {d \in new : workers # NoPrice /\ cluster[d].initial > 0}}

Expansions(m, contracts) ==
  {r \in DOMAIN requests :
     /\ requests[r].payload.type = "resize"
     /\ requests[r].status = "applied"
     /\ In(requests[r].applied, m)
     /\ requests[r].cluster \in Reported(contracts)
     /\ requests[r].payload.target > requests[r].before}

ExpansionLines(m, contracts) ==
  LET workers == SetupPrice("workers")
  IN {Line(requests[r].cluster, "workers", r, requests[r].payload.target - requests[r].before,
           workers.price, "cluster_setup_fee") :
        r \in {s \in Expansions(m, contracts) : workers # NoPrice}}

AddonPrice(addon) == FindPrice("cluster_addon_fee", [addon |-> addon])

AddonLines(m, contracts) ==
  {Line(addons[i].cluster, addons[i].addon, i, 1, AddonPrice(addons[i].addon).price,
        "cluster_addon_fee") :
     i \in {j \in DOMAIN addons :
              /\ addons[j].enabled < MonthEnd(m)
              /\ addons[j].disabled = Never \/ addons[j].disabled > MonthStart(m)
              /\ addons[j].cluster \in Reported(contracts)
              /\ AddonPrice(addons[j].addon) # NoPrice}}

\* What a month is charged for besides the management fee, which follows the
\* size that a cluster has when the report is made.
Charges(m, contracts) ==
  SetupLines(m, contracts) \cup ExpansionLines(m, contracts) \cup AddonLines(m, contracts)
Report(m, contracts) ==
  IF CanReport(m, contracts) THEN ManagementLines(m, contracts) \cup Charges(m, contracts) ELSE {}

------------------------------------------------------------------------------
Examine(a) == ExamineResize(a) \/ ExamineAddon(a) \/ ExamineBackup(a)
Commit(a) ==
  \/ CommitDeny(a) \/ CommitProvision(a) \/ CommitResize(a)
  \/ CommitEnable(a) \/ CommitDisable(a) \/ CommitBackup(a)

RequestsNext ==
  \/ \E c \in Clusters, p \in Range(wishes) : CreateRequest(c, p)
  \/ \E a \in Admins, r \in DOMAIN requests : BeginApply(a, r) \/ BeginDeny(a, r)
  \/ \E a \in Admins, c \in Clusters : BeginProvision(a, c)
  \/ \E a \in Admins : Examine(a) \/ Commit(a) \/ Abort(a)
  \/ Tick

RequestsSpec == RequestsInit /\ [][RequestsNext]_requestsVars

------------------------------------------------------------------------------
Times == -1 .. LastTick
ClusterRow == [groups : Nat, initial : Nat, provisioned : Times, backup : BOOLEAN]
RequestRow == [cluster : Clusters, payload : Payload, before : Nat, applied : Times,
               status : {"pending", "applied", "denied"}]
AddonRow == [cluster : Clusters, addon : STRING, enabled : 0 .. LastTick, disabled : Times]
Transaction == [pc : {"loaded", "decided"}, verb : {"apply", "deny", "provision"},
                id : Nat \cup Clusters, begun : Nat, stamp : Nat, found : Nat]

\* Every variable has its type; an endpoint is about a row of the tables.
RequestsTypeOK ==
  /\ wishes \in Seq(Payload) /\ clock \in 0 .. LastTick
  /\ git \subseteq Clusters /\ crossed \subseteq Clusters /\ failed \in BOOLEAN
  /\ cluster \in [Clusters -> ClusterRow]
  /\ requests \in Seq(RequestRow) /\ addons \in Seq(AddonRow)
  /\ tx \in [Admins -> Transaction \cup {NoRequest}]
  /\ \A a \in Admins :
       InProgress(a) => /\ IF tx[a].verb = "provision" THEN tx[a].id \in Clusters
                           ELSE tx[a].id \in DOMAIN requests
                        /\ tx[a].begun <= tx[a].stamp /\ tx[a].stamp <= clock

AllContracts == {ContractOf[c] : c \in Clusters}
Months == 0 .. MonthOf(LastTick)
OfWorkers(c) ==
  {x \in UNION {{m} \X (SetupLines(m, AllContracts) \cup ExpansionLines(m, AllContracts)) :
                m \in Months} :
     x[2].cluster = c /\ x[2].label = "workers"}

\* The worker groups that a line is the setup fee of.
GroupsOf(l) ==
  IF l.from = 0 THEN 1 .. cluster[l.cluster].initial
  ELSE requests[l.from].before + 1 .. requests[l.from].payload.target
WorkerFee(c) == ContractPrice(SetupPrice("workers").price, "cluster_setup_fee", ContractOf[c])
EachGroupOnce(c) ==
  /\ \A g \in 1 .. cluster[c].groups : \E x \in OfWorkers(c) : g \in GroupsOf(x[2])
  /\ \A x, y \in OfWorkers(c) : x # y => GroupsOf(x[2]) \cap GroupsOf(y[2]) = {}
  /\ \A x \in OfWorkers(c) : /\ GroupsOf(x[2]) \subseteq 1 .. cluster[c].groups
                            /\ x[2].cost = Cardinality(GroupsOf(x[2])) * WorkerFee(c)
Charged(c) == cluster[c].provisioned # Never /\ SetupPrice("workers") # NoPrice

\* Over all months together the customer of a provisioned cluster is charged
\* for setting up each of its worker groups once, wherever the resizes fell
\* and whoever was slow: no group is in the lines of two months or of two
\* resizes, none is left out, and a line costs its groups at the price of the
\* contract.  It takes that no two administrators worked on the cluster at the
\* same time.
GroupsChargedOnce == \A c \in Clusters \ crossed : Charged(c) => EachGroupOnce(c)

\* A month that is over is settled: apart from endpoints that began in it and
\* have yet to commit, nothing changes what it is charged for, so a report of
\* it may be sent as soon as they are through, and made again later.  Clusters
\* that two administrators worked on at the same time are left out.
Settled(m) == clock >= MonthEnd(m) /\ \A a \in Admins : InProgress(a) => tx[a].begun >= MonthEnd(m)
Serial(lines) == {l \in lines : l.cluster \notin crossed}
ClosedMonthsStay ==
  [][\A m \in Months :
       Settled(m) => Serial(Charges(m, AllContracts))' \subseteq Charges(m, AllContracts)
                     /\ {l \in Charges(m, AllContracts) : l.cluster \notin crossed'}
                        \subseteq Charges(m, AllContracts)']_requestsVars

\* The backup project is in git if and only if the cluster is linked to it,
\* except while an endpoint is between the two; if no transaction failed
\* after its push and no two administrators worked on it at the same time.
BackupTracked ==
  \A c \in Clusters \ crossed :
      \/ failed
      \/ cluster[c].backup = (c \in git)
      \/ \E a \in Admins : /\ InProgress(a) /\ tx[a].pc = "decided" /\ tx[a].verb = "apply"
                           /\ Asked(a).type = "backup" /\ Target(a) = c

\* Not an invariant: the payload of an applied resize is said to be enough to
\* compute the fee of the expansion "from this row alone"
\* (cluster_request_service.py:195-196); two requests applied at once count
\* the same groups twice, and one that is applied and denied none.
ExpansionsAddUp == \A c \in Clusters : Charged(c) => EachGroupOnce(c)

\* Not an invariant: an addon costs its fee "x 1 per period the addon is active
\* for any portion of the period" (tests/test_billing_synthetic.py:17-18); one
\* that is disabled and enabled again within a month is charged twice.
AddonChargedOnce ==
  \A m \in Months : \A l, k \in AddonLines(m, AllContracts) :
    l.cluster = k.cluster /\ l.label = k.label => l = k

\* Not an invariant: a cluster that is not provisioned is not billed
\* (tests/test_billing_synthetic.py:421-442); its addons and expansions are.
UnprovisionedFree ==
  \A m \in Months : \A l \in Report(m, AllContracts) : cluster[l.cluster].provisioned # Never
=============================================================================
