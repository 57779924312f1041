# A verification project for openstack-keystone

TLA+ models of the programs in this repository, TLC configurations that check
them on small instances, and proofs that TLAPS checks for instances of any size.
`PROJECT.json` is the index: which module models which lines, what each run
checks, which property covers which hazard.

## 1. The system

The repository holds three programs and some container images.

### 1.1 openstack-operator (`src/openstack-operator`)

A Kubernetes operator on Kopf, one replica with the `Recreate` strategy. Users
and GitOps tools write custom resources (CRs); the operator provisions Keystone,
Nova, Neutron, Glance and Gnocchi accordingly and records ids in the CR status.

| Component | State it keeps | Operations | What makes it correct |
|---|---|---|---|
| Projects (`handlers.py`, `utils.py`, `resources/project.py`) | status: phase, projectId, groupId; Keystone projects, tags, groups | create, update, delete handlers; 300 s drift timer | one live CR per project; nobody deletes a project in use; retries take up what exists; CRs converge |
| Project collector (`handlers.py`, `resources/garbage_collection.py`) | none | a daemon on each CR, the first CR by name runs the pass | deletes orphans only, and in the end all of them |
| Registry (`resources/registry.py`) | one ConfigMap, a JSON table per type | register, unregister, get_orphans | no entry is lost |
| Domains, flavors, provider networks (`handlers/`, `resources/`) | status: id; OpenStack resources; registry | create, update in place or by replacement, delete; drift timer | recorded ids exist; edits are applied; immutable properties match |
| Images (`handlers/image.py`) | status: id, import start, retries; Glance | create, update, delete; 30 s poll and 300 s reconcile timers | Ready means imported; no duplicates; stuck imports end; external images are left alone |
| Cluster collector (`handlers/gc_cluster.py`) | none | daemon on each domain CR, first one leads | as above |
| Archive policies | status; Gnocchi | as flavors, without an id | as flavors |
| Role bindings and federation | group members; one mapping for all projects | part of project create, update, delete, timer | members and rules of all CRs coexist |
| Notifications | none | RabbitMQ consumer, reapplies role bindings | a new user gets the roles |
| Client (`openstack_client.py`, `ratelimit.py`) | semaphore, last call time | retry, rate limit | terminates, releases slots |

**How they interact.** Kopf calls the change handlers of a CR one after the other,
each in a worker thread; every timer of the CR has a thread of its own, and a timer sees the
live status and spec of its CR. Threads are started, and their status patches
sent, by one asyncio event loop. The collectors are coroutines on that loop that
make *blocking* calls: while a pass runs, no handler starts and no patch is applied, but
worker threads go on. Handlers of different CRs share OpenStack (looked up by
name), the registry ConfigMap, and the federation mapping, without locks.

**What is hard.** Interleavings of handlers, timers and collectors over shared
OpenStack resources; lists of CRs that are stale when used; restarts and failed
calls between creating a resource and recording it; retries of handlers that did
half of their work; phases that no handler acts upon.

### 1.2 customer-cluster-operator (`src/customer-cluster-operator`)

A second Kopf operator. For each `ManagedCluster` the controller
(`controller.py`, `kube.py`) validates spec, profile and project, creates a
ConfigMap with the input and a provisioning Job named after input hash, generation and
verification interval, and projects the state of the Job into the status. The
worker in the Job (`worker.py`, `openstack.py`, `inventory.py`) provisions
OpenStack idempotently - resources carry the CR's uid - and publishes an inventory
with git.

| Component | State it keeps | Operations | What makes it correct |
|---|---|---|---|
| Controller | status (phase, inputHash, jobName, commit); Jobs, ConfigMaps | reconcile on change, every 30 s, after a restart | one input once provisioning began; the status tells the truth of the Job; running Jobs keep their input |
| Worker | OpenStack resources with uid tags; git | list, verify, create, tag, link, wait, publish | a rerun takes up what is there; nothing twice; published means complete |

Hard: a restart between the Job and the status; the change handler and the timer
in two threads; two Jobs at the roll of an interval; creation and tagging as two calls; Pods
killed anywhere.

### 1.3 customer-portal (`src/customer-portal`)

A FastAPI service on PostgreSQL at READ COMMITTED, in several replicas, each request one
transaction that also calls git, the tenant cluster or mail.

| Component | State it keeps | Operations | What makes it correct |
|---|---|---|---|
| Billing (`billing_runner.py`, `routers/billing.py`) | jobs, runs | run-due (CronJob), run by hand, report once, edit | a period is billed once; success means delivered; no due job is left out |
| Cluster requests (`cluster_request_service.py`, `routers/cluster_requests.py`) | requests, addons, size, backup project | create, apply, deny; provision | each is decided once and charged once; closed months stay |
| Projects and clusters (`git_backend.py`, `cluster_git_backend.py`, `routers/projects.py`, `routers/clusters.py`) | two git repositories; contracts, clusters | create, update, delete, move; create a cluster | git and database agree; what was published is taken up by a retry |
| Administration (`routers/admin.py`) | customers, contracts | rename, drop, give away, change of domain | no project without a contract |
| Access and kubeconfigs (`kubeconfig_service.py`, `routers/kubeconfig.py`, `cluster_client.py`) | access rows, issued rows; RoleBindings; readers in git | grant, remove; issue, rotate, revoke | a kubeconfig shown as revoked has no permissions; readers are the admins |

Hard: check-then-act without locks in concurrent requests; git pushed, RoleBindings
made and mails sent before the transaction commits; a push rebased onto what nobody read;
runs left "running" by a restart.

### 1.4 The rest

Dockerfiles for keystone, libvirt and monitoring, the portal's browser code and
migrations: not modelled, there is no protocol in them.

## 2. The modules

| Module | Models | Composes |
|---|---|---|
| `ProjectOwnership` | the abstract promise: a target has one owner at a time | |
| `ProjectLifecycle` | project CRs, handlers, timer, collector, Keystone | refines `ProjectOwnership` |
| `ProjectLifecycleProofs` | theorems about `ProjectLifecycle` | extends it |
| `ResourceRegistry` | the ConfigMap, as the calls that read and patch it | |
| `ManagedResources` | domain, flavor, network CRs, timers, cluster collector | instantiates `ResourceRegistry` |
| `ManagedResourcesProofs` | theorems about `ManagedResources` | extends it |
| `ImageLifecycle` | one image CR, its handlers, two timers, Glance imports | |
| `ImageLifecycleProofs` | theorems about `ImageLifecycle` | extends it |
| `ProjectAccess` | role bindings, the shared federation mapping, notifications | |
| `ProjectAccessProofs` | theorems about `ProjectAccess` | extends it |
| `ClusterInput` | what `build_input` accepts and makes of it | |
| `ClusterJobs` | the controller of a ManagedCluster, its Jobs and status | extends `ClusterInput` |
| `ClusterJobsProofs` | theorems about `ClusterInput`, `ClusterJobs` and `ClusterWorker` | extends all three |
| `ClusterWorker` | worker Pods and OpenStack | what a Pod of `ClusterJobs` does |
| `BillingPrices` | price list, overrides, rebates, management fee, as operators | |
| `ClusterRequests` | requests of a cluster, and the report's lines | extends `BillingPrices` |
| `BillingRuns` | jobs, run-due, runs, deliveries | |
| `BillingRunsProofs` | theorems about `BillingRuns` and `ClusterRequests` | extends both |
| `PortalRepository` | contracts, clusters and the two git repositories | |
| `PortalRepositoryProofs` | theorems about `PortalRepository` | extends it |
| `PortalAccess` | access rows, kubeconfigs, RoleBindings, readers | |
| `PortalAccessProofs` | theorems about `PortalAccess` | extends it |
| `MC...` | constants for TLC, and small checks of the price operators | extend the above |

### Conventions

* A thread is a record with a `pc`, `"idle"` when it does not run. An action is
  the code between two calls that others can observe (an OpenStack call, a
  registry call, a status patch), with the call at its end. What a handler reads
  before a call and uses after it is a field of the record.
* The CR is a record: `gen` is `metadata.generation`, `handled` the generation
  the last successful handler saw (Kopf's last-handled configuration). A handler is due
  while `handled < gen`, which makes Kopf's retries after a TemporaryError, and
  its resumption after a restart, the same thing: the handler begins again.
* An *environment* `env`, chosen initially and never changed, says which faults
  happen and bounds the inputs of users. One TLC run thus covers several
  environments, and a property can say under which faults it holds.
* A failing call stands for the failure after all retries of `retry_on_error`
  (each retried call is idempotent here; a call that fails is taken to
  have had no effect). An OperatorRestart forgets all threads.
* Definitions marked "A mistake the code does not make" are variants with a plausible
  bug; a property must fail when the definition they vary is replaced by them.
* `TypeOK` is stated in every module with state. Runs list what is worth a run; to
  check the types too, add `INVARIANT TypeOK` to a configuration. Every module with a
  specification of its own has a theorem about it instead.
* Where two components share a module of proofs, the specification-level names of the second have a
  prefix: `RequestsSpec`, `RequestsTypeOK`, `requestsVars`; `WorkerSpec`, `WorkerTypeOK`, `workerVars`.
* Variables called history (`past`, `overlapped`, `crossed`, `mixed`, `torn`, `lost`, ...)
  record that something happened which the code does not guard against. A property that
  needs the absence of it says so, so that its limits can be read off it.
* A comment "Not an invariant" or "Not kept" marks a statement of the repository's own
  documents that the model contradicts (section 3.1).

### ProjectLifecycle

`cr`, `job`, `timer` per CR, one `gc` pass, and Keystone as `pname`, `palive`,
`ptagged`, `groups`. `BeginCreate`, `BeginUpdate`, `BeginDelete` start the handler;
`CheckOwner` is the listing of CRs with `find_project_owner_cr`; `FindProject`,
`MakeProject`, `TagProject`, `EnsureGroup` are `ensure_project`; `RetagProject` and
`Provision` the rest of create and update; `Patch` the status at the end;
`GuardDelete`, `DropGroup`, `DropProject`, `Release` the delete handler;
`StartTimer`, `QueryProject`, `PatchTimer` the drift timer; `Gc...` the collector.
A project id is never reused; a group id stands as its name. Provision stands for networks,
security groups, quotas, role bindings and federation, none of which the properties mention
(`ProjectAccess` opens up the last two).

### ResourceRegistry, ManagedResources

A change of an entry is three API calls, `Fetch`, `Reload`, `Store`, as in
`register` and `unregister`; `session` holds what an actor has read. In
`ManagedResources` a CR has a kind: domains are modified in place, flavors and
networks are replaced when an immutable property changed (`Drop`, unregister,
`Ensure`, register). `built` remembers the generation of the spec a resource was created from.
`lag` is the fault that a timer's patch is sent again while a handler already runs.

### ImageLifecycle

One CR, so that three threads (`job`, `poll`, `recon`) can interleave freely. `Find`, `Adopt`,
`Create`, `Import`, `Check`, `Register` are `ensure_image` and the registration, run
by a handler or by `reconcile_image`; `PollImage` and `ReapImage` are
`poll_image_status`, with the Glance look and the deletion of a stuck import as two steps; time is the age of
`importStartedAt`, under or over 600 s. Registry updates are atomic here: their
races are `ResourceRegistry`'s subject.

### ProjectAccess

Handlers, timers and the listener run the same code, so that they are threads of one
shape: `left` are the bindings to apply, `adds` and `drops` what `Compare` found for the current
one, `goal` whether the rule of the CR is then put, cut or left, `seen` the rules as
`ReadRules` saw them, `end` what comes after. `BeginCreate`, `BeginUpdate`, `BeginDelete`, `BeginTimer` and
`ScanNotice` differ in `left` and `goal` as the handlers do: `update_project` does not remove the
rule of a project that turned managed (the timer does), the timer does nothing
without bindings, the listener leaves the mapping alone. The mapping is a function from CRs to
the users admitted, so that replacing the whole list is one assignment of `seen`. Kopf's
last-handled configuration is `applied`: an edit that is undone before it is handled starts no handler.
Every CR has a target of its own: `ProjectLifecycle` covers claims, loss and collection of projects.

What the model shows beyond its properties: two timers in phase may undo each
other's rule at every tick, which is why `RulesRepaired` says "again and again" and not "from
some time on"; a rule that was the last one when its CR was deleted stays when others
join it; and a CR in phase Error whose edit is undone is not touched again, by
handler or timer (`MembersSettle` speaks of Ready CRs).

### ClusterInput, ClusterJobs

A spec, a profile and a project are records of what `build_input` tells apart; the
hash of an input stands as the input. `th` holds the two threads, the change handler and the timer, which
run one `reconcile`: `Check`, `List`, `CleanJobs`, `CleanMaps`, `Decide`, `Prerequisites`,
`CreateConfigMap`, `CreateJob`, each an API call, from the spec and status the thread
was started with; `ApplyPatch` is Kopf's, after the thread has returned, and merges
what the patch has. The Job controller and Pods are the environment: a new Job has
no Pod and is therefore not active, one that waits to try again neither. `bucket` stops
rolling when the budget is spent. Jobs are a set; `made` is a Job's place in the order of creation, which
Kubernetes gives as `creationTimestamp`. That list calls may be answered from an old watch cache is
covered by overlapping threads, which see older lists anyway.

### ClusterWorker

`Plan` is the sequence of steps of `provision`: those up to the jumphost (`First`), four for each other node
(`NodeStep`), and the inventory; `pod[p].at` is where a Pod is, `got` the instances it works with. `Look` lists and verifies (`Matches`, `Owned`, `Fits`), `Create`,
`Tag`, `Link` do what is missing, Cinder and Nova answer with `VolumeReady` or `VolumeFails`, `ServerFails`, and so on to `Publish`. A resource may have several
instances, with the uid they are tagged with and the uid that made them. `Kill` ends a Pod at any
call, a failing call included; `allowance` is what the environment may still do. `Recreate` is the deletion of a CR, which retains everything, and a CR of the same
slug. Two Pods interleave at a bounded number of `switches`: `turn` says whose steps
are taken meanwhile.

### BillingPrices, ClusterRequests

`FindPrice`, `ContractPrice` and `ManagementFee` are the pure functions of
`billing_runner.py`; MCClusterRequests checks them against the figures of the
repository's tests. In `ClusterRequests` an administrator's endpoint reads the request
(`BeginApply`), reads what it is about and decides (`Examine...`), and commits
(`Commit...`); backup writes git in the second step. `tx` holds the transaction of each administrator
(`InProgress`, `Conclude` at its end), `crossed` the clusters on which two of them worked at one time. `stamp` and `begun` are the two
times a row may get: that of the decision, and that of the transaction
(`enabled_at` is the database's `now()`); `clock` counts ticks, `MonthTicks` of them to a month, up to `LastTick`. `Report` is computed from the rows, for any
month, and is what the properties compare. The deletion of clusters is left out.

### BillingRuns

An endpoint is `BeginTick`, `BeginManual` or `BeginOnce`; `Scan` is one turn of
`run_due_jobs`, `Insert`, `Resolve`, `Make`, `Deliver`, `Fail`, `Finish` are `execute_job` and
`generate_and_deliver`, each up to the next await. Jobs are those the session read when
the request began; the chosen contracts and the period are computed anew. A delivery that
raises may have arrived. Creation and deletion of jobs are left out.

### PortalRepository

A request reads and checks, pulls, pushes, and commits. `Push` merges file by file with
what others have pushed, as `git pull --rebase` does: a file both have changed
clashes; if both have changed the kustomization's list it may merge or not. The
advisory lock of a cluster's slug is held from `Lock` to the end; rows that a
transaction has flushed make others wait (`Flushed`): a contract is not created or moved to a number that
a renaming under way is about to take. `Fail` is an end at any point: a
replica lost, git or the database not answering; the request is then asked again. `Resize` is a resize request
that is applied: `_apply_resize` changes the groups of the row and pushes nothing, so that quotas and manifest keep
the size the cluster was created with (`initial` of the row; section 3.1).

### PortalAccess

`Bind` is the certificate with its RoleBinding, `Unbind` its deletion, `List`, `Cascade`
and `Select` the cascading revocation, which `CascadeFails` leaves, as the endpoint
does, without an error. Rows get their ids from a sequence and are deleted by id, so that a row that
was removed and granted again meanwhile stays. `WriteGrant` and `WriteRemove` write the readers in git from
the rows this transaction sees. Expiry of certificates is left out.

## 3. The runs

| Run | Shows | Instance |
|---|---|---|
| `ProjectSafety` | exclusive ownership; the collector and deletions spare what is in use; a recorded project exists and is kept; refinement | 2 CRs, 2 targets, 2 ids (symmetric), 2 creations; crash, api, overlap, list+tie and admin environments, one with an edit |
| `ProjectLiveness` | a CR converges, deletion ends, orphans are collected | 2 CRs, no faults; and a rename |
| `ResourcesSafety` | no recorded resource is lost, no edit stuck, orphans collected | a domain and a flavor; crash, api, admin, lag with 2 inputs, none with 3 |
| `ImageSafety` | Ready means imported, one image, none forgotten, retries end | 4 images; import, edit, api+crash+import, admin, upload environments |
| `AccessRules` | rules, groups and direct roles are repaired; the mapping is never emptied | 2 CRs, 2 users, 5 specs; two CRs with an edit or a deletion, one CR with edit, login and lost notification, or with deletion, login, failing call and restart |
| `ClusterJobsSafety` | one input while its hash is recorded, status true to the Job, running Jobs kept, status settles | 1 CR, 4 specs, 4 profiles, 2 projects, 2 threads; 8 starts, three of them with Jobs of earlier intervals |
| `ClusterWorkerSafety` | nothing twice, published is complete, retries end well unless blocked | jumphost, 1 controller, 1 worker (a plan of 33 steps); 2 Pods; 7 budgets of kills, overlaps, volumes and servers that fail, outside changes |
| `ClusterRequestsSafety` | groups charged once, backup tracked, closed months stay | 1 cluster, 2 administrators, 6 sequences of requests, 2 months of 2 ticks |
| `BillingRunsSafety` | success is complete, no period twice, no due job left out | 2 jobs, 2 endpoints, 3 contracts, months of 2 ticks up to tick 4, window 1; 5 starts |
| `PortalRepositorySafety` | projects have contracts, rows are published with their first size, no orphans, retries adopt | 2 threads, 2 contracts, 3 numbers, 2 domains, 2 slugs; 6 starts of 4 to 7 requests, two of them with a resize, up to 2 failures |
| `PortalAccessSafety` | the list of kubeconfigs is true; readers are the admins | 3 threads (symmetric), 2 users and SUNET; 7 sequences of 4 or 5 requests, 2 failures |
| `ProjectDeleteRace` | violated: a CR created behind the delete guard loses its project | overlap |

`ProjectDeleteRace` is a disagreement between the code and what it says of itself;
"findings" in `PROJECT.json` quotes the line. `CHECK_DEADLOCK FALSE` everywhere: users
may stop, and then nothing is left to do.

### 3.1 Statements the code does not keep

Found while modelling; each is a definition of its module that no run lists, and that TLC refutes
when it is added to a configuration of its module with the fault that is named.

| Statement | Where it is said | What happens |
|---|---|---|
| `ProjectLifecycle!OneOwner` | `handlers.py:381` | two CRs of one second ("tie") are ordered by name: the later one may pass the check after the earlier one did |
| `ProjectLifecycle!Converges` with "admin" | `handlers.py:828` | phase Pending after an outside deletion triggers no recreation |
| `ManagedResources!Tracked` | operator README:358 | concurrent registrations lose an entry |
| `ManagedResources!FlavorsRecreated` | operator README:345 | a retried create adopts the flavor of an older spec |
| `ImageLifecycle!ExternalKept` | image CRD:60 | an external image that stays queued is deleted |
| `ProjectAccess!BindingsAdmitted` | `role_binding.py:46` | two bindings throw each other's users out |
| `ClusterJobs!OneInput`, `InputKept` | cluster operator README:55, :69 | after a restart between Job and status, or with overlapping threads, a second input or a Job without its ConfigMap |
| `ClusterWorker!Idempotent` | `openstack.py:1`, README:7 | killed between creating and tagging a network: no Pod goes on |
| four spare addresses | cluster operator README:103 | `build_input` leaves three (`GrowthFits`) |
| `ClusterRequests!ExpansionsAddUp` | `cluster_request_service.py:195` | two resizes applied at once charge groups twice |
| `ClusterRequests!AddonChargedOnce` | `test_billing_synthetic.py:17` | disabled and enabled within a month: charged twice |
| `ClusterRequests!UnprovisionedFree` | `test_billing_synthetic.py:421` | addons and expansions of an unprovisioned cluster are billed |
| `BillingRuns!TickReachesAll` | `billing_runner.py:1520` | two successful runs of a period by hand make run-due raise, and later jobs wait |
| `BillingRuns!NothingStuck` | `billing_runner.py:1520` | a restart leaves "running", and run-due never bills that period |
| `PortalRepository!NumbersHold` | `git_backend.py:41` | a cluster created while its contract is renamed keeps the old number |
| `PortalRepository!SizesArePublished` | portal README:18, :26 | a resize changes the row; quotas and manifest in git keep the first size (`cluster_request_service.py:199`) |

### 3.2 Why the bounds suffice

Every conflict in the code is between two parties: two
CRs of one target, a CR and the collector, a handler and a timer, two Pods, two
administrators, two requests. Two CRs, with
one successor after a deletion, reach all of them. Three ids let a project be lost, made
again, and lost; two suffice where nobody deletes from outside. The two names of
ProjectSafety let the collector have an orphan beside a project in use. Faults are taken one
at a time (images: failing calls, restarts and failed imports together)
because together they multiply states without a new kind of step; each may happen any number of times.
In `ImageLifecycle` an id that nothing refers to is handed out again, so that
retries are not cut off by the bound; four ids are never all in use. In `ProjectAccess` the `budget`
variable holds what the environment may still do: the mapping needs two CRs to be contended, a group one CR with its three
threads, and each fault comes once, since what it leaves behind is repaired or not by the same timer.

The modules of the other two programs have such a `budget` (or `allowance`, `failures`,
`wishes`, `asked`) too. It never limits the code, only its environment. In `ClusterJobs` three
Jobs of earlier intervals are one more than the history keeps, so that the cleanup has something to do. In
`ClusterWorker` one node of each role shows every kind of step, and the second node of a role would run
the same plan under another name; two kills let a Pod die in what its predecessor left half done. In
`ClusterRequests` two months of two ticks have a boundary, and an instant before and after it on either
side; a third request would repeat one of two. In `BillingRuns` the CronJob fires up to three times, within a window and after it. In `PortalRepository`
each start is a question: rivals for one name, retries beside strangers, generic changes of a managed
project, contracts, customers. In `PortalAccess` the third thread is there since a rotation, a revocation and a removal meet in one row.

Two conditions are there because the proofs failed without them, where the runs had been too small to
show it: a thread outrun by two Jobs of the other may delete the Job of a ready status, which the next
reconcile makes anew (`ReadyIsReal` says of the Job itself only what holds without an overlap); and with a
restart besides, the Job made anew may be deleted while it runs (`RunningSpared`). `ClusterJobsSafety` allows
two overlaps in three of its starts since.

The conditions in a property (no "overlap", no "tie", no `crossed`, ...) are the limits
of the code; TLC refutes the property without them, as 3.1 tells for those that contradict a document.

### 3.3 Fairness

In the openstack-operator, worker threads go on (weak fairness per thread). What waits for the event
loop gets strong fairness, because passes of the collector disable it again
and again, and asyncio serves its queue between them. Timers and daemons are
restarted by Kopf for ever (weak fairness). Nothing is assumed of users or of faults. Glance need not begin an
import; an import that has begun ends. Liveness is checked where no call fails:
the code retries without limit, so that a finite number of failures changes nothing, and an infinite number
leaves nothing to promise. `ProjectAccess` allows finitely many failures and restarts instead. There the
listener holds the event loop at most once per login, so that weak fairness suffices.

`ClusterJobs`: the timer recurs, a thread that runs goes on, and the Job controller and Pods
make progress. `ClusterWorker`: a Pod that runs goes on, a Pod that has failed is followed by
another (its Job's, or that of the next interval), Cinder and Nova finish what they began. That a volume or
a server fails is not fair, and bounded; nothing takes up one that has failed, which `Blocked` names.
`PortalRepository`: a request that has begun goes on or fails, and what was asked is begun; failures
are finitely many. The other portal modules state safety only: nothing there retries by itself
but the CronJob, and `TickServes` says what a run-due that ended has done.

## 4. The proofs

`ProjectLifecycleProofs` proves, for any set of CRs, targets, project ids, any group
names, and any environments, from the named assumptions in `ProjectLifecycle` only:

* `TypeCorrect`: `[]TypeOK`;
* `OwnershipIsExclusive`, `CollectorSparesClaimed`, `DeletionIsSafe`,
  `RelianceIsSound`: the four safety invariants of `ProjectSafety`;
* `RecordsAreKept`: the action property `KeepsLiveProject`;
* `OperatorImplementsOwnership`: the refinement of `ProjectOwnership`.

None of the invariants is inductive. `IInv` strengthens them in layers, each
inductive relative to those before it:

1. `TypeInv`: types, and that a CR and a running handler have a target;
2. `ShapeInv`: which fields a thread's `pc` implies (a handler past FindProject has an id);
3. `KeystoneInv`: names of existing projects are unique, as Keystone ensures;
4. `NameInv`: without renames, every id held for a CR is of a project of its target;
5. `OrderInv`: a live CR past its owner check precedes all live rivals - so at most
   one is past it. A newcomer is younger (no "tie"), and a deleting CR never
   comes back to life: exclusive ownership follows;
6. `GcInv`: what a pass expects covers every CR with a project or a running handler -
   no handler starts while the pass holds the event loop - so what it sweeps is nobody's;
7. `SpareInv`: past the delete guard there is no rival, and without "overlap" none appears;
8. `PresentInv`: a claimed project exists until its own delete handler drops it, by 4 to 7.

The step lemmas first reduce each action to its *effect* on the few fields the
invariants mention (`UserEffect`, `WorkEffect`, ...; collected in `NextStep`), so that each layer is
proved against effects and not against records.

`ProjectAccessProofs` proves, for any CRs, users, specs and budgets, `TypeCorrect` and
`MappingNeverEmptied` (the action property `NeverEmptied`). Types alone do not give
it: `update_mapping` writes what the thread read before, whatever the mapping holds
by then. Its `IInv` says of each thread (`Sound`) that one about to write either puts
a rule which names users, or cuts one while the rules it has *seen* hold that of
another project; so what it writes is not empty. `Sound` needs in turn that a working
thread has a CR and a spec (`CrInv` for CRs, `NoticeInv` for the listener's list).

`BillingRunsProofs` proves, for any jobs, schedules, contracts, windows and lengths of a month,
`TypeCorrect` and `PeriodsAreBilledOnce` (`BilledOnce`). The run that is about to be inserted gets a
period computed after the one that was looked for, so the invariant has to say that time does not
matter: `PastInv`, no run of the CronJob is of a month that is not over, so that a period
which has just become the last is free; `FreshInv`, a period about to be billed is not held;
`OpenInv`, a run that an endpoint works on is not yet decided (else its decision could turn an "error" into
a second "success"); and `AloneInv`, one endpoint at a time, on which these rest.

`SuccessfulRunsAreComplete` (`SuccessIsComplete`) rests on `WorkInv`: the files a run has sent are those its
endpoint has resolved and that are gone from its queue; with `ApartInv`, no two endpoints work on one run, a
run marked success has an empty queue. `RunDueLeavesNoneOut` (`TickServes`) rests on `TickInv`: each job that
was due when the run-due began is still on its list, about to be executed, or has a run of that period or the next, and rows
are never removed.

`PortalAccessProofs` proves, for any threads, users, requests and failures, `TypeCorrect` and
`ReadersAreTheAdmins` (`ReadersAreAdmins`). Between git and the commit the readers are
those that there *will* be: `WrittenInv` says which, and that the row the commit is about has not changed; `SoleInv`,
one change of access at a time, keeps it so; `TargetInv`, that a removal has found its row.

`ListOfKubeconfigs` (`ListIsTrue`) rests on what a thread knows (`Sound`) between the RoleBinding
and the row: the new one it has bound has no row yet, the old one it has unbound is still a row's, those it
cascades over are all of the user's; `PairInv` keeps the new bindings of two threads apart, and `KnownInv` a
binding with its user.

`ManagedResourcesProofs` proves, for any CRs, names, kinds, ids and faults, `TypesHold`,
`CollectorSparesClaimed` (`GcSparesClaimed`) and `RecordedExist` (`RecordsExist`):

1. `TInv`: types; the orphan at hand is on the list, a handler that registers has an id;
2. `EntriesInv`: an entry, in the ConfigMap *or in what any actor has read of it*, is of a CR that asks for
   that name and of an id that was created for it. Lost updates drop and restore entries, but never make one up;
3. `NamedInv`, `AbsentInv`: an id that a CR or a thread of it holds is of its name; nothing runs for a CR that is gone;
4. `PassInv`: for a CR that a pass does not expect nothing has begun, since the pass holds the event loop; what is on
   its list is of such a CR. Names are one CR's, so that nobody else can hold it;
5. `ResourceInv`: what a live CR and its threads hold exists, or the replacement is due. Here the drop of a
   handler and the find of a timer meet: a drop leaves alone what the timer is about to patch.

`ImageLifecycleProofs` proves, for any ids and environments, `TypesHold`, `ReadyMeansImported`
(`ReadyAfterImport`), `NeverTwoImages` (`OneImage`) and `ImagesAreRegistered` (`NothingForgotten`). After
`TInv` (types, and where each thread may be) five layers speak of a CR that nobody edits: `ThreadsInv`, its threads
are about the CR as it was created; `TurnsInv`, which of them may run beside which (no timer while its
first creation is not handled, the two timers only in phases of their own); `NamedInv`, one image exists, and those who hold
an id hold that one; `StatusInv`, what is Ready, or about to be, is imported; `EntryInv`, without failing calls and restarts
what exists is registered or about to be. `TurnsInv` and `NamedInv` need each other: who runs
depends on what was found, and what is found on who ran.

`ClusterJobsProofs` proves `GrowthFits` - an accepted profile has room for every size up to its maximum,
and three addresses to spare - and, for any specs, profiles, projects, starts and budgets, `TypesHold`, `InputsAreKept`
(`InputsHold`), `ReadyIsOfOneInput` (`ReadyIsReal`) and the action property `UnfinishedAreSpared` (`RunningSpared`):

1. `InputInv`: what a worker reports, what a thread is about to patch and what the status says are of one input;
   it needs only the thread's own record, so that it holds with overlaps and restarts;
2. `AloneInv`: without overlaps one thread runs, and decides from the status there is;
3. `KeptInv`: then no unfinished Job is unknown to it, and a Job comes after its ConfigMap;
4. `DoneInv`: then the Job that is, or is about to be, reported as succeeded stays;
5. `HashInv`: without a restart besides, the input of any Job is in the status or about to be patched, and no other.

For `RunningSpared` that covers threads which have not overlapped. `LateInv` is for the other case, overlaps
but no restarts. A list of Jobs may then be old when the cleanup uses it, and `SpareInv` says why that does
no harm: a Job that it has as finished is finished still, or it is gone and the other thread has `Turned`
away from its name - the interval has passed, the generation has, or the recorded hash is of another input. This
takes `TimesInv`, no name is ahead of the generation or interval there is, and `HashesInv`, of two threads that
run one began with the hash that is recorded, and who made a Job of a generation that the other does
not know goes on with its input (`Follower`).

Of `ClusterWorker` it proves, for any number of Pods and nodes and any budgets, `WorkerTypeCorrect`,
`CompleteWhenPublished` (`PublishedIsComplete`) and `OneOfEachAlways` (`OneOfEach`). The plan is a sequence of a length that
depends on the nodes, so that lemmas about it come first: each step occurs once (`PlanOnce`), and what a
step needs is made by an earlier one (`NeedsAreMet`). `CompleteInv` is then

1. `FineIn`: an instance is its maker's or nobody's, and linked to its maker's only;
2. `WorksInv`: of a running Pod every earlier step of the plan `Holds` - it works with an instance of its own that is
   tagged, linked and ready as the step leaves it;
3. `StandsInv`: what was published stays.

Every step of anybody makes the store of instances only grow (`Evolves`: none is lost, and an owner, a link or a state is
not taken back), which keeps 2 and 3 true of the Pods that do not move; others from
outside only add rules, or take away what `Holds` and `Stands` do not mention. `OnceInv` adds what holds without overlaps: one Pod runs (`SoleInv`), what it
is about to create is not there (`AbsentInv`), and floating IPs are of the owner of the one network (`FipIn`), so
that a successor finds them.

Of `ClusterRequests`, `BillingRunsProofs` proves, for any requests, clusters, administrators, prices and lengths of a month,
`RequestsTypeCorrect`, `GroupsAreChargedOnce` (`GroupsChargedOnce`), `BackupsAreTracked` (`BackupTracked`) and the action
property `ClosedMonthsAreSettled` (`ClosedMonthsStay`). `SoleInv` puts two endpoints on one cluster on record
as `crossed`; for the others `ReadsInv` says that what an endpoint has read still holds when it commits, and
`FoundInv` that it ends an addon of its own cluster. `ChainInv` then says of the applied resizes that they lead, without
gap or overlap, from the first size to the present one; the lines of the reports add up to
that chain (`ChainIsCharged`). For closed months it is enough that a step which changes a row sets times after
the month (`MonthStays`), from which each kind of line is followed: setup, expansions, addons.

`PortalRepositoryProofs` proves, for any contracts, names, requests, threads and failures, `TypesHold` and
`ProjectsAreCharged` (`ContractsKnown`), `ClustersArePublished` (`RowsArePublished`), `ProjectsAreOwned`
(`NoOrphans`). That numbers of contracts are unique, which `TypeOK` includes, needs `FlushInv`: a number
written and not yet committed is held against others. The three safety properties speak of what happens while no operations
have `crossed`: then `AloneInv`, a request that checks runs alone; `LockInv`, one request creates
a cluster of a slug; `Sound(t)`, per kind of request, what it has read still holds, and what it
has pushed is there; and of the tables `RowsInv`, `KnownInv`, `ManifestsInv`, `OrphansInv`, each with the exception of
what a request under way is about to commit. `RowsInv` compares quotas and manifest with the size the cluster was
created with, which a resize leaves alone (`ResizeNext`); of the present size nothing of the kind holds. That others leave alone what a thread takes for granted is proved once (`Tame`) and used for all kinds.

Assumptions: the named ones of the modules only. `NameAssumption` of `ManagedResources` (section 5) is the one that the
code does not enforce; the others say that `None` and the like are none of the values, that parameters have
their types, that the nodes of a cluster have different names, and of `ClusterJobs` and `PortalRepository` what the states they start from look like.

Each inductive invariant was checked with TLC on the runs' instances before it was proved.

Every invariant and action property that a passing run checks has a theorem. Only model-checked:

* all liveness (the prover has no ENABLED or fairness): `Converges`, `DeletionCompletes` and `OrphansCollected` of projects;
  `EditsApplied` and `OrphansCollected` of resources; `ManagedSettles` of images; `RulesRepaired`, `MembersSettle`,
  `ManagedServed`; `Settles` of the controller, `Converges` of the worker; `RetryAdopts`;
* what the price operators compute for every list (induction over data): `MCClusterRequests` compares them with figures.

## 5. What is not modelled, and the plan

Not modelled:

* archive policies (the same shape as flavors; the collector's list `resource_configs` has no entry for
  them, so that their orphans stay), named groups and refused roles in bindings, rate limiting and delays (real
  time), metrics, schemas, settings;
* Gnocchi measures and their aggregation into billing lines: arithmetic over data of another service,
  without state;
* OpenBao signing, certificate expiry, the argocd aliases of project members, names that collide only
  after
  sanitising;
* the projects of backups in `PortalRepository` (`ClusterRequests` has them): `NoOrphans` speaks of the projects of clusters only;
* front end, migrations, container images.

Abstractions that hide a hazard, listed in `PROJECT.json` with a note where it is real: a
timed-out call that succeeded at the server (a failed call is taken as one without effect, but for
deliveries of bills), `make_group_name` as an injective constant. The models assume that two cluster-scoped CRs have
different names of their resources (`NameAssumption`), which no handler checks: two that share one
also share its registry entry, and deleting one takes it from the other.

Some guards are left out where that only adds behaviours: kubeconfigs of a cluster that is not provisioned
(`routers/kubeconfig.py:98`) in `PortalAccess`, the API address and CA that provisioning asks for in `ClusterRequests`. In
`ClusterWorker` the image, the flavors and the external network that a ManagedCluster names exist. The
deletion of a cluster that has been published is always refused by the portal (`clusters.py:427-462`), and no step.

What could come next: archive policies as a further kind of `ManagedResources`; deletion of jobs in billing;
expiry of certificates in `PortalAccess`; calls that time out at the client and succeed at the server, where creations are not looked up by name.
