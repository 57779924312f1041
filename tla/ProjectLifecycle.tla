-------------------------- MODULE ProjectLifecycle --------------------------
(***************************************************************************)
(* The life of OpenstackProject custom resources (CRs) in the openstack    *)
(* operator: the create, update and delete handlers, the drift timer and   *)
(* the garbage collector of openstack-operator/src/handlers.py, over the   *)
(* Keystone projects and groups they provision.                            *)
(*                                                                         *)
(* Kopf runs the change handlers of one CR one at a time, each in a worker *)
(* thread; the timer of the CR has a thread of its own.  Threads are       *)
(* started, and their status patches applied, by one event loop.  The      *)
(* garbage collector is a coroutine that makes blocking calls, so that     *)
(* while a pass runs the event loop starts no handler and applies no       *)
(* patch; threads already started go on.                                   *)
(***************************************************************************)
EXTENDS Naturals, FiniteSets

CONSTANTS
  CRs,            \* CR identities (namespace/name) as their rank in name order
  Targets,        \* the (name, domain) pairs a spec may ask for
  ManagedDomain,  \* MANAGED_DOMAIN, the only domain the collector scans
  GroupOf,        \* the user group of each target: make_group_name in its domain
  ProjectIds,     \* Keystone project ids, never reused
  Environments,   \* the environments considered: faults, and bounds on users
  None

Faults == {"api",      \* an OpenStack call fails after its retries
           "list",     \* listing the CRs from the API server fails
           "crash",    \* the operator restarts
           "tie",      \* two CRs get the same creationTimestamp (1s resolution)
           "overlap",  \* a CR is created while one with its target is deleting
           "rename",   \* spec.name or spec.domain of a CR is edited
           "admin"}    \* somebody deletes a project outside the operator

ASSUME CRAssumption == CRs \subseteq Nat
ASSUME TargetAssumption ==
  /\ \A t \in Targets : t = [name |-> t.name, domain |-> t.domain]
  /\ None \notin Targets
ASSUME IdAssumption == None \notin ProjectIds
ASSUME GroupAssumption == DOMAIN GroupOf = Targets /\ \A t \in Targets : GroupOf[t] # None
ASSUME EnvAssumption ==
  Environments \subseteq [faults : SUBSET Faults, creations : Nat, edits : Nat]

VARIABLES
  env,      \* the environment: which faults it has, and how many CRs the users
            \* create in all and how often they edit one (both bounds)
  clock,    \* ticks at each CR creation, which stamps the CR with it
  cr,       \* the CR objects in the API server
  job,      \* the change-handler thread of each CR
  timer,    \* the drift-timer thread of each CR
  gc,       \* the garbage-collection pass, run on the event loop
  pname,    \* Keystone: the (name, domain) each project id was created for
  palive,   \* Keystone: the projects that exist
  ptagged,  \* Keystone: the projects that carry MANAGED_BY_TAG
  groups    \* Keystone: the groups that exist; a group id stands as its name

vars == <<env, clock, cr, job, timer, gc, pname, palive, ptagged, groups>>
faults == env.faults

keystone == <<pname, palive, ptagged, groups>>

AbsentCR == [exists |-> FALSE, deleting |-> FALSE, made |-> 0, target |-> None,
             gen |-> 0, handled |-> 0, phase |-> "", pid |-> None, gid |-> None]
IdleJob == [pc |-> "idle", gen |-> 0, target |-> None,
            pid |-> None, gid |-> None, ok |-> TRUE]
IdleTimer == [pc |-> "idle", pid |-> None, gid |-> None]
IdleGc == [pc |-> "idle", expected |-> {}, todo |-> {}, current |-> None]

Init ==
  /\ env \in Environments
  /\ clock = 1
  /\ cr = [c \in CRs |-> AbsentCR]
  /\ job = [c \in CRs |-> IdleJob]
  /\ timer = [c \in CRs |-> IdleTimer]
  /\ gc = IdleGc
  /\ pname = [p \in ProjectIds |-> None]
  /\ palive = {}
  /\ ptagged = {}
  /\ groups = {}

-----------------------------------------------------------------------------
(* What the handlers look up. *)

Live(c) == cr[c].exists /\ ~cr[c].deleting

\* A mistake the code does not make: the pass runs in an executor and leaves the loop free.
PassInExecutor == TRUE

\* The event loop is free unless a collection pass occupies it.
EventLoopFree == gc.pc = "idle"

ProjectsNamed(t) == {p \in palive : pname[p] = t}

\* A mistake the code does not make: a CR whose status has no projectId yet does not count.
DuplicatesByStatus(c, t) ==
  {d \in CRs \ {c} : cr[d].exists /\ cr[d].target = t /\ cr[d].pid # None}

\* find_duplicate_project_crs: the other CRs, deleting ones included, with
\* the same target.
Duplicates(c, t) == {d \in CRs \ {c} : cr[d].exists /\ cr[d].target = t}

\* _cr_precedence_key: oldest first, then namespace/name.
Precedes(d, c) ==
  \/ cr[d].made < cr[c].made
  \/ cr[d].made = cr[c].made /\ d < c

\* A mistake the code does not make: an older CR that has no project yet is no rival.
PriorClaimsByStatus(c, t) ==
  {d \in Duplicates(c, t) : ~cr[d].deleting /\ cr[d].pid # None}

\* find_project_owner_cr: the CRs with a prior claim on the target.
PriorClaims(c, t) ==
  {d \in Duplicates(c, t) : /\ ~cr[d].deleting
                            /\ cr[d].pid # None \/ Precedes(d, c)}

-----------------------------------------------------------------------------
(* Users and GitOps tools change the CR objects. *)

\* With "tie" the new CR may share the second of the one created before it.
UserCreates(c, t) ==
  /\ ~cr[c].exists
  /\ clock <= env.creations
  /\ "overlap" \in faults \/ ~\E d \in CRs : cr[d].deleting /\ cr[d].target = t
  /\ \E stamp \in {clock} \cup {s \in {clock - 1} : "tie" \in faults} :
       cr' = [cr EXCEPT ![c] = [AbsentCR EXCEPT !.exists = TRUE, !.made = stamp,
                                                !.target = t, !.gen = 1]]
  /\ clock' = clock + 1
  /\ UNCHANGED <<env, job, timer, gc, keystone>>

UserEdits(c, t) ==
  /\ Live(c)
  /\ cr[c].gen <= env.edits
  /\ t = cr[c].target \/ "rename" \in faults
  /\ cr' = [cr EXCEPT ![c].gen = @ + 1, ![c].target = t]
  /\ UNCHANGED <<env, clock, job, timer, gc, keystone>>

UserDeletes(c) ==
  /\ Live(c)
  /\ cr' = [cr EXCEPT ![c].deleting = TRUE]
  /\ UNCHANGED <<env, clock, job, timer, gc, keystone>>

-----------------------------------------------------------------------------
(* The change handlers.  Each action is one step of the thread job[c]. *)

\* Kopf decides which handler the CR is due, starts it with a snapshot of the
\* CR, and starts nothing while the event loop is taken.
Begin(c, pc, pid, gid) ==
  /\ job[c].pc = "idle"
  /\ EventLoopFree
  /\ job' = [job EXCEPT ![c] = [IdleJob EXCEPT !.pc = pc, !.gen = cr[c].gen,
                                  !.target = cr[c].target, !.pid = pid, !.gid = gid]]
  /\ UNCHANGED <<env, clock, cr, timer, gc, keystone>>

BeginCreate(c) ==
  Live(c) /\ cr[c].handled = 0 /\ Begin(c, "list", None, None)

BeginUpdate(c) ==
  /\ Live(c) /\ 0 < cr[c].handled /\ cr[c].handled < cr[c].gen
  /\ IF cr[c].pid = None
     THEN Begin(c, "list", None, None)     \* "treat as create"
     ELSE Begin(c, "retag", cr[c].pid, cr[c].gid)

BeginDelete(c) ==
  /\ cr[c].deleting
  /\ IF cr[c].pid = None
     THEN Begin(c, "release", None, None)  \* nothing to delete
     ELSE Begin(c, "guard", cr[c].pid, cr[c].gid)

\* The thread moves to pc, with no other effect.
Goto(c, pc) ==
  /\ job' = [job EXCEPT ![c].pc = pc]
  /\ UNCHANGED <<env, clock, cr, timer, gc, keystone>>

\* The handler raises without a status patch, to be started again.
Abandon(c) ==
  /\ job' = [job EXCEPT ![c] = IdleJob]
  /\ UNCHANGED <<env, clock, cr, timer, gc, keystone>>

\* The handler raises: the status gets phase Error, and the ids only when
\* ensure_project had returned them.
Raise(c, pid, gid) ==
  /\ job' = [job EXCEPT ![c].pc = "patch", ![c].ok = FALSE,
                        ![c].pid = pid, ![c].gid = gid]
  /\ UNCHANGED <<env, clock, cr, timer, gc, keystone>>

\* A mistake the code does not make: the conflict is logged, not raised.
CheckOwnerWarnOnly(c) == job[c].pc = "list" /\ Goto(c, "find")

\* create_project refuses when another CR has a prior claim, and goes on when
\* it could not list the CRs.
CheckOwner(c) ==
  /\ job[c].pc = "list"
  /\ \/ PriorClaims(c, job[c].target) = {} /\ Goto(c, "find")
     \/ PriorClaims(c, job[c].target) # {} /\ Raise(c, None, None)
     \/ "list" \in faults /\ Goto(c, "find")

FindProject(c) ==
  /\ job[c].pc = "find"
  /\ \/ \E p \in ProjectsNamed(job[c].target) :
          job' = [job EXCEPT ![c].pc = "tag", ![c].pid = p]
     \/ /\ ProjectsNamed(job[c].target) = {}
        /\ job' = [job EXCEPT ![c].pc = "make"]
  /\ UNCHANGED <<env, clock, cr, timer, gc, keystone>>

\* Keystone refuses a second project of the same name in a domain.
MakeProject(c) ==
  /\ job[c].pc = "make"
  /\ \/ /\ ProjectsNamed(job[c].target) = {}
        /\ \E p \in ProjectIds :
             /\ pname[p] = None
             /\ pname' = [pname EXCEPT ![p] = job[c].target]
             /\ palive' = palive \cup {p}
             /\ job' = [job EXCEPT ![c].pc = "tag", ![c].pid = p]
        /\ UNCHANGED <<env, clock, cr, timer, gc, ptagged, groups>>
     \/ /\ ProjectsNamed(job[c].target) # {}
        /\ Raise(c, None, None)

\* MANAGED_BY_TAG and the contract tag, which need the project to exist.
TagProject(c) ==
  /\ job[c].pc = "tag"
  /\ \/ /\ job[c].pid \in palive
        /\ ptagged' = ptagged \cup {job[c].pid}
        /\ job' = [job EXCEPT ![c].pc = "group"]
        /\ UNCHANGED <<env, clock, cr, timer, gc, pname, palive, groups>>
     \/ job[c].pid \notin palive /\ Raise(c, None, None)

\* The group is found or created, then gets its roles on the project, which
\* must still exist.
EnsureGroup(c) ==
  /\ job[c].pc = "group"
  /\ groups' = groups \cup {GroupOf[job[c].target]}
  /\ job' = IF job[c].pid \in palive
            THEN [job EXCEPT ![c].pc = "provision", ![c].gid = GroupOf[job[c].target]]
            ELSE [job EXCEPT ![c].pc = "patch", ![c].ok = FALSE, ![c].pid = None]
  /\ UNCHANGED <<env, clock, cr, timer, gc, pname, palive, ptagged>>

\* update_project on a CR that has its project sets the contract tag, which
\* needs the project to exist.
RetagProject(c) ==
  /\ job[c].pc = "retag"
  /\ \/ job[c].pid \in palive /\ Goto(c, "provision")
     \/ job[c].pid \notin palive /\ Raise(c, job[c].pid, job[c].gid)

\* Quotas, networks, security groups, role bindings and federation mapping.
Provision(c) == job[c].pc = "provision" /\ Goto(c, "patch")

\* An OpenStack call of create or update fails for good.
FailCall(c) ==
  /\ "api" \in faults
  /\ \/ /\ job[c].pc \in {"find", "make", "tag", "group"}
        /\ Raise(c, None, None)
     \/ /\ job[c].pc \in {"retag", "provision"}
        /\ Raise(c, job[c].pid, job[c].gid)

\* A mistake the code does not make: a permanent error instead of a temporary one, so that Kopf
\* takes the change as handled and does not retry.
PatchPermanent(c) ==
  /\ job[c].pc = "patch"
  /\ EventLoopFree
  /\ cr' = [cr EXCEPT ![c].phase = IF job[c].ok THEN "Ready" ELSE "Error",
                      ![c].handled = job[c].gen,
                      ![c].pid = IF job[c].pid # None THEN job[c].pid ELSE @,
                      ![c].gid = IF job[c].pid # None THEN job[c].gid ELSE @]
  /\ job' = [job EXCEPT ![c] = IdleJob]
  /\ UNCHANGED <<env, clock, timer, gc, keystone>>

\* Kopf applies the status patch: also that of a handler that raised.
Patch(c) ==
  /\ job[c].pc = "patch"
  /\ EventLoopFree
  /\ cr' = [cr EXCEPT ![c].phase = IF job[c].ok THEN "Ready" ELSE "Error",
                      ![c].handled = IF job[c].ok THEN job[c].gen ELSE @,
                      ![c].pid = IF job[c].pid # None THEN job[c].pid ELSE @,
                      ![c].gid = IF job[c].pid # None THEN job[c].gid ELSE @]
  /\ job' = [job EXCEPT ![c] = IdleJob]
  /\ UNCHANGED <<env, clock, timer, gc, keystone>>

\* A mistake the code does not make: a failed list counts as "no duplicates".
GuardDeleteFailOpen(c) ==
  /\ job[c].pc = "guard"
  /\ \/ Duplicates(c, job[c].target) = {} /\ Goto(c, "cleanup")
     \/ Duplicates(c, job[c].target) # {} /\ Goto(c, "release")
     \/ "list" \in faults /\ Goto(c, "cleanup")

\* A mistake the code does not make: a CR with duplicates waits until they are gone.
GuardDeleteWaits(c) ==
  /\ job[c].pc = "guard"
  /\ \/ Duplicates(c, job[c].target) = {} /\ Goto(c, "cleanup")
     \/ Duplicates(c, job[c].target) # {} /\ Abandon(c)

\* delete_project_handler touches OpenStack only when the list of CRs shows
\* no other CR with the same target, and retries when it cannot list them.
GuardDelete(c) ==
  /\ job[c].pc = "guard"
  /\ \/ Duplicates(c, job[c].target) = {} /\ Goto(c, "cleanup")
     \/ Duplicates(c, job[c].target) # {} /\ Goto(c, "release")
     \/ "list" \in faults /\ Abandon(c)

\* Federation mapping, security groups and networks: a failure is retried.
\* Then delete_project, which logs and swallows the failure of either deletion.
DropGroup(c) ==
  /\ job[c].pc = "cleanup"
  /\ \/ /\ groups' \in {groups \ {job[c].gid}} \cup {s \in {groups} : "api" \in faults}
        /\ job' = [job EXCEPT ![c].pc = "dropproject"]
        /\ UNCHANGED <<env, clock, cr, timer, gc, pname, palive, ptagged>>
     \/ "api" \in faults /\ Abandon(c)

DropProject(c) ==
  /\ job[c].pc = "dropproject"
  /\ palive' \in {palive \ {job[c].pid}} \cup {s \in {palive} : "api" \in faults}
  /\ job' = [job EXCEPT ![c].pc = "release"]
  /\ UNCHANGED <<env, clock, cr, timer, gc, pname, ptagged, groups>>

\* Kopf removes the finalizer once the handler is done and the timer thread
\* of the CR has ended; the API server then removes the object.
Release(c) ==
  /\ job[c].pc = "release"
  /\ EventLoopFree
  /\ timer[c].pc = "idle"
  /\ cr' = [cr EXCEPT ![c] = AbsentCR]
  /\ job' = [job EXCEPT ![c] = IdleJob]
  /\ UNCHANGED <<env, clock, timer, gc, keystone>>

-----------------------------------------------------------------------------
(* The drift timer, reconcile_project. *)

StartTimer(c) ==
  /\ EventLoopFree
  /\ timer[c].pc = "idle"
  /\ Live(c) /\ cr[c].phase = "Ready"
  /\ timer' = [timer EXCEPT ![c].pc = "query"]
  /\ UNCHANGED <<env, clock, cr, job, gc, keystone>>

\* A mistake the code does not make: a failed query reads as a missing project.
QueryProjectErrorAsMissing(c) ==
  /\ timer[c].pc = "query"
  /\ timer' = [timer EXCEPT ![c] =
       IF ProjectsNamed(cr[c].target) = {} \/ "api" \in faults
       THEN [IdleTimer EXCEPT !.pc = "patch"] ELSE IdleTimer]
  /\ UNCHANGED <<env, clock, cr, job, gc, keystone>>

\* get_project_info.  A missing project and one with another id end in a
\* patch; a matching one, or a failed query, changes nothing here.
QueryProject(c) ==
  /\ timer[c].pc = "query"
  /\ \/ /\ ProjectsNamed(cr[c].target) = {}
        /\ timer' = [timer EXCEPT ![c].pc = "patch"]
     \/ \E p \in ProjectsNamed(cr[c].target) \ {cr[c].pid} :
          LET g == GroupOf[cr[c].target]
          IN timer' = [timer EXCEPT ![c] = [pc |-> "patch", pid |-> p,
                         gid |-> IF g \in groups THEN g ELSE None]]
     \/ /\ cr[c].pid \in ProjectsNamed(cr[c].target) \/ "api" \in faults
        /\ timer' = [timer EXCEPT ![c] = IdleTimer]
  /\ UNCHANGED <<env, clock, cr, job, gc, keystone>>

PatchTimer(c) ==
  /\ timer[c].pc = "patch"
  /\ EventLoopFree
  /\ cr' = [cr EXCEPT ![c].phase = "Pending", ![c].pid = timer[c].pid,
                      ![c].gid = timer[c].gid]
  /\ timer' = [timer EXCEPT ![c] = IdleTimer]
  /\ UNCHANGED <<env, clock, job, gc, keystone>>

-----------------------------------------------------------------------------
(* The garbage collector: garbage_collector and collect_garbage. *)

\* The daemon of the first CR in name order leads; the daemon of a CR that is
\* being deleted has been stopped.  A pass starts by listing the CRs.
GcStart(c) ==
  /\ EventLoopFree
  /\ Live(c) /\ \A d \in CRs : cr[d].exists => c <= d
  /\ gc' = [IdleGc EXCEPT !.pc = "scan",
              !.expected = {cr[d].target.name : d \in {e \in CRs : cr[e].exists}}]
  /\ UNCHANGED <<env, clock, cr, job, timer, keystone>>

\* The tagged projects of the managed domain whose name no CR expects.
GcScan ==
  /\ gc.pc = "scan"
  /\ LET orphans == {p \in palive \cap ptagged :
                       /\ pname[p].domain = ManagedDomain
                       /\ pname[p].name \notin gc.expected}
     IN gc' = IF orphans = {} THEN IdleGc
              ELSE [gc EXCEPT !.pc = "sweep", !.todo = orphans]
  /\ UNCHANGED <<env, clock, cr, job, timer, keystone>>

\* A failed look-up (the domain, the tagged projects, an orphan's group) ends the
\* pass: garbage_collector logs the exception and waits for the next one.
GcAbort ==
  /\ "api" \in faults
  /\ gc.pc \in {"scan", "sweep"}
  /\ gc' = IdleGc
  /\ UNCHANGED <<env, clock, cr, job, timer, keystone>>

\* For each orphan its group, looked up by name, and then the project; a
\* failed deletion is logged and the pass goes on.
GcDropGroup(p) ==
  /\ gc.pc = "sweep" /\ p \in gc.todo
  /\ groups' \in {groups \ {GroupOf[pname[p]]}} \cup {s \in {groups} : "api" \in faults}
  /\ gc' = [gc EXCEPT !.pc = "drop", !.current = p]
  /\ UNCHANGED <<env, clock, cr, job, timer, pname, palive, ptagged>>

\* A mistake the code does not make: the pass deletes the group and leaves the project.
GcGroupOnly ==
  /\ gc.pc = "drop"
  /\ gc' = IdleGc
  /\ UNCHANGED <<env, clock, cr, job, timer, keystone>>

GcDropProject ==
  /\ gc.pc = "drop"
  /\ palive' \in {palive \ {gc.current}} \cup {s \in {palive} : "api" \in faults}
  /\ gc' = IF gc.todo = {gc.current} THEN IdleGc
           ELSE [gc EXCEPT !.pc = "sweep", !.current = None,
                           !.todo = gc.todo \ {gc.current}]
  /\ UNCHANGED <<env, clock, cr, job, timer, pname, ptagged, groups>>

-----------------------------------------------------------------------------
(* Faults outside the handlers. *)

\* The pod is replaced (replicas 1, strategy Recreate): every thread and the
\* collection pass are gone, what they did to Keystone and the CRs stays.
OperatorRestart ==
  /\ "crash" \in faults
  /\ job' = [c \in CRs |-> IdleJob]
  /\ timer' = [c \in CRs |-> IdleTimer]
  /\ gc' = IdleGc
  /\ <<job, timer, gc>>' # <<job, timer, gc>>
  /\ UNCHANGED <<env, clock, cr, keystone>>

AdminDeletes(p) ==
  /\ "admin" \in faults
  /\ p \in palive
  /\ palive' = palive \ {p}
  /\ UNCHANGED <<env, clock, cr, job, timer, gc, pname, ptagged, groups>>

-----------------------------------------------------------------------------
User(c) ==
  \/ \E t \in Targets : UserCreates(c, t) \/ UserEdits(c, t)
  \/ UserDeletes(c)

BeginHandler(c) == BeginCreate(c) \/ BeginUpdate(c) \/ BeginDelete(c)

\* The steps a worker thread takes by itself.
Work(c) ==
  \/ CheckOwner(c) \/ FindProject(c) \/ MakeProject(c) \/ TagProject(c)
  \/ EnsureGroup(c) \/ RetagProject(c) \/ Provision(c)
  \/ FailCall(c)
  \/ GuardDelete(c) \/ DropGroup(c) \/ DropProject(c)

Timer(c) == StartTimer(c) \/ QueryProject(c) \/ PatchTimer(c)

GcPass == GcScan \/ GcAbort \/ (\E p \in ProjectIds : GcDropGroup(p)) \/ GcDropProject

Next ==
  \/ \E c \in CRs : User(c) \/ BeginHandler(c) \/ Work(c) \/ Patch(c) \/ Release(c)
                    \/ Timer(c) \/ GcStart(c)
  \/ GcPass
  \/ OperatorRestart
  \/ \E p \in ProjectIds : AdminDeletes(p)

Spec == Init /\ [][Next]_vars

\* Kopf's queue and the scheduler: a worker thread that can go on goes on; what
\* waits for the event loop gets its turn although passes keep taking the loop;
\* and passes keep being started.
EventLoop(c) == BeginHandler(c) \/ Patch(c) \/ Release(c) \/ PatchTimer(c)

Fairness ==
  /\ \A c \in CRs : /\ SF_vars(EventLoop(c)) /\ SF_vars(StartTimer(c))
                    /\ WF_vars(Work(c)) /\ WF_vars(QueryProject(c))
  /\ WF_vars(\E c \in CRs : GcStart(c)) /\ WF_vars(GcPass)

FairSpec == Spec /\ Fairness

-----------------------------------------------------------------------------
(* Properties. *)

JobPCs == {"idle", "list", "find", "make", "tag", "group", "retag", "provision",
           "patch", "guard", "cleanup", "dropproject", "release"}
Pids == ProjectIds \cup {None}
Gids == {GroupOf[t] : t \in Targets} \cup {None}

CRType == [exists : BOOLEAN, deleting : BOOLEAN, made : Nat, target : Targets \cup {None},
           gen : Nat, handled : Nat, phase : {"", "Ready", "Error", "Pending"},
           pid : Pids, gid : Gids]
JobType == [pc : JobPCs, gen : Nat, target : Targets \cup {None},
            pid : Pids, gid : Gids, ok : BOOLEAN]
TimerType == [pc : {"idle", "query", "patch"}, pid : Pids, gid : Gids]
GcType == [pc : {"idle", "scan", "sweep", "drop"}, expected : SUBSET {t.name : t \in Targets},
           todo : SUBSET ProjectIds, current : Pids]

\* Every variable holds a value of its type.
TypeOK ==
  /\ env \in Environments
  /\ clock \in Nat \ {0}
  /\ cr \in [CRs -> CRType]
  /\ job \in [CRs -> JobType]
  /\ timer \in [CRs -> TimerType]
  /\ gc \in GcType
  /\ pname \in [ProjectIds -> Targets \cup {None}]
  /\ palive \subseteq ProjectIds
  /\ ptagged \subseteq ProjectIds
  /\ groups \subseteq {GroupOf[t] : t \in Targets}

\* The CR relies on the project: its status records it, or its create or update
\* handler is at work on it.
Claims(c, p) == cr[c].pid = p \/ job[c].pid = p

\* A collection pass never has a project on its list that a CR claims, whatever
\* was created, deleted or provisioned since the pass listed the CRs.
GcSparesClaimed ==
  "rename" \notin faults => \A p \in gc.todo, c \in CRs : ~Claims(c, p)

\* create_project: "Refuse to provision when another CR already claims this
\* project": two CRs that are not being deleted never record the same project,
\* as long as the CRs can be listed, have distinct ages and keep their targets.
Trusted == faults \cap {"list", "tie", "rename"} = {}
OneOwner ==
  \A c, d \in CRs :
    Live(c) /\ Live(d) /\ cr[c].pid # None /\ cr[c].pid = cr[d].pid => c = d
ExclusiveOwnership == Trusted => OneOwner

\* find_project_owner_cr: the delete handler of a CR "leaves the shared project
\* alone as long as" another CR claims it.
SharedProjectSurvives ==
  \A c, d \in CRs :
    c # d /\ job[c].pc \in {"cleanup", "dropproject"} /\ Live(d) => ~Claims(d, job[c].pid)

\* It does so even when CRs came to share a project, provided no CR is created
\* while another with its target is being deleted.
DeletionSparesSharers ==
  faults \cap {"overlap", "rename"} = {} => SharedProjectSurvives

\* A project that a live CR relies on exists: neither a collection pass, nor the
\* deletion of a CR that came to share the project, takes it away, whether the CR
\* has recorded it or its handler still is at work on it.
Undisturbed == faults \cap {"admin", "overlap", "rename"} = {}
RecordedProjectExists ==
  Undisturbed =>
    \A c \in CRs, p \in ProjectIds : Live(c) /\ Claims(c, p) => p \in palive

\* And no handler or timer makes a CR forget its project, or take another one,
\* while the project exists: an id leaves projectId only after the project is gone.
KeepsLiveProject ==
  [][\A c \in CRs : Undisturbed /\ cr[c].pid \in palive /\ cr'[c].exists
       => cr'[c].pid = cr[c].pid]_vars

\* Status, spec and Keystone agree.
Settled(c) ==
  cr[c].phase = "Ready" /\ cr[c].handled = cr[c].gen /\ cr[c].pid \in palive

\* reconcile_project: "Clear status to trigger recreation": a CR that has no
\* rival for its target gets, and keeps getting, a project.
Converges ==
  \A c \in CRs : Live(c) /\ "rename" \notin faults
    ~> (Settled(c) \/ ~Live(c) \/ Duplicates(c, cr[c].target) # {})

\* A CR that is being deleted goes away.
DeletionCompletes == \A c \in CRs : cr[c].deleting ~> ~cr[c].exists

\* A tagged project that no CR names is collected, unless no CR is left whose
\* daemon could run the collector.
Orphan(p) ==
  /\ p \in palive \cap ptagged /\ pname[p].domain = ManagedDomain
  /\ \A c \in CRs : cr[c].exists => cr[c].target.name # pname[p].name
OrphansCollected ==
  \A p \in ProjectIds : Orphan(p) ~> (~Orphan(p) \/ ~\E c \in CRs : Live(c))

\* The refinement of ProjectOwnership: the CRs that own each target.
Owners ==
  [t \in Targets |->
     {c \in CRs : Trusted /\ Live(c) /\ cr[c].target = t /\ cr[c].pid # None}]
Ownership == INSTANCE ProjectOwnership WITH owners <- Owners
ImplementsOwnership == Ownership!Spec
=============================================================================
