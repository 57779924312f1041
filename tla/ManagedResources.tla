--------------------------- MODULE ManagedResources ---------------------------
(***************************************************************************)
(* The life of the cluster-scoped custom resources OpenstackDomain,        *)
(* OpenstackFlavor and OpenstackNetwork: their create, update and delete   *)
(* handlers and drift timers (handlers/domain.py, flavor.py, network.py),  *)
(* the registry they write to, and the cluster garbage collector           *)
(* (handlers/gc_cluster.py), a coroutine whose blocking calls keep the     *)
(* event loop busy while a pass runs.                                      *)
(***************************************************************************)
EXTENDS Naturals, FiniteSets, Sequences

CONSTANTS
  CRs,           \* CR identities as their rank in name order
  Collector,     \* the garbage collector, as a user of the registry
  Resources,     \* OpenStack resource names
  KindOf,        \* the type of each: "domains", "flavors" or "provider_networks"
  NameOf,        \* the spec.name of each CR
  Ids,           \* OpenStack ids, never reused: numbers, handed out in order
  GcKinds,       \* resource_configs: the types the collector goes through, in order
  Environments,  \* the environments considered: faults, and bounds on users
  None

Faults == {"api",     \* a call to OpenStack or to the registry fails after its retries
           "crash",   \* the operator restarts
           "lag",     \* the status patch of a timer is retried while a handler starts
           "admin"}   \* somebody deletes a resource outside the operator

\* No two CRs name the same resource.  The handlers do not check it.
ASSUME NameAssumption ==
  /\ NameOf \in [CRs -> Resources]
  /\ \A c, d \in CRs : NameOf[c] = NameOf[d] => c = d
ASSUME RankAssumption == CRs \subseteq Nat /\ Ids \subseteq Nat /\ Collector \notin CRs
ASSUME NoneAssumption == None \notin Ids /\ None \notin Resources
ASSUME KindsAssumption == Len(GcKinds) \in Nat \ {0}
ASSUME EnvAssumption ==
  Environments \subseteq [faults : SUBSET Faults, inputs : Nat]

VARIABLES
  env,      \* the environment
  inputs,   \* how many CRs the users have created or edited (bounded by env.inputs)
  cr,       \* the CR objects in the API server
  job,      \* the change-handler thread of each CR
  timer,    \* the drift-timer thread of each CR
  gc,       \* the garbage-collection pass
  named,    \* OpenStack: the resource name each id was created for
  built,    \* OpenStack: the generation of the spec each id was created from
  alive,    \* OpenStack: the resources that exist
  cm, session  \* the registry, and who has read what of it

Actors == CRs \cup {Collector}
INSTANCE ResourceRegistry

registry == <<cm, session>>
cloud == <<named, built, alive>>
vars == <<env, inputs, cr, job, timer, gc, named, built, alive, cm, session>>

faults == env.faults
Kind(c) == KindOf[NameOf[c]]
Live(c) == cr[c].exists /\ ~cr[c].deleting

EventLoopFree == gc.pc = "idle"

\* immutable is the generation of the last edit that calls for a new resource.
AbsentCR == [exists |-> FALSE, deleting |-> FALSE, gen |-> 0, handled |-> 0,
             immutable |-> 0, phase |-> "new", id |-> None]
\* id is what the status patch will hold, new the resource being registered, and
\* deletes tells a delete handler from an update that replaces the resource.
IdleJob == [pc |-> "idle", gen |-> 0, id |-> None, new |-> None,
            deletes |-> FALSE, ok |-> TRUE]
IdleTimer == [pc |-> "idle", id |-> None]
NoOrphan == [name |-> None, id |-> None]
IdleGc == [pc |-> "idle", expected |-> {}, at |-> 0, todo |-> {}, current |-> NoOrphan]

Init ==
  /\ env \in Environments
  /\ inputs = 0
  /\ cr = [c \in CRs |-> AbsentCR]
  /\ job = [c \in CRs |-> IdleJob]
  /\ timer = [c \in CRs |-> IdleTimer]
  /\ gc = IdleGc
  /\ named = [p \in Ids |-> None]
  /\ built = [p \in Ids |-> 0]
  /\ alive = {}
  /\ RegistryInit

-----------------------------------------------------------------------------
(* Users. *)

UserCreates(c) ==
  /\ ~cr[c].exists
  /\ inputs < env.inputs
  /\ inputs' = inputs + 1
  /\ cr' = [cr EXCEPT ![c] = [AbsentCR EXCEPT !.exists = TRUE, !.gen = 1]]
  /\ UNCHANGED <<env, job, timer, gc, cloud, registry>>

\* The edit concerns a property that OpenStack cannot change, or one it can.
UserEdits(c) ==
  /\ Live(c)
  /\ inputs < env.inputs
  /\ inputs' = inputs + 1
  /\ \E i \in {cr[c].immutable, cr[c].gen + 1} :
       cr' = [cr EXCEPT ![c].gen = @ + 1, ![c].immutable = i]
  /\ UNCHANGED <<env, job, timer, gc, cloud, registry>>

UserDeletes(c) ==
  /\ Live(c)
  /\ cr' = [cr EXCEPT ![c].deleting = TRUE]
  /\ UNCHANGED <<env, inputs, job, timer, gc, cloud, registry>>

-----------------------------------------------------------------------------
(* The change handlers.  Each action is one step of the thread job[c]. *)

Begin(c, pc, id, deletes) ==
  /\ job[c].pc = "idle"
  /\ EventLoopFree
  /\ timer[c].pc = "patch" => "lag" \in faults
  /\ job' = [job EXCEPT ![c] = [IdleJob EXCEPT !.pc = pc, !.gen = cr[c].gen,
                                               !.id = id, !.deletes = deletes]]
  /\ UNCHANGED <<env, inputs, cr, timer, gc, cloud, registry>>

BeginCreate(c) == Live(c) /\ cr[c].handled = 0 /\ Begin(c, "ensure", None, FALSE)

\* A mistake the code does not make: an update without an id is left to the drift timer.
BeginUpdateNeedsId(c) ==
  /\ Live(c) /\ 0 < cr[c].handled /\ cr[c].handled < cr[c].gen /\ cr[c].id # None
  /\ IF Kind(c) # "domains" /\ cr[c].immutable > cr[c].handled
     THEN Begin(c, "drop", cr[c].id, FALSE)
     ELSE Begin(c, "modify", cr[c].id, FALSE)

\* Domains are changed in place; flavors and networks that cannot be are replaced.
BeginUpdate(c) ==
  /\ Live(c) /\ 0 < cr[c].handled /\ cr[c].handled < cr[c].gen
  /\ CASE cr[c].id = None -> Begin(c, "ensure", None, FALSE)   \* "treat as create"
       [] cr[c].id # None /\ Kind(c) # "domains" /\ cr[c].immutable > cr[c].handled
            -> Begin(c, "drop", cr[c].id, FALSE)
       [] OTHER -> Begin(c, "modify", cr[c].id, FALSE)

BeginDelete(c) ==
  /\ cr[c].deleting
  /\ IF cr[c].id = None
     THEN Begin(c, "release", None, TRUE)   \* nothing to delete
     ELSE Begin(c, "drop", cr[c].id, TRUE)

\* The resources of the name that the CR asks for.
Same(c) == {p \in alive : named[p] = NameOf[c]}
Unused == {p \in Ids : named[p] = None}

\* Subnets or extra specs follow the creation, and setting them may fail.
Create(c) ==
  \E p \in Unused :
    /\ \A q \in Unused : p <= q
    /\ named' = [named EXCEPT ![p] = NameOf[c]]
    /\ built' = [built EXCEPT ![p] = job[c].gen]
    /\ alive' = alive \cup {p}
    /\ \/ job' = [job EXCEPT ![c].pc = "register", ![c].new = p]
       \/ /\ "api" \in faults /\ Kind(c) # "domains"
          /\ job' = [job EXCEPT ![c].pc = "patch", ![c].ok = FALSE]

\* ensure_flavor, ensure_domain, ensure_provider_network: the resource of that name
\* is adopted as it is, or created from the spec the handler was started with.
Ensure(c) ==
  /\ job[c].pc = "ensure"
  /\ \/ /\ \E p \in Same(c) : job' = [job EXCEPT ![c].pc = "register", ![c].new = p]
        /\ UNCHANGED cloud
     \/ Same(c) = {} /\ Create(c)
  /\ UNCHANGED <<env, inputs, cr, timer, gc, registry>>

\* A change in place fails when the resource is gone, unless it needs no call.
Modify(c) ==
  /\ job[c].pc = "modify"
  /\ \/ /\ job[c].id \in alive \/ Kind(c) # "domains"
        /\ job' = [job EXCEPT ![c].pc = "patch"]
     \/ /\ job[c].id \notin alive
        /\ job' = [job EXCEPT ![c].pc = "patch", ![c].ok = FALSE]
  /\ UNCHANGED <<env, inputs, cr, timer, gc, cloud, registry>>

\* Deleting what is gone already succeeds.
Drop(c) ==
  /\ job[c].pc = "drop"
  /\ alive' = alive \ {job[c].id}
  /\ job' = [job EXCEPT ![c].pc = "unregister"]
  /\ UNCHANGED <<env, inputs, cr, timer, gc, named, built, registry>>

\* An update goes on to create the new resource.
AfterUnregister(c) == IF job[c].deletes THEN "release" ELSE "ensure"

FetchRegistry(c) ==
  /\ \/ /\ job[c].pc = "register"
        /\ Fetch(c, Kind(c)) /\ job' = [job EXCEPT ![c].pc = "reload"]
     \/ /\ job[c].pc = "unregister" /\ cm.entries[NameOf[c]] # None
        /\ Fetch(c, Kind(c)) /\ job' = [job EXCEPT ![c].pc = "unreload"]
     \/ /\ job[c].pc = "unregister" /\ cm.entries[NameOf[c]] = None
        /\ Leave(c) /\ job' = [job EXCEPT ![c].pc = AfterUnregister(c)]
  /\ UNCHANGED <<env, inputs, cr, timer, gc, cloud>>

ReloadRegistry(c) ==
  /\ \/ job[c].pc = "reload" /\ job' = [job EXCEPT ![c].pc = "store"]
     \/ job[c].pc = "unreload" /\ job' = [job EXCEPT ![c].pc = "unstore"]
  /\ Reload(c, Kind(c))
  /\ UNCHANGED <<env, inputs, cr, timer, gc, cloud>>

StoreRegistry(c) ==
  /\ \/ /\ job[c].pc = "store"
        /\ Store(c, NameOf[c], [id |-> job[c].new, cr |-> c])
        /\ job' = [job EXCEPT ![c].pc = "patch", ![c].id = job[c].new]
     \/ /\ job[c].pc = "unstore"
        /\ Store(c, NameOf[c], None)
        /\ job' = [job EXCEPT ![c].pc = AfterUnregister(c)]
  /\ UNCHANGED <<env, inputs, cr, timer, gc, cloud>>

\* A call fails for good: a delete handler is retried as it is, the others patch
\* phase Error and the id they started with, and are retried.
FailCall(c) ==
  /\ "api" \in faults
  /\ job[c].pc \notin {"idle", "patch", "release"}
  /\ job' = IF job[c].deletes THEN [job EXCEPT ![c] = IdleJob]
            ELSE [job EXCEPT ![c].pc = "patch", ![c].ok = FALSE]
  /\ Leave(c)
  /\ UNCHANGED <<env, inputs, cr, timer, gc, cloud>>

\* A mistake the code does not make: the old id is kept when a resource has been replaced.
PatchOldId(c) ==
  /\ job[c].pc = "patch"
  /\ EventLoopFree
  /\ cr' = [cr EXCEPT ![c].phase = IF job[c].ok THEN "Ready" ELSE "Error",
                      ![c].handled = IF job[c].ok THEN job[c].gen ELSE @,
                      ![c].id = IF @ = None THEN job[c].id ELSE @]
  /\ job' = [job EXCEPT ![c] = IdleJob]
  /\ UNCHANGED <<env, inputs, timer, gc, cloud, registry>>

Patch(c) ==
  /\ job[c].pc = "patch"
  /\ EventLoopFree
  /\ cr' = [cr EXCEPT ![c].phase = IF job[c].ok THEN "Ready" ELSE "Error",
                      ![c].handled = IF job[c].ok THEN job[c].gen ELSE @,
                      ![c].id = IF job[c].id # None THEN job[c].id ELSE @]
  /\ job' = [job EXCEPT ![c] = IdleJob]
  /\ UNCHANGED <<env, inputs, timer, gc, cloud, registry>>

Release(c) ==
  /\ job[c].pc = "release"
  /\ EventLoopFree
  /\ timer[c].pc = "idle"
  /\ cr' = [cr EXCEPT ![c] = AbsentCR]
  /\ job' = [job EXCEPT ![c] = IdleJob]
  /\ UNCHANGED <<env, inputs, timer, gc, cloud, registry>>

-----------------------------------------------------------------------------
(* The drift timers: reconcile_domain, reconcile_flavor, reconcile_network. *)

StartTimer(c) ==
  /\ EventLoopFree
  /\ timer[c].pc = "idle"
  /\ Live(c) /\ cr[c].phase = "Ready"
  /\ timer' = [timer EXCEPT ![c].pc = "query"]
  /\ UNCHANGED <<env, inputs, cr, job, gc, cloud, registry>>

Query(c) ==
  /\ timer[c].pc = "query"
  /\ \/ Same(c) = {} /\ timer' = [timer EXCEPT ![c].pc = "patch"]
     \/ \E p \in Same(c) \ {cr[c].id} :
          timer' = [timer EXCEPT ![c] = [pc |-> "patch", id |-> p]]
     \/ /\ cr[c].id \in Same(c) \/ "api" \in faults
        /\ timer' = [timer EXCEPT ![c] = IdleTimer]
  /\ UNCHANGED <<env, inputs, cr, job, gc, cloud, registry>>

PatchTimer(c) ==
  /\ timer[c].pc = "patch"
  /\ EventLoopFree
  /\ cr' = [cr EXCEPT ![c].phase = "Pending", ![c].id = timer[c].id]
  /\ timer' = [timer EXCEPT ![c] = IdleTimer]
  /\ UNCHANGED <<env, inputs, job, gc, cloud, registry>>

-----------------------------------------------------------------------------
(* The cluster garbage collector. *)

\* The daemon of the first OpenstackDomain leads.  A pass starts by listing the CRs.
GcStart(c) ==
  /\ EventLoopFree
  /\ Live(c) /\ Kind(c) = "domains"
  /\ \A d \in CRs : cr[d].exists /\ Kind(d) = "domains" => c <= d
  /\ gc' = [IdleGc EXCEPT !.pc = "read", !.at = 1, !.expected = {d \in CRs : cr[d].exists}]
  /\ UNCHANGED <<env, inputs, cr, job, timer, cloud, registry>>

NextKind == IF gc.at = Len(GcKinds) THEN IdleGc
            ELSE [gc EXCEPT !.pc = "read", !.at = @ + 1, !.todo = {}, !.current = NoOrphan]
NextOrphan(o) == IF gc.todo = {o} THEN NextKind
                 ELSE [gc EXCEPT !.pc = "drop", !.todo = @ \ {o}, !.current = NoOrphan]

\* A mistake the code does not make: an entry of another id than its CR records counts as an orphan.
GcReadStale ==
  /\ gc.pc = "read"
  /\ LET orphans == {r \in Resources : /\ KindOf[r] = GcKinds[gc.at]
                                       /\ cm.entries[r] # None
                                       /\ \A c \in CRs : NameOf[c] = r => cr[c].id # cm.entries[r].id}
     IN gc' = IF orphans = {} THEN NextKind
              ELSE [gc EXCEPT !.pc = "drop",
                      !.todo = {[name |-> r, id |-> cm.entries[r].id] : r \in orphans}]
  /\ UNCHANGED <<env, inputs, cr, job, timer, cloud, registry>>

\* get_orphans: the entries of a type whose CR is not expected.
GcRead ==
  /\ gc.pc = "read"
  /\ LET orphans == {r \in Resources : /\ KindOf[r] = GcKinds[gc.at]
                                       /\ cm.entries[r] # None
                                       /\ cm.entries[r].cr \notin gc.expected}
     IN gc' = IF orphans = {} THEN NextKind
              ELSE [gc EXCEPT !.pc = "drop",
                      !.todo = {[name |-> r, id |-> cm.entries[r].id] : r \in orphans}]
  /\ UNCHANGED <<env, inputs, cr, job, timer, cloud, registry>>

GcDrop(o) ==
  /\ gc.pc = "drop" /\ o \in gc.todo
  /\ alive' = alive \ {o.id}
  /\ gc' = [gc EXCEPT !.pc = "unregister", !.current = o]
  /\ UNCHANGED <<env, inputs, cr, job, timer, named, built, registry>>

\* A mistake the code does not make: the entry is left in the registry.
GcKeepsEntry ==
  /\ gc.pc = "unregister"
  /\ Leave(Collector) /\ gc' = NextOrphan(gc.current)
  /\ UNCHANGED <<env, inputs, cr, job, timer, cloud>>

GcUnregister ==
  LET kind == GcKinds[gc.at]
  IN /\ \/ /\ gc.pc = "unregister" /\ cm.entries[gc.current.name] # None
           /\ Fetch(Collector, kind) /\ gc' = [gc EXCEPT !.pc = "reload"]
        \/ /\ gc.pc = "unregister" /\ cm.entries[gc.current.name] = None
           /\ Leave(Collector) /\ gc' = NextOrphan(gc.current)
        \/ /\ gc.pc = "reload"
           /\ Reload(Collector, kind) /\ gc' = [gc EXCEPT !.pc = "store"]
        \/ /\ gc.pc = "store"
           /\ Store(Collector, gc.current.name, None) /\ gc' = NextOrphan(gc.current)
     /\ UNCHANGED <<env, inputs, cr, job, timer, cloud>>

\* The failure of one orphan is logged and the pass goes on; failing to read the
\* orphans of a type ends the pass.
GcFail ==
  /\ "api" \in faults
  /\ \/ gc.pc = "read" /\ gc' = IdleGc
     \/ gc.pc = "drop" /\ \E o \in gc.todo : gc' = NextOrphan(o)
     \/ gc.pc \in {"unregister", "reload", "store"} /\ gc' = NextOrphan(gc.current)
  /\ Leave(Collector)
  /\ UNCHANGED <<env, inputs, cr, job, timer, cloud>>

-----------------------------------------------------------------------------
(* Faults outside the handlers. *)

OperatorRestart ==
  /\ "crash" \in faults
  /\ job' = [c \in CRs |-> IdleJob]
  /\ timer' = [c \in CRs |-> IdleTimer]
  /\ gc' = IdleGc
  /\ session' = [a \in Actors |-> Quiet]
  /\ <<job, timer, gc>>' # <<job, timer, gc>>
  /\ UNCHANGED <<env, inputs, cr, cloud, cm>>

AdminDeletes(p) ==
  /\ "admin" \in faults
  /\ p \in alive
  /\ alive' = alive \ {p}
  /\ UNCHANGED <<env, inputs, cr, job, timer, gc, named, built, registry>>

-----------------------------------------------------------------------------
User(c) == UserCreates(c) \/ UserEdits(c) \/ UserDeletes(c)
BeginHandler(c) == BeginCreate(c) \/ BeginUpdate(c) \/ BeginDelete(c)
Work(c) ==
  \/ Ensure(c) \/ Modify(c) \/ Drop(c)
  \/ FetchRegistry(c) \/ ReloadRegistry(c) \/ StoreRegistry(c) \/ FailCall(c)
Timer(c) == StartTimer(c) \/ Query(c) \/ PatchTimer(c)
GcPass == GcRead \/ (\E o \in gc.todo : GcDrop(o)) \/ GcUnregister \/ GcFail

Next ==
  \/ \E c \in CRs : User(c) \/ BeginHandler(c) \/ Work(c) \/ Patch(c) \/ Release(c)
                    \/ Timer(c) \/ GcStart(c)
  \/ GcPass
  \/ OperatorRestart
  \/ \E p \in Ids : AdminDeletes(p)

Spec == Init /\ [][Next]_vars

\* As for the projects: worker threads go on, the event loop serves what waits for
\* it although passes keep taking it, and passes keep being started.
EventLoop(c) == BeginHandler(c) \/ Patch(c) \/ Release(c) \/ PatchTimer(c)
Fairness ==
  /\ \A c \in CRs : /\ SF_vars(EventLoop(c)) /\ WF_vars(Work(c)) /\ WF_vars(Query(c))
  /\ WF_vars(\E c \in CRs : GcStart(c)) /\ WF_vars(GcPass)
FairSpec == Spec /\ Fairness

-----------------------------------------------------------------------------
(* Properties. *)

MaybeId == Ids \cup {None}
Table == [Resources -> Entries(CRs, Ids) \cup {None}]
Kinds == {KindOf[r] : r \in Resources}
CrRecord == [exists : BOOLEAN, deleting : BOOLEAN, gen : Nat, handled : Nat, immutable : Nat,
             phase : {"new", "Ready", "Error", "Pending"}, id : MaybeId]
JobRecord == [pc : {"idle", "ensure", "modify", "drop", "register", "reload", "store",
                    "unregister", "unreload", "unstore", "patch", "release"},
              gen : Nat, id : MaybeId, new : MaybeId, deletes : BOOLEAN, ok : BOOLEAN]
TimerRecord == [pc : {"idle", "query", "patch"}, id : MaybeId]
GcRecord == [pc : {"idle", "read", "drop", "unregister", "reload", "store"},
             expected : SUBSET CRs, at : 0..Len(GcKinds),
             todo : SUBSET [name : Resources, id : Ids],
             current : [name : Resources, id : Ids] \cup {NoOrphan}]

\* Every variable holds a value of its type.
TypeOK ==
  /\ env \in Environments
  /\ inputs \in Nat
  /\ cr \in [CRs -> CrRecord]
  /\ job \in [CRs -> JobRecord]
  /\ timer \in [CRs -> TimerRecord]
  /\ gc \in GcRecord
  /\ named \in [Ids -> Resources \cup {None}]
  /\ built \in [Ids -> Nat]
  /\ alive \subseteq Ids
  /\ cm \in [entries : Table, keys : SUBSET Kinds]
  /\ session \in [Actors -> [table : Table, data : Table, keys : SUBSET Kinds]]

\* The collector never has a resource on its list that a CR records or a handler is
\* providing for it, whatever updates of the registry were lost.
GcSparesClaimed ==
  \A o \in gc.todo, c \in CRs :
    cr[c].exists => cr[c].id # o.id /\ (job[c].id # o.id \/ job[c].pc = "idle")
                                    /\ (job[c].new # o.id \/ job[c].pc = "idle")

\* A CR that is not being deleted records a resource that does not exist only while
\* an update that replaces it is due, however handlers fail and are retried.  A late
\* patch of its drift timer may break this.
RecordsExist ==
  faults \cap {"admin", "lag"} = {} =>
    \A c \in CRs : Live(c) /\ cr[c].id # None /\ cr[c].id \notin alive
                     => cr[c].handled < cr[c].gen

\* A CR that needs no more work.
Settled(c) ==
  Live(c) /\ cr[c].phase = "Ready" /\ job[c].pc = "idle" /\ cr[c].handled = cr[c].gen

\* Not an invariant: "The operator tracks all managed resources in a ConfigMap"
\* (README.md:358); of two handlers that register at the same time the later
\* patch restores the table that the other one read first, without its entry.
Tracked ==
  \A c \in CRs : Settled(c) /\ cr[c].id \in alive
                   => cm.entries[NameOf[c]] = [id |-> cr[c].id, cr |-> c]

\* Not an invariant: "Flavors: Immutable after creation. Spec changes require
\* delete+recreate" (README.md:345); a create that failed after the flavor was
\* made is retried with an edited spec, and takes the old flavor for the new one.
FlavorsRecreated ==
  \A c \in CRs : Kind(c) = "flavors" /\ Settled(c) /\ cr[c].id \in alive
                  => cr[c].immutable <= built[cr[c].id]

\* An edit of a CR is carried out in the end, if no call fails: its update handler is
\* not left waiting for an id that the drift timer has cleared, or by a collector
\* that keeps the event loop to itself.
Outdated(c) == Live(c) /\ cr[c].handled < cr[c].gen
EditsApplied ==
  faults = {} => \A c \in CRs : Outdated(c) ~> ~Outdated(c)

\* A registered resource without a CR is collected in the end, as long as a domain CR
\* is there to run the collector, unless a lost update of the registry drops it.
Orphan(r) == cm.entries[r] # None /\ \A c \in CRs : cr[c].exists => NameOf[c] # r
OrphansCollected ==
  faults = {} =>
    \A r \in Resources :
      Orphan(r) ~> (~Orphan(r) \/ ~\E c \in CRs : Live(c) /\ Kind(c) = "domains")
=============================================================================
