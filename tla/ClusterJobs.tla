----------------------------- MODULE ClusterJobs -----------------------------
(***************************************************************************)
(* The controller of one ManagedCluster: reconcile validates the desired   *)
(* state, creates one provisioning Job per input, generation and           *)
(* verification interval, keeps the history of Jobs and their input        *)
(* ConfigMaps short, and projects the state of the Job to the status.      *)
(*                                                                         *)
(* The handler of changes and the timer are two threads that run the same  *)
(* code, each from the spec and the status it was started with; each call  *)
(* of the Kubernetes API is a step, and the status patch is applied when   *)
(* the thread has returned.  The Job controller and the worker Pods are    *)
(* the environment; ClusterWorker is what a Pod does.                      *)
(***************************************************************************)
EXTENDS ClusterInput, FiniteSets

CONSTANTS
  Specs, Profiles, Projects,   \* what users may write (records, see ClusterInput)
  Starts,   \* what a CR may start with: [spec, profile, project, secrets, done, budget],
            \* done being the intervals that have passed, each with a Job that succeeded,
            \* the budget what the environment may do at most (bounds)
  None

HistoryLimit == 2

Acts == {"edits",      \* of the spec; each is a new generation
         "profiles", "projects", "secrets",  \* a change of what the CR refers to
         "rolls",      \* the next verification interval begins
         "podFails",   \* a worker Pod fails, and the Job tries again
         "jobFails",   \* the Job fails: backoff limit or deadline
         "podLosses",  \* the Pods of a finished Job are removed
         "overlaps",   \* a thread starts while the other one runs
         "failures",   \* a call of the Kubernetes API fails
         "crashes"}    \* the controller restarts

ASSUME StartAssumption ==
  Starts \subseteq [spec : Specs, profile : Profiles, project : Projects,
                    secrets : BOOLEAN, done : Nat, budget : [Acts -> Nat]]

\* The inputs there can be, and the names of their Jobs.
Inputs == {ProvisioningInput(s, p, q) : s \in Specs, p \in Profiles, q \in Projects}
Names == [input : Inputs, generation : Nat, bucket : Nat]

ASSUME NoneAssumption == None \notin Inputs /\ None \notin Names

VARIABLES
  budget,      \* what is left of the environment's budget
  cr,          \* the ManagedCluster: spec, generation, status, whether a change is due
  profile, project,
  secrets,     \* the referenced Secrets and ConfigMap have their keys
  bucket,      \* the verification interval
  jobs,        \* the Jobs, each with its place in the order of their creation
  configMaps,  \* the names of the Jobs that have an input ConfigMap
  th,          \* the two threads
  past         \* history: what has happened of "overlap", "crash"

environment == <<profile, project, secrets, bucket>>
vars == <<budget, cr, environment, jobs, configMaps, th, past>>

Threads == {"change", "timer"}

NoStatus == [phase |-> "new", generation |-> 0, job |-> None, hash |-> None, commit |-> None]
Idle == [pc |-> "idle", spec |-> None, generation |-> 0, status |-> NoStatus,
         input |-> None, name |-> None, found |-> {}, patch |-> NoStatus]

\* The Job of an interval that has passed.
DoneJob(start, i) ==
  LET input == ProvisioningInput(start.spec, start.profile, start.project)
  IN  [name |-> job_name(input, 1, i), made |-> i, state |-> "succeeded", failed |-> FALSE,
       result |-> input]

DoneStatus(start) ==
  LET last == DoneJob(start, start.done)
  IN  [phase |-> "VirtualMachinesReady", generation |-> 1, job |-> last.name,
       hash |-> last.result, commit |-> last.result]

Init ==
  /\ \E start \in Starts :
       /\ budget = start.budget
       /\ profile = start.profile /\ project = start.project /\ secrets = start.secrets
       /\ bucket = start.done
       /\ jobs = {DoneJob(start, i) : i \in 1 .. start.done}
       /\ configMaps = {j.name : j \in jobs}
       /\ cr = [spec |-> start.spec, generation |-> 1, due |-> start.done = 0,
                status |-> IF start.done = 0 THEN NoStatus ELSE DoneStatus(start)]
  /\ th = [t \in Threads |-> Idle]
  /\ past = {}

-----------------------------------------------------------------------------
Finished(j) == j.state \in {"succeeded", "failed"}

\* status.active counts the Job's Pods, pending ones too; a Job that the Job
\* controller has not seen yet, or that waits to try again, has none.
Active(j) == j.state \in {"pending", "running"}

Named(s, name) == \E j \in s : j.name = name
JobOf(s, name) == CHOOSE j \in s : j.name = name

Spend(act) ==
  /\ budget[act] > 0
  /\ budget' = [budget EXCEPT ![act] = @ - 1]

-----------------------------------------------------------------------------
(* Users, and the resources the CR refers to. *)

UserEdits ==
  /\ Spend("edits")
  /\ \E s \in Specs :
       cr' = [cr EXCEPT !.spec = s, !.generation = @ + 1, !.due = TRUE]
  /\ UNCHANGED <<environment, jobs, configMaps, th, past>>

ProfileChanges ==
  /\ Spend("profiles")
  /\ profile' \in Profiles \ {profile}
  /\ UNCHANGED <<cr, project, secrets, bucket, jobs, configMaps, th, past>>

ProjectChanges ==
  /\ Spend("projects")
  /\ project' \in Projects \ {project}
  /\ UNCHANGED <<cr, profile, secrets, bucket, jobs, configMaps, th, past>>

SecretsChange ==
  /\ Spend("secrets")
  /\ secrets' = ~secrets
  /\ UNCHANGED <<cr, profile, project, bucket, jobs, configMaps, th, past>>

NextInterval ==
  /\ Spend("rolls")
  /\ bucket' = bucket + 1
  /\ UNCHANGED <<cr, profile, project, secrets, jobs, configMaps, th, past>>

-----------------------------------------------------------------------------
(* The Job controller and the worker Pods. *)

SetJob(j, job) ==
  /\ jobs' = (jobs \ {j}) \cup {job}
  /\ UNCHANGED <<cr, environment, configMaps, th, past>>

CreatePod(j) ==
  /\ j.state \in {"new", "backoff"}
  /\ SetJob(j, [j EXCEPT !.state = "pending"])
  /\ UNCHANGED budget

\* The kubelet mounts the input; without its ConfigMap the Pod stays pending.
StartPod(j) ==
  /\ j.state = "pending" /\ j.name \in configMaps
  /\ SetJob(j, [j EXCEPT !.state = "running"])
  /\ UNCHANGED budget

\* The worker reports the commit that has the inventory of its input.
JobSucceeds(j) ==
  /\ j.state = "running"
  /\ SetJob(j, [j EXCEPT !.state = "succeeded", !.result = j.name.input])
  /\ UNCHANGED budget

PodFails(j) ==
  /\ j.state = "running"
  /\ Spend("podFails")
  /\ SetJob(j, [j EXCEPT !.state = "backoff", !.failed = TRUE])

JobFails(j) ==
  /\ ~Finished(j)
  /\ Spend("jobFails")
  /\ SetJob(j, [j EXCEPT !.state = "failed", !.failed = TRUE])

\* The deadline of a Job whose Pod never starts.
DeadlineExceeded(j) ==
  /\ j.state = "pending" /\ j.name \notin configMaps
  /\ SetJob(j, [j EXCEPT !.state = "failed", !.failed = TRUE])
  /\ UNCHANGED budget

PodsRemoved(j) ==
  /\ j.state = "succeeded" /\ j.result # None
  /\ Spend("podLosses")
  /\ SetJob(j, [j EXCEPT !.result = None])

-----------------------------------------------------------------------------
(* reconcile *)

Step(t, r) == th' = [th EXCEPT ![t] = r]

\* on_change after a creation, a change or a restart, on_timer at any time.
Begin(t) ==
  /\ th[t].pc = "idle"
  /\ t = "change" => cr.due
  /\ Step(t, [Idle EXCEPT !.pc = "check", !.spec = cr.spec,
                          !.generation = cr.generation, !.status = cr.status])
  /\ IF \E u \in Threads : th[u].pc # "idle"
     THEN Spend("overlaps") /\ past' = past \cup {"overlap"}
     ELSE UNCHANGED <<budget, past>>
  /\ UNCHANGED <<cr, environment, jobs, configMaps>>

\* _set_status: what is None stays as it is.
Patch(t, phase, job, hash, commit) ==
  [Idle EXCEPT !.pc = "patch", !.generation = th[t].generation,
     !.patch = [phase |-> phase, generation |-> th[t].generation,
                job |-> job, hash |-> hash, commit |-> commit]]
PatchPhase(t, phase) == Patch(t, phase, None, None, None)
Invalid(t) == PatchPhase(t, "Failed")

\* A mistake the code does not make: the hash recorded at the start of provisioning is ignored.
DriftedNever(t, input) == FALSE

Drifted(t, input) == th[t].status.hash \notin {None, input}

\* Validation, profile and project, up to the comparison of the hashes.
Check(t) ==
  /\ th[t].pc = "check"
  /\ LET s == th[t].spec
         input == ProvisioningInput(s, profile, project)
     IN  Step(t,
           IF ~s.retain THEN Invalid(t)
           ELSE IF s.suspended THEN PatchPhase(t, "Suspended")
           ELSE IF ~project.ready THEN PatchPhase(t, "PendingProject")
           ELSE IF ~Accepted(s, profile, project) THEN Invalid(t)
           ELSE IF Drifted(t, input)
           THEN Patch(t, "Failed", th[t].status.job, th[t].status.hash, th[t].status.commit)
           ELSE [th[t] EXCEPT !.pc = "list", !.spec = None, !.input = input])
  /\ UNCHANGED <<budget, cr, environment, jobs, configMaps, past>>

\* _verification_bucket, job_name and _find_jobs.
List(t) ==
  /\ th[t].pc = "list"
  /\ Step(t, [th[t] EXCEPT !.pc = "clean", !.found = jobs,
                !.name = job_name(th[t].input, th[t].generation, bucket)])
  /\ UNCHANGED <<budget, cr, environment, jobs, configMaps, past>>

\* cleanup_history: the current Job and that of the status are kept, as are
\* unfinished ones, and of the finished the newest up to the limit.
Mandatory(t) == {th[t].name, th[t].status.job}

Unfinished(s) == {j.name : j \in {k \in s : ~Finished(k)}}

\* A mistake the code does not make: the Job of the status is thought to be the only one
\* that may be unfinished.
RetainedMandatory(t) == Mandatory(t) \cup {j.name : j \in {k \in th[t].found : Finished(k)}}

Retained(t) ==
  LET done == {j \in th[t].found : Finished(j)}
      others == {j \in done : j.name \notin Mandatory(t)}
      room == HistoryLimit - Cardinality(done \ others)
      newer(j) == {k \in others : k.made > j.made}
  IN  Mandatory(t) \cup Unfinished(th[t].found)
        \cup {j.name : j \in {k \in others : Cardinality(newer(k)) < room}}

CleanJobs(t) ==
  /\ th[t].pc = "clean"
  /\ LET old == {j.name : j \in th[t].found} \ Retained(t)
     IN  jobs' = {j \in jobs : j.name \notin old}
  /\ Step(t, [th[t] EXCEPT !.pc = "maps"])
  /\ UNCHANGED <<budget, cr, environment, configMaps, past>>

\* A mistake the code does not make: only the ConfigMap of the current Job is kept.
CleanMapsAll(t) ==
  /\ th[t].pc = "maps"
  /\ configMaps' = configMaps \cap {th[t].name}
  /\ Step(t, [th[t] EXCEPT !.pc = "decide"])
  /\ UNCHANGED <<budget, cr, environment, jobs, past>>

\* The ConfigMaps are listed anew, but what to keep was decided from the Jobs.
CleanMaps(t) ==
  /\ th[t].pc = "maps"
  /\ configMaps' = configMaps \cap Retained(t)
  /\ Step(t, [th[t] EXCEPT !.pc = "decide", !.found = {j \in @ : j.name \in Retained(t)}])
  /\ UNCHANGED <<budget, cr, environment, jobs, past>>

\* job_result, which reads the Pods of the Job now.
ResultOf(name) == IF Named(jobs, name) THEN JobOf(jobs, name).result ELSE None

Provisioning(t, name) ==
  Patch(t, "ProvisioningInfrastructure", name, th[t].input, None)

\* A mistake the code does not make: a Job that has not failed is reported as done.
ReportEarly(t, j) ==
  IF j.state = "failed" THEN Patch(t, "Failed", j.name, th[t].input, None)
  ELSE Patch(t, "VirtualMachinesReady", j.name, th[t].input, th[t].input)

\* A mistake the code does not make: only success is looked for.
ReportNoFailure(t, j) ==
  IF j.state = "succeeded" /\ ResultOf(j.name) # None
  THEN Patch(t, "VirtualMachinesReady", j.name, th[t].input, ResultOf(j.name))
  ELSE Provisioning(t, j.name)

\* The current Job exists: its state is projected to the status. A Job that
\* waits to try again counts as failed.
Report(t, j) ==
  IF j.state = "succeeded"
  THEN IF ResultOf(j.name) = None THEN Invalid(t)
       ELSE Patch(t, "VirtualMachinesReady", j.name, th[t].input, ResultOf(j.name))
  ELSE IF j.failed /\ ~Active(j) THEN Patch(t, "Failed", j.name, th[t].input, None)
  ELSE Provisioning(t, j.name)

Decide(t) ==
  /\ th[t].pc = "decide"
  /\ LET found == th[t].found
         active == {j \in found : Active(j)}
         other == {j \in active : j.name # th[t].name}
     IN  Step(t,
           IF Cardinality(active) > 1 THEN Invalid(t)
           ELSE IF other # {}
           THEN LET j == CHOOSE k \in other : TRUE
                IN  IF j.name.input # th[t].input THEN Invalid(t) ELSE Provisioning(t, j.name)
           ELSE IF Named(found, th[t].name) THEN Report(t, JobOf(found, th[t].name))
           ELSE [th[t] EXCEPT !.pc = "prerequisites", !.found = {}])
  /\ UNCHANGED <<budget, cr, environment, jobs, configMaps, past>>

Prerequisites(t) ==
  /\ th[t].pc = "prerequisites"
  /\ Step(t, IF secrets THEN [th[t] EXCEPT !.pc = "map"]
             ELSE PatchPhase(t, "PendingPrerequisites"))
  /\ UNCHANGED <<budget, cr, environment, jobs, configMaps, past>>

\* An existing ConfigMap of this name has the same immutable input.
CreateConfigMap(t) ==
  /\ th[t].pc = "map"
  /\ configMaps' = configMaps \cup {th[t].name}
  /\ Step(t, [th[t] EXCEPT !.pc = "job"])
  /\ UNCHANGED <<budget, cr, environment, jobs, past>>

\* The place after the newest Job.
Newest(j) == \A k \in jobs : k.made <= j.made
Place == IF \E j \in jobs : Newest(j) THEN 1 + (CHOOSE j \in jobs : Newest(j)).made ELSE 1

\* So does an existing Job, whatever its state.
CreateJob(t) ==
  /\ th[t].pc = "job"
  /\ jobs' = IF Named(jobs, th[t].name) THEN jobs
             ELSE jobs \cup {[name |-> th[t].name, made |-> Place, state |-> "new",
                              failed |-> FALSE, result |-> None]}
  /\ Step(t, Provisioning(t, th[t].name))
  /\ UNCHANGED <<budget, cr, environment, configMaps, past>>

Merged(p) ==
  [p EXCEPT !.job = IF @ # None THEN @ ELSE cr.status.job,
            !.hash = IF @ # None THEN @ ELSE cr.status.hash,
            !.commit = IF @ # None THEN @ ELSE cr.status.commit]

\* Kopf merges the patch into the status there is now; a change is handled
\* unless there is a later one.
ApplyPatch(t) ==
  /\ th[t].pc = "patch"
  /\ cr' = [cr EXCEPT !.status = Merged(th[t].patch),
                      !.due = @ /\ ~(t = "change" /\ th[t].generation = cr.generation)]
  /\ Step(t, Idle)
  /\ UNCHANGED <<budget, environment, jobs, configMaps, past>>

\* A call of the API raises: nothing is patched, Kopf tries again later.
ApiFails(t) ==
  /\ th[t].pc \notin {"idle", "patch"}
  /\ Spend("failures")
  /\ Step(t, Idle)
  /\ UNCHANGED <<cr, environment, jobs, configMaps, past>>

\* All threads end, patches that were not applied are lost; on_change resumes.
Restart ==
  /\ Spend("crashes")
  /\ th' = [t \in Threads |-> Idle]
  /\ cr' = [cr EXCEPT !.due = TRUE]
  /\ past' = past \cup {"crash"}
  /\ UNCHANGED <<environment, jobs, configMaps>>

-----------------------------------------------------------------------------
Reconcile(t) ==
  \/ Check(t) \/ List(t) \/ CleanJobs(t) \/ CleanMaps(t) \/ Decide(t)
  \/ Prerequisites(t) \/ CreateConfigMap(t) \/ CreateJob(t) \/ ApplyPatch(t)

JobProgress(j) == CreatePod(j) \/ StartPod(j) \/ JobSucceeds(j) \/ DeadlineExceeded(j)

Environment ==
  \/ UserEdits \/ ProfileChanges \/ ProjectChanges \/ SecretsChange \/ NextInterval
  \/ \E j \in jobs : PodFails(j) \/ JobFails(j) \/ PodsRemoved(j)
  \/ \E t \in Threads : ApiFails(t)
  \/ Restart

Next ==
  \/ \E t \in Threads : Begin(t) \/ Reconcile(t)
  \/ \E j \in jobs : JobProgress(j)
  \/ Environment

\* The timer recurs every 30 seconds, a thread that runs goes on, and so do the
\* Job controller and Pods; users and faults need not act.
Spec ==
  /\ Init /\ [][Next]_vars
  /\ WF_vars(Begin("timer"))
  /\ \A t \in Threads : WF_vars(Reconcile(t))
  /\ WF_vars(\E j \in jobs : JobProgress(j))

-----------------------------------------------------------------------------
(* Properties. *)

JobRecord == [name : Names, made : Nat,
              state : {"new", "pending", "running", "backoff", "succeeded", "failed"},
              failed : BOOLEAN, result : Inputs \cup {None}]
Phases == {"new", "Suspended", "PendingProject", "PendingPrerequisites",
           "ProvisioningInfrastructure", "VirtualMachinesReady", "Failed"}
Statuses == [phase : Phases, generation : Nat, job : Names \cup {None},
             hash : Inputs \cup {None}, commit : Inputs \cup {None}]
ThreadRecord == [pc : {"idle", "check", "list", "clean", "maps", "decide", "prerequisites",
                       "map", "job", "patch"},
                 spec : Specs \cup {None}, generation : Nat, status : Statuses,
                 input : Inputs \cup {None}, name : Names \cup {None},
                 found : SUBSET JobRecord, patch : Statuses]

\* Every variable has its type; the Jobs have different names.
TypeOK ==
  /\ budget \in [Acts -> Nat]
  /\ cr \in [spec : Specs, generation : Nat, status : Statuses, due : BOOLEAN]
  /\ profile \in Profiles /\ project \in Projects /\ secrets \in BOOLEAN /\ bucket \in Nat
  /\ jobs \subseteq JobRecord
  /\ \A j, k \in jobs : j.name = k.name => j = k
  /\ configMaps \subseteq Names
  /\ th \in [Threads -> ThreadRecord]
  /\ past \subseteq {"overlap", "crash"}

\* The inputs that Jobs were created for, and the one in the status.
Started == {j.name.input : j \in jobs} \cup ({cr.status.hash} \ {None})

\* "Once a Job has been created, changed infrastructure inputs or profile data
\* are marked Failed" (README.md:55): no second input is ever provisioned.
OneInput == Cardinality(Started) <= 1

\* "Active/current Jobs and their result objects are never removed"
\* (README.md:69): a Job that may still start a Pod has its input.
InputKept == Unfinished(jobs) \subseteq configMaps

\* Neither holds of the code without a limit.  As long as the controller does not
\* restart and its two threads never run at the same time, the recorded hash is
\* never missed, however often spec, profile and project change; and while they
\* never run at the same time no ConfigMap is removed too early, restarts or not.
InputsHold ==
  /\ past = {} => OneInput
  /\ "overlap" \notin past => InputKept

\* A status that says ready names an input whose inventory some Job has
\* committed, although it was put together from patches of two threads, one of
\* which may have read an older status, and Jobs and Pods are removed meanwhile.
\* Its Job is kept, done, as long as the threads never run at the same time: one
\* that two Jobs have outrun may remove it, and the other make it anew.
ReadyIsReal ==
  cr.status.phase = "VirtualMachinesReady" =>
    /\ cr.status.commit = cr.status.hash
    /\ cr.status.job.input = cr.status.hash
    /\ "overlap" \notin past =>
         \E j \in jobs : j.name = cr.status.job /\ j.state = "succeeded"

\* The history never loses a Job that still has work to do, although the
\* cleanup decides from a list that another thread and the Job controller have
\* outrun.  It takes a thread that was outrun and patches lost by restarts for
\* a finished Job to be made anew under the name that the list has as finished.
RunningSpared ==
  [][~({"overlap", "crash"} \subseteq past) => \A n \in Unfinished(jobs) : Named(jobs', n)]_vars

\* Once users and intervals rest, the status does not say provisioning for
\* ever: a Job's end is noticed, also when the Job lost its input, its Pods, or
\* the thread that created it.
Settles == <>[](cr.status.phase \notin {"new", "ProvisioningInfrastructure"})
=============================================================================
