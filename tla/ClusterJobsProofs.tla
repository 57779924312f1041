-------------------------- MODULE ClusterJobsProofs --------------------------
(***************************************************************************)
(* Theorems about ClusterJobs and the ClusterInput that it extends, and    *)
(* about ClusterWorker.                                                    *)
(*                                                                         *)
(* The inductive invariant IInv of the jobs holds of every start and every *)
(* budget. InputInv needs nothing of the two threads but their own         *)
(* records; the other parts are about threads that have never run at the   *)
(* same time, and the last one also about a controller that has not been   *)
(* restarted. LateInv, which stands on it, is about threads that do run at *)
(* the same time: what one lists and removes the other does not make anew. *)
(*                                                                         *)
(* The one of the worker, CompleteInv, is about each instance, about what  *)
(* each Pod has done so far, and about what has been published; it holds   *)
(* of any number of Pods and of nodes. OnceInv, which stands on it, is     *)
(* about Pods that have never run at the same time.                        *)
(***************************************************************************)
EXTENDS ClusterJobs, ClusterWorker, FiniteSetTheorems, TLAPS

-----------------------------------------------------------------------------
(* The input. *)

\* The network of an accepted cluster has room for every size that its profile
\* allows, not only for the one that was asked for, and three addresses to
\* spare: growing needs no other network.  models.py:143-148 checks the maximum
\* of the profile; the customer-cluster-operator's README.md:103 says four.
THEOREM GrowthFits ==
  ASSUME NEW s, NEW p, NEW q, p.max \in Nat, p.addresses \in Nat,
         Accepted(s, p, q), NEW g \in 1 .. p.max, NEW t, t.groups = g
  PROVE  Spare(ProvisioningInput(t, p, q)) >= 3
<1>1. 3 * p.max + 11 <= p.addresses - 2
  BY DEF Accepted, Capacity, Usable
<1>2. 3 * g <= 3 * p.max
  OBVIOUS
<1>3. Spare(ProvisioningInput(t, p, q)) = p.addresses - 2 - (8 + 3 * g)
  BY DEF Spare, Taken, ProvisioningInput
<1> QED BY <1>1, <1>2, <1>3

-----------------------------------------------------------------------------
(* The inductive invariant. *)

Listing == {"list", "clean", "maps", "decide", "prerequisites", "map", "job"}
Ready(status) == status.phase = "VirtualMachinesReady"
SucceededIn(s, n) == \E j \in s : j.name = n /\ j.state = "succeeded"
Overlaps == "overlap" \in past

\* What a thread is about to write of a status that says ready is of one input.
OfOneInput(status) ==
  Ready(status) =>
    /\ status.job \in Names /\ status.hash \in Inputs /\ status.commit = status.hash
    /\ status.job.input = status.hash

ThreadOK(t) ==
  /\ th[t].pc = "check" => th[t].spec \in Specs
  /\ th[t].pc \in Listing =>
       th[t].input \in Inputs /\ th[t].status.hash \in {None, th[t].input}
  /\ th[t].pc \in Listing \ {"list"} =>
       th[t].name \in Names /\ th[t].name.input = th[t].input
  /\ th[t].pc = "patch" => OfOneInput(th[t].patch)

\* What a worker reports, what a thread and what the status say are of one input.
InputInv ==
  /\ \A j \in jobs : j.result \in {None, j.name.input}
  /\ \A t \in Threads : ThreadOK(t)
  /\ OfOneInput(cr.status)

\* A thread that runs alone decides from the status there is.
AloneInv ==
  ~Overlaps =>
    /\ \A t, u \in Threads : th[t].pc # "idle" /\ th[u].pc # "idle" => t = u
    /\ \A t \in Threads : th[t].pc \notin {"idle", "patch"} => th[t].status = cr.status

\* No unfinished Job is unknown to it, and a Job has its ConfigMap first.
KeptInv ==
  ~Overlaps =>
    /\ InputKept
    /\ \A t \in Threads :
         /\ th[t].pc \in {"clean", "maps"} => Unfinished(jobs) \subseteq Unfinished(th[t].found)
         /\ th[t].pc = "job" => th[t].name \in configMaps

\* The Job that it reports, or has reported, as succeeded stays.
DoneInv ==
  ~Overlaps =>
    /\ Ready(cr.status) => SucceededIn(jobs, cr.status.job)
    /\ \A t \in Threads :
         /\ th[t].pc = "patch" /\ Ready(th[t].patch) => SucceededIn(jobs, th[t].patch.job)
         /\ th[t].pc \in {"clean", "maps", "decide"} =>
              \A j \in th[t].found :
                j.name = th[t].name /\ j.state = "succeeded" => SucceededIn(jobs, th[t].name)

\* Without a restart the hash of a Job is in the status or about to be, and no other.
HashInv ==
  past = {} =>
    /\ \A j \in jobs :
         \/ cr.status.hash = j.name.input
         \/ \E t \in Threads : th[t].pc = "patch" /\ th[t].patch.hash = j.name.input
    /\ \A t \in Threads :
         th[t].pc = "patch" /\ th[t].patch.hash # None /\ cr.status.hash # None =>
           th[t].patch.hash = cr.status.hash

TInv == TypeOK /\ InputInv
IInv == TInv /\ AloneInv /\ KeptInv /\ DoneInv /\ HashInv

-----------------------------------------------------------------------------
(* Types, and what each action does. *)

LEMMA TypeSplit ==
  ASSUME TypeOK
  PROVE  /\ budget \in [Acts -> Nat]
         /\ cr \in [spec : Specs, generation : Nat, status : Statuses, due : BOOLEAN]
         /\ profile \in Profiles /\ project \in Projects /\ secrets \in BOOLEAN /\ bucket \in Nat
         /\ jobs \subseteq JobRecord
         /\ \A j, k \in jobs : j.name = k.name => j = k
         /\ configMaps \subseteq Names
         /\ th \in [Threads -> ThreadRecord]
         /\ past \subseteq {"overlap", "crash"}
BY DEF TypeOK

LEMMA NamesFields ==
  ASSUME NEW input \in Inputs, NEW g \in Nat, NEW b \in Nat
  PROVE  job_name(input, g, b) \in Names /\ job_name(input, g, b).input = input
BY DEF Names, job_name

LEMMA NameNotNone == ASSUME NEW n \in Names PROVE n # None /\ n.input \in Inputs /\ n.input # None
<1>1. n.input \in Inputs
  BY DEF Names
<1> QED BY <1>1, NoneAssumption

LEMMA InputInputs ==
  ASSUME NEW s \in Specs, NEW p \in Profiles, NEW q \in Projects
  PROVE  ProvisioningInput(s, p, q) \in Inputs
BY DEF Inputs

LEMMA NoStatusType == NoStatus \in Statuses /\ ~Ready(NoStatus)
<1>1. "new" \in Phases /\ "new" # "VirtualMachinesReady"
  BY DEF Phases
<1> QED BY <1>1 DEF NoStatus, Statuses, Ready

LEMMA IdleType == Idle \in ThreadRecord /\ Idle.pc = "idle" /\ Idle.found = {}
<1>1. NoStatus \in Statuses
  BY NoStatusType
<1>2. {} \in SUBSET JobRecord
  OBVIOUS
<1> QED BY <1>1, <1>2 DEF Idle, ThreadRecord

LEMMA SpendType ==
  ASSUME budget \in [Acts -> Nat], NEW a \in Acts, Spend(a)
  PROVE  budget' \in [Acts -> Nat]
<1>1. budget[a] - 1 \in Nat
  BY DEF Spend
<1> QED BY <1>1 DEF Spend

\* A thread's record is r now; the other thread's is what it was.
LEMMA StepFacts ==
  ASSUME th \in [Threads -> ThreadRecord], NEW t \in Threads, NEW r \in ThreadRecord, Step(t, r)
  PROVE  /\ th' \in [Threads -> ThreadRecord]
         /\ th'[t] = r
         /\ \A u \in Threads : u # t => th'[u] = th[u]
BY DEF Step

LEMMA PatchType ==
  ASSUME TypeOK, NEW t \in Threads, NEW phase \in Phases, NEW job \in Names \cup {None},
         NEW hash \in Inputs \cup {None}, NEW commit \in Inputs \cup {None}
  PROVE  LET r == Patch(t, phase, job, hash, commit)
         IN  /\ r \in ThreadRecord /\ r.pc = "patch"
             /\ r.patch.phase = phase /\ r.patch.job = job
             /\ r.patch.hash = hash /\ r.patch.commit = commit
<1> DEFINE p == [phase |-> phase, generation |-> th[t].generation,
                 job |-> job, hash |-> hash, commit |-> commit]
<1>1. th[t] \in ThreadRecord
  BY TypeSplit
<1>2. th[t].generation \in Nat
  BY <1>1 DEF ThreadRecord
<1>3. p \in Statuses
  BY <1>2 DEF Statuses
<1>4. Patch(t, phase, job, hash, commit) =
        [Idle EXCEPT !.pc = "patch", !.generation = th[t].generation, !.patch = p]
  BY DEF Patch
<1> HIDE DEF p
<1>5. NoStatus \in Statuses
  BY NoStatusType
<1>6. Patch(t, phase, job, hash, commit) =
        [pc |-> "patch", spec |-> None, generation |-> th[t].generation, status |-> NoStatus,
         input |-> None, name |-> None, found |-> {}, patch |-> p]
  BY <1>4 DEF Idle
<1>7. Patch(t, phase, job, hash, commit) \in ThreadRecord
  BY <1>2, <1>3, <1>5, <1>6 DEF ThreadRecord
<1>8. /\ Patch(t, phase, job, hash, commit).pc = "patch"
      /\ Patch(t, phase, job, hash, commit).patch = p
  BY <1>6
<1>9. p.phase = phase /\ p.job = job /\ p.hash = hash /\ p.commit = commit
  BY DEF p
<1> QED BY <1>7, <1>8, <1>9

\* A phase that is not ready, with nothing else.
LEMMA PatchPhaseType ==
  ASSUME TypeOK, NEW t \in Threads, NEW phase \in Phases
  PROVE  LET r == PatchPhase(t, phase)
         IN  r \in ThreadRecord /\ r.pc = "patch" /\ r.patch.phase = phase /\ r.patch.hash = None
BY PatchType DEF PatchPhase

LEMMA CrFields ==
  ASSUME TypeOK
  PROVE  cr.spec \in Specs /\ cr.generation \in Nat /\ cr.status \in Statuses /\ cr.due \in BOOLEAN
BY TypeSplit

\* What the environment changes leaves Jobs, threads and the status alone.
LEMMA EnvironmentNext ==
  ASSUME TypeOK,
         UserEdits \/ ProfileChanges \/ ProjectChanges \/ SecretsChange \/ NextInterval
  PROVE  /\ TypeOK' /\ cr'.status = cr.status /\ UNCHANGED <<jobs, configMaps, th, past>>
         /\ cr'.generation >= cr.generation /\ bucket' >= bucket
<1> USE TypeSplit
<1>1. CASE UserEdits
  <2>1. budget' \in [Acts -> Nat]
    BY <1>1, SpendType DEF UserEdits, Acts
  <2>2. PICK s \in Specs : cr' = [cr EXCEPT !.spec = s, !.generation = @ + 1, !.due = TRUE]
    BY <1>1 DEF UserEdits
  <2>3. cr' = [spec |-> s, generation |-> cr.generation + 1, status |-> cr.status, due |-> TRUE]
    BY <2>2
  <2>4. cr.generation + 1 \in Nat /\ cr.status \in Statuses
    BY CrFields
  <2>5. /\ cr' \in [spec : Specs, generation : Nat, status : Statuses, due : BOOLEAN]
        /\ cr'.status = cr.status /\ cr'.generation >= cr.generation
    BY <2>3, <2>4
  <2>6. UNCHANGED <<environment, jobs, configMaps, th, past>>
    BY <1>1 DEF UserEdits
  <2>7. bucket' >= bucket
    BY <2>6 DEF environment
  <2>8. TypeOK'
    BY <2>1, <2>5, <2>6 DEF environment, TypeOK
  <2> QED BY <2>5, <2>6, <2>7, <2>8
<1>2. CASE ProfileChanges
  <2>1. budget' \in [Acts -> Nat]
    BY <1>2, SpendType DEF ProfileChanges, Acts
  <2> QED BY <1>2, <2>1 DEF ProfileChanges, TypeOK
<1>3. CASE ProjectChanges
  <2>1. budget' \in [Acts -> Nat]
    BY <1>3, SpendType DEF ProjectChanges, Acts
  <2> QED BY <1>3, <2>1 DEF ProjectChanges, TypeOK
<1>4. CASE SecretsChange
  <2>1. budget' \in [Acts -> Nat]
    BY <1>4, SpendType DEF SecretsChange, Acts
  <2>2. secrets' \in BOOLEAN
    BY <1>4 DEF SecretsChange
  <2> QED BY <1>4, <2>1, <2>2 DEF SecretsChange, TypeOK
<1>5. CASE NextInterval
  <2>1. budget' \in [Acts -> Nat]
    BY <1>5, SpendType DEF NextInterval, Acts
  <2>2. bucket' \in Nat
    BY <1>5 DEF NextInterval
  <2> QED BY <1>5, <2>1, <2>2 DEF NextInterval, TypeOK
<1> QED BY <1>1, <1>2, <1>3, <1>4, <1>5

\* What a Job may become.
Follows(job, j) ==
  /\ job.name = j.name
  /\ job.result \in {j.result, None, j.name.input}
  /\ Finished(j) => Finished(job)
  /\ j.state = "succeeded" => job.state = "succeeded"

JobsStep(j) == JobProgress(j) \/ PodFails(j) \/ JobFails(j) \/ PodsRemoved(j)

LEMMA JobsStepSets ==
  ASSUME TypeOK, NEW j \in jobs, JobsStep(j)
  PROVE  \E job \in JobRecord :
           SetJob(j, job) /\ Follows(job, j) /\ budget' \in [Acts -> Nat]
<1> USE TypeSplit
<1>0. j \in JobRecord /\ j.name.input \in Inputs
  <2>1. j \in JobRecord
    OBVIOUS
  <2>2. j.name \in Names
    BY <2>1 DEF JobRecord
  <2> QED BY <2>1, <2>2, NameNotNone
<1>1. CASE CreatePod(j)
  <2> DEFINE job == [j EXCEPT !.state = "pending"]
  <2>1. job \in JobRecord /\ Follows(job, j)
    BY <1>0, <1>1 DEF CreatePod, JobRecord, Follows, Finished
  <2> QED BY <1>1, <2>1 DEF CreatePod
<1>2. CASE StartPod(j)
  <2> DEFINE job == [j EXCEPT !.state = "running"]
  <2>1. job \in JobRecord /\ Follows(job, j)
    BY <1>0, <1>2 DEF StartPod, JobRecord, Follows, Finished
  <2> QED BY <1>2, <2>1 DEF StartPod
<1>3. CASE JobSucceeds(j)
  <2> DEFINE job == [j EXCEPT !.state = "succeeded", !.result = j.name.input]
  <2>1. job \in JobRecord /\ Follows(job, j)
    BY <1>0, <1>3 DEF JobSucceeds, JobRecord, Follows, Finished
  <2> QED BY <1>3, <2>1 DEF JobSucceeds
<1>4. CASE DeadlineExceeded(j)
  <2> DEFINE job == [j EXCEPT !.state = "failed", !.failed = TRUE]
  <2>1. job \in JobRecord /\ Follows(job, j)
    BY <1>0, <1>4 DEF DeadlineExceeded, JobRecord, Follows, Finished
  <2> QED BY <1>4, <2>1 DEF DeadlineExceeded
<1>5. CASE PodFails(j)
  <2> DEFINE job == [j EXCEPT !.state = "backoff", !.failed = TRUE]
  <2>1. job \in JobRecord /\ Follows(job, j)
    BY <1>0, <1>5 DEF PodFails, JobRecord, Follows, Finished
  <2>2. budget' \in [Acts -> Nat]
    BY <1>5, SpendType DEF PodFails, Acts
  <2> QED BY <1>5, <2>1, <2>2 DEF PodFails
<1>6. CASE JobFails(j)
  <2> DEFINE job == [j EXCEPT !.state = "failed", !.failed = TRUE]
  <2>1. job \in JobRecord /\ Follows(job, j)
    BY <1>0, <1>6 DEF JobFails, JobRecord, Follows, Finished
  <2>2. budget' \in [Acts -> Nat]
    BY <1>6, SpendType DEF JobFails, Acts
  <2> QED BY <1>6, <2>1, <2>2 DEF JobFails
<1>7. CASE PodsRemoved(j)
  <2> DEFINE job == [j EXCEPT !.result = None]
  <2>1. job \in JobRecord /\ Follows(job, j)
    BY <1>0, <1>7 DEF PodsRemoved, JobRecord, Follows, Finished
  <2>2. budget' \in [Acts -> Nat]
    BY <1>7, SpendType DEF PodsRemoved, Acts
  <2> QED BY <1>7, <2>1, <2>2 DEF PodsRemoved
<1> QED BY <1>1, <1>2, <1>3, <1>4, <1>5, <1>6, <1>7 DEF JobsStep, JobProgress

\* A Job that has finished stays so, and what has succeeded stays so.
LEMMA JobsStepNext ==
  ASSUME TypeOK, NEW j \in jobs, JobsStep(j)
  PROVE  /\ TypeOK' /\ UNCHANGED <<cr, configMaps, th, past>>
         /\ \A job \in jobs' : \E k \in jobs : Follows(job, k)
         /\ Unfinished(jobs') \subseteq Unfinished(jobs)
         /\ \A n : SucceededIn(jobs, n) => SucceededIn(jobs', n)
<1> USE TypeSplit
<1>1. PICK job \in JobRecord :
        SetJob(j, job) /\ Follows(job, j) /\ budget' \in [Acts -> Nat]
  BY JobsStepSets
<1>2. jobs' = (jobs \ {j}) \cup {job} /\ UNCHANGED <<cr, environment, configMaps, th, past>>
  BY <1>1 DEF SetJob
<1>3. \A k \in jobs' : \E i \in jobs : Follows(k, i)
  <2>1. \A k \in jobs : Follows(k, k)
    BY DEF Follows
  <2> QED BY <1>1, <1>2, <2>1
<1>4. TypeOK'
  <2>1. jobs' \subseteq JobRecord
    BY <1>2
  <2>2. \A i, k \in jobs' : i.name = k.name => i = k
    BY <1>1, <1>2 DEF Follows
  <2> QED BY <1>1, <1>2, <2>1, <2>2 DEF environment, TypeOK
<1>5. Unfinished(jobs') \subseteq Unfinished(jobs)
  BY <1>1, <1>2 DEF Unfinished, Follows
<1>6. ASSUME NEW n, SucceededIn(jobs, n)
      PROVE  SucceededIn(jobs', n)
  BY <1>1, <1>2, <1>6 DEF SucceededIn, Follows
<1> QED BY <1>2, <1>3, <1>4, <1>5, <1>6

LEMMA StartRecord ==
  ASSUME NEW s, NEW g, NEW status, NEW x,
         x = [Idle EXCEPT !.pc = "check", !.spec = s, !.generation = g, !.status = status]
  PROVE  x = [pc |-> "check", spec |-> s, generation |-> g, status |-> status,
              input |-> None, name |-> None, found |-> {}, patch |-> NoStatus]
BY DEF Idle

\* A thread is started with the spec and the status there are.
LEMMA BeginNext ==
  ASSUME TypeOK, NEW t \in Threads, Begin(t)
  PROVE  /\ TypeOK' /\ UNCHANGED <<cr, jobs, configMaps>> /\ th[t].pc = "idle"
         /\ "overlap" \in past' \/ (past' = past /\ \A u \in Threads : th[u].pc = "idle")
         /\ past \subseteq past'
         /\ \E r \in ThreadRecord :
              Step(t, r) /\ r.pc = "check" /\ r.spec \in Specs
                         /\ r.status = cr.status /\ r.generation = cr.generation
<1> USE TypeSplit
<1> DEFINE r == [Idle EXCEPT !.pc = "check", !.spec = cr.spec,
                             !.generation = cr.generation, !.status = cr.status]
<1>1. r = [pc |-> "check", spec |-> cr.spec, generation |-> cr.generation, status |-> cr.status,
           input |-> None, name |-> None, found |-> {}, patch |-> NoStatus]
  BY StartRecord, CrFields
<1>2. NoStatus \in Statuses
  BY NoStatusType
<1>3. r \in ThreadRecord
  BY <1>1, <1>2, CrFields DEF ThreadRecord
<1>4. r.pc = "check" /\ r.spec \in Specs /\ r.status = cr.status /\ r.generation = cr.generation
  BY <1>1, CrFields
<1>5. Step(t, r)
  BY DEF Begin
<1> HIDE DEF r
<1>6. th' \in [Threads -> ThreadRecord]
  BY <1>3, <1>5, StepFacts
<1>7. budget' \in [Acts -> Nat]
  <2>1. "overlaps" \in Acts
    BY DEF Acts
  <2> QED BY <2>1, SpendType DEF Begin
<1>8. past' \subseteq {"overlap", "crash"} /\ past \subseteq past'
  BY DEF Begin
<1>9. "overlap" \in past' \/ (past' = past /\ \A u \in Threads : th[u].pc = "idle")
  BY DEF Begin
<1>10. UNCHANGED <<cr, environment, jobs, configMaps>> /\ th[t].pc = "idle"
  BY DEF Begin
<1>11. TypeOK'
  BY <1>6, <1>7, <1>8, <1>10 DEF environment, TypeOK
<1> QED BY <1>3, <1>4, <1>5, <1>8, <1>9, <1>10, <1>11

\* A step of a thread's own record.
LEMMA MoveType ==
  ASSUME TypeOK, NEW t \in Threads, NEW r \in ThreadRecord, Step(t, r),
         UNCHANGED <<budget, cr, environment, jobs, configMaps, past>>
  PROVE  TypeOK'
<1>1. th' \in [Threads -> ThreadRecord]
  BY StepFacts, TypeSplit
<1> QED BY <1>1, TypeSplit DEF environment, TypeOK

\* A thread whose input is not the recorded one, or not to be provisioned now, patches.
LEMMA CheckNext ==
  ASSUME TInv, NEW t \in Threads, Check(t)
  PROVE  /\ TypeOK' /\ UNCHANGED <<cr, jobs, configMaps, past>> /\ th[t].pc = "check"
         /\ \E r \in ThreadRecord :
              /\ Step(t, r)
              /\ \/ /\ r.pc = "patch" /\ ~Ready(r.patch)
                    /\ r.patch.hash \in {None, th[t].status.hash}
                 \/ /\ r.pc = "list" /\ r.input \in Inputs
                    /\ r.status = th[t].status /\ r.generation = th[t].generation
                    /\ r.status.hash \in {None, r.input}
<1> USE TypeSplit
<1> DEFINE s == th[t].spec
           input == ProvisioningInput(s, profile, project)
           went == [th[t] EXCEPT !.pc = "list", !.spec = None, !.input = input]
           drift == Patch(t, "Failed", th[t].status.job, th[t].status.hash, th[t].status.commit)
           Good(r) == \/ /\ r.pc = "patch" /\ ~Ready(r.patch)
                         /\ r.patch.hash \in {None, th[t].status.hash}
                      \/ /\ r.pc = "list" /\ r.input \in Inputs
                         /\ r.status = th[t].status /\ r.generation = th[t].generation
                         /\ r.status.hash \in {None, r.input}
<1>0. TypeOK /\ th[t].pc = "check" /\ th[t] \in ThreadRecord
  BY DEF TInv, Check
<1>1. s \in Specs
  BY <1>0 DEF TInv, InputInv, ThreadOK
<1>2. input \in Inputs
  BY <1>0, <1>1, InputInputs
<1>3. {"Failed", "Suspended", "PendingProject"} \subseteq Phases
  BY DEF Phases
<1>4. \A phase \in {"Failed", "Suspended", "PendingProject"} :
        PatchPhase(t, phase) \in ThreadRecord /\ Good(PatchPhase(t, phase))
  BY <1>0, <1>3, PatchPhaseType DEF Ready
<1>5. th[t].status \in Statuses
  BY <1>0 DEF ThreadRecord
<1>6. drift \in ThreadRecord /\ Good(drift)
  <2> DEFINE job == th[t].status.job
             hash == th[t].status.hash
             commit == th[t].status.commit
  <2>1. /\ job \in Names \cup {None} /\ hash \in Inputs \cup {None}
        /\ commit \in Inputs \cup {None}
    BY <1>5 DEF Statuses
  <2>2. /\ drift \in ThreadRecord /\ drift.pc = "patch" /\ drift.patch.phase = "Failed"
        /\ drift.patch.hash = hash
    <3>1. "Failed" \in Phases
      BY DEF Phases
    <3>2. drift = Patch(t, "Failed", job, hash, commit)
      OBVIOUS
    <3> HIDE DEF job, hash, commit, drift
    <3> QED BY <1>0, <2>1, <3>1, <3>2, PatchType
  <2> QED BY <2>2 DEF Ready
<1>7. ASSUME ~Drifted(t, input)
      PROVE  went \in ThreadRecord /\ Good(went)
  <2>1. went \in ThreadRecord
    BY <1>0, <1>2 DEF ThreadRecord
  <2>2. /\ went.pc = "list" /\ went.input = input
        /\ went.status = th[t].status /\ went.generation = th[t].generation
    BY <1>0 DEF ThreadRecord
  <2>3. th[t].status.hash \in {None, input}
    BY <1>7 DEF Drifted
  <2> QED BY <1>2, <2>1, <2>2, <2>3
<1>8. \E r \in ThreadRecord : Step(t, r) /\ Good(r)
  <2>1. Step(t,
           IF ~s.retain THEN Invalid(t)
           ELSE IF s.suspended THEN PatchPhase(t, "Suspended")
           ELSE IF ~project.ready THEN PatchPhase(t, "PendingProject")
           ELSE IF ~Accepted(s, profile, project) THEN Invalid(t)
           ELSE IF Drifted(t, input) THEN drift ELSE went)
    BY DEF Check
  <2> HIDE DEF s, input, went, drift, Good
  <2> QED BY <1>4, <1>6, <1>7, <2>1 DEF Invalid
<1>9. UNCHANGED <<budget, cr, environment, jobs, configMaps, past>>
  BY DEF Check
<1>10. TypeOK'
  BY <1>0, <1>8, <1>9, MoveType
<1> QED BY <1>0, <1>8, <1>9, <1>10

LEMMA ListNext ==
  ASSUME TInv, NEW t \in Threads, List(t)
  PROVE  /\ TypeOK' /\ UNCHANGED <<cr, jobs, configMaps, past>> /\ th[t].pc = "list"
         /\ \E r \in ThreadRecord :
              /\ Step(t, r) /\ r.pc = "clean" /\ r.found = jobs
              /\ r.status = th[t].status /\ r.generation = th[t].generation
              /\ r.input = th[t].input
              /\ r.name \in Names /\ r.name.input = r.input
              /\ r.name = job_name(th[t].input, th[t].generation, bucket)
<1> USE TypeSplit
<1> DEFINE name == job_name(th[t].input, th[t].generation, bucket)
           r == [th[t] EXCEPT !.pc = "clean", !.found = jobs, !.name = name]
<1>1. TypeOK /\ th[t].pc = "list" /\ th[t] \in ThreadRecord
  BY DEF TInv, List
<1>2. th[t].input \in Inputs
  BY <1>1 DEF TInv, InputInv, ThreadOK, Listing
<1>3. th[t].generation \in Nat
  BY <1>1 DEF ThreadRecord
<1>4. /\ name \in Names /\ name.input = th[t].input
      /\ name = job_name(th[t].input, th[t].generation, bucket)
  BY <1>1, <1>2, <1>3, NamesFields
<1>5. Step(t, r) /\ UNCHANGED <<budget, cr, environment, jobs, configMaps, past>>
  BY DEF List
<1> HIDE DEF name
<1>6. r \in ThreadRecord
  <2>1. jobs \in SUBSET JobRecord
    BY <1>1
  <2> QED BY <1>1, <1>4, <2>1 DEF ThreadRecord
<1>7. /\ r.pc = "clean" /\ r.found = jobs /\ r.name = name
      /\ r.status = th[t].status /\ r.generation = th[t].generation /\ r.input = th[t].input
  BY <1>1 DEF ThreadRecord
<1> HIDE DEF r
<1>8. TypeOK'
  BY <1>1, <1>5, <1>6, MoveType
<1> QED BY <1>1, <1>4, <1>5, <1>6, <1>7, <1>8

\* The history never removes what is current or unfinished.
LEMMA RetainedFacts ==
  ASSUME NEW t \in Threads
  PROVE  Mandatory(t) \subseteq Retained(t) /\ Unfinished(th[t].found) \subseteq Retained(t)
BY DEF Retained

LEMMA CleanJobsNext ==
  ASSUME TInv, NEW t \in Threads, CleanJobs(t)
  PROVE  /\ TypeOK' /\ UNCHANGED <<cr, configMaps, past>> /\ th[t].pc = "clean"
         /\ jobs' \subseteq jobs
         /\ \A j \in jobs : j.name \in Mandatory(t) \cup Unfinished(th[t].found) => j \in jobs'
         /\ \E r \in ThreadRecord :
              /\ Step(t, r) /\ r.pc = "maps" /\ r.found = th[t].found
              /\ r.status = th[t].status /\ r.generation = th[t].generation
              /\ r.input = th[t].input /\ r.name = th[t].name
<1> USE TypeSplit
<1> DEFINE r == [th[t] EXCEPT !.pc = "maps"]
<1>1. TypeOK /\ th[t].pc = "clean" /\ th[t] \in ThreadRecord
  BY DEF TInv, CleanJobs
<1>2. /\ r \in ThreadRecord /\ r.pc = "maps" /\ r.found = th[t].found
      /\ r.status = th[t].status /\ r.generation = th[t].generation
      /\ r.input = th[t].input /\ r.name = th[t].name
  BY <1>1 DEF ThreadRecord
<1>3. Step(t, r) /\ UNCHANGED <<budget, cr, environment, configMaps, past>>
  BY DEF CleanJobs
<1>4. jobs' = {j \in jobs : j.name \notin {k.name : k \in th[t].found} \ Retained(t)}
  BY DEF CleanJobs
<1>5. jobs' \subseteq jobs
  BY <1>4
<1>6. \A j \in jobs : j.name \in Mandatory(t) \cup Unfinished(th[t].found) => j \in jobs'
  BY <1>4, RetainedFacts
<1> HIDE DEF r
<1>7. th' \in [Threads -> ThreadRecord]
  BY <1>1, <1>2, <1>3, StepFacts
<1>8. TypeOK'
  BY <1>1, <1>3, <1>5, <1>7 DEF environment, TypeOK
<1> QED BY <1>1, <1>2, <1>3, <1>5, <1>6, <1>8

LEMMA CleanMapsNext ==
  ASSUME TInv, NEW t \in Threads, CleanMaps(t)
  PROVE  /\ TypeOK' /\ UNCHANGED <<cr, jobs, past>> /\ th[t].pc = "maps"
         /\ configMaps' \subseteq configMaps
         /\ \A n \in configMaps : n \in Unfinished(th[t].found) => n \in configMaps'
         /\ \E r \in ThreadRecord :
              /\ Step(t, r) /\ r.pc = "decide" /\ r.found \subseteq th[t].found
              /\ r.status = th[t].status /\ r.generation = th[t].generation
              /\ r.input = th[t].input /\ r.name = th[t].name
<1> USE TypeSplit
<1> DEFINE found == {j \in th[t].found : j.name \in Retained(t)}
           r == [th[t] EXCEPT !.pc = "decide", !.found = found]
<1>1. TypeOK /\ th[t].pc = "maps" /\ th[t] \in ThreadRecord
  BY DEF TInv, CleanMaps
<1>2. found \subseteq th[t].found
  OBVIOUS
<1>3. Step(t, r) /\ UNCHANGED <<budget, cr, environment, jobs, past>>
  BY DEF CleanMaps
<1>4. configMaps' = configMaps \cap Retained(t)
  BY DEF CleanMaps
<1> HIDE DEF found
<1>5. /\ r \in ThreadRecord /\ r.pc = "decide" /\ r.found \subseteq th[t].found
      /\ r.status = th[t].status /\ r.generation = th[t].generation
      /\ r.input = th[t].input /\ r.name = th[t].name
  <2>1. found \in SUBSET JobRecord
    BY <1>1, <1>2 DEF ThreadRecord
  <2> QED BY <1>1, <1>2, <2>1 DEF ThreadRecord
<1>6. \A n \in configMaps : n \in Unfinished(th[t].found) => n \in configMaps'
  BY <1>4, RetainedFacts
<1> HIDE DEF r
<1>7. th' \in [Threads -> ThreadRecord]
  BY <1>1, <1>3, <1>5, StepFacts
<1>8. TypeOK'
  BY <1>1, <1>3, <1>4, <1>7 DEF environment, TypeOK
<1> QED BY <1>1, <1>3, <1>4, <1>5, <1>6, <1>8

LEMMA ResultOfFacts ==
  ASSUME TInv, NEW n \in Names
  PROVE  ResultOf(n) \in {None, n.input}
<1>1. CASE Named(jobs, n)
  <2>1. JobOf(jobs, n) \in jobs /\ JobOf(jobs, n).name = n
    BY <1>1 DEF Named, JobOf
  <2>2. JobOf(jobs, n).result \in {None, n.input}
    BY <2>1 DEF TInv, InputInv
  <2> QED BY <1>1, <2>2 DEF ResultOf
<1>2. CASE ~Named(jobs, n)
  BY <1>2 DEF ResultOf
<1> QED BY <1>1, <1>2

\* A patch that says provisioning names a Job and the thread's input.
LEMMA ProvisioningFacts ==
  ASSUME TypeOK, NEW t \in Threads, NEW n \in Names, th[t].input \in Inputs
  PROVE  LET r == Provisioning(t, n)
         IN  r \in ThreadRecord /\ r.pc = "patch" /\ ~Ready(r.patch)
             /\ r.patch.hash = th[t].input
<1> DEFINE input == th[t].input
<1>1. "ProvisioningInfrastructure" \in Phases
  BY DEF Phases
<1>2. Provisioning(t, n) = Patch(t, "ProvisioningInfrastructure", n, input, None)
  BY DEF Provisioning
<1> HIDE DEF input
<1>3. input \in Inputs
  BY DEF input
<1>4. /\ Provisioning(t, n) \in ThreadRecord /\ Provisioning(t, n).pc = "patch"
      /\ Provisioning(t, n).patch.phase = "ProvisioningInfrastructure"
      /\ Provisioning(t, n).patch.hash = input
  BY <1>1, <1>2, <1>3, PatchType
<1> QED BY <1>4 DEF Ready, input

\* What a thread reports of the Job it wants: ready only with the result of a
\* Job that it found succeeded.
Reported(t, j, r) ==
  /\ r.pc = "patch" /\ r.patch.hash \in {None, th[t].input}
  /\ Ready(r.patch) =>
       /\ j.state = "succeeded" /\ r.patch.job = j.name
       /\ r.patch.hash = th[t].input /\ r.patch.commit = ResultOf(j.name)
       /\ ResultOf(j.name) # None

LEMMA ReportFacts ==
  ASSUME TInv, NEW t \in Threads, NEW j, j.name \in Names, th[t].input \in Inputs
  PROVE  Report(t, j) \in ThreadRecord /\ Reported(t, j, Report(t, j))
<1> DEFINE input == th[t].input
           name == j.name
           result == ResultOf(name)
           ready == Patch(t, "VirtualMachinesReady", name, input, result)
           failed == Patch(t, "Failed", name, input, None)
<1>0. TypeOK /\ "VirtualMachinesReady" \in Phases /\ "Failed" \in Phases
  BY DEF TInv, Phases
<1>1. name \in Names /\ input \in Inputs /\ result \in Inputs \cup {None}
  BY ResultOfFacts, NameNotNone
<1>2. Report(t, j) \in {Invalid(t), ready, failed, Provisioning(t, name)}
      /\ (Report(t, j) = ready => (result # None /\ j.state = "succeeded")
                                  \/ Report(t, j) \in {Invalid(t), failed, Provisioning(t, name)})
  BY DEF Report
<1>3. Invalid(t) \in ThreadRecord /\ Reported(t, j, Invalid(t))
  <2>1. /\ Invalid(t) \in ThreadRecord /\ Invalid(t).pc = "patch"
        /\ Invalid(t).patch.phase = "Failed" /\ Invalid(t).patch.hash = None
    BY <1>0, PatchPhaseType DEF Invalid
  <2> QED BY <2>1 DEF Reported, Ready
<1>4. Provisioning(t, name) \in ThreadRecord /\ Reported(t, j, Provisioning(t, name))
  <2>1. /\ Provisioning(t, name) \in ThreadRecord /\ Provisioning(t, name).pc = "patch"
        /\ ~Ready(Provisioning(t, name).patch) /\ Provisioning(t, name).patch.hash = th[t].input
    BY <1>0, <1>1, ProvisioningFacts
  <2> QED BY <2>1 DEF Reported
<1>5. failed \in ThreadRecord /\ Reported(t, j, failed)
  <2> HIDE DEF input, name
  <2>1. /\ failed \in ThreadRecord /\ failed.pc = "patch"
        /\ failed.patch.phase = "Failed" /\ failed.patch.hash = input
    BY <1>0, <1>1, PatchType
  <2> HIDE DEF failed
  <2> QED BY <2>1 DEF Reported, Ready, input
<1>6. ASSUME result # None, j.state = "succeeded"
      PROVE  ready \in ThreadRecord /\ Reported(t, j, ready)
  <2> HIDE DEF input, name, result
  <2>1. /\ ready \in ThreadRecord /\ ready.pc = "patch"
        /\ ready.patch.phase = "VirtualMachinesReady" /\ ready.patch.hash = input
        /\ ready.patch.job = name /\ ready.patch.commit = result
    BY <1>0, <1>1, PatchType
  <2> HIDE DEF ready
  <2> QED BY <1>6, <2>1 DEF Reported, Ready, input, name, result
<1> HIDE DEF ready, failed, result, name, input
<1> QED BY <1>2, <1>3, <1>4, <1>5, <1>6

\* It reports only what it found, and what was found of the Job of its own name.
LEMMA DecideNext ==
  ASSUME TInv, NEW t \in Threads, Decide(t)
  PROVE  /\ TypeOK' /\ UNCHANGED <<cr, jobs, configMaps, past>> /\ th[t].pc = "decide"
         /\ \E r \in ThreadRecord :
              /\ Step(t, r)
              /\ \/ /\ r.pc = "patch" /\ r.patch.hash \in {None, th[t].input}
                    /\ OfOneInput(r.patch)
                    /\ Ready(r.patch) =>
                         /\ r.patch.job = th[t].name
                         /\ \E j \in th[t].found : j.name = th[t].name /\ j.state = "succeeded"
                 \/ /\ r.pc = "prerequisites"
                    /\ r.status = th[t].status /\ r.generation = th[t].generation
                    /\ r.input = th[t].input /\ r.name = th[t].name
<1> USE TypeSplit
<1> DEFINE found == th[t].found
           name == th[t].name
           active == {j \in found : Active(j)}
           other == {j \in active : j.name # name}
           k == CHOOSE j \in other : TRUE
           went == [th[t] EXCEPT !.pc = "prerequisites", !.found = {}]
           Good(r) == \/ /\ r.pc = "patch" /\ r.patch.hash \in {None, th[t].input}
                         /\ OfOneInput(r.patch)
                         /\ Ready(r.patch) =>
                              /\ r.patch.job = name
                              /\ \E j \in found : j.name = name /\ j.state = "succeeded"
                      \/ /\ r.pc = "prerequisites"
                         /\ r.status = th[t].status /\ r.generation = th[t].generation
                         /\ r.input = th[t].input /\ r.name = name
<1>0. TypeOK /\ th[t].pc = "decide" /\ th[t] \in ThreadRecord
  BY DEF TInv, Decide
<1>1. th[t].input \in Inputs /\ name \in Names /\ name.input = th[t].input
  BY <1>0 DEF TInv, InputInv, ThreadOK, Listing
<1>2. found \subseteq JobRecord
  BY <1>0 DEF ThreadRecord
<1>3. Invalid(t) \in ThreadRecord /\ Good(Invalid(t))
  <2>1. "Failed" \in Phases
    BY DEF Phases
  <2>2. /\ Invalid(t) \in ThreadRecord /\ Invalid(t).pc = "patch"
        /\ Invalid(t).patch.phase = "Failed" /\ Invalid(t).patch.hash = None
    BY <1>0, <2>1, PatchPhaseType DEF Invalid
  <2> QED BY <2>2 DEF OfOneInput, Ready
<1>4. ASSUME other # {}
      PROVE  Provisioning(t, k.name) \in ThreadRecord /\ Good(Provisioning(t, k.name))
  <2>1. k \in found
    BY <1>4
  <2>2. k.name \in Names
    BY <1>2, <2>1 DEF JobRecord
  <2> HIDE DEF k
  <2>3. /\ Provisioning(t, k.name) \in ThreadRecord /\ Provisioning(t, k.name).pc = "patch"
        /\ ~Ready(Provisioning(t, k.name).patch)
        /\ Provisioning(t, k.name).patch.hash = th[t].input
    BY <1>0, <1>1, <2>2, ProvisioningFacts
  <2> QED BY <2>3 DEF OfOneInput
<1>5. ASSUME Named(found, name)
      PROVE  Report(t, JobOf(found, name)) \in ThreadRecord /\ Good(Report(t, JobOf(found, name)))
  <2> DEFINE j == JobOf(found, name)
             r == Report(t, j)
  <2>1. j \in found /\ j.name = name
    BY <1>5 DEF Named, JobOf
  <2> HIDE DEF j
  <2>2. r \in ThreadRecord /\ Reported(t, j, r)
    BY <1>1, <2>1, ReportFacts
  <2>3. ResultOf(j.name) \in {None, th[t].input}
    BY <1>1, <2>1, ResultOfFacts
  <2> HIDE DEF r
  <2>4. OfOneInput(r.patch)
    BY <1>1, <2>1, <2>2, <2>3 DEF Reported, OfOneInput
  <2>5. Good(r)
    BY <2>1, <2>2, <2>4 DEF Reported
  <2> QED BY <2>2, <2>5 DEF j, r
<1>6. went \in ThreadRecord /\ Good(went)
  <2>1. {} \in SUBSET JobRecord
    OBVIOUS
  <2>2. went \in ThreadRecord
    BY <1>0, <2>1 DEF ThreadRecord
  <2>3. /\ went.pc = "prerequisites"
        /\ went.status = th[t].status /\ went.generation = th[t].generation
        /\ went.input = th[t].input /\ went.name = name
    BY <1>0 DEF ThreadRecord
  <2> HIDE DEF went
  <2> QED BY <2>2, <2>3
<1>7. \E r \in ThreadRecord : Step(t, r) /\ Good(r)
  <2>1. Step(t,
           IF Cardinality(active) > 1 THEN Invalid(t)
           ELSE IF other # {}
           THEN IF k.name.input # th[t].input THEN Invalid(t) ELSE Provisioning(t, k.name)
           ELSE IF Named(found, name) THEN Report(t, JobOf(found, name))
           ELSE went)
    BY DEF Decide
  <2> HIDE DEF found, name, active, other, k, went, Good
  <2> QED BY <1>3, <1>4, <1>5, <1>6, <2>1
<1>8. UNCHANGED <<budget, cr, environment, jobs, configMaps, past>>
  BY DEF Decide
<1>9. TypeOK'
  BY <1>0, <1>7, <1>8, MoveType
<1> QED BY <1>0, <1>7, <1>8, <1>9

LEMMA PrerequisitesNext ==
  ASSUME TInv, NEW t \in Threads, Prerequisites(t)
  PROVE  /\ TypeOK' /\ UNCHANGED <<cr, jobs, configMaps, past>> /\ th[t].pc = "prerequisites"
         /\ \E r \in ThreadRecord :
              /\ Step(t, r)
              /\ \/ r.pc = "patch" /\ r.patch.hash = None /\ ~Ready(r.patch)
                 \/ /\ r.pc = "map"
                    /\ r.status = th[t].status /\ r.generation = th[t].generation
                    /\ r.input = th[t].input /\ r.name = th[t].name
<1> USE TypeSplit
<1> DEFINE went == [th[t] EXCEPT !.pc = "map"]
           stop == PatchPhase(t, "PendingPrerequisites")
<1>0. TypeOK /\ th[t].pc = "prerequisites" /\ th[t] \in ThreadRecord
  BY DEF TInv, Prerequisites
<1>1. /\ went \in ThreadRecord /\ went.pc = "map"
      /\ went.status = th[t].status /\ went.generation = th[t].generation
      /\ went.input = th[t].input /\ went.name = th[t].name
  BY <1>0 DEF ThreadRecord
<1>2. stop \in ThreadRecord /\ stop.pc = "patch" /\ stop.patch.hash = None /\ ~Ready(stop.patch)
  <2>1. "PendingPrerequisites" \in Phases
    BY DEF Phases
  <2> QED BY <1>0, <2>1, PatchPhaseType DEF Ready
<1>3. Step(t, went) \/ Step(t, stop)
  BY DEF Prerequisites
<1>4. UNCHANGED <<budget, cr, environment, jobs, configMaps, past>>
  BY DEF Prerequisites
<1> HIDE DEF went, stop
<1>5. TypeOK'
  BY <1>0, <1>1, <1>2, <1>3, <1>4, MoveType
<1> QED BY <1>0, <1>1, <1>2, <1>3, <1>4, <1>5

LEMMA CreateConfigMapNext ==
  ASSUME TInv, NEW t \in Threads, CreateConfigMap(t)
  PROVE  /\ TypeOK' /\ UNCHANGED <<cr, jobs, past>> /\ th[t].pc = "map"
         /\ configMaps' = configMaps \cup {th[t].name}
         /\ \E r \in ThreadRecord :
              /\ Step(t, r) /\ r.pc = "job"
              /\ r.status = th[t].status /\ r.generation = th[t].generation
              /\ r.input = th[t].input /\ r.name = th[t].name
<1> USE TypeSplit
<1> DEFINE went == [th[t] EXCEPT !.pc = "job"]
<1>0. TypeOK /\ th[t].pc = "map" /\ th[t] \in ThreadRecord
  BY DEF TInv, CreateConfigMap
<1>1. /\ went \in ThreadRecord /\ went.pc = "job"
      /\ went.status = th[t].status /\ went.generation = th[t].generation
      /\ went.input = th[t].input /\ went.name = th[t].name
  BY <1>0 DEF ThreadRecord
<1>2. /\ Step(t, went) /\ configMaps' = configMaps \cup {th[t].name}
      /\ UNCHANGED <<budget, cr, environment, jobs, past>>
  BY DEF CreateConfigMap
<1>3. th[t].name \in Names
  BY <1>0 DEF TInv, InputInv, ThreadOK, Listing
<1> HIDE DEF went
<1>4. th' \in [Threads -> ThreadRecord]
  BY <1>0, <1>1, <1>2, StepFacts
<1>5. TypeOK'
  BY <1>0, <1>2, <1>3, <1>4 DEF environment, TypeOK
<1> QED BY <1>0, <1>1, <1>2, <1>5

LEMMA PlaceType ==
  ASSUME jobs \subseteq JobRecord
  PROVE  Place \in Nat
<1>1. CASE \E j \in jobs : Newest(j)
  <2>1. (CHOOSE j \in jobs : Newest(j)) \in JobRecord
    BY <1>1
  <2>2. (CHOOSE j \in jobs : Newest(j)).made \in Nat
    BY <2>1 DEF JobRecord
  <2> QED BY <1>1, <2>2 DEF Place
<1>2. CASE ~(\E j \in jobs : Newest(j))
  BY <1>2 DEF Place
<1> QED BY <1>1, <1>2

LEMMA CreateJobNext ==
  ASSUME TInv, NEW t \in Threads, CreateJob(t)
  PROVE  /\ TypeOK' /\ UNCHANGED <<cr, configMaps, past>> /\ th[t].pc = "job"
         /\ \/ jobs' = jobs
            \/ \E j \in JobRecord :
                 jobs' = jobs \cup {j} /\ j.name = th[t].name /\ j.result = None
         /\ \E r \in ThreadRecord :
              Step(t, r) /\ r.pc = "patch" /\ ~Ready(r.patch) /\ r.patch.hash = th[t].input
<1> USE TypeSplit
<1> DEFINE r == Provisioning(t, th[t].name)
           j == [name |-> th[t].name, made |-> Place, state |-> "new",
                 failed |-> FALSE, result |-> None]
<1>0. TypeOK /\ th[t].pc = "job" /\ th[t] \in ThreadRecord
  BY DEF TInv, CreateJob
<1>1. th[t].name \in Names /\ th[t].input \in Inputs
  BY <1>0 DEF TInv, InputInv, ThreadOK, Listing
<1>2. r \in ThreadRecord /\ r.pc = "patch" /\ ~Ready(r.patch) /\ r.patch.hash = th[t].input
  BY <1>0, <1>1, ProvisioningFacts
<1>3. /\ Step(t, r) /\ UNCHANGED <<budget, cr, environment, configMaps, past>>
      /\ jobs' = IF Named(jobs, th[t].name) THEN jobs ELSE jobs \cup {j}
  BY DEF CreateJob
<1>4. j \in JobRecord /\ j.name = th[t].name /\ j.result = None
  BY <1>0, <1>1, PlaceType DEF JobRecord
<1> HIDE DEF r, j
<1>5. th' \in [Threads -> ThreadRecord]
  BY <1>0, <1>2, <1>3, StepFacts
<1>6. jobs' \subseteq JobRecord
  BY <1>0, <1>3, <1>4
<1>7. \A i, k \in jobs' : i.name = k.name => i = k
  BY <1>0, <1>3, <1>4 DEF Named
<1>8. TypeOK'
  BY <1>0, <1>3, <1>5, <1>6, <1>7 DEF environment, TypeOK
<1> QED BY <1>0, <1>2, <1>3, <1>4, <1>8

LEMMA MergedFacts ==
  ASSUME TypeOK, NEW p \in Statuses
  PROVE  /\ Merged(p) \in Statuses /\ Merged(p).phase = p.phase
         /\ Merged(p).job = IF p.job # None THEN p.job ELSE cr.status.job
         /\ Merged(p).hash = IF p.hash # None THEN p.hash ELSE cr.status.hash
         /\ Merged(p).commit = IF p.commit # None THEN p.commit ELSE cr.status.commit
<1> DEFINE job == IF p.job # None THEN p.job ELSE cr.status.job
           hash == IF p.hash # None THEN p.hash ELSE cr.status.hash
           commit == IF p.commit # None THEN p.commit ELSE cr.status.commit
<1>1. cr.status \in Statuses
  BY CrFields
<1>2. /\ job \in Names \cup {None} /\ hash \in Inputs \cup {None}
      /\ commit \in Inputs \cup {None} /\ p.phase \in Phases /\ p.generation \in Nat
  BY <1>1 DEF Statuses
<1>3. Merged(p) = [p EXCEPT !.job = job, !.hash = hash, !.commit = commit]
  BY DEF Merged, Statuses
<1> HIDE DEF job, hash, commit
<1>4. Merged(p) = [phase |-> p.phase, generation |-> p.generation, job |-> job,
                   hash |-> hash, commit |-> commit]
  BY <1>3 DEF Statuses
<1>5. /\ Merged(p).phase = p.phase /\ Merged(p).job = job
      /\ Merged(p).hash = hash /\ Merged(p).commit = commit
  BY <1>4
<1>6. Merged(p) \in Statuses
  BY <1>2, <1>4 DEF Statuses
<1> QED BY <1>5, <1>6 DEF job, hash, commit

LEMMA ApplyPatchNext ==
  ASSUME TInv, NEW t \in Threads, ApplyPatch(t)
  PROVE  /\ TypeOK' /\ UNCHANGED <<jobs, configMaps, past>> /\ th[t].pc = "patch"
         /\ Step(t, Idle) /\ th[t].patch \in Statuses
         /\ cr'.status = Merged(th[t].patch) /\ cr'.generation = cr.generation
<1> USE TypeSplit
<1> DEFINE due == cr.due /\ ~(t = "change" /\ th[t].generation = cr.generation)
           status == Merged(th[t].patch)
<1>0. TypeOK /\ th[t].pc = "patch" /\ th[t] \in ThreadRecord
  BY DEF TInv, ApplyPatch
<1>1. th[t].patch \in Statuses
  BY <1>0 DEF ThreadRecord
<1>2. status \in Statuses
  BY <1>0, <1>1, MergedFacts
<1>3. cr' = [cr EXCEPT !.status = status, !.due = due]
  BY DEF ApplyPatch
<1>4. due \in BOOLEAN
  BY <1>0, CrFields
<1>5. Step(t, Idle) /\ UNCHANGED <<budget, environment, jobs, configMaps, past>>
  BY DEF ApplyPatch
<1> HIDE DEF due, status
<1>6. cr' = [spec |-> cr.spec, generation |-> cr.generation, status |-> status, due |-> due]
  BY <1>0, <1>3
<1>7. cr' \in [spec : Specs, generation : Nat, status : Statuses, due : BOOLEAN]
  BY <1>0, <1>2, <1>4, <1>6, CrFields
<1>8. cr'.status = status /\ cr'.generation = cr.generation
  BY <1>6
<1>9. th' \in [Threads -> ThreadRecord]
  BY <1>0, <1>5, IdleType, StepFacts
<1>10. TypeOK'
  BY <1>0, <1>5, <1>7, <1>9 DEF environment, TypeOK
<1> QED BY <1>0, <1>1, <1>5, <1>8, <1>10 DEF status

LEMMA ApiFailsNext ==
  ASSUME TInv, NEW t \in Threads, ApiFails(t)
  PROVE  /\ TypeOK' /\ UNCHANGED <<cr, jobs, configMaps, past>> /\ th[t].pc # "patch"
         /\ Step(t, Idle)
<1> USE TypeSplit
<1>0. TypeOK /\ th[t].pc # "patch"
  BY DEF TInv, ApiFails
<1>1. budget' \in [Acts -> Nat]
  <2>1. "failures" \in Acts
    BY DEF Acts
  <2> QED BY <1>0, <2>1, SpendType DEF ApiFails
<1>2. Step(t, Idle) /\ UNCHANGED <<cr, environment, jobs, configMaps, past>>
  BY DEF ApiFails
<1>3. th' \in [Threads -> ThreadRecord]
  BY <1>0, <1>2, IdleType, StepFacts
<1>4. TypeOK'
  BY <1>0, <1>1, <1>2, <1>3 DEF environment, TypeOK
<1> QED BY <1>0, <1>2, <1>4

LEMMA RestartNext ==
  ASSUME TypeOK, Restart
  PROVE  /\ TypeOK' /\ UNCHANGED <<jobs, configMaps, bucket>> /\ cr'.status = cr.status
         /\ cr'.generation = cr.generation
         /\ \A t \in Threads : th'[t] = Idle
         /\ past' = past \cup {"crash"}
<1> USE TypeSplit
<1>1. budget' \in [Acts -> Nat]
  <2>1. "crashes" \in Acts
    BY DEF Acts
  <2> QED BY <2>1, SpendType DEF Restart
<1>2. /\ UNCHANGED <<environment, jobs, configMaps>> /\ past' = past \cup {"crash"}
      /\ th' = [t \in Threads |-> Idle] /\ cr' = [cr EXCEPT !.due = TRUE]
  BY DEF Restart
<1>3. cr' = [spec |-> cr.spec, generation |-> cr.generation, status |-> cr.status, due |-> TRUE]
  BY <1>2
<1>4. /\ cr' \in [spec : Specs, generation : Nat, status : Statuses, due : BOOLEAN]
      /\ cr'.status = cr.status
  BY <1>3, CrFields
<1>5. th' \in [Threads -> ThreadRecord] /\ \A t \in Threads : th'[t] = Idle
  BY <1>2, IdleType
<1>6. past' \subseteq {"overlap", "crash"}
  BY <1>2
<1>7. TypeOK'
  BY <1>1, <1>2, <1>4, <1>5, <1>6 DEF environment, TypeOK
<1> QED BY <1>2, <1>4, <1>5, <1>7 DEF environment

ThreadStep(t) ==
  \/ Begin(t) \/ Check(t) \/ List(t) \/ CleanJobs(t) \/ CleanMaps(t) \/ Decide(t)
  \/ Prerequisites(t) \/ CreateConfigMap(t) \/ CreateJob(t) \/ ApplyPatch(t) \/ ApiFails(t)

\* Every step is one of these.
LEMMA StepCases ==
  ASSUME [Next]_vars
  PROVE  \/ UserEdits \/ ProfileChanges \/ ProjectChanges \/ SecretsChange \/ NextInterval
         \/ \E j \in jobs : JobsStep(j)
         \/ \E t \in Threads : ThreadStep(t)
         \/ Restart
         \/ UNCHANGED vars
BY DEF Next, Environment, Reconcile, JobsStep, ThreadStep

LEMMA TypeStep ==
  ASSUME TInv, [Next]_vars
  PROVE  TypeOK'
<1>1. TypeOK
  BY DEF TInv
<1>2. ASSUME UNCHANGED vars
      PROVE  TypeOK'
  BY <1>1, <1>2 DEF vars, environment, TypeOK
<1> QED BY <1>1, <1>2, StepCases, EnvironmentNext, JobsStepNext, BeginNext, CheckNext, ListNext,
           CleanJobsNext, CleanMapsNext, DecideNext, PrerequisitesNext, CreateConfigMapNext,
           CreateJobNext, ApplyPatchNext, ApiFailsNext, RestartNext DEF ThreadStep

-----------------------------------------------------------------------------
(* The initial states. *)

LEMMA DoneJobFacts ==
  ASSUME NEW start \in Starts, NEW i \in Nat
  PROVE  /\ DoneJob(start, i) \in JobRecord
         /\ DoneJob(start, i).state = "succeeded" /\ DoneJob(start, i).name.bucket = i
         /\ DoneJob(start, i).result = ProvisioningInput(start.spec, start.profile, start.project)
         /\ DoneJob(start, i).name.input = DoneJob(start, i).result
<1> DEFINE input == ProvisioningInput(start.spec, start.profile, start.project)
           name == job_name(input, 1, i)
<1>1. start.spec \in Specs /\ start.profile \in Profiles /\ start.project \in Projects
  BY StartAssumption
<1>2. input \in Inputs
  BY <1>1, InputInputs
<1>3. name \in Names /\ name.input = input /\ name.bucket = i
  BY <1>2 DEF Names, job_name
<1>4. DoneJob(start, i) = [name |-> name, made |-> i, state |-> "succeeded", failed |-> FALSE,
                           result |-> input]
  BY DEF DoneJob
<1> HIDE DEF input, name
<1>5. DoneJob(start, i) \in JobRecord
  BY <1>2, <1>3, <1>4 DEF JobRecord
<1> QED BY <1>3, <1>4, <1>5 DEF input

LEMMA InitType ==
  ASSUME Init
  PROVE  TInv /\ AloneInv /\ KeptInv /\ DoneInv /\ HashInv
<1> DEFINE input(start) == ProvisioningInput(start.spec, start.profile, start.project)
<1>1. PICK start \in Starts :
        /\ budget = start.budget
        /\ profile = start.profile /\ project = start.project /\ secrets = start.secrets
        /\ bucket = start.done
        /\ jobs = {DoneJob(start, i) : i \in 1 .. start.done}
        /\ configMaps = {j.name : j \in jobs}
        /\ cr = [spec |-> start.spec, generation |-> 1, due |-> start.done = 0,
                 status |-> IF start.done = 0 THEN NoStatus ELSE DoneStatus(start)]
  BY DEF Init
<1>2. /\ start.spec \in Specs /\ start.profile \in Profiles /\ start.project \in Projects
      /\ start.secrets \in BOOLEAN /\ start.done \in Nat /\ start.budget \in [Acts -> Nat]
  BY StartAssumption
<1> DEFINE last == DoneJob(start, start.done)
<1>3. th = [t \in Threads |-> Idle] /\ past = {}
  BY DEF Init
<1>4. th \in [Threads -> ThreadRecord] /\ \A t \in Threads : th[t].pc = "idle"
  BY <1>3, IdleType
<1>5. \A j \in jobs :
        /\ j \in JobRecord /\ j.state = "succeeded" /\ j.result = input(start)
        /\ j.name.input = input(start)
  BY <1>1, <1>2, DoneJobFacts
<1>6. \A j, k \in jobs : j.name = k.name => j = k
  BY <1>1, <1>2, DoneJobFacts
<1>7. /\ last \in JobRecord /\ last.state = "succeeded" /\ last.result = input(start)
      /\ last.name.input = last.result
  BY <1>2, DoneJobFacts
<1>8. /\ DoneStatus(start) \in Statuses /\ DoneStatus(start).phase = "VirtualMachinesReady"
      /\ DoneStatus(start).job = last.name /\ DoneStatus(start).hash = input(start)
      /\ DoneStatus(start).commit = input(start)
  <2>1. DoneStatus(start) = [phase |-> "VirtualMachinesReady", generation |-> 1,
                             job |-> last.name, hash |-> last.result, commit |-> last.result]
    BY DEF DoneStatus
  <2> HIDE DEF last
  <2>2. last.name \in Names /\ last.result \in Inputs \cup {None}
    BY <1>7 DEF JobRecord
  <2>3. "VirtualMachinesReady" \in Phases
    BY DEF Phases
  <2>4. DoneStatus(start) \in Statuses
    BY <2>1, <2>2, <2>3 DEF Statuses
  <2> QED BY <1>7, <2>1, <2>4
<1>9. input(start) \in Inputs /\ last.name \in Names
  BY <1>2, <1>7, InputInputs DEF JobRecord
<1>10. cr.status = IF start.done = 0 THEN NoStatus ELSE DoneStatus(start)
  BY <1>1
<1>11. cr.status \in Statuses
  BY <1>8, <1>10, NoStatusType
<1>12. TypeOK
  <2>1. cr \in [spec : Specs, generation : Nat, status : Statuses, due : BOOLEAN]
    BY <1>1, <1>2, <1>10, <1>11
  <2>2. jobs \subseteq JobRecord
    BY <1>5
  <2>3. configMaps \subseteq Names
    BY <1>1, <1>5 DEF JobRecord
  <2> QED BY <1>1, <1>2, <1>3, <1>4, <1>6, <2>1, <2>2, <2>3 DEF TypeOK
<1> HIDE DEF input, last
<1>13. OfOneInput(cr.status)
  BY <1>7, <1>8, <1>9, <1>10, NoStatusType DEF OfOneInput
<1>14. InputInv
  BY <1>4, <1>5, <1>13 DEF InputInv, ThreadOK, Listing
<1>15. AloneInv
  BY <1>4 DEF AloneInv
<1>16. KeptInv
  <2>1. Unfinished(jobs) \subseteq configMaps
    BY <1>5 DEF Unfinished, Finished
  <2> QED BY <1>4, <2>1 DEF KeptInv, InputKept
<1>17. DoneInv
  <2>1. ASSUME Ready(cr.status)
        PROVE  SucceededIn(jobs, cr.status.job)
    <3>1. start.done # 0 /\ cr.status.job = last.name
      BY <1>8, <1>10, <2>1, NoStatusType
    <3>2. last \in jobs
      BY <1>1, <1>2, <3>1 DEF last
    <3> QED BY <1>7, <3>1, <3>2 DEF SucceededIn
  <2> QED BY <1>4, <2>1 DEF DoneInv
<1>18. HashInv
  <2>1. ASSUME NEW j \in jobs
        PROVE  cr.status.hash = j.name.input
    <3>1. start.done # 0
      BY <1>1, <1>2, <2>1
    <3> QED BY <1>5, <1>8, <1>10, <2>1, <3>1
  <2> QED BY <1>4, <2>1 DEF HashInv
<1> QED BY <1>12, <1>14, <1>15, <1>16, <1>17, <1>18 DEF TInv

-----------------------------------------------------------------------------
(* One input. *)

\* A thread's own part of the invariant when its record is r.
ThreadOKWith(r) ==
  /\ r.pc = "check" => r.spec \in Specs
  /\ r.pc \in Listing => r.input \in Inputs /\ r.status.hash \in {None, r.input}
  /\ r.pc \in Listing \ {"list"} => r.name \in Names /\ r.name.input = r.input
  /\ r.pc = "patch" => OfOneInput(r.patch)

LEMMA ThreadOKStep ==
  ASSUME TInv, NEW t \in Threads, NEW r \in ThreadRecord, Step(t, r), ThreadOKWith(r)
  PROVE  \A u \in Threads : ThreadOK(u)'
<1>1. /\ th'[t] = r
      /\ \A u \in Threads : u # t => th'[u] = th[u]
  BY StepFacts, TypeSplit DEF TInv
<1>2. \A u \in Threads : ThreadOK(u)
  BY DEF TInv, InputInv
<1>3. ThreadOK(t)'
  BY <1>1 DEF ThreadOK, ThreadOKWith
<1>4. ASSUME NEW u \in Threads, u # t
      PROVE  ThreadOK(u)'
  <2>1. th'[u] = th[u] /\ ThreadOK(u)
    BY <1>1, <1>2, <1>4
  <2> QED BY <2>1 DEF ThreadOK
<1> QED BY <1>3, <1>4

LEMMA IdleOK == ThreadOKWith(Idle)
BY IdleType DEF ThreadOKWith, Listing

\* Every step of a thread leaves it a record that is right.
LEMMA ThreadsStep ==
  ASSUME TInv, NEW t \in Threads, ThreadStep(t)
  PROVE  \A u \in Threads : ThreadOK(u)'
<1> USE DEF Listing
<1>0. TypeOK /\ ThreadOK(t)
  BY DEF TInv, InputInv
<1> SUFFICES \E r \in ThreadRecord : Step(t, r) /\ ThreadOKWith(r)
  BY ThreadOKStep
<1>1. CASE Begin(t)
  <2>1. PICK r \in ThreadRecord : Step(t, r) /\ r.pc = "check" /\ r.spec \in Specs
    BY <1>0, <1>1, BeginNext
  <2> QED BY <2>1 DEF ThreadOKWith
<1>2. CASE Check(t)
  <2>1. PICK r \in ThreadRecord :
          /\ Step(t, r)
          /\ \/ r.pc = "patch" /\ ~Ready(r.patch)
             \/ r.pc = "list" /\ r.input \in Inputs /\ r.status.hash \in {None, r.input}
    BY <1>2, CheckNext
  <2> QED BY <2>1 DEF ThreadOKWith, OfOneInput
<1>3. CASE List(t)
  <2>1. PICK r \in ThreadRecord :
          /\ Step(t, r) /\ r.pc = "clean" /\ th[t].pc = "list"
          /\ r.status = th[t].status /\ r.input = th[t].input
          /\ r.name \in Names /\ r.name.input = r.input
    BY <1>3, ListNext
  <2> QED BY <1>0, <2>1 DEF ThreadOKWith, ThreadOK
<1>4. CASE CleanJobs(t)
  <2>1. PICK r \in ThreadRecord :
          /\ Step(t, r) /\ r.pc = "maps" /\ th[t].pc = "clean"
          /\ r.status = th[t].status /\ r.input = th[t].input /\ r.name = th[t].name
    BY <1>4, CleanJobsNext
  <2> QED BY <1>0, <2>1 DEF ThreadOKWith, ThreadOK
<1>5. CASE CleanMaps(t)
  <2>1. PICK r \in ThreadRecord :
          /\ Step(t, r) /\ r.pc = "decide" /\ th[t].pc = "maps"
          /\ r.status = th[t].status /\ r.input = th[t].input /\ r.name = th[t].name
    BY <1>5, CleanMapsNext
  <2> QED BY <1>0, <2>1 DEF ThreadOKWith, ThreadOK
<1>6. CASE Decide(t)
  <2>1. PICK r \in ThreadRecord :
          /\ Step(t, r) /\ th[t].pc = "decide"
          /\ \/ r.pc = "patch" /\ OfOneInput(r.patch)
             \/ /\ r.pc = "prerequisites"
                /\ r.status = th[t].status /\ r.input = th[t].input /\ r.name = th[t].name
    BY <1>6, DecideNext
  <2> QED BY <1>0, <2>1 DEF ThreadOKWith, ThreadOK
<1>7. CASE Prerequisites(t)
  <2>1. PICK r \in ThreadRecord :
          /\ Step(t, r) /\ th[t].pc = "prerequisites"
          /\ \/ r.pc = "patch" /\ ~Ready(r.patch)
             \/ /\ r.pc = "map"
                /\ r.status = th[t].status /\ r.input = th[t].input /\ r.name = th[t].name
    BY <1>7, PrerequisitesNext
  <2> QED BY <1>0, <2>1 DEF ThreadOKWith, ThreadOK, OfOneInput
<1>8. CASE CreateConfigMap(t)
  <2>1. PICK r \in ThreadRecord :
          /\ Step(t, r) /\ r.pc = "job" /\ th[t].pc = "map"
          /\ r.status = th[t].status /\ r.input = th[t].input /\ r.name = th[t].name
    BY <1>8, CreateConfigMapNext
  <2> QED BY <1>0, <2>1 DEF ThreadOKWith, ThreadOK
<1>9. CASE CreateJob(t)
  <2>1. PICK r \in ThreadRecord : Step(t, r) /\ r.pc = "patch" /\ ~Ready(r.patch)
    BY <1>9, CreateJobNext
  <2> QED BY <2>1 DEF ThreadOKWith, OfOneInput
<1>10. CASE ApplyPatch(t)
  BY <1>10, ApplyPatchNext, IdleType, IdleOK
<1>11. CASE ApiFails(t)
  BY <1>11, ApiFailsNext, IdleType, IdleOK
<1> QED BY <1>1, <1>2, <1>3, <1>4, <1>5, <1>6, <1>7, <1>8, <1>9, <1>10, <1>11 DEF ThreadStep

LEMMA StatusStep ==
  ASSUME TInv, NEW t \in Threads, ApplyPatch(t)
  PROVE  OfOneInput(cr.status)'
<1> DEFINE p == th[t].patch
<1>0. TypeOK
  BY DEF TInv
<1>1. th[t].pc = "patch" /\ p \in Statuses /\ cr'.status = Merged(p)
  BY ApplyPatchNext
<1>2. OfOneInput(p)
  BY <1>1 DEF TInv, InputInv, ThreadOK
<1> HIDE DEF p
<1>3. SUFFICES ASSUME Ready(cr'.status)
               PROVE  /\ cr'.status.job \in Names /\ cr'.status.hash \in Inputs
                      /\ cr'.status.commit = cr'.status.hash
                      /\ cr'.status.job.input = cr'.status.hash
  BY DEF OfOneInput
<1>4. Ready(p)
  BY <1>0, <1>1, <1>3, MergedFacts DEF Ready
<1>5. /\ p.job \in Names /\ p.hash \in Inputs /\ p.commit = p.hash
      /\ p.job.input = p.hash
  BY <1>2, <1>4 DEF OfOneInput
<1>6. cr'.status.job = p.job /\ cr'.status.hash = p.hash /\ cr'.status.commit = p.commit
  BY <1>0, <1>1, <1>5, MergedFacts, NoneAssumption
<1> QED BY <1>5, <1>6

LEMMA InputStep ==
  ASSUME TInv, [Next]_vars
  PROVE  InputInv'
<1>0. /\ TypeOK /\ \A t \in Threads : ThreadOK(t)
      /\ \A j \in jobs : j.result \in {None, j.name.input}
      /\ OfOneInput(cr.status)
  BY DEF TInv, InputInv
<1>1. ASSUME cr'.status = cr.status, UNCHANGED <<jobs, th>>
      PROVE  InputInv'
  BY <1>0, <1>1 DEF InputInv, ThreadOK
<1>2. ASSUME NEW j \in jobs, JobsStep(j)
      PROVE  InputInv'
  <2>1. /\ UNCHANGED <<cr, th>>
        /\ \A job \in jobs' : \E k \in jobs : Follows(job, k)
    BY <1>0, <1>2, JobsStepNext
  <2>2. \A job \in jobs' : job.result \in {None, job.name.input}
    BY <1>0, <2>1 DEF Follows
  <2> QED BY <1>0, <2>1, <2>2 DEF InputInv, ThreadOK
<1>3. ASSUME NEW t \in Threads, ThreadStep(t)
      PROVE  InputInv'
  <2>1. \A u \in Threads : ThreadOK(u)'
    BY <1>3, ThreadsStep
  <2>2. \/ jobs' \subseteq jobs
        \/ \E j \in JobRecord : jobs' = jobs \cup {j} /\ j.result = None
    <3>1. CASE CreateJob(t)
      BY <3>1, CreateJobNext
    <3>2. CASE CleanJobs(t)
      BY <3>2, CleanJobsNext
    <3>3. CASE ~CreateJob(t) /\ ~CleanJobs(t)
      BY <1>0, <1>3, <3>3, BeginNext, CheckNext, ListNext, CleanMapsNext, DecideNext,
         PrerequisitesNext, CreateConfigMapNext, ApplyPatchNext, ApiFailsNext DEF ThreadStep
    <3> QED BY <3>1, <3>2, <3>3
  <2>3. \A job \in jobs' : job.result \in {None, job.name.input}
    BY <1>0, <2>2
  <2>4. OfOneInput(cr.status)'
    <3>1. CASE ApplyPatch(t)
      BY <3>1, StatusStep
    <3>2. CASE ~ApplyPatch(t)
      <4>1. UNCHANGED cr
        BY <1>0, <1>3, <3>2, BeginNext, CheckNext, ListNext, CleanJobsNext, CleanMapsNext,
           DecideNext, PrerequisitesNext, CreateConfigMapNext, CreateJobNext, ApiFailsNext
           DEF ThreadStep
      <4> QED BY <1>0, <4>1
    <3> QED BY <3>1, <3>2
  <2> QED BY <2>1, <2>3, <2>4 DEF InputInv
<1>4. CASE Restart
  <2>1. UNCHANGED jobs /\ cr'.status = cr.status /\ \A t \in Threads : th'[t] = Idle
    BY <1>0, <1>4, RestartNext
  <2>2. \A t \in Threads : ThreadOK(t)'
    BY <2>1, IdleOK DEF ThreadOKWith, ThreadOK
  <2> QED BY <1>0, <2>1, <2>2 DEF InputInv
<1>5. CASE UNCHANGED vars
  BY <1>1, <1>5 DEF vars
<1>6. CASE UserEdits \/ ProfileChanges \/ ProjectChanges \/ SecretsChange \/ NextInterval
  BY <1>0, <1>1, <1>6, EnvironmentNext
<1> QED BY <1>2, <1>3, <1>4, <1>5, <1>6, StepCases

LEMMA TInvStep ==
  ASSUME TInv, [Next]_vars
  PROVE  TInv'
BY TypeStep, InputStep DEF TInv

-----------------------------------------------------------------------------
(* One thread at a time. *)

\* What every step of a thread that was started has in common.
LEMMA ThreadStepSummary ==
  ASSUME TInv, NEW t \in Threads, ThreadStep(t), ~Begin(t)
  PROVE  /\ past' = past /\ th[t].pc # "idle"
         /\ \E r \in ThreadRecord :
              /\ Step(t, r)
              /\ r.pc \notin {"idle", "patch"} =>
                   th[t].pc # "patch" /\ r.status = th[t].status
              /\ cr'.status = cr.status \/ r.pc = "idle"
<1>1. CASE Check(t)
  BY <1>1, CheckNext
<1>2. CASE List(t)
  BY <1>2, ListNext
<1>3. CASE CleanJobs(t)
  BY <1>3, CleanJobsNext
<1>4. CASE CleanMaps(t)
  BY <1>4, CleanMapsNext
<1>5. CASE Decide(t)
  BY <1>5, DecideNext
<1>6. CASE Prerequisites(t)
  BY <1>6, PrerequisitesNext
<1>7. CASE CreateConfigMap(t)
  BY <1>7, CreateConfigMapNext
<1>8. CASE CreateJob(t)
  BY <1>8, CreateJobNext
<1>9. CASE ApplyPatch(t)
  BY <1>9, ApplyPatchNext, IdleType
<1>10. CASE ApiFails(t)
  <2>1. th[t].pc # "idle"
    BY <1>10 DEF ApiFails
  <2> QED BY <1>10, <2>1, ApiFailsNext, IdleType
<1> QED BY <1>1, <1>2, <1>3, <1>4, <1>5, <1>6, <1>7, <1>8, <1>9, <1>10 DEF ThreadStep

\* As long as no two threads have run at the same time, the other one is idle.
LEMMA OthersIdle ==
  ASSUME TInv, AloneInv, NEW t \in Threads, ThreadStep(t), ~Overlaps'
  PROVE  /\ ~Overlaps
         /\ \A u \in Threads : u # t => th[u].pc = "idle" /\ th'[u].pc = "idle"
<1>0. TypeOK /\ th \in [Threads -> ThreadRecord]
  BY TypeSplit DEF TInv
<1>1. CASE Begin(t)
  <2>1. PICK r \in ThreadRecord : Step(t, r)
    BY <1>0, <1>1, BeginNext
  <2>2. past' = past /\ \A u \in Threads : th[u].pc = "idle"
    BY <1>0, <1>1, BeginNext DEF Overlaps
  <2>3. \A u \in Threads : u # t => th'[u] = th[u]
    BY <1>0, <2>1, StepFacts
  <2> QED BY <2>2, <2>3 DEF Overlaps
<1>2. CASE ~Begin(t)
  <2>1. PICK r \in ThreadRecord : Step(t, r)
    BY <1>2, ThreadStepSummary
  <2>2. past' = past /\ th[t].pc # "idle"
    BY <1>2, ThreadStepSummary
  <2>3. \A u \in Threads : u # t => th'[u] = th[u]
    BY <1>0, <2>1, StepFacts
  <2> QED BY <2>2, <2>3 DEF Overlaps, AloneInv
<1> QED BY <1>1, <1>2

LEMMA AloneStep ==
  ASSUME TInv, AloneInv, [Next]_vars
  PROVE  AloneInv'
<1>0. TypeOK /\ th \in [Threads -> ThreadRecord]
  BY TypeSplit DEF TInv
<1>1. ASSUME cr'.status = cr.status, UNCHANGED <<th, past>>
      PROVE  AloneInv'
  BY <1>1 DEF AloneInv, Overlaps
<1>2. ASSUME NEW j \in jobs, JobsStep(j)
      PROVE  AloneInv'
  <2>1. UNCHANGED <<cr, th, past>>
    BY <1>0, <1>2, JobsStepNext
  <2> QED BY <1>1, <2>1
<1>3. ASSUME NEW t \in Threads, ThreadStep(t)
      PROVE  AloneInv'
  <2> SUFFICES ASSUME ~Overlaps'
               PROVE  AloneInv'
    BY DEF AloneInv
  <2>1. ~Overlaps /\ \A u \in Threads : u # t => th'[u].pc = "idle"
    BY <1>3, OthersIdle
  <2>2. th'[t].pc \notin {"idle", "patch"} => th'[t].status = cr'.status
    <3>1. CASE Begin(t)
      <4>1. PICK r \in ThreadRecord : Step(t, r) /\ r.status = cr.status
        BY <1>0, <3>1, BeginNext
      <4>2. th'[t] = r
        BY <1>0, <4>1, StepFacts
      <4>3. UNCHANGED cr
        BY <1>0, <3>1, BeginNext
      <4> QED BY <4>1, <4>2, <4>3
    <3>2. CASE ~Begin(t)
      <4>1. th[t].pc # "idle"
        BY <1>3, <3>2, ThreadStepSummary
      <4>2. PICK r \in ThreadRecord :
              /\ Step(t, r)
              /\ r.pc \notin {"idle", "patch"} =>
                   th[t].pc # "patch" /\ r.status = th[t].status
              /\ cr'.status = cr.status \/ r.pc = "idle"
        BY <1>3, <3>2, ThreadStepSummary
      <4>3. th'[t] = r
        BY <1>0, <4>2, StepFacts
      <4>4. th[t].pc # "patch" => th[t].status = cr.status
        BY <2>1, <4>1 DEF AloneInv
      <4> QED BY <4>2, <4>3, <4>4
    <3> QED BY <3>1, <3>2
  <2> QED BY <2>1, <2>2 DEF AloneInv
<1>4. CASE Restart
  <2>1. \A t \in Threads : th'[t].pc = "idle"
    BY <1>0, <1>4, RestartNext, IdleType
  <2> QED BY <2>1 DEF AloneInv
<1>5. CASE UNCHANGED vars
  BY <1>1, <1>5 DEF vars
<1>6. CASE UserEdits \/ ProfileChanges \/ ProjectChanges \/ SecretsChange \/ NextInterval
  BY <1>0, <1>1, <1>6, EnvironmentNext
<1> QED BY <1>2, <1>3, <1>4, <1>5, <1>6, StepCases

-----------------------------------------------------------------------------
(* Inputs are kept. *)

\* Only the thread that made the step has something to show.
LEMMA KeptMove ==
  ASSUME TInv, AloneInv, KeptInv, NEW t \in Threads, ThreadStep(t),
         ~Overlaps' => /\ InputKept'
                       /\ th'[t].pc \in {"clean", "maps"} =>
                            Unfinished(jobs') \subseteq Unfinished(th'[t].found)
                       /\ th'[t].pc = "job" => th'[t].name \in configMaps'
  PROVE  KeptInv'
<1> SUFFICES ASSUME ~Overlaps'
             PROVE  KeptInv'
  BY DEF KeptInv
<1>1. \A u \in Threads : u # t => th'[u].pc = "idle"
  BY OthersIdle
<1> QED BY <1>1 DEF KeptInv

LEMMA KeptThreadStep ==
  ASSUME TInv, AloneInv, KeptInv, NEW t \in Threads, ThreadStep(t)
  PROVE  KeptInv'
<1>0. TypeOK /\ th \in [Threads -> ThreadRecord] /\ th[t] \in ThreadRecord
  BY TypeSplit DEF TInv
<1>1. ASSUME NEW r \in ThreadRecord, Step(t, r), r.pc \notin {"clean", "maps", "job"},
             UNCHANGED <<jobs, configMaps>>
      PROVE  KeptInv'
  <2>1. th'[t] = r
    BY <1>0, <1>1, StepFacts
  <2>2. ~Overlaps' => InputKept
    BY OthersIdle DEF KeptInv
  <2>3. ~Overlaps' => InputKept'
    BY <1>1, <2>2 DEF InputKept
  <2> QED BY <1>1, <2>1, <2>3, KeptMove
<1> SUFFICES ASSUME ~Overlaps'
             PROVE  KeptInv'
  BY DEF KeptInv
<1>2. ~Overlaps /\ InputKept
  BY OthersIdle DEF KeptInv
<1>3. CASE Begin(t)
  <2>1. /\ UNCHANGED <<jobs, configMaps>>
        /\ \E r \in ThreadRecord : Step(t, r) /\ r.pc = "check"
    BY <1>0, <1>3, BeginNext
  <2> QED BY <1>1, <2>1
<1>4. CASE Check(t)
  BY <1>1, <1>4, CheckNext
<1>5. CASE List(t)
  <2>1. PICK r \in ThreadRecord : Step(t, r) /\ r.pc = "clean" /\ r.found = jobs
    BY <1>5, ListNext
  <2>2. UNCHANGED <<jobs, configMaps>>
    BY <1>5, ListNext
  <2>3. th'[t] = r
    BY <1>0, <2>1, StepFacts
  <2>4. InputKept'
    BY <1>2, <2>2 DEF InputKept
  <2> QED BY <2>1, <2>2, <2>3, <2>4, KeptMove
<1>6. CASE CleanJobs(t)
  <2>1. PICK r \in ThreadRecord : Step(t, r) /\ r.pc = "maps" /\ r.found = th[t].found
    BY <1>6, CleanJobsNext
  <2>2. jobs' \subseteq jobs /\ UNCHANGED configMaps /\ th[t].pc = "clean"
    BY <1>6, CleanJobsNext
  <2>3. th'[t] = r
    BY <1>0, <2>1, StepFacts
  <2>4. Unfinished(jobs') \subseteq Unfinished(jobs)
    BY <2>2 DEF Unfinished
  <2>5. InputKept'
    BY <1>2, <2>2, <2>4 DEF InputKept
  <2>6. Unfinished(jobs) \subseteq Unfinished(th[t].found)
    BY <1>2, <2>2 DEF KeptInv
  <2> QED BY <2>1, <2>3, <2>4, <2>5, <2>6, KeptMove
<1>7. CASE CleanMaps(t)
  <2>1. PICK r \in ThreadRecord : Step(t, r) /\ r.pc = "decide"
    BY <1>7, CleanMapsNext
  <2>2. /\ UNCHANGED jobs /\ th[t].pc = "maps"
        /\ \A n \in configMaps : n \in Unfinished(th[t].found) => n \in configMaps'
    BY <1>7, CleanMapsNext
  <2>3. th'[t] = r
    BY <1>0, <2>1, StepFacts
  <2>4. Unfinished(jobs) \subseteq Unfinished(th[t].found)
    BY <1>2, <2>2 DEF KeptInv
  <2>5. InputKept'
    BY <1>2, <2>2, <2>4 DEF InputKept
  <2> QED BY <2>1, <2>3, <2>5, KeptMove
<1>8. CASE Decide(t)
  BY <1>1, <1>8, DecideNext
<1>9. CASE Prerequisites(t)
  BY <1>1, <1>9, PrerequisitesNext
<1>10. CASE CreateConfigMap(t)
  <2>1. PICK r \in ThreadRecord : Step(t, r) /\ r.pc = "job" /\ r.name = th[t].name
    BY <1>10, CreateConfigMapNext
  <2>2. UNCHANGED jobs /\ configMaps' = configMaps \cup {th[t].name}
    BY <1>10, CreateConfigMapNext
  <2>3. th'[t] = r
    BY <1>0, <2>1, StepFacts
  <2>4. InputKept'
    BY <1>2, <2>2 DEF InputKept
  <2> QED BY <2>1, <2>2, <2>3, <2>4, KeptMove
<1>11. CASE CreateJob(t)
  <2>1. PICK r \in ThreadRecord : Step(t, r) /\ r.pc = "patch"
    BY <1>11, CreateJobNext
  <2>2. /\ UNCHANGED configMaps /\ th[t].pc = "job"
        /\ jobs' = jobs \/ \E j \in JobRecord : jobs' = jobs \cup {j} /\ j.name = th[t].name
    BY <1>11, CreateJobNext
  <2>3. th'[t] = r
    BY <1>0, <2>1, StepFacts
  <2>4. th[t].name \in configMaps
    BY <1>2, <2>2 DEF KeptInv
  <2>5. Unfinished(jobs') \subseteq Unfinished(jobs) \cup {th[t].name}
    BY <2>2 DEF Unfinished
  <2>6. InputKept'
    BY <1>2, <2>2, <2>4, <2>5 DEF InputKept
  <2> QED BY <2>1, <2>3, <2>6, KeptMove
<1>12. CASE ApplyPatch(t)
  BY <1>1, <1>12, ApplyPatchNext, IdleType
<1>13. CASE ApiFails(t)
  BY <1>1, <1>13, ApiFailsNext, IdleType
<1> QED BY <1>3, <1>4, <1>5, <1>6, <1>7, <1>8, <1>9, <1>10, <1>11, <1>12, <1>13 DEF ThreadStep

LEMMA KeptStep ==
  ASSUME TInv, AloneInv, KeptInv, [Next]_vars
  PROVE  KeptInv'
<1>0. TypeOK
  BY DEF TInv
<1>1. ASSUME UNCHANGED <<jobs, configMaps, th, past>>
      PROVE  KeptInv'
  BY <1>1 DEF KeptInv, InputKept, Overlaps
<1>2. ASSUME NEW j \in jobs, JobsStep(j)
      PROVE  KeptInv'
  <2>1. UNCHANGED <<configMaps, th, past>> /\ Unfinished(jobs') \subseteq Unfinished(jobs)
    BY <1>0, <1>2, JobsStepNext
  <2> QED BY <2>1 DEF KeptInv, InputKept, Overlaps
<1>3. ASSUME NEW t \in Threads, ThreadStep(t)
      PROVE  KeptInv'
  BY <1>3, KeptThreadStep
<1>4. CASE Restart
  <2>1. UNCHANGED <<jobs, configMaps>> /\ past \subseteq past'
    BY <1>0, <1>4, RestartNext
  <2>2. \A t \in Threads : th'[t].pc = "idle"
    BY <1>0, <1>4, RestartNext, IdleType
  <2> QED BY <2>1, <2>2 DEF KeptInv, InputKept, Overlaps
<1>5. CASE UNCHANGED vars
  BY <1>1, <1>5 DEF vars
<1>6. CASE UserEdits \/ ProfileChanges \/ ProjectChanges \/ SecretsChange \/ NextInterval
  BY <1>0, <1>1, <1>6, EnvironmentNext
<1> QED BY <1>2, <1>3, <1>4, <1>5, <1>6, StepCases

-----------------------------------------------------------------------------
(* What is reported as done stays. *)

\* Only the thread that made the step has something to show.
LEMMA DoneMove ==
  ASSUME TInv, AloneInv, DoneInv, NEW t \in Threads, ThreadStep(t),
         NEW r \in ThreadRecord, Step(t, r),
         ~Overlaps' =>
           /\ Ready(cr'.status) => SucceededIn(jobs', cr'.status.job)
           /\ r.pc = "patch" /\ Ready(r.patch) => SucceededIn(jobs', r.patch.job)
           /\ r.pc \in {"clean", "maps", "decide"} =>
                \A j \in r.found :
                  j.name = r.name /\ j.state = "succeeded" => SucceededIn(jobs', r.name)
  PROVE  DoneInv'
<1> SUFFICES ASSUME ~Overlaps'
             PROVE  DoneInv'
  BY DEF DoneInv
<1>1. \A u \in Threads : u # t => th'[u].pc = "idle"
  BY OthersIdle
<1>2. th'[t] = r
  BY StepFacts, TypeSplit DEF TInv
<1>3. ASSUME NEW u \in Threads
      PROVE  /\ th'[u].pc = "patch" /\ Ready(th'[u].patch) => SucceededIn(jobs', th'[u].patch.job)
             /\ th'[u].pc \in {"clean", "maps", "decide"} =>
                  \A j \in th'[u].found :
                    j.name = th'[u].name /\ j.state = "succeeded" => SucceededIn(jobs', th'[u].name)
  <2>1. CASE u = t
    BY <1>2, <2>1
  <2>2. CASE u # t
    BY <1>1, <2>2
  <2> QED BY <2>1, <2>2
<1>4. (\A u \in Threads :
         /\ th[u].pc = "patch" /\ Ready(th[u].patch) => SucceededIn(jobs, th[u].patch.job)
         /\ th[u].pc \in {"clean", "maps", "decide"} =>
              \A j \in th[u].found :
                j.name = th[u].name /\ j.state = "succeeded" => SucceededIn(jobs, th[u].name))'
  BY <1>3 DEF Ready, SucceededIn
<1>5. (Ready(cr.status) => SucceededIn(jobs, cr.status.job))'
  BY DEF Ready, SucceededIn
<1> QED BY <1>4, <1>5 DEF DoneInv

LEMMA DoneThreadStep ==
  ASSUME TInv, AloneInv, DoneInv, NEW t \in Threads, ThreadStep(t)
  PROVE  DoneInv'
<1>0. TypeOK /\ th[t] \in ThreadRecord
  BY TypeSplit DEF TInv
<1> SUFFICES ASSUME ~Overlaps'
             PROVE  DoneInv'
  BY DEF DoneInv
<1>1. ~Overlaps
  BY OthersIdle
<1>2. Ready(cr.status) => SucceededIn(jobs, cr.status.job)
  BY <1>1 DEF DoneInv
<1>3. /\ th[t].pc = "patch" /\ Ready(th[t].patch) => SucceededIn(jobs, th[t].patch.job)
      /\ th[t].pc \in {"clean", "maps", "decide"} =>
           \A j \in th[t].found :
             j.name = th[t].name /\ j.state = "succeeded" => SucceededIn(jobs, th[t].name)
  BY <1>1 DEF DoneInv
<1>4. ASSUME UNCHANGED <<cr, jobs>>, NEW r \in ThreadRecord, Step(t, r),
             r.pc = "patch" => ~Ready(r.patch), r.pc \notin {"clean", "maps", "decide"}
      PROVE  DoneInv'
  <2>1. Ready(cr'.status) => SucceededIn(jobs', cr'.status.job)
    BY <1>2, <1>4 DEF SucceededIn
  <2> QED BY <1>4, <2>1, DoneMove
<1>5. CASE Begin(t)
  <2>1. /\ UNCHANGED <<cr, jobs>>
        /\ \E r \in ThreadRecord : Step(t, r) /\ r.pc = "check"
    BY <1>0, <1>5, BeginNext
  <2> QED BY <1>4, <2>1
<1>6. CASE Check(t)
  BY <1>4, <1>6, CheckNext
<1>7. CASE List(t)
  <2>1. PICK r \in ThreadRecord : Step(t, r) /\ r.pc = "clean" /\ r.found = jobs
    BY <1>7, ListNext
  <2>2. UNCHANGED <<cr, jobs>>
    BY <1>7, ListNext
  <2>3. \A j \in r.found : j.name = r.name /\ j.state = "succeeded" => SucceededIn(jobs', r.name)
    BY <2>1, <2>2 DEF SucceededIn
  <2>4. Ready(cr'.status) => SucceededIn(jobs', cr'.status.job)
    BY <1>2, <2>2 DEF SucceededIn
  <2> QED BY <2>1, <2>3, <2>4, DoneMove
<1>8. CASE CleanJobs(t)
  <2>1. PICK r \in ThreadRecord :
          Step(t, r) /\ r.pc = "maps" /\ r.found = th[t].found /\ r.name = th[t].name
    BY <1>8, CleanJobsNext
  <2>2. /\ UNCHANGED cr /\ th[t].pc = "clean"
        /\ \A j \in jobs : j.name \in Mandatory(t) => j \in jobs'
    BY <1>8, CleanJobsNext
  <2>3. \A n \in Mandatory(t) : SucceededIn(jobs, n) => SucceededIn(jobs', n)
    BY <2>2 DEF SucceededIn
  <2>4. th[t].name \in Mandatory(t) /\ cr.status.job \in Mandatory(t)
    BY <1>1, <2>2 DEF AloneInv, Mandatory
  <2>5. \A j \in r.found : j.name = r.name /\ j.state = "succeeded" => SucceededIn(jobs', r.name)
    BY <1>3, <2>1, <2>2, <2>3, <2>4
  <2>6. Ready(cr'.status) => SucceededIn(jobs', cr'.status.job)
    BY <1>2, <2>2, <2>3, <2>4
  <2> QED BY <2>1, <2>5, <2>6, DoneMove
<1>9. CASE CleanMaps(t)
  <2>1. PICK r \in ThreadRecord :
          Step(t, r) /\ r.pc = "decide" /\ r.found \subseteq th[t].found /\ r.name = th[t].name
    BY <1>9, CleanMapsNext
  <2>2. UNCHANGED <<cr, jobs>> /\ th[t].pc = "maps"
    BY <1>9, CleanMapsNext
  <2>3. \A n : SucceededIn(jobs, n) => SucceededIn(jobs', n)
    BY <2>2 DEF SucceededIn
  <2>4. \A j \in r.found : j.name = r.name /\ j.state = "succeeded" => SucceededIn(jobs', r.name)
    BY <1>3, <2>1, <2>2, <2>3
  <2>5. Ready(cr'.status) => SucceededIn(jobs', cr'.status.job)
    BY <1>2, <2>2, <2>3
  <2> QED BY <2>1, <2>4, <2>5, DoneMove
<1>10. CASE Decide(t)
  <2>1. PICK r \in ThreadRecord :
          /\ Step(t, r)
          /\ \/ /\ r.pc = "patch"
                /\ Ready(r.patch) =>
                     /\ r.patch.job = th[t].name
                     /\ \E j \in th[t].found : j.name = th[t].name /\ j.state = "succeeded"
             \/ r.pc = "prerequisites"
    BY <1>10, DecideNext
  <2>2. UNCHANGED <<cr, jobs>> /\ th[t].pc = "decide"
    BY <1>10, DecideNext
  <2>3. \A n : SucceededIn(jobs, n) => SucceededIn(jobs', n)
    BY <2>2 DEF SucceededIn
  <2>4. r.pc = "patch" /\ Ready(r.patch) => SucceededIn(jobs', r.patch.job)
    BY <1>3, <2>1, <2>2, <2>3
  <2>5. Ready(cr'.status) => SucceededIn(jobs', cr'.status.job)
    BY <1>2, <2>2, <2>3
  <2> QED BY <2>1, <2>4, <2>5, DoneMove
<1>11. CASE Prerequisites(t)
  BY <1>4, <1>11, PrerequisitesNext
<1>12. CASE CreateConfigMap(t)
  BY <1>4, <1>12, CreateConfigMapNext
<1>13. CASE CreateJob(t)
  <2>1. PICK r \in ThreadRecord : Step(t, r) /\ r.pc = "patch" /\ ~Ready(r.patch)
    BY <1>13, CreateJobNext
  <2>2. UNCHANGED cr /\ jobs \subseteq jobs'
    BY <1>13, CreateJobNext
  <2>3. Ready(cr'.status) => SucceededIn(jobs', cr'.status.job)
    BY <1>2, <2>2 DEF SucceededIn
  <2> QED BY <2>1, <2>3, DoneMove
<1>14. CASE ApplyPatch(t)
  <2> DEFINE p == th[t].patch
  <2>1. /\ UNCHANGED jobs /\ Step(t, Idle) /\ cr'.status = Merged(p) /\ p \in Statuses
        /\ th[t].pc = "patch"
    BY <1>14, ApplyPatchNext
  <2>2. OfOneInput(p) /\ (Ready(p) => SucceededIn(jobs, p.job))
    BY <1>3, <2>1 DEF TInv, InputInv, ThreadOK
  <2> HIDE DEF p
  <2>3. ASSUME Ready(cr'.status)
        PROVE  SucceededIn(jobs', cr'.status.job)
    <3>1. Ready(p)
      BY <1>0, <2>1, <2>3, MergedFacts DEF Ready
    <3>2. p.job # None /\ SucceededIn(jobs, p.job)
      BY <2>2, <3>1, NameNotNone DEF OfOneInput
    <3>3. cr'.status.job = p.job
      BY <1>0, <2>1, <3>2, MergedFacts
    <3> QED BY <2>1, <3>2, <3>3 DEF SucceededIn
  <2> QED BY <2>1, <2>3, DoneMove, IdleType
<1>15. CASE ApiFails(t)
  BY <1>4, <1>15, ApiFailsNext, IdleType
<1> QED BY <1>5, <1>6, <1>7, <1>8, <1>9, <1>10, <1>11, <1>12, <1>13, <1>14, <1>15 DEF ThreadStep

LEMMA DoneStep ==
  ASSUME TInv, AloneInv, DoneInv, [Next]_vars
  PROVE  DoneInv'
<1>0. TypeOK
  BY DEF TInv
<1>1. ASSUME cr'.status = cr.status, UNCHANGED <<jobs, th, past>>
      PROVE  DoneInv'
  BY <1>1 DEF DoneInv, SucceededIn, Overlaps
<1>2. ASSUME NEW j \in jobs, JobsStep(j)
      PROVE  DoneInv'
  <2>1. UNCHANGED <<cr, th, past>> /\ \A n : SucceededIn(jobs, n) => SucceededIn(jobs', n)
    BY <1>0, <1>2, JobsStepNext
  <2> QED BY <2>1 DEF DoneInv, Overlaps
<1>3. ASSUME NEW t \in Threads, ThreadStep(t)
      PROVE  DoneInv'
  BY <1>3, DoneThreadStep
<1>4. CASE Restart
  <2>1. UNCHANGED jobs /\ cr'.status = cr.status /\ past \subseteq past'
    BY <1>0, <1>4, RestartNext
  <2>2. \A t \in Threads : th'[t].pc = "idle"
    BY <1>0, <1>4, RestartNext, IdleType
  <2> QED BY <2>1, <2>2 DEF DoneInv, SucceededIn, Overlaps
<1>5. CASE UNCHANGED vars
  BY <1>1, <1>5 DEF vars
<1>6. CASE UserEdits \/ ProfileChanges \/ ProjectChanges \/ SecretsChange \/ NextInterval
  BY <1>0, <1>1, <1>6, EnvironmentNext
<1> QED BY <1>2, <1>3, <1>4, <1>5, <1>6, StepCases

-----------------------------------------------------------------------------
(* The hash. *)

\* A thread that has not come to its patch: the hash is in the status.
LEMMA HashMove ==
  ASSUME TInv, AloneInv, HashInv, NEW t \in Threads, ThreadStep(t), th[t].pc # "patch",
         NEW r \in ThreadRecord, Step(t, r), cr'.status = cr.status,
         past' = {} =>
           /\ \A j \in jobs' :
                \/ \E k \in jobs : k.name = j.name
                \/ r.pc = "patch" /\ r.patch.hash = j.name.input
           /\ r.pc = "patch" /\ r.patch.hash # None =>
                cr.status.hash \in {None, r.patch.hash}
  PROVE  HashInv'
<1> SUFFICES ASSUME past' = {}
             PROVE  HashInv'
  BY DEF HashInv
<1>1. /\ ~Overlaps'
      /\ \A u \in Threads : u # t => th[u].pc = "idle" /\ th'[u].pc = "idle"
  BY OthersIdle DEF Overlaps
<1>2. past = {}
  <2>1. CASE Begin(t)
    BY <2>1, BeginNext DEF TInv
  <2>2. CASE ~Begin(t)
    BY <2>2, ThreadStepSummary
  <2> QED BY <2>1, <2>2
<1>3. th'[t] = r
  BY StepFacts, TypeSplit DEF TInv
<1>4. \A j \in jobs : cr.status.hash = j.name.input
  BY <1>1, <1>2 DEF HashInv
<1>5. ASSUME NEW j \in jobs'
      PROVE  \/ cr'.status.hash = j.name.input
             \/ \E u \in Threads : th'[u].pc = "patch" /\ th'[u].patch.hash = j.name.input
  BY <1>3, <1>4
<1>6. ASSUME NEW u \in Threads, th'[u].pc = "patch", th'[u].patch.hash # None,
             cr'.status.hash # None
      PROVE  th'[u].patch.hash = cr'.status.hash
  BY <1>1, <1>3, <1>6
<1> QED BY <1>5, <1>6 DEF HashInv

\* The hash that a thread has made room for is that of the status.
LEMMA HashOfThread ==
  ASSUME TInv, AloneInv, NEW t \in Threads, ~Overlaps
  PROVE  /\ th[t].pc \in Listing => cr.status.hash \in {None, th[t].input}
         /\ th[t].pc = "check" => th[t].status.hash = cr.status.hash
BY DEF TInv, InputInv, ThreadOK, AloneInv, Listing

LEMMA HashThreadStep ==
  ASSUME TInv, AloneInv, HashInv, NEW t \in Threads, ThreadStep(t)
  PROVE  HashInv'
<1>0. TypeOK /\ th[t] \in ThreadRecord /\ th \in [Threads -> ThreadRecord]
  BY TypeSplit DEF TInv
<1> SUFFICES ASSUME past' = {}
             PROVE  HashInv'
  BY DEF HashInv
<1>1. ~Overlaps /\ \A u \in Threads : u # t => th[u].pc = "idle" /\ th'[u].pc = "idle"
  BY OthersIdle DEF Overlaps
<1>2. ASSUME UNCHANGED cr, jobs' \subseteq jobs, th[t].pc # "patch",
             NEW r \in ThreadRecord, Step(t, r),
             r.pc = "patch" /\ r.patch.hash # None => cr.status.hash \in {None, r.patch.hash}
      PROVE  HashInv'
  BY <1>2, HashMove
<1>3. CASE Begin(t)
  <2>1. PICK r \in ThreadRecord : Step(t, r) /\ r.pc = "check"
    BY <1>0, <1>3, BeginNext
  <2>2. UNCHANGED <<cr, jobs>> /\ th[t].pc = "idle"
    BY <1>0, <1>3, BeginNext
  <2> QED BY <1>2, <2>1, <2>2
<1>4. CASE Check(t)
  <2>1. PICK r \in ThreadRecord :
          /\ Step(t, r)
          /\ \/ r.pc = "patch" /\ r.patch.hash \in {None, th[t].status.hash}
             \/ r.pc = "list"
    BY <1>4, CheckNext
  <2>2. UNCHANGED <<cr, jobs>> /\ th[t].pc = "check"
    BY <1>4, CheckNext
  <2>3. th[t].status.hash = cr.status.hash
    BY <1>1, <2>2, HashOfThread
  <2> QED BY <1>2, <2>1, <2>2, <2>3
<1>5. CASE List(t)
  BY <1>2, <1>5, ListNext
<1>6. CASE CleanJobs(t)
  <2>1. PICK r \in ThreadRecord : Step(t, r) /\ r.pc = "maps"
    BY <1>6, CleanJobsNext
  <2>2. UNCHANGED cr /\ jobs' \subseteq jobs /\ th[t].pc = "clean"
    BY <1>6, CleanJobsNext
  <2> QED BY <1>2, <2>1, <2>2
<1>7. CASE CleanMaps(t)
  BY <1>2, <1>7, CleanMapsNext
<1>8. CASE Decide(t)
  <2>1. PICK r \in ThreadRecord :
          /\ Step(t, r)
          /\ \/ r.pc = "patch" /\ r.patch.hash \in {None, th[t].input}
             \/ r.pc = "prerequisites"
    BY <1>8, DecideNext
  <2>2. UNCHANGED <<cr, jobs>> /\ th[t].pc = "decide"
    BY <1>8, DecideNext
  <2>3. cr.status.hash \in {None, th[t].input}
    BY <1>1, <2>2, HashOfThread DEF Listing
  <2> QED BY <1>2, <2>1, <2>2, <2>3
<1>9. CASE Prerequisites(t)
  BY <1>2, <1>9, PrerequisitesNext
<1>10. CASE CreateConfigMap(t)
  BY <1>2, <1>10, CreateConfigMapNext
<1>11. CASE CreateJob(t)
  <2>1. PICK r \in ThreadRecord : Step(t, r) /\ r.pc = "patch" /\ r.patch.hash = th[t].input
    BY <1>11, CreateJobNext
  <2>2. /\ UNCHANGED cr /\ th[t].pc = "job"
        /\ jobs' = jobs \/ \E j \in JobRecord : jobs' = jobs \cup {j} /\ j.name = th[t].name
    BY <1>11, CreateJobNext
  <2>3. cr.status.hash \in {None, th[t].input}
    BY <1>1, <2>2, HashOfThread DEF Listing
  <2>4. th[t].name.input = th[t].input
    BY <2>2 DEF TInv, InputInv, ThreadOK, Listing
  <2>5. \A j \in jobs' : (\E k \in jobs : k.name = j.name) \/ r.patch.hash = j.name.input
    BY <2>1, <2>2, <2>4
  <2> QED BY <2>1, <2>2, <2>3, <2>5, HashMove
<1>12. CASE ApplyPatch(t)
  <2> DEFINE p == th[t].patch
  <2>1. /\ UNCHANGED <<jobs, past>> /\ Step(t, Idle) /\ cr'.status = Merged(p)
        /\ p \in Statuses /\ th[t].pc = "patch"
    BY <1>12, ApplyPatchNext
  <2>2. \A u \in Threads : th'[u].pc = "idle"
    BY <1>0, <1>1, <2>1, IdleType, StepFacts
  <2>3. cr'.status.hash = IF p.hash # None THEN p.hash ELSE cr.status.hash
    BY <1>0, <2>1, MergedFacts
  <2>4. \A j \in jobs : cr.status.hash = j.name.input \/ p.hash = j.name.input
    BY <1>1, <2>1 DEF HashInv
  <2>5. p.hash # None /\ cr.status.hash # None => p.hash = cr.status.hash
    BY <2>1 DEF HashInv
  <2>6. \A j \in jobs : j.name.input # None
    <3>1. \A j \in jobs : j.name \in Names
      BY <1>0, TypeSplit DEF JobRecord
    <3> QED BY <3>1, NameNotNone
  <2> HIDE DEF p
  <2>7. \A j \in jobs' : cr'.status.hash = j.name.input
    BY <2>1, <2>3, <2>4, <2>5, <2>6
  <2> QED BY <2>2, <2>7 DEF HashInv
<1>13. CASE ApiFails(t)
  BY <1>2, <1>13, ApiFailsNext, IdleType
<1> QED BY <1>3, <1>4, <1>5, <1>6, <1>7, <1>8, <1>9, <1>10, <1>11, <1>12, <1>13 DEF ThreadStep

LEMMA HashStep ==
  ASSUME TInv, AloneInv, HashInv, [Next]_vars
  PROVE  HashInv'
<1>0. TypeOK
  BY DEF TInv
<1>1. ASSUME cr'.status = cr.status, UNCHANGED <<jobs, th, past>>
      PROVE  HashInv'
  BY <1>1 DEF HashInv
<1>2. ASSUME NEW j \in jobs, JobsStep(j)
      PROVE  HashInv'
  <2>1. UNCHANGED <<cr, th, past>> /\ \A job \in jobs' : \E k \in jobs : job.name = k.name
    BY <1>0, <1>2, JobsStepNext DEF Follows
  <2> QED BY <2>1 DEF HashInv
<1>3. ASSUME NEW t \in Threads, ThreadStep(t)
      PROVE  HashInv'
  BY <1>3, HashThreadStep
<1>4. CASE Restart
  BY <1>0, <1>4, RestartNext DEF HashInv
<1>5. CASE UNCHANGED vars
  BY <1>1, <1>5 DEF vars
<1>6. CASE UserEdits \/ ProfileChanges \/ ProjectChanges \/ SecretsChange \/ NextInterval
  BY <1>0, <1>1, <1>6, EnvironmentNext
<1> QED BY <1>2, <1>3, <1>4, <1>5, <1>6, StepCases

-----------------------------------------------------------------------------
(* The theorems. *)

LEMMA Inductive == Spec => []IInv
<1>1. Init => IInv
  BY InitType DEF IInv
<1>2. IInv /\ [Next]_vars => IInv'
  BY TInvStep, AloneStep, KeptStep, DoneStep, HashStep DEF IInv
<1> QED BY <1>1, <1>2, PTL DEF Spec

\* Every variable has its type, and no two Jobs have one name, for every start,
\* every budget and whatever the two threads do to each other.
THEOREM TypesHold == Spec => []TypeOK
<1>1. IInv => TypeOK
  BY DEF IInv, TInv
<1> QED BY <1>1, Inductive, PTL

\* As long as the controller does not restart and its two threads have never run
\* at the same time, no second input is provisioned; and while they have not, a
\* Job that may still start a Pod has its input, whatever is retried, restarted
\* and cleaned up: the comparison of the hashes (controller.py:256) and what
\* cleanup_history keeps (kube.py:223) are enough.
THEOREM InputsAreKept == Spec => []InputsHold
<1>1. ASSUME IInv, past = {}
      PROVE  OneInput
  <2>1. TypeOK /\ ~Overlaps /\ HashInv /\ AloneInv
    BY <1>1 DEF IInv, TInv, Overlaps
  <2>2. \A j \in jobs : j.name.input # None
    <3>1. \A j \in jobs : j.name \in Names
      BY <2>1, TypeSplit DEF JobRecord
    <3> QED BY <3>1, NameNotNone
  <2>3. \A x, y \in Started : x = y
    BY <1>1, <2>1, <2>2 DEF Started, HashInv, AloneInv
  <2>4. CASE Started = {}
    BY <2>4, FS_EmptySet DEF OneInput
  <2>5. CASE Started # {}
    <3>1. PICK x \in Started : Started = {x}
      BY <2>3, <2>5
    <3>2. Cardinality({x}) = 1
      BY FS_Singleton
    <3> QED BY <3>1, <3>2 DEF OneInput
  <2> QED BY <2>4, <2>5
<1>2. ASSUME IInv, "overlap" \notin past
      PROVE  InputKept
  BY <1>2 DEF IInv, KeptInv, Overlaps
<1>3. IInv => InputsHold
  BY <1>1, <1>2 DEF InputsHold
<1> QED BY <1>3, Inductive, PTL

\* A status that says ready is of one input, the one whose inventory the Job that
\* it names has committed, however its patches were interleaved; and while the
\* threads have not run at the same time, that Job is there and has succeeded.
THEOREM ReadyIsOfOneInput == Spec => []ReadyIsReal
<1>1. IInv => ReadyIsReal
  BY DEF IInv, TInv, InputInv, OfOneInput, DoneInv, SucceededIn, Overlaps, Ready, ReadyIsReal
<1> QED BY <1>1, Inductive, PTL

-----------------------------------------------------------------------------
(* Jobs that run are spared, although the threads overlap. *)

Crashes == "crash" \in past
Deciding(t) == th[t].pc \in {"check"} \cup Listing

\* A Job and the name that a thread has made up are not of a later generation or
\* interval than there is; what a thread has listed is not of a later interval than its name.
TimesInv ==
  /\ \A j \in jobs : j.name.generation <= cr.generation /\ j.name.bucket <= bucket
  /\ \A t \in Threads :
       /\ Deciding(t) => th[t].generation <= cr.generation
       /\ th[t].pc \in Listing \ {"list"} =>
            th[t].name.generation = th[t].generation /\ th[t].name.bucket <= bucket
       /\ th[t].pc = "clean" => \A j \in th[t].found : j.name.bucket <= th[t].name.bucket

\* The thread t has made the Job n, and all it does since is of the input of n.
Follower(t, n) ==
  /\ th[t].pc = "idle" => cr.status.hash = n.input
  /\ th[t].pc = "patch" =>
       \/ th[t].patch.hash = n.input
       \/ th[t].patch.hash = None /\ cr.status.hash = n.input
  /\ Deciding(t) => /\ cr.status.hash = n.input /\ th[t].status.hash = n.input
                    /\ th[t].generation >= n.generation

\* Once there is a Job there is a hash, or there will be.  Of two threads that run, the
\* second one began with the hash there still is.  When a Job is of a generation that a
\* thread does not know, the other thread made it.
HashesInv ==
  ~Crashes =>
    /\ jobs # {} =>
         \/ cr.status.hash # None
         \/ \E t \in Threads : th[t].pc = "patch" /\ th[t].patch.hash # None
    /\ \A t, u \in Threads :
         t # u /\ Deciding(t) /\ Deciding(u) =>
           cr.status.hash \in {th[t].status.hash, th[u].status.hash}
    /\ \A j \in jobs, t, u \in Threads :
         t # u /\ Deciding(u) /\ th[u].generation < j.name.generation => Follower(t, j.name)

\* The thread will not make the Job n again: the interval of n or its generation is over,
\* or the recorded input is another one.
Turned(t, n) ==
  /\ th[t].pc \in Listing \ {"list"} => th[t].name # n
  /\ \/ bucket > n.bucket
     \/ /\ cr.generation > n.generation
        /\ th[t].pc \in {"check", "list"} => th[t].generation > n.generation
     \/ /\ cr.status.hash \notin {None, n.input}
        /\ th[t].pc = "check" => th[t].status.hash \notin {None, n.input}
        /\ th[t].pc \in Listing => th[t].input # n.input
        /\ th[t].pc = "patch" => th[t].patch.hash # n.input

\* A Job that a thread has listed as finished, and may delete, is finished; or it is
\* gone, and the other thread will not make it again meanwhile.
SpareInv ==
  ~Crashes =>
    \A t \in Threads : th[t].pc = "clean" =>
      \A j \in th[t].found :
        Finished(j) /\ j.name # th[t].name =>
          \/ \E k \in jobs : k.name = j.name /\ Finished(k)
          \/ /\ ~Named(jobs, j.name)
             /\ \A u \in Threads \ {t} : Turned(u, j.name)

LateInv == TimesInv /\ HashesInv /\ SpareInv

\* The steps of a thread, as far as names and hashes go.
Starting(t) ==
  /\ th[t].pc = "idle" /\ th'[t].pc = "check"
  /\ th'[t].status = cr.status /\ th'[t].generation = cr.generation
  /\ UNCHANGED <<cr, jobs>>
Continuing(t) ==
  /\ Deciding(t) /\ th'[t].pc \in Listing
  /\ th'[t].status = th[t].status /\ th'[t].generation = th[t].generation
  /\ th[t].pc = "check" => /\ th'[t].pc = "list"
                           /\ th'[t].status.hash \in {None, th'[t].input}
  /\ th[t].pc # "check" => th'[t].input = th[t].input
  /\ th[t].pc = "list" =>
       /\ th'[t].pc = "clean" /\ th'[t].found = jobs
       /\ th'[t].name = job_name(th[t].input, th[t].generation, bucket)
  /\ th[t].pc \in Listing \ {"list"} =>
       th'[t].pc \notin {"list", "clean"} /\ th'[t].name = th[t].name
  /\ UNCHANGED cr
  /\ \/ UNCHANGED jobs
     \/ CleanJobs(t) /\ th[t].pc = "clean" /\ th'[t].pc = "maps" /\ jobs' \subseteq jobs
Stopping(t) ==
  /\ Deciding(t) /\ th'[t].pc = "patch"
  /\ th[t].pc = "check" => th'[t].patch.hash \in {None, th[t].status.hash}
  /\ th[t].pc # "check" => th'[t].patch.hash \in {None, th[t].input}
  /\ UNCHANGED cr
  /\ \/ UNCHANGED jobs
     \/ /\ th[t].pc = "job" /\ th'[t].patch.hash = th[t].input
        /\ \E j \in JobRecord : jobs' = jobs \cup {j} /\ j.name = th[t].name
Patching(t) ==
  /\ th[t].pc = "patch" /\ th'[t].pc = "idle"
  /\ UNCHANGED jobs /\ cr'.generation = cr.generation
  /\ cr'.status.hash = IF th[t].patch.hash # None THEN th[t].patch.hash ELSE cr.status.hash
Failing(t) == Deciding(t) /\ th'[t].pc = "idle" /\ UNCHANGED <<cr, jobs>>
Moves(t) ==
  /\ Starting(t) \/ Continuing(t) \/ Stopping(t) \/ Patching(t) \/ Failing(t)
  /\ \A u \in Threads \ {t} : th'[u] = th[u]
  /\ UNCHANGED bucket /\ (Crashes' <=> Crashes)

LEMMA PcCases ==
  ASSUME TypeOK, NEW t \in Threads
  PROVE  th[t].pc \in {"idle", "patch"} \/ Deciding(t)
<1>1. th[t] \in ThreadRecord
  BY TypeSplit
<1>2. th[t].pc \in {"idle", "check", "list", "clean", "maps", "decide", "prerequisites",
                    "map", "job", "patch"}
  BY <1>1 DEF ThreadRecord
<1> QED BY <1>2 DEF Deciding, Listing

LEMMA StepMoves ==
  ASSUME TInv, NEW t \in Threads, ThreadStep(t)
  PROVE  Moves(t)
<1>0. TypeOK /\ th \in [Threads -> ThreadRecord]
  BY TypeSplit DEF TInv
<1>1. UNCHANGED bucket /\ (Crashes' <=> Crashes)
  BY DEF ThreadStep, Begin, Check, List, CleanJobs, CleanMaps, Decide, Prerequisites,
         CreateConfigMap, CreateJob, ApplyPatch, ApiFails, environment, Crashes
<1>2. ASSUME NEW r \in ThreadRecord, Step(t, r)
      PROVE  th'[t] = r /\ \A u \in Threads \ {t} : th'[u] = th[u]
  BY <1>0, <1>2, StepFacts
<1>3. CASE Begin(t)
  <2>1. PICK r \in ThreadRecord :
          Step(t, r) /\ r.pc = "check" /\ r.status = cr.status /\ r.generation = cr.generation
    BY <1>0, <1>3, BeginNext
  <2>2. UNCHANGED <<cr, jobs>> /\ th[t].pc = "idle"
    BY <1>0, <1>3, BeginNext
  <2> QED BY <1>1, <1>2, <2>1, <2>2 DEF Moves, Starting
<1>4. CASE Check(t)
  <2>1. UNCHANGED <<cr, jobs>> /\ th[t].pc = "check"
    BY <1>4, CheckNext
  <2>2. PICK r \in ThreadRecord :
          /\ Step(t, r)
          /\ \/ r.pc = "patch" /\ r.patch.hash \in {None, th[t].status.hash}
             \/ /\ r.pc = "list" /\ r.status = th[t].status /\ r.generation = th[t].generation
                /\ r.status.hash \in {None, r.input}
    BY <1>4, CheckNext
  <2>3. th'[t] = r /\ \A u \in Threads \ {t} : th'[u] = th[u]
    BY <1>2, <2>2
  <2>4. CASE r.pc = "patch"
    <3>1. Stopping(t)
      BY <2>1, <2>2, <2>3, <2>4 DEF Stopping, Deciding
    <3> QED BY <1>1, <2>3, <3>1 DEF Moves
  <2>5. CASE r.pc = "list"
    <3>1. Continuing(t)
      BY <2>1, <2>2, <2>3, <2>5 DEF Continuing, Deciding, Listing
    <3> QED BY <1>1, <2>3, <3>1 DEF Moves
  <2> QED BY <2>2, <2>4, <2>5
<1>5. CASE List(t)
  <2>1. UNCHANGED <<cr, jobs>> /\ th[t].pc = "list"
    BY <1>5, ListNext
  <2>2. PICK r \in ThreadRecord :
          /\ Step(t, r) /\ r.pc = "clean" /\ r.found = jobs
          /\ r.status = th[t].status /\ r.generation = th[t].generation /\ r.input = th[t].input
          /\ r.name = job_name(th[t].input, th[t].generation, bucket)
    BY <1>5, ListNext
  <2>3. th'[t] = r /\ \A u \in Threads \ {t} : th'[u] = th[u]
    BY <1>2, <2>2
  <2>4. Continuing(t)
    BY <2>1, <2>2, <2>3 DEF Continuing, Deciding, Listing
  <2> QED BY <1>1, <2>3, <2>4 DEF Moves
<1>6. ASSUME NEW r \in ThreadRecord, Step(t, r), th[t].pc \in Listing \ {"list"},
             r.pc \in Listing \ {"list", "clean"}, UNCHANGED cr,
             r.status = th[t].status, r.generation = th[t].generation, r.input = th[t].input,
             r.name = th[t].name,
             \/ UNCHANGED jobs
             \/ CleanJobs(t) /\ th[t].pc = "clean" /\ r.pc = "maps" /\ jobs' \subseteq jobs
      PROVE  Moves(t)
  <2>1. th'[t] = r /\ \A u \in Threads \ {t} : th'[u] = th[u]
    BY <1>2, <1>6
  <2>2. Continuing(t)
    BY <1>6, <2>1 DEF Continuing, Deciding, Listing
  <2> QED BY <1>1, <2>1, <2>2 DEF Moves
<1>7. ASSUME NEW r \in ThreadRecord, Step(t, r), th[t].pc \in Listing, r.pc = "patch",
             r.patch.hash \in {None, th[t].input}, UNCHANGED cr,
             \/ UNCHANGED jobs
             \/ /\ th[t].pc = "job" /\ r.patch.hash = th[t].input
                /\ \E j \in JobRecord : jobs' = jobs \cup {j} /\ j.name = th[t].name
      PROVE  Moves(t)
  <2>1. th'[t] = r /\ \A u \in Threads \ {t} : th'[u] = th[u]
    BY <1>2, <1>7
  <2>2. Stopping(t)
    BY <1>7, <2>1 DEF Stopping, Deciding, Listing
  <2> QED BY <1>1, <2>1, <2>2 DEF Moves
<1>8. CASE CleanJobs(t)
  <2>1. UNCHANGED cr /\ th[t].pc = "clean" /\ jobs' \subseteq jobs
    BY <1>8, CleanJobsNext
  <2>2. PICK r \in ThreadRecord :
          /\ Step(t, r) /\ r.pc = "maps"
          /\ r.status = th[t].status /\ r.generation = th[t].generation
          /\ r.input = th[t].input /\ r.name = th[t].name
    BY <1>8, CleanJobsNext
  <2> QED BY <1>6, <1>8, <2>1, <2>2 DEF Listing
<1>9. CASE CleanMaps(t)
  <2>1. UNCHANGED <<cr, jobs>> /\ th[t].pc = "maps"
    BY <1>9, CleanMapsNext
  <2>2. PICK r \in ThreadRecord :
          /\ Step(t, r) /\ r.pc = "decide"
          /\ r.status = th[t].status /\ r.generation = th[t].generation
          /\ r.input = th[t].input /\ r.name = th[t].name
    BY <1>9, CleanMapsNext
  <2> QED BY <1>6, <2>1, <2>2 DEF Listing
<1>10. CASE Decide(t)
  <2>1. UNCHANGED <<cr, jobs>> /\ th[t].pc = "decide"
    BY <1>10, DecideNext
  <2>2. PICK r \in ThreadRecord :
          /\ Step(t, r)
          /\ \/ r.pc = "patch" /\ r.patch.hash \in {None, th[t].input}
             \/ /\ r.pc = "prerequisites"
                /\ r.status = th[t].status /\ r.generation = th[t].generation
                /\ r.input = th[t].input /\ r.name = th[t].name
    BY <1>10, DecideNext
  <2> QED BY <1>6, <1>7, <2>1, <2>2 DEF Listing
<1>11. CASE Prerequisites(t)
  <2>1. UNCHANGED <<cr, jobs>> /\ th[t].pc = "prerequisites"
    BY <1>11, PrerequisitesNext
  <2>2. PICK r \in ThreadRecord :
          /\ Step(t, r)
          /\ \/ r.pc = "patch" /\ r.patch.hash = None
             \/ /\ r.pc = "map"
                /\ r.status = th[t].status /\ r.generation = th[t].generation
                /\ r.input = th[t].input /\ r.name = th[t].name
    BY <1>11, PrerequisitesNext
  <2> QED BY <1>6, <1>7, <2>1, <2>2 DEF Listing
<1>12. CASE CreateConfigMap(t)
  <2>1. UNCHANGED <<cr, jobs>> /\ th[t].pc = "map"
    BY <1>12, CreateConfigMapNext
  <2>2. PICK r \in ThreadRecord :
          /\ Step(t, r) /\ r.pc = "job"
          /\ r.status = th[t].status /\ r.generation = th[t].generation
          /\ r.input = th[t].input /\ r.name = th[t].name
    BY <1>12, CreateConfigMapNext
  <2> QED BY <1>6, <2>1, <2>2 DEF Listing
<1>13. CASE CreateJob(t)
  <2>1. /\ UNCHANGED cr /\ th[t].pc = "job"
        /\ \/ jobs' = jobs
           \/ \E j \in JobRecord : jobs' = jobs \cup {j} /\ j.name = th[t].name
    BY <1>13, CreateJobNext
  <2>2. PICK r \in ThreadRecord : Step(t, r) /\ r.pc = "patch" /\ r.patch.hash = th[t].input
    BY <1>13, CreateJobNext
  <2> QED BY <1>7, <2>1, <2>2 DEF Listing
<1>14. CASE ApplyPatch(t)
  <2>1. /\ UNCHANGED jobs /\ th[t].pc = "patch" /\ Step(t, Idle) /\ th[t].patch \in Statuses
        /\ cr'.status = Merged(th[t].patch) /\ cr'.generation = cr.generation
    BY <1>14, ApplyPatchNext
  <2>2. cr'.status.hash = IF th[t].patch.hash # None THEN th[t].patch.hash ELSE cr.status.hash
    BY <1>0, <2>1, MergedFacts
  <2>3. th'[t].pc = "idle" /\ \A u \in Threads \ {t} : th'[u] = th[u]
    BY <1>2, <2>1, IdleType
  <2> QED BY <1>1, <2>1, <2>2, <2>3 DEF Moves, Patching
<1>15. CASE ApiFails(t)
  <2>1. UNCHANGED <<cr, jobs>> /\ th[t].pc # "patch" /\ Step(t, Idle)
    BY <1>15, ApiFailsNext
  <2>2. th[t].pc # "idle"
    BY <1>15 DEF ApiFails
  <2>3. Deciding(t)
    BY <1>0, <2>1, <2>2, PcCases
  <2>4. th'[t].pc = "idle" /\ \A u \in Threads \ {t} : th'[u] = th[u]
    BY <1>2, <2>1, IdleType
  <2> QED BY <1>1, <2>1, <2>3, <2>4 DEF Moves, Failing
<1> QED BY <1>3, <1>4, <1>5, <1>8, <1>9, <1>10, <1>11, <1>12, <1>13, <1>14, <1>15 DEF ThreadStep

\* What a thread knows of its input and its name.
LEMMA Known ==
  ASSUME TInv, NEW t \in Threads
  PROVE  /\ th[t].pc \in Listing =>
              th[t].input \in Inputs /\ th[t].input # None /\ th[t].status.hash \in {None, th[t].input}
         /\ th[t].pc \in Listing \ {"list"} =>
              th[t].name \in Names /\ th[t].name.input = th[t].input
<1>1. ThreadOK(t)
  BY DEF TInv, InputInv
<1> QED BY <1>1, NoneAssumption DEF ThreadOK

LEMMA Numbers ==
  ASSUME TypeOK, TimesInv
  PROVE  /\ bucket \in Nat /\ cr.generation \in Nat
         /\ \A t \in Threads : th[t].generation \in Nat
         /\ \A j \in jobs : /\ j.name \in Names /\ j.name.generation \in Nat /\ j.name.bucket \in Nat
                            /\ j.name.input # None
<1>1. \A t \in Threads : th[t] \in ThreadRecord
  BY TypeSplit
<1>2. \A j \in jobs : j \in JobRecord
  BY TypeSplit
<1>3. \A j \in jobs : j.name \in Names
  BY <1>2 DEF JobRecord
<1>4. \A n \in Names : n.generation \in Nat /\ n.bucket \in Nat
  BY DEF Names
<1> QED BY <1>1, <1>3, <1>4, TypeSplit, NameNotNone DEF ThreadRecord

\* A step that leaves threads and the status as they are.
LEMMA LateStays ==
  ASSUME TInv, LateInv, UNCHANGED th, Crashes' <=> Crashes, cr'.status = cr.status,
         cr'.generation \in Nat, cr'.generation >= cr.generation,
         bucket' \in Nat, bucket' >= bucket,
         \A j \in jobs' : \E k \in jobs : k.name = j.name,
         \A k \in jobs : \E j \in jobs' : j.name = k.name /\ (Finished(k) => Finished(j))
  PROVE  LateInv'
<1>0. /\ TypeOK /\ bucket \in Nat /\ cr.generation \in Nat
      /\ \A t \in Threads : th[t].generation \in Nat
      /\ \A j \in jobs : j.name.generation \in Nat /\ j.name.bucket \in Nat
  BY Numbers DEF LateInv, TInv
<1>1. TimesInv'
  <2>1. ASSUME NEW j \in jobs'
        PROVE  j.name.generation <= cr'.generation /\ j.name.bucket <= bucket'
    <3>1. PICK k \in jobs : k.name = j.name
      OBVIOUS
    <3>2. k.name.generation <= cr.generation /\ k.name.bucket <= bucket
      BY DEF LateInv, TimesInv
    <3>3. k.name.generation <= cr'.generation /\ k.name.bucket <= bucket'
      BY <1>0, <3>2
    <3> QED BY <3>1, <3>3
  <2>2. ASSUME NEW t \in Threads
        PROVE  /\ Deciding(t) => th[t].generation <= cr'.generation
               /\ th[t].pc \in Listing \ {"list"} =>
                    th[t].name.generation = th[t].generation /\ th[t].name.bucket <= bucket'
               /\ th[t].pc = "clean" => \A j \in th[t].found : j.name.bucket <= th[t].name.bucket
    <3>1. Deciding(t) => th[t].generation <= cr'.generation
      <4>1. Deciding(t) => th[t].generation <= cr.generation
        BY DEF LateInv, TimesInv
      <4> QED BY <1>0, <4>1
    <3>2. ASSUME th[t].pc \in Listing \ {"list"}
          PROVE  th[t].name.generation = th[t].generation /\ th[t].name.bucket <= bucket'
      <4>1. /\ th[t].name.generation = th[t].generation /\ th[t].name.bucket <= bucket
            /\ th[t].name \in Names
        BY <3>2, Known DEF LateInv, TimesInv
      <4>2. th[t].name.bucket \in Nat
        BY <4>1 DEF Names
      <4> QED BY <1>0, <4>1, <4>2
    <3>3. th[t].pc = "clean" => \A j \in th[t].found : j.name.bucket <= th[t].name.bucket
      BY DEF LateInv, TimesInv
    <3> QED BY <3>1, <3>2, <3>3
  <2> QED BY <2>1, <2>2 DEF TimesInv, Deciding
<1>2. HashesInv'
  <2>1. jobs' # {} => jobs # {}
    OBVIOUS
  <2> QED BY <2>1 DEF LateInv, HashesInv, Deciding, Follower
<1>3. ASSUME NEW t \in Threads, NEW n \in Names, Turned(t, n)
      PROVE  Turned(t, n)'
  <2>1. n.bucket \in Nat /\ n.generation \in Nat
    BY DEF Names
  <2>2. bucket > n.bucket => bucket' > n.bucket
    BY <1>0, <2>1
  <2>3. cr.generation > n.generation => cr'.generation > n.generation
    BY <1>0, <2>1
  <2> QED BY <1>3, <2>2, <2>3 DEF Turned
<1>4. ASSUME ~Crashes', NEW t \in Threads, th[t].pc = "clean", NEW j \in th[t].found,
             Finished(j), j.name # th[t].name
      PROVE  \/ \E k \in jobs' : k.name = j.name /\ Finished(k)
             \/ ~Named(jobs, j.name)' /\ \A u \in Threads \ {t} : Turned(u, j.name)'
  <2>1. CASE \E k \in jobs : k.name = j.name /\ Finished(k)
    BY <2>1
  <2>2. CASE ~Named(jobs, j.name) /\ \A u \in Threads \ {t} : Turned(u, j.name)
    <3>1. j \in JobRecord
      BY <1>0, TypeSplit DEF ThreadRecord
    <3>2. j.name \in Names
      BY <3>1 DEF JobRecord
    <3>3. ~Named(jobs, j.name)'
      BY <2>2 DEF Named
    <3> QED BY <1>3, <2>2, <3>2, <3>3
  <2> QED BY <1>4, <2>1, <2>2 DEF LateInv, SpareInv
<1>5. SpareInv'
  BY <1>4 DEF SpareInv
<1> QED BY <1>1, <1>2, <1>5 DEF LateInv

LEMMA TimesStep ==
  ASSUME TInv, TypeOK', LateInv, NEW t \in Threads, Moves(t)
  PROVE  TimesInv'
<1>0. /\ TypeOK /\ TimesInv /\ bucket \in Nat /\ cr.generation \in Nat
      /\ \A u \in Threads : th[u].generation \in Nat
  BY Numbers DEF LateInv, TInv
<1>1. cr'.generation = cr.generation /\ UNCHANGED bucket
  BY DEF Moves, Starting, Continuing, Stopping, Patching, Failing
<1>2. ASSUME NEW j \in jobs'
      PROVE  j.name.generation <= cr.generation /\ j.name.bucket <= bucket
  <2>1. CASE j \in jobs
    BY <1>0, <2>1 DEF TimesInv
  <2>2. CASE j \notin jobs
    <3>1. th[t].pc = "job" /\ j.name = th[t].name
      BY <1>2, <2>2 DEF Moves, Starting, Continuing, Stopping, Patching, Failing
    <3> QED BY <1>0, <3>1 DEF TimesInv, Deciding, Listing
  <2> QED BY <2>1, <2>2
<1>3. ASSUME NEW u \in Threads
      PROVE  /\ Deciding(u)' => th'[u].generation <= cr.generation
             /\ th'[u].pc \in Listing \ {"list"} =>
                  th'[u].name.generation = th'[u].generation /\ th'[u].name.bucket <= bucket
             /\ th'[u].pc = "clean" => \A j \in th'[u].found : j.name.bucket <= th'[u].name.bucket
  <2>1. CASE u # t
    <3>1. th'[u] = th[u]
      BY <2>1 DEF Moves
    <3> QED BY <1>0, <3>1 DEF TimesInv, Deciding
  <2>2. CASE u = t /\ Starting(t)
    <3>1. th'[u].pc = "check" /\ th'[u].generation = cr.generation
      BY <2>2 DEF Starting
    <3> QED BY <1>0, <3>1 DEF Listing
  <2>3. CASE u = t /\ Continuing(t)
    <3>1. th'[u].generation = th[u].generation /\ th[u].generation <= cr.generation
      BY <1>0, <2>3 DEF Continuing, TimesInv
    <3>2. CASE th[u].pc = "check"
      BY <2>3, <3>1, <3>2 DEF Continuing
    <3>3. CASE th[u].pc = "list"
      <4>1. th'[u].found = jobs /\ th'[u].name = job_name(th[u].input, th[u].generation, bucket)
        BY <2>3, <3>3 DEF Continuing
      <4>2. th'[u].name.generation = th[u].generation /\ th'[u].name.bucket = bucket
        BY <4>1 DEF job_name
      <4> QED BY <1>0, <3>1, <4>1, <4>2 DEF TimesInv
    <3>4. CASE th[u].pc \in Listing \ {"list"}
      <4>1. th'[u].pc # "clean" /\ th'[u].name = th[u].name
        BY <2>3, <3>4 DEF Continuing
      <4> QED BY <1>0, <3>1, <3>4, <4>1 DEF TimesInv
    <3> QED BY <2>3, <3>2, <3>3, <3>4 DEF Continuing, Deciding
  <2>4. CASE u = t /\ (Stopping(t) \/ Patching(t) \/ Failing(t))
    <3>1. th'[u].pc \in {"idle", "patch"}
      BY <2>4 DEF Stopping, Patching, Failing
    <3> QED BY <3>1 DEF Deciding, Listing
  <2> QED BY <2>1, <2>2, <2>3, <2>4 DEF Moves
<1> QED BY <1>1, <1>2, <1>3 DEF TimesInv

\* The Jobs that a step may add.
LEMMA NewJob ==
  ASSUME TInv, NEW t \in Threads, Moves(t), NEW j \in jobs', j \notin jobs
  PROVE  /\ Stopping(t) /\ th[t].pc = "job" /\ j.name = th[t].name
         /\ th'[t].pc = "patch" /\ th'[t].patch.hash = j.name.input /\ j.name.input # None
<1>1. /\ Stopping(t) /\ th[t].pc = "job" /\ j.name = th[t].name
      /\ th'[t].pc = "patch" /\ th'[t].patch.hash = th[t].input
  BY DEF Moves, Starting, Continuing, Stopping, Patching, Failing
<1>2. th[t].name.input = th[t].input /\ th[t].input # None
  BY <1>1, Known DEF Listing
<1> QED BY <1>1, <1>2

\* Who has followed a Job goes on to do so.
LEMMA FollowerStep ==
  ASSUME TInv, LateInv, NEW t \in Threads, Moves(t),
         NEW j \in jobs, Follower(t, j.name)
  PROVE  Follower(t, j.name)'
<1>0. TypeOK /\ TimesInv /\ j.name.input # None /\ j.name.generation <= cr.generation
  BY Numbers DEF LateInv, TimesInv, TInv
<1>1. CASE Starting(t)
  <2>1. /\ th[t].pc = "idle" /\ th'[t].pc = "check" /\ th'[t].status = cr.status
        /\ th'[t].generation = cr.generation /\ UNCHANGED cr
    BY <1>1 DEF Starting
  <2>2. cr.status.hash = j.name.input
    BY <2>1 DEF Follower
  <2>3. th'[t].generation >= j.name.generation
    <3>1. cr.generation \in Nat /\ j.name.generation \in Nat
      BY <1>0, Numbers
    <3> QED BY <1>0, <2>1, <3>1
  <2> QED BY <2>1, <2>2, <2>3 DEF Follower
<1>2. CASE Continuing(t)
  <2>1. /\ Deciding(t) /\ th'[t].pc \notin {"idle", "patch"} /\ th'[t].status = th[t].status
        /\ th'[t].generation = th[t].generation /\ UNCHANGED cr
    BY <1>2 DEF Continuing, Listing
  <2> QED BY <2>1 DEF Follower
<1>3. CASE Stopping(t)
  <2>1. /\ Deciding(t) /\ th'[t].pc = "patch" /\ UNCHANGED cr
        /\ th[t].pc = "check" => th'[t].patch.hash \in {None, th[t].status.hash}
        /\ th[t].pc # "check" => th'[t].patch.hash \in {None, th[t].input}
    BY <1>3 DEF Stopping
  <2>2. cr.status.hash = j.name.input /\ th[t].status.hash = j.name.input
    BY <2>1 DEF Follower
  <2>3. th[t].pc # "check" => th[t].input = j.name.input
    BY <1>0, <2>1, <2>2, Known DEF Deciding
  <2>4. ~Deciding(t)'
    BY <2>1 DEF Deciding, Listing
  <2> QED BY <2>1, <2>2, <2>3, <2>4 DEF Follower
<1>4. CASE Patching(t)
  <2>1. /\ th[t].pc = "patch" /\ th'[t].pc = "idle"
        /\ cr'.status.hash = IF th[t].patch.hash # None THEN th[t].patch.hash ELSE cr.status.hash
    BY <1>4 DEF Patching
  <2>2. ~Deciding(t)'
    BY <2>1 DEF Deciding, Listing
  <2> QED BY <1>0, <2>1, <2>2 DEF Follower
<1>5. CASE Failing(t)
  <2>1. Deciding(t) /\ th'[t].pc = "idle" /\ UNCHANGED cr
    BY <1>5 DEF Failing
  <2>2. ~Deciding(t)'
    BY <2>1 DEF Deciding, Listing
  <2> QED BY <2>1, <2>2 DEF Follower
<1> QED BY <1>1, <1>2, <1>3, <1>4, <1>5 DEF Moves

LEMMA HashesStep ==
  ASSUME TInv, LateInv, NEW t \in Threads, Moves(t)
  PROVE  HashesInv'
<1> SUFFICES ASSUME ~Crashes'
             PROVE  HashesInv'
  BY DEF HashesInv
<1>0. /\ TypeOK /\ TimesInv /\ HashesInv /\ ~Crashes
      /\ \A u \in Threads \ {t} : th'[u] = th[u]
  BY DEF LateInv, TInv, Moves
<1>1. ASSUME jobs' # {}
      PROVE  \/ cr'.status.hash # None
             \/ \E u \in Threads : th'[u].pc = "patch" /\ th'[u].patch.hash # None
  <2>1. CASE \E j \in jobs' : j \notin jobs
    BY <2>1, NewJob
  <2>2. CASE jobs' \subseteq jobs /\ cr.status.hash # None
    BY <2>2 DEF Moves, Starting, Continuing, Stopping, Patching, Failing
  <2>3. ASSUME jobs' \subseteq jobs, NEW u \in Threads, th[u].pc = "patch", th[u].patch.hash # None
        PROVE  \/ cr'.status.hash # None
               \/ \E v \in Threads : th'[v].pc = "patch" /\ th'[v].patch.hash # None
    <3>1. CASE u # t
      BY <1>0, <2>3, <3>1
    <3>2. CASE u = t
      <4>1. Patching(t)
        BY <2>3, <3>2 DEF Moves, Starting, Continuing, Stopping, Patching, Failing, Deciding, Listing
      <4> QED BY <2>3, <3>2, <4>1 DEF Patching
    <3> QED BY <3>1, <3>2
  <2>4. jobs' \subseteq jobs => jobs # {}
    BY <1>1
  <2> QED BY <1>0, <2>1, <2>2, <2>3, <2>4 DEF HashesInv
<1>2. ASSUME NEW u \in Threads, NEW v \in Threads, u # v, Deciding(u)', Deciding(v)'
      PROVE  cr'.status.hash \in {th'[u].status.hash, th'[v].status.hash}
  <2>1. CASE t \notin {u, v}
    <3>1. FALSE
      BY <1>2, <2>1 DEF Threads
    <3> QED BY <3>1
  <2>2. ASSUME NEW a \in Threads, a # t, Deciding(a)', Deciding(t)'
        PROVE  cr'.status.hash \in {th'[a].status.hash, th'[t].status.hash}
    <3>1. th'[a] = th[a] /\ Deciding(a)
      BY <1>0, <2>2 DEF Deciding
    <3>2. CASE Starting(t)
      BY <3>2 DEF Starting
    <3>3. CASE Continuing(t)
      <4>1. Deciding(t) /\ th'[t].status = th[t].status /\ UNCHANGED cr
        BY <3>3 DEF Continuing
      <4>2. cr.status.hash \in {th[a].status.hash, th[t].status.hash}
        BY <1>0, <2>2, <3>1, <4>1 DEF HashesInv
      <4> QED BY <3>1, <4>1, <4>2
    <3>4. CASE Stopping(t) \/ Patching(t) \/ Failing(t)
      <4>1. th'[t].pc \in {"idle", "patch"}
        BY <3>4 DEF Stopping, Patching, Failing
      <4> QED BY <2>2, <4>1 DEF Deciding, Listing
    <3> QED BY <3>2, <3>3, <3>4 DEF Moves
  <2>3. CASE t = u
    BY <1>2, <2>2, <2>3
  <2>4. CASE t = v
    BY <1>2, <2>2, <2>4
  <2> QED BY <2>1, <2>3, <2>4
<1>3. ASSUME NEW j \in jobs', NEW u \in Threads, NEW v \in Threads, u # v, Deciding(v)',
             th'[v].generation < j.name.generation
      PROVE  Follower(u, j.name)'
  <2>1. CASE j \notin jobs
    <3>1. CASE u = t
      <4>1. th'[t].pc = "patch" /\ th'[t].patch.hash = j.name.input
        BY <2>1, NewJob
      <4>2. ~Deciding(t)'
        BY <4>1 DEF Deciding, Listing
      <4> QED BY <3>1, <4>1, <4>2 DEF Follower
    <3>2. CASE u # t
      <4>1. v = t /\ th'[t].pc = "patch"
        BY <1>3, <2>1, <3>2, NewJob DEF Threads
      <4> QED BY <1>3, <4>1 DEF Deciding, Listing
    <3> QED BY <3>1, <3>2
  <2>2. CASE j \in jobs /\ u = t
    <3>1. th'[v] = th[v] /\ Deciding(v)
      BY <1>0, <1>3, <2>2 DEF Deciding
    <3>2. Follower(t, j.name)
      BY <1>0, <1>3, <2>2, <3>1 DEF HashesInv
    <3> QED BY <2>2, <3>2, FollowerStep
  <2>3. CASE j \in jobs /\ v = t
    <3>1. CASE Starting(t)
      <4>1. th'[t].generation = cr.generation /\ j.name.generation <= cr.generation
        BY <1>0, <2>3, <3>1 DEF Starting, TimesInv
      <4>2. cr.generation \in Nat /\ j.name.generation \in Nat
        BY <1>0, <2>3, Numbers
      <4> QED BY <1>3, <2>3, <4>1, <4>2
    <3>2. CASE Continuing(t)
      <4>1. /\ Deciding(t) /\ th'[t].generation = th[t].generation /\ UNCHANGED cr
            /\ th'[u] = th[u]
        BY <1>0, <1>3, <2>3, <3>2 DEF Continuing
      <4>2. Follower(u, j.name)
        BY <1>0, <1>3, <2>3, <4>1 DEF HashesInv
      <4> QED BY <4>1, <4>2 DEF Follower, Deciding
    <3>3. CASE Stopping(t) \/ Patching(t) \/ Failing(t)
      <4>1. th'[t].pc \in {"idle", "patch"}
        BY <3>3 DEF Stopping, Patching, Failing
      <4> QED BY <1>3, <2>3, <4>1 DEF Deciding, Listing
    <3> QED BY <3>1, <3>2, <3>3 DEF Moves
  <2>4. t \in {u, v}
    BY <1>3 DEF Threads
  <2> QED BY <2>1, <2>2, <2>3, <2>4
<1> QED BY <1>1, <1>2, <1>3 DEF HashesInv

\* A thread that will not make the Job again goes on not to.
LEMMA TurnedStep ==
  ASSUME TInv, LateInv, NEW t \in Threads, Moves(t), NEW n \in Names, Turned(t, n)
  PROVE  Turned(t, n)'
<1>0. /\ TypeOK /\ UNCHANGED bucket /\ cr'.generation = cr.generation
      /\ n.input # None /\ n.generation \in Nat /\ n.bucket \in Nat
      /\ bucket \in Nat /\ cr.generation \in Nat /\ th[t].generation \in Nat
  BY Numbers, NameNotNone DEF TInv, LateInv, Moves, Starting, Continuing, Stopping, Patching, Failing,
     Names
<1>1. CASE Starting(t)
  <2>1. /\ th'[t].pc = "check" /\ th'[t].status = cr.status /\ th'[t].generation = cr.generation
        /\ UNCHANGED cr
    BY <1>1 DEF Starting
  <2> QED BY <1>0, <2>1 DEF Turned, Listing
<1>2. CASE Continuing(t)
  <2>1. /\ Deciding(t) /\ th'[t].pc \in Listing /\ th'[t].status = th[t].status
        /\ th'[t].generation = th[t].generation /\ UNCHANGED cr
    BY <1>2 DEF Continuing
  <2>2. CASE th[t].pc = "check"
    <3>1. th'[t].pc = "list" /\ th[t].status.hash \in {None, th'[t].input}
      BY <1>2, <2>1, <2>2 DEF Continuing
    <3> QED BY <1>0, <2>1, <2>2, <3>1 DEF Turned
  <2>3. CASE th[t].pc = "list"
    <3>1. /\ th'[t].pc = "clean" /\ th'[t].input = th[t].input
          /\ th'[t].name = job_name(th[t].input, th[t].generation, bucket)
      BY <1>2, <2>3 DEF Continuing
    <3>2. /\ th'[t].name.input = th[t].input /\ th'[t].name.generation = th[t].generation
          /\ th'[t].name.bucket = bucket
      BY <3>1 DEF job_name
    <3>3. th'[t].name # n
      <4>1. CASE bucket > n.bucket
        BY <1>0, <3>2, <4>1
      <4>2. CASE th[t].generation > n.generation
        BY <1>0, <3>2, <4>2
      <4>3. CASE th[t].input # n.input
        BY <3>2, <4>3
      <4> QED BY <2>3, <4>1, <4>2, <4>3 DEF Turned, Listing
    <3> QED BY <1>0, <2>1, <2>3, <3>1, <3>3 DEF Turned, Listing
  <2>4. CASE th[t].pc \in Listing \ {"list"}
    <3>1. /\ th'[t].pc \notin {"list", "clean", "check", "patch"} /\ th'[t].name = th[t].name
          /\ th'[t].input = th[t].input
      BY <1>2, <2>1, <2>4 DEF Continuing, Listing
    <3> QED BY <1>0, <2>1, <2>4, <3>1 DEF Turned
  <2> QED BY <2>1, <2>2, <2>3, <2>4 DEF Deciding
<1>3. CASE Stopping(t)
  <2>1. /\ Deciding(t) /\ th'[t].pc = "patch" /\ UNCHANGED cr
        /\ th[t].pc = "check" => th'[t].patch.hash \in {None, th[t].status.hash}
        /\ th[t].pc # "check" => th'[t].patch.hash \in {None, th[t].input}
    BY <1>3 DEF Stopping
  <2>2. th[t].pc = "check" \/ th[t].pc \in Listing
    BY <2>1 DEF Deciding
  <2> QED BY <1>0, <2>1, <2>2 DEF Turned, Listing
<1>4. CASE Patching(t)
  <2>1. /\ th[t].pc = "patch" /\ th'[t].pc = "idle"
        /\ cr'.status.hash = IF th[t].patch.hash # None THEN th[t].patch.hash ELSE cr.status.hash
    BY <1>4 DEF Patching
  <2> QED BY <1>0, <2>1 DEF Turned, Listing
<1>5. CASE Failing(t)
  <2>1. th'[t].pc = "idle" /\ UNCHANGED cr
    BY <1>5 DEF Failing
  <2> QED BY <1>0, <2>1 DEF Turned, Listing
<1> QED BY <1>1, <1>2, <1>3, <1>4, <1>5 DEF Moves

\* A Job that both threads have listed and that neither is about: once one of them has
\* removed it, that thread will not make it again.
LEMMA TurnedNow ==
  ASSUME TInv, LateInv, ~Crashes, NEW t \in Threads, NEW u \in Threads, t # u,
         th[t].pc = "clean", th[u].pc = "clean",
         NEW k \in jobs, k.name # th[t].name, k.name # th[u].name,
         \E j \in th[t].found : j.name = k.name, \E j \in th[u].found : j.name = k.name,
         bucket <= k.name.bucket, cr.generation <= k.name.generation
  PROVE  cr.status.hash \notin {None, k.name.input} /\ th[u].input # k.name.input
<1> DEFINE n == k.name
<1>0. TypeOK /\ TimesInv /\ HashesInv
  BY DEF LateInv, TInv
<1>1. /\ n \in Names /\ n.input # None /\ n.generation \in Nat /\ n.bucket \in Nat
      /\ n.generation <= cr.generation /\ n.bucket <= bucket
      /\ bucket \in Nat /\ cr.generation \in Nat
  BY <1>0, Numbers DEF TimesInv
<1>2. cr.generation = n.generation /\ bucket = n.bucket
  BY <1>1
<1>3. ASSUME NEW v \in {t, u}
      PROVE  /\ Deciding(v) /\ th[v].name \in Names /\ th[v].name.input = th[v].input
             /\ th[v].input # None /\ th[v].status.hash \in {None, th[v].input}
             /\ th[v].name.generation = th[v].generation
             /\ th[v].name.bucket = n.bucket /\ th[v].generation \in Nat
             /\ th[v].generation <= n.generation
  <2>1. /\ Deciding(v) /\ th[v].name \in Names /\ th[v].name.input = th[v].input
        /\ th[v].input # None /\ th[v].status.hash \in {None, th[v].input}
    BY <1>3, Known DEF Deciding, Listing
  <2>2. /\ th[v].name.generation = th[v].generation /\ th[v].name.bucket <= bucket
        /\ \E j \in th[v].found : j.name = n /\ j.name.bucket <= th[v].name.bucket
        /\ th[v].generation <= cr.generation
    BY <1>0, <1>3, <2>1 DEF TimesInv, Listing
  <2>3. th[v].name.bucket \in Nat /\ th[v].generation \in Nat
    BY <1>0, <1>3, <2>1, Numbers DEF Names
  <2>4. th[v].name.bucket = n.bucket
    BY <1>1, <1>2, <2>2, <2>3
  <2> QED BY <1>2, <2>1, <2>2, <2>3, <2>4
<1>4. \A v \in {t, u} : th[v].generation = n.generation => th[v].input # n.input
  <2>1. ASSUME NEW v \in {t, u}, th[v].generation = n.generation, th[v].input = n.input
        PROVE  th[v].name = n
    <3>1. th[v].name.generation = n.generation /\ th[v].name.input = n.input
          /\ th[v].name.bucket = n.bucket /\ th[v].name \in Names
      BY <1>3, <2>1
    <3> HIDE DEF n
    <3> QED BY <1>1, <3>1 DEF Names
  <2> QED BY <2>1
<1>5. ASSUME NEW v \in {t, u}, NEW w \in {t, u}, v # w, th[v].generation < n.generation
      PROVE  FALSE
  <2>1. Follower(w, n)
    BY <1>0, <1>3, <1>5 DEF HashesInv
  <2>2. th[w].status.hash = n.input /\ th[w].generation >= n.generation
    BY <1>3, <2>1 DEF Follower
  <2>3. th[w].generation = n.generation
    BY <1>1, <1>3, <2>2
  <2>4. th[w].input = n.input
    BY <1>1, <1>3, <2>2
  <2> QED BY <1>4, <2>3, <2>4
<1>6. th[t].generation = n.generation /\ th[u].generation = n.generation
  <2>1. ~(th[t].generation < n.generation) /\ ~(th[u].generation < n.generation)
    BY <1>5
  <2> QED BY <1>1, <1>3, <2>1
<1>7. th[t].input # n.input /\ th[u].input # n.input
  BY <1>4, <1>6
<1>8. cr.status.hash # None
  <2>1. \A v \in Threads : th[v].pc # "patch"
    BY DEF Threads
  <2>2. jobs # {}
    OBVIOUS
  <2> QED BY <1>0, <2>1, <2>2 DEF HashesInv
<1>9. cr.status.hash \in {th[t].status.hash, th[u].status.hash}
  BY <1>0, <1>3 DEF HashesInv
<1>10. cr.status.hash # n.input
  BY <1>3, <1>7, <1>8, <1>9
<1> QED BY <1>7, <1>8, <1>10

\* What the history removes was listed as finished, and is not current.
LEMMA Removed ==
  ASSUME NEW t \in Threads, CleanJobs(t), NEW k \in jobs, k \notin jobs'
  PROVE  /\ \A j \in jobs' : j.name # k.name
         /\ \E j \in th[t].found : j.name = k.name /\ Finished(j)
         /\ k.name # th[t].name
<1>1. jobs' = {j \in jobs : j.name \notin {i.name : i \in th[t].found} \ Retained(t)}
  BY DEF CleanJobs
<1>2. k.name \in {i.name : i \in th[t].found} /\ k.name \notin Retained(t)
  BY <1>1
<1>3. \A j \in jobs' : j.name # k.name
  BY <1>1, <1>2
<1>4. PICK j \in th[t].found : j.name = k.name
  BY <1>2
<1>5. k.name \notin Mandatory(t) \cup Unfinished(th[t].found)
  BY <1>2, RetainedFacts
<1>6. Finished(j) /\ k.name # th[t].name
  BY <1>4, <1>5 DEF Mandatory, Unfinished
<1> QED BY <1>3, <1>4, <1>6

LEMMA SpareStep ==
  ASSUME TInv, LateInv, NEW t \in Threads, Moves(t)
  PROVE  SpareInv'
<1>0. /\ TypeOK /\ SpareInv /\ \A u \in Threads \ {t} : th'[u] = th[u]
      /\ th \in [Threads -> ThreadRecord] /\ (Crashes' <=> Crashes)
  BY TypeSplit DEF LateInv, TInv, Moves
<1>1. ASSUME ~Crashes', NEW u \in Threads, th'[u].pc = "clean", NEW j \in th'[u].found,
             Finished(j), j.name # th'[u].name
      PROVE  \/ \E k \in jobs' : k.name = j.name /\ Finished(k)
             \/ ~Named(jobs, j.name)' /\ \A v \in Threads \ {u} : Turned(v, j.name)'
  <2>1. CASE u = t
    <3>1. Continuing(t) /\ th[t].pc = "list"
      BY <1>1, <2>1 DEF Moves, Starting, Continuing, Stopping, Patching, Failing, Deciding
    <3>2. th'[t].found = jobs /\ jobs' = jobs
      BY <3>1 DEF Continuing
    <3> QED BY <1>1, <2>1, <3>2
  <2>2. CASE u # t
    <3>1. th'[u] = th[u] /\ j \in th[u].found /\ th[u].pc = "clean" /\ j.name # th[u].name
      BY <1>0, <1>1, <2>2
    <3>2. j.name \in Names
      <4>1. j \in JobRecord
        BY <1>0, <3>1 DEF ThreadRecord
      <4> QED BY <4>1 DEF JobRecord
    <3>3. \A v \in Threads \ {u} : v = t
      BY <2>2 DEF Threads
    <3>4. CASE \E k \in jobs : k.name = j.name /\ Finished(k)
      <4>1. PICK k \in jobs : k.name = j.name /\ Finished(k)
        BY <3>4
      <4>2. CASE k \in jobs'
        BY <4>1, <4>2
      <4>3. CASE k \notin jobs'
        <5>1. /\ CleanJobs(t) /\ th[t].pc = "clean" /\ th'[t].pc = "maps" /\ UNCHANGED cr
              /\ th'[t].name = th[t].name /\ th'[t].input = th[t].input
          BY <4>1, <4>3 DEF Moves, Starting, Continuing, Stopping, Patching, Failing, Listing
        <5>2. /\ ~Named(jobs, j.name)' /\ k.name # th[t].name
              /\ \E i \in th[t].found : i.name = k.name
          BY <4>1, <4>3, <5>1, Removed DEF Named
        <5>3. UNCHANGED bucket
          BY DEF Moves
        <5>4. CASE bucket > k.name.bucket \/ cr.generation > k.name.generation
          <6>1. Turned(t, j.name)'
            BY <4>1, <5>1, <5>2, <5>3, <5>4 DEF Turned
          <6> QED BY <3>3, <5>2, <6>1
        <5>5. CASE ~(bucket > k.name.bucket \/ cr.generation > k.name.generation)
          <6>1. bucket <= k.name.bucket /\ cr.generation <= k.name.generation
            <7>1. /\ bucket \in Nat /\ cr.generation \in Nat
                  /\ k.name.generation \in Nat /\ k.name.bucket \in Nat
              BY <1>0, <4>1, Numbers DEF LateInv
            <7> QED BY <5>5, <7>1
          <6>2. cr.status.hash \notin {None, k.name.input} /\ th[t].input # k.name.input
            BY <1>0, <1>1, <2>2, <3>1, <4>1, <5>1, <5>2, <6>1, TurnedNow
          <6>3. Turned(t, j.name)'
            BY <4>1, <5>1, <5>2, <5>3, <6>2 DEF Turned
          <6> QED BY <3>3, <5>2, <6>3
        <5> QED BY <5>4, <5>5
      <4> QED BY <4>2, <4>3
    <3>5. CASE ~Named(jobs, j.name) /\ \A v \in Threads \ {u} : Turned(v, j.name)
      <4>1. Turned(t, j.name) /\ ~Named(jobs, j.name)
        BY <2>2, <3>5
      <4>2. Turned(t, j.name)'
        BY <3>2, <4>1, TurnedStep
      <4>3. ~Named(jobs, j.name)'
        <5>1. ASSUME NEW k \in jobs', k \notin jobs
              PROVE  k.name # j.name
          <6>1. th[t].pc = "job" /\ k.name = th[t].name
            BY <5>1, NewJob
          <6> QED BY <4>1, <6>1 DEF Turned, Listing
        <5> QED BY <4>1, <5>1 DEF Named
      <4> QED BY <3>3, <4>2, <4>3
    <3> QED BY <1>0, <1>1, <3>1, <3>4, <3>5 DEF SpareInv
  <2> QED BY <2>1, <2>2
<1> QED BY <1>1 DEF SpareInv

LEMMA LateStep ==
  ASSUME TInv, LateInv, [Next]_vars
  PROVE  LateInv'
<1>0. TypeOK /\ TypeOK' /\ cr.generation \in Nat /\ bucket \in Nat
  BY TypeStep, CrFields, TypeSplit DEF TInv
<1>1. ASSUME UNCHANGED <<cr, bucket, jobs, th, past>>
      PROVE  LateInv'
  BY <1>0, <1>1, LateStays DEF Crashes
<1>2. ASSUME NEW j \in jobs, JobsStep(j)
      PROVE  LateInv'
  <2>1. UNCHANGED <<cr, th, past>>
    BY <1>0, <1>2, JobsStepNext
  <2>2. PICK job \in JobRecord : SetJob(j, job) /\ Follows(job, j)
    BY <1>0, <1>2, JobsStepSets
  <2>3. jobs' = (jobs \ {j}) \cup {job} /\ UNCHANGED bucket
    BY <2>2 DEF SetJob, environment
  <2>4. /\ \A i \in jobs' : \E k \in jobs : k.name = i.name
        /\ \A k \in jobs : \E i \in jobs' : i.name = k.name /\ (Finished(k) => Finished(i))
    BY <2>2, <2>3 DEF Follows
  <2> QED BY <1>0, <2>1, <2>3, <2>4, LateStays DEF Crashes
<1>3. ASSUME NEW t \in Threads, ThreadStep(t)
      PROVE  LateInv'
  BY <1>0, <1>3, StepMoves, TimesStep, HashesStep, SpareStep DEF LateInv
<1>4. CASE Restart
  <2>1. /\ UNCHANGED <<jobs, bucket>> /\ cr'.generation = cr.generation
        /\ \A t \in Threads : th'[t] = Idle
        /\ Crashes'
    BY <1>0, <1>4, RestartNext DEF Crashes
  <2>2. \A t \in Threads : th'[t].pc = "idle"
    BY <2>1, IdleType
  <2>3. TimesInv'
    BY <2>1, <2>2 DEF LateInv, TimesInv, Deciding, Listing
  <2> QED BY <2>1, <2>3 DEF LateInv, HashesInv, SpareInv
<1>5. CASE UNCHANGED vars
  BY <1>1, <1>5 DEF vars, environment
<1>6. CASE UserEdits \/ ProfileChanges \/ ProjectChanges \/ SecretsChange \/ NextInterval
  <2>1. /\ cr'.status = cr.status /\ UNCHANGED <<jobs, configMaps, th, past>>
        /\ cr'.generation >= cr.generation /\ bucket' >= bucket
    BY <1>0, <1>6, EnvironmentNext
  <2>2. cr'.generation \in Nat /\ bucket' \in Nat
    BY <1>0 DEF TypeOK
  <2> QED BY <2>1, <2>2, LateStays DEF Crashes
<1> QED BY <1>2, <1>3, <1>4, <1>5, <1>6, StepCases

LEMMA LateInit == Init => LateInv
<1> SUFFICES ASSUME Init
             PROVE  LateInv
  OBVIOUS
<1>1. PICK start \in Starts :
        /\ bucket = start.done
        /\ jobs = {DoneJob(start, i) : i \in 1 .. start.done}
        /\ cr = [spec |-> start.spec, generation |-> 1, due |-> start.done = 0,
                 status |-> IF start.done = 0 THEN NoStatus ELSE DoneStatus(start)]
  BY DEF Init
<1>2. \A t \in Threads : th[t].pc = "idle"
  BY IdleType DEF Init
<1>3. start.done \in Nat
  BY StartAssumption
<1>4. ASSUME NEW j \in jobs
      PROVE  j.name.generation <= cr.generation /\ j.name.bucket <= bucket
  <2>1. PICK i \in 1 .. start.done : j = DoneJob(start, i)
    BY <1>1
  <2>2. j.name.generation = 1 /\ j.name.bucket = i
    BY <2>1 DEF DoneJob, job_name
  <2>3. cr.generation = 1
    BY <1>1
  <2> QED BY <1>1, <1>3, <2>2, <2>3
<1>5. jobs # {} => cr.status.hash # None
  <2>1. ASSUME jobs # {}
        PROVE  cr.status.hash # None
    <3>1. start.done # 0
      BY <1>1, <1>3, <2>1
    <3>2. cr.status = DoneStatus(start)
      BY <1>1, <3>1
    <3>3. cr.status.hash = DoneJob(start, start.done).result
      BY <3>2 DEF DoneStatus
    <3>4. cr.status.hash \in Inputs
      <4>1. start.spec \in Specs /\ start.profile \in Profiles /\ start.project \in Projects
        BY StartAssumption
      <4>2. DoneJob(start, start.done).result
              = ProvisioningInput(start.spec, start.profile, start.project)
        BY DEF DoneJob
      <4> QED BY <3>3, <4>1, <4>2, InputInputs
    <3> QED BY <3>4, NoneAssumption
  <2> QED BY <2>1
<1>6. TimesInv
  BY <1>2, <1>4 DEF TimesInv, Deciding, Listing
<1>7. HashesInv
  BY <1>2, <1>5 DEF HashesInv, Deciding, Listing
<1>8. SpareInv
  BY <1>2 DEF SpareInv
<1> QED BY <1>6, <1>7, <1>8 DEF LateInv

LEMMA LateAlways == Spec => [](IInv /\ LateInv)
<1>1. Init => LateInv
  BY LateInit
<1>2. IInv /\ LateInv /\ [Next]_vars => LateInv'
  BY LateStep DEF IInv
<1> QED BY <1>1, <1>2, Inductive, PTL DEF Spec

\* What cleanup_history deletes has nothing left to do: the list that it was given is of
\* the Jobs there are, or the Jobs that were made since have other names.
LEMMA CleaningSpares ==
  ASSUME IInv, LateInv, ~Overlaps \/ ~Crashes, NEW t \in Threads, CleanJobs(t)
  PROVE  \A n \in Unfinished(jobs) : Named(jobs', n)
<1>0. TInv /\ TypeOK /\ KeptInv
  BY DEF IInv, TInv
<1>1. /\ th[t].pc = "clean"
      /\ \A j \in jobs : j.name \in Unfinished(th[t].found) => j \in jobs'
  BY <1>0, CleanJobsNext
<1>2. CASE ~Overlaps
  <2>1. Unfinished(jobs) \subseteq Unfinished(th[t].found)
    BY <1>0, <1>1, <1>2 DEF KeptInv
  <2>2. \A n \in Unfinished(jobs) : \E j \in jobs : j.name = n
    BY DEF Unfinished
  <2> QED BY <1>1, <2>1, <2>2 DEF Named
<1>3. CASE ~Crashes
  <2>1. ASSUME NEW k \in jobs, ~Finished(k), k \notin jobs'
        PROVE  FALSE
    <3>1. PICK j \in th[t].found : j.name = k.name /\ Finished(j) /\ k.name # th[t].name
      BY <2>1, Removed
    <3>2. \/ \E i \in jobs : i.name = k.name /\ Finished(i)
          \/ ~Named(jobs, k.name)
      BY <1>1, <1>3, <3>1 DEF LateInv, SpareInv
    <3>3. \A i \in jobs : i.name = k.name => i = k
      BY <1>0, TypeSplit
    <3> QED BY <2>1, <3>2, <3>3 DEF Named
  <2> QED BY <2>1 DEF Unfinished, Named
<1> QED BY <1>2, <1>3

\* No Job that has work to do is removed, although cleanup_history decides from a list
\* (kube.py:223) that the other thread and the Job controller have outrun: while the
\* threads have not run at the same time, or the controller has not been restarted, none
\* finishes, is removed and is made anew between that list and what is deleted.
THEOREM UnfinishedAreSpared == Spec => RunningSpared
<1>1. ASSUME IInv, LateInv, [Next]_vars, ~Overlaps \/ ~Crashes
      PROVE  \A n \in Unfinished(jobs) : Named(jobs', n)
  <2>0. TInv /\ TypeOK
    BY <1>1 DEF IInv, TInv
  <2>1. ASSUME jobs \subseteq jobs'
        PROVE  \A n \in Unfinished(jobs) : Named(jobs', n)
    BY <2>1 DEF Unfinished, Named
  <2>2. ASSUME NEW j \in jobs, JobsStep(j)
        PROVE  \A n \in Unfinished(jobs) : Named(jobs', n)
    <3>1. PICK job \in JobRecord : SetJob(j, job) /\ Follows(job, j)
      BY <2>0, <2>2, JobsStepSets
    <3> QED BY <3>1 DEF SetJob, Follows, Unfinished, Named
  <2>3. ASSUME NEW t \in Threads, CleanJobs(t)
        PROVE  \A n \in Unfinished(jobs) : Named(jobs', n)
    BY <1>1, <2>3, CleaningSpares
  <2>4. ASSUME NEW t \in Threads, ThreadStep(t), ~CleanJobs(t)
        PROVE  jobs \subseteq jobs'
    BY <2>0, <2>4, BeginNext, CheckNext, ListNext, CleanMapsNext, DecideNext, PrerequisitesNext,
       CreateConfigMapNext, CreateJobNext, ApplyPatchNext, ApiFailsNext DEF ThreadStep
  <2>5. CASE Restart
    BY <2>0, <2>1, <2>5, RestartNext
  <2>6. CASE UNCHANGED vars
    BY <2>1, <2>6 DEF vars
  <2>7. CASE UserEdits \/ ProfileChanges \/ ProjectChanges \/ SecretsChange \/ NextInterval
    BY <2>0, <2>1, <2>7, EnvironmentNext
  <2> QED BY <1>1, <2>1, <2>2, <2>3, <2>4, <2>5, <2>6, <2>7, StepCases
<1>2. IInv /\ LateInv /\ [Next]_vars =>
        [~({"overlap", "crash"} \subseteq past) => \A n \in Unfinished(jobs) : Named(jobs', n)]_vars
  BY <1>1 DEF Overlaps, Crashes
<1> QED BY <1>2, LateAlways, PTL DEF Spec, RunningSpared

-----------------------------------------------------------------------------
(* The worker.  What the invariant says is about a store R of instances, "res" now or *)
(* after the step.                                                                   *)

Store == [Items -> Seq(Instance)]

\* How a step may change an instance of a resource of some kind: its maker stays, its
\* owner once it has one, and what is done for it.
Grows(kind, r, s) ==
  /\ s.maker = r.maker /\ (r.uid # Nobody => s.uid = r.uid)
  /\ kind = "router" => s.links # {} \/ r.links = {}
  /\ kind = "group" => r.rules \subseteq s.rules
  /\ kind = "volume" => s.state = "in-use" \/ r.state # "in-use"
  /\ kind = "server" => s.state = "active" \/ r.state # "active"

\* No instance is lost, and each one changes as it may.
Evolves(R, S) ==
  \A x \in Items :
    /\ Len(R[x]) <= Len(S[x])
    /\ \A k \in 1 .. Len(R[x]) : Grows(x[1], R[x][k], S[x][k])

\* An instance is its maker's or nobody's; what it is linked to is its maker's; a server
\* has a volume and a port, and the volume of one that is active is attached.
Fine(R, x, r) ==
  /\ r.maker # Nobody /\ r.uid \in {Nobody, r.maker}
  /\ x[1] \in {"volume", "server"} => r.uid = r.maker
  /\ \A l \in r.links :
       l[1] \in Items /\ l[2] \in 1 .. Len(R[l[1]]) /\ R[l[1]][l[2]].uid = r.maker
  /\ x[1] = "server" =>
       /\ <<"volume", x[2]>> \in Items /\ <<"port", x[2]>> \in Items
       /\ \E i \in 1 .. Len(R[<<"volume", x[2]>>]), j \in 1 .. Len(R[<<"port", x[2]>>]) :
            /\ r.links = {<< <<"volume", x[2]>>, i >>, << <<"port", x[2]>>, j >>}
            /\ r.state = "active" => R[<<"volume", x[2]>>][i].state = "in-use"
FineIn(R) == \A x \in Items : \A k \in 1 .. Len(R[x]) : Fine(R, x, R[x][k])

\* The instance that a Pod works with is its own.
Mine(R, v, x) ==
  /\ x \in Items
  /\ v.got[x] \in 1 .. Len(R[x]) /\ R[x][v.got[x]].maker = v.uid
  /\ x[1] # "keypair" => R[x][v.got[x]].uid = v.uid

\* What a step of the plan has brought about.
Holds(R, v, y) ==
  /\ y \in Items => Mine(R, v, y)
  /\ y[1] = "router" => R[y][v.got[y]].links # {}
  /\ y[1] = "rule" =>
       /\ Mine(R, v, <<"group", y[2]>>)
       /\ Rules(y[2]) \subseteq R[<<"group", y[2]>>][v.got[<<"group", y[2]>>]].rules
  /\ y[1] = "server" =>
       /\ Mine(R, v, <<"volume", y[2]>>)
       /\ R[y][v.got[y]].state = "active"
       /\ R[<<"volume", y[2]>>][v.got[<<"volume", y[2]>>]].state = "in-use"

\* All steps before the one a Pod is at have been taken, and so has half of this one.
Begun(R, v) ==
  LET x == Plan[v.at]
  IN  /\ v.pc = "create" => x \in Items /\ x[1] # "server"
      /\ v.pc = "tag" => /\ x \in Items /\ x[1] \in Tagged
                         /\ v.got[x] \in 1 .. Len(R[x]) /\ R[x][v.got[x]].maker = v.uid
      /\ v.pc = "link" => x[1] \in {"router", "fip", "port"} /\ Mine(R, v, x)
      /\ v.pc = "wait" => x[1] = "volume" /\ Mine(R, v, x)
Works(R, v) ==
  /\ v.uid # Nobody
  /\ \A x \in Items : v.got[x] \in 0 .. Len(R[x])
  /\ \A i \in 1 .. v.at - 1 : Holds(R, v, Plan[i])
  /\ Begun(R, v)
WorksInv == \A p \in Pods : Running(p) => Works(res, pod[p])

\* What has been published stays.
Stands(R, u, x) ==
  \E k \in 1 .. Len(R[x]) :
    LET r == R[x][k]
    IN  /\ r.maker = u /\ (x[1] = "keypair" \/ r.uid = u)
        /\ x[1] = "router" => r.links # {}
        /\ x[1] = "group" => Rules(x[2]) \subseteq r.rules
        /\ x[1] = "volume" => r.state = "in-use"
        /\ x[1] = "server" => r.state = "active"
StandsInv == \A u \in published : \A x \in Items : Stands(res, u, x)

CompleteInv == WorkerTypeOK /\ FineIn(res) /\ WorksInv /\ StandsInv

-----------------------------------------------------------------------------
(* The plan. *)

LEMMA NodesTyped ==
  /\ Len(Nodes) \in Nat
  /\ \A i \in 1 .. Len(Nodes) : Nodes[i] # "jumphost"
  /\ \A i, j \in 1 .. Len(Nodes) : Nodes[i] = Nodes[j] => i = j
<1>1. Nodes \in Seq(STRING \ {"jumphost"})
  BY NodesAssumption DEF Nodes
<1>2. DOMAIN Nodes = 1 .. Len(Nodes)
  BY <1>1
<1>3. \A i, j \in DOMAIN Nodes : Nodes[i] = Nodes[j] => i = j
  BY NodesAssumption DEF Nodes, IsInjective
<1> QED BY <1>1, <1>2, <1>3

LEMMA PlanDomain == LastStep \in Nat /\ LastStep >= 25 /\ DOMAIN Plan = 1 .. LastStep
<1>1. LastStep \in Nat /\ LastStep >= 25
  BY NodesTyped DEF LastStep
<1> QED BY <1>1 DEF Plan

LEMMA PlanCases ==
  ASSUME NEW i \in 1 .. LastStep
  PROVE  i \in 1 .. 24 \/ i \in 25 .. LastStep - 1 \/ i = LastStep
BY PlanDomain

LEMMA PlanFirst == \A i \in 1 .. 24 : Plan[i] = First[i]
BY PlanDomain DEF Plan

LEMMA PlanNodes == \A i \in 25 .. LastStep - 1 : Plan[i] = NodeStep(i - 25)
BY PlanDomain DEF Plan

LEMMA PlanLast == Plan[LastStep] = << "publish", "none" >>
BY PlanDomain DEF Plan

LEMMA FirstSteps ==
  /\ First[1] = << "network", "none" >> /\ First[2] = << "subnet", "none" >>
  /\ First[3] = << "external", "none" >> /\ First[4] = << "router", "none" >>
  /\ First[5] = << "group", "cluster" >> /\ First[6] = << "group", "jumphost" >>
  /\ First[7] = << "group", "api" >> /\ First[8] = << "group", "ingress" >>
  /\ First[9] = << "rule", "cluster" >> /\ First[10] = << "rule", "jumphost" >>
  /\ First[11] = << "rule", "api" >> /\ First[12] = << "rule", "ingress" >>
  /\ First[13] = << "rules", "none" >> /\ First[14] = << "keypair", "none" >>
  /\ First[15] = << "image", "none" >> /\ First[16] = << "vip", "api" >>
  /\ First[17] = << "vip", "ingress" >> /\ First[18] = << "fip", "api" >>
  /\ First[19] = << "fip", "ingress" >> /\ First[20] = << "find", "jumphost" >>
  /\ First[21] = << "volume", "jumphost" >> /\ First[22] = << "port", "jumphost" >>
  /\ First[23] = << "server", "jumphost" >> /\ First[24] = << "fip", "jumphost" >>
BY DEF First

\* The steps of a node are four in a row.
LEMMA NodeSteps ==
  ASSUME NEW i \in 25 .. LastStep - 1
  PROVE  \E n \in 1 .. Len(Nodes), k \in 1 .. 4 :
           i = 20 + 4 * n + k /\ Plan[i] = << Stages[k], Nodes[n] >>
<1>1. PICK m \in Nat : m = Len(Nodes) /\ LastStep = 25 + 4 * m
  BY NodesTyped DEF LastStep
<1>2. PICK n \in Int, k \in Int : n = ((i - 25) \div 4) + 1 /\ k = ((i - 25) % 4) + 1
  BY <1>1
<1>3. n \in 1 .. m /\ k \in 1 .. 4 /\ i = 20 + 4 * n + k
  BY <1>1, <1>2
<1>4. Plan[i] = << Stages[k], Nodes[n] >>
  BY <1>1, <1>2, PlanNodes DEF NodeStep
<1> QED BY <1>1, <1>3, <1>4

LEMMA NodeStepAt ==
  ASSUME NEW n \in 1 .. Len(Nodes), NEW k \in 1 .. 4
  PROVE  20 + 4 * n + k \in 25 .. LastStep - 1 /\ Plan[20 + 4 * n + k] = << Stages[k], Nodes[n] >>
<1>1. PICK m \in Nat : m = Len(Nodes) /\ LastStep = 25 + 4 * m
  BY NodesTyped DEF LastStep
<1>2. PICK i \in Int : i = 20 + 4 * n + k /\ i \in 25 .. LastStep - 1
  BY <1>1
<1>3. ((i - 25) \div 4) + 1 = n /\ ((i - 25) % 4) + 1 = k
  BY <1>1, <1>2
<1> QED BY <1>2, <1>3, PlanNodes DEF NodeStep

LEMMA PhaseNames == Stages[1] = "find" /\ Stages[2] = "volume" /\ Stages[3] = "port" /\ Stages[4] = "server"
BY DEF Stages

LEMMA FirstPlan ==
  ASSUME NEW i \in 1 .. 24
  PROVE  \/ i = 1 /\ Plan[i][1] = "network" /\ Plan[i][2] = "none"
         \/ i = 2 /\ Plan[i][1] = "subnet" /\ Plan[i][2] = "none"
         \/ i = 3 /\ Plan[i][1] = "external" /\ Plan[i][2] = "none"
         \/ i = 4 /\ Plan[i][1] = "router" /\ Plan[i][2] = "none"
         \/ i = 5 /\ Plan[i][1] = "group" /\ Plan[i][2] = "cluster"
         \/ i = 6 /\ Plan[i][1] = "group" /\ Plan[i][2] = "jumphost"
         \/ i = 7 /\ Plan[i][1] = "group" /\ Plan[i][2] = "api"
         \/ i = 8 /\ Plan[i][1] = "group" /\ Plan[i][2] = "ingress"
         \/ i = 9 /\ Plan[i][1] = "rule" /\ Plan[i][2] = "cluster"
         \/ i = 10 /\ Plan[i][1] = "rule" /\ Plan[i][2] = "jumphost"
         \/ i = 11 /\ Plan[i][1] = "rule" /\ Plan[i][2] = "api"
         \/ i = 12 /\ Plan[i][1] = "rule" /\ Plan[i][2] = "ingress"
         \/ i = 13 /\ Plan[i][1] = "rules" /\ Plan[i][2] = "none"
         \/ i = 14 /\ Plan[i][1] = "keypair" /\ Plan[i][2] = "none"
         \/ i = 15 /\ Plan[i][1] = "image" /\ Plan[i][2] = "none"
         \/ i = 16 /\ Plan[i][1] = "vip" /\ Plan[i][2] = "api"
         \/ i = 17 /\ Plan[i][1] = "vip" /\ Plan[i][2] = "ingress"
         \/ i = 18 /\ Plan[i][1] = "fip" /\ Plan[i][2] = "api"
         \/ i = 19 /\ Plan[i][1] = "fip" /\ Plan[i][2] = "ingress"
         \/ i = 20 /\ Plan[i][1] = "find" /\ Plan[i][2] = "jumphost"
         \/ i = 21 /\ Plan[i][1] = "volume" /\ Plan[i][2] = "jumphost"
         \/ i = 22 /\ Plan[i][1] = "port" /\ Plan[i][2] = "jumphost"
         \/ i = 23 /\ Plan[i][1] = "server" /\ Plan[i][2] = "jumphost"
         \/ i = 24 /\ Plan[i][1] = "fip" /\ Plan[i][2] = "jumphost"
<1>1. Plan[i] = First[i]
  BY PlanFirst
<1>2. CASE i \in 1 .. 8
  BY <1>1, <1>2, FirstSteps
<1>3. CASE i \in 9 .. 16
  BY <1>1, <1>3, FirstSteps
<1>4. CASE i \in 17 .. 24
  BY <1>1, <1>4, FirstSteps
<1> QED BY <1>2, <1>3, <1>4

\* A step of the plan has two parts.
LEMMA PlanPairs ==
  ASSUME NEW i \in 1 .. LastStep
  PROVE  Plan[i] = << Plan[i][1], Plan[i][2] >>
<1>1. CASE i \in 1 .. 24
  <2>1. Plan[i] = First[i]
    BY <1>1, PlanFirst
  <2>2. CASE i \in 1 .. 8
    BY <2>1, <2>2, FirstSteps
  <2>3. CASE i \in 9 .. 16
    BY <2>1, <2>3, FirstSteps
  <2>4. CASE i \in 17 .. 24
    BY <2>1, <2>4, FirstSteps
  <2> QED BY <1>1, <2>2, <2>3, <2>4
<1>2. CASE i \in 25 .. LastStep - 1
  <2>1. PICK n \in 1 .. Len(Nodes), k \in 1 .. 4 : Plan[i] = << Stages[k], Nodes[n] >>
    BY <1>2, NodeSteps
  <2> QED BY <2>1
<1>3. CASE i = LastStep
  BY <1>3, PlanLast
<1> QED BY <1>1, <1>2, <1>3, PlanCases

\* What a step needs has been made by an earlier one.
Needs(y) ==
  CASE y[1] = "subnet" -> {<<"network", "none">>}
    [] y[1] \in {"router", "vip", "port"} -> {<<"subnet", "none">>, <<"network", "none">>}
    [] y[1] = "rule" -> {<<"group", y[2]>>}
    [] y[1] = "fip" -> {PortOf(y[2]), <<"network", "none">>}
    [] y[1] = "server" -> {<<"volume", y[2]>>, <<"port", y[2]>>}
    [] OTHER -> {}
Before(i, z) == \E j \in 1 .. i - 1 : Plan[j] = z

LEMMA NeedsAreMet ==
  ASSUME NEW i \in 1 .. LastStep
  PROVE  \A z \in Needs(Plan[i]) : Before(i, z)
<1>1. ASSUME i > 2
      PROVE  Before(i, <<"network", "none">>) /\ Before(i, <<"subnet", "none">>)
  <2>1. Plan[1] = <<"network", "none">> /\ Plan[2] = <<"subnet", "none">>
    BY PlanFirst, FirstSteps
  <2>2. 1 \in 1 .. i - 1 /\ 2 \in 1 .. i - 1
    BY <1>1, PlanDomain
  <2> QED BY <2>1, <2>2 DEF Before
<1>2. CASE i \in 1 .. 24
  <2>1. CASE i = 2
    <3>1. Plan[1] = <<"network", "none">> /\ 1 \in 1 .. i - 1
      BY <2>1, PlanFirst, FirstSteps
    <3>2. Needs(Plan[i]) = {<<"network", "none">>}
      BY <2>1, FirstPlan DEF Needs
    <3> QED BY <3>1, <3>2 DEF Before
  <2>2. CASE Plan[i][1] \in {"router", "vip", "port"}
    <3>1. i > 2
      BY <1>2, <2>2, FirstPlan
    <3>2. Needs(Plan[i]) = {<<"subnet", "none">>, <<"network", "none">>}
      BY <2>2 DEF Needs
    <3> QED BY <1>1, <3>1, <3>2
  <2>3. CASE Plan[i][1] = "rule"
    <3>1. Plan[5] = <<"group", "cluster">> /\ Plan[6] = <<"group", "jumphost">>
          /\ Plan[7] = <<"group", "api">> /\ Plan[8] = <<"group", "ingress">>
      BY PlanFirst, FirstSteps
    <3>2. i \in 9 .. 12 /\ Plan[i - 4] = <<"group", Plan[i][2]>>
      BY <1>2, <2>3, <3>1, FirstPlan
    <3>3. Needs(Plan[i]) = {<<"group", Plan[i][2]>>} /\ i - 4 \in 1 .. i - 1
      BY <2>3, <3>2 DEF Needs
    <3> QED BY <3>2, <3>3 DEF Before
  <2>4. CASE Plan[i][1] = "fip"
    <3>1. Plan[16] = <<"vip", "api">> /\ Plan[17] = <<"vip", "ingress">> /\ Plan[22] = <<"port", "jumphost">>
      BY PlanFirst, FirstSteps
    <3>2. i \in {18, 19, 24} /\ Plan[i - 2] = PortOf(Plan[i][2])
      BY <1>2, <2>4, <3>1, FirstPlan DEF PortOf
    <3>3. Needs(Plan[i]) = {PortOf(Plan[i][2]), <<"network", "none">>} /\ i - 2 \in 1 .. i - 1 /\ i > 2
      BY <2>4, <3>2 DEF Needs
    <3> QED BY <1>1, <3>2, <3>3 DEF Before
  <2>5. CASE Plan[i][1] = "server"
    <3>1. Plan[21] = <<"volume", "jumphost">> /\ Plan[22] = <<"port", "jumphost">>
      BY PlanFirst, FirstSteps
    <3>2. i = 23 /\ Plan[i][2] = "jumphost"
      BY <1>2, <2>5, FirstPlan
    <3>3. /\ Needs(Plan[i]) = {<<"volume", "jumphost">>, <<"port", "jumphost">>}
          /\ 21 \in 1 .. i - 1 /\ 22 \in 1 .. i - 1
      BY <2>5, <3>2 DEF Needs
    <3> QED BY <3>1, <3>3 DEF Before
  <2>6. CASE Plan[i][1] = "subnet"
    BY <1>2, <2>1, <2>6, FirstPlan
  <2>7. CASE Plan[i][1] \notin {"router", "vip", "port", "rule", "fip", "server", "subnet"}
    BY <2>7 DEF Needs
  <2> QED BY <2>2, <2>3, <2>4, <2>5, <2>6, <2>7
<1>3. CASE i \in 25 .. LastStep - 1
  <2>1. PICK n \in 1 .. Len(Nodes), k \in 1 .. 4 : i = 20 + 4 * n + k /\ Plan[i] = << Stages[k], Nodes[n] >>
    BY <1>3, NodeSteps
  <2>2. n \in Nat /\ n >= 1
    BY NodesTyped
  <2>3. CASE k \in {1, 2}
    <3>1. Plan[i][1] \in {"find", "volume"}
      BY <2>1, <2>3, PhaseNames
    <3> QED BY <3>1 DEF Needs
  <2>4. CASE k = 3
    <3>1. Plan[i][1] = "port" /\ i > 2
      BY <2>1, <2>2, <2>4, PhaseNames
    <3>2. Needs(Plan[i]) = {<<"subnet", "none">>, <<"network", "none">>}
      BY <3>1 DEF Needs
    <3> QED BY <1>1, <3>1, <3>2
  <2>5. CASE k = 4
    <3>1. Plan[i][1] = "server" /\ Plan[i][2] = Nodes[n]
      BY <2>1, <2>5, PhaseNames
    <3>2. Needs(Plan[i]) = {<<"volume", Nodes[n]>>, <<"port", Nodes[n]>>}
      BY <3>1 DEF Needs
    <3>3. Plan[20 + 4 * n + 2] = <<"volume", Nodes[n]>> /\ Plan[20 + 4 * n + 3] = <<"port", Nodes[n]>>
      <4>1. 2 \in 1 .. 4 /\ 3 \in 1 .. 4
        OBVIOUS
      <4> QED BY <4>1, NodeStepAt, PhaseNames
    <3>4. 20 + 4 * n + 2 \in 1 .. i - 1 /\ 20 + 4 * n + 3 \in 1 .. i - 1
      BY <2>1, <2>2, <2>5
    <3> QED BY <3>2, <3>3, <3>4 DEF Before
  <2> QED BY <2>1, <2>3, <2>4, <2>5
<1>4. CASE i = LastStep
  <2>1. Plan[i][1] = "publish"
    BY <1>4, PlanLast
  <2> QED BY <2>1 DEF Needs
<1> QED BY <1>2, <1>3, <1>4, PlanCases

\* After it has looked for a server the worker turns to its volume, its port and itself.
LEMMA ServerInARow ==
  ASSUME NEW i \in 1 .. LastStep
  PROVE  /\ Plan[i][1] = "find" => i + 3 \in 1 .. LastStep /\ Plan[i + 3] = <<"server", Plan[i][2]>>
         /\ i + 1 \in 1 .. LastStep /\ Plan[i + 1][1] \in {"volume", "port", "server"} =>
              Plan[i][1] \in {"find", "volume", "port"} /\ Plan[i][2] = Plan[i + 1][2]
         /\ Plan[i][1] = "publish" <=> i = LastStep
         /\ i # LastStep => i + 1 \in 1 .. LastStep
<1>1. i # LastStep => i + 1 \in 1 .. LastStep
  BY PlanDomain
<1>2. CASE i \in 1 .. 24
  <2>1. i < LastStep
    BY <1>2, PlanDomain
  <2>2. Plan[i][1] # "publish"
    BY <1>2, FirstPlan
  <2>3. CASE i \in 1 .. 19
    <3>1. Plan[i][1] # "find"
      BY <2>3, FirstPlan
    <3>2. i + 1 \in 1 .. 24 /\ i + 1 <= 20
      BY <2>3
    <3>3. Plan[i + 1][1] \notin {"volume", "port", "server"}
      BY <3>2, FirstPlan
    <3> QED BY <1>1, <2>1, <2>2, <3>1, <3>3
  <2>4. CASE i \in 20 .. 23
    <3>1. /\ Plan[20] = << "find", "jumphost" >> /\ Plan[21] = << "volume", "jumphost" >>
          /\ Plan[22] = << "port", "jumphost" >> /\ Plan[23] = << "server", "jumphost" >>
          /\ Plan[24] = << "fip", "jumphost" >>
      BY PlanFirst, FirstSteps
    <3>2. i = 20 => i + 3 \in 1 .. LastStep /\ Plan[i + 3] = << "server", "jumphost" >>
      BY <3>1, PlanDomain
    <3>3. i = 20 \/ i = 21 \/ i = 22 \/ i = 23
      BY <2>4
    <3>4. Plan[i][1] = "find" => i = 20 /\ Plan[i][2] = "jumphost"
      BY <3>1, <3>3
    <3>5. Plan[i + 1][1] \in {"volume", "port", "server"} =>
            Plan[i][1] \in {"find", "volume", "port"} /\ Plan[i][2] = Plan[i + 1][2]
      BY <3>1, <3>3
    <3> QED BY <1>1, <2>1, <2>2, <3>2, <3>4, <3>5
  <2>5. CASE i = 24
    <3>1. Plan[24] = <<"fip", "jumphost">>
      BY PlanFirst, FirstSteps
    <3>2. Plan[25][1] \in {"find", "publish"}
      <4>1. CASE LastStep = 25
        BY <4>1, PlanLast
      <4>2. CASE LastStep > 25
        <5>1. 25 \in 25 .. LastStep - 1
          BY <4>2, PlanDomain
        <5>2. PICK n \in 1 .. Len(Nodes), k \in 1 .. 4 :
                25 = 20 + 4 * n + k /\ Plan[25] = << Stages[k], Nodes[n] >>
          BY <5>1, NodeSteps
        <5>3. k = 1
          BY <5>2, NodesTyped
        <5> QED BY <5>2, <5>3, PhaseNames
      <4> QED BY <4>1, <4>2, PlanDomain
    <3> QED BY <1>1, <2>1, <2>5, <3>1, <3>2
  <2> QED BY <1>2, <2>3, <2>4, <2>5
<1>3. CASE i \in 25 .. LastStep - 1
  <2>1. PICK n \in 1 .. Len(Nodes), k \in 1 .. 4 : i = 20 + 4 * n + k /\ Plan[i] = << Stages[k], Nodes[n] >>
    BY <1>3, NodeSteps
  <2>2. PICK m \in Nat : m = Len(Nodes) /\ LastStep = 25 + 4 * m
    BY NodesTyped DEF LastStep
  <2>3. Plan[i][1] \in {"find", "volume", "port", "server"} /\ i < LastStep
    BY <1>3, <2>1, PhaseNames, PlanDomain
  <2>4. CASE k = 4
    <3>1. i + 1 \in 1 .. LastStep => Plan[i + 1][1] \in {"find", "publish"}
      <4>1. CASE i + 1 = LastStep
        BY <4>1, PlanLast
      <4>2. CASE i + 1 \in 25 .. LastStep - 1
        <5>1. PICK a \in 1 .. Len(Nodes), b \in 1 .. 4 :
                i + 1 = 20 + 4 * a + b /\ Plan[i + 1] = << Stages[b], Nodes[a] >>
          BY <4>2, NodeSteps
        <5>2. b = 1
          BY <2>1, <2>2, <2>4, <5>1
        <5> QED BY <5>1, <5>2, PhaseNames
      <4> QED BY <1>3, <4>1, <4>2, PlanDomain
    <3>2. Plan[i][1] = "server"
      BY <2>1, <2>4, PhaseNames
    <3> QED BY <1>1, <2>3, <3>1, <3>2
  <2>5. CASE k \in 1 .. 3
    <3>1. Plan[i + 1] = << Stages[k + 1], Nodes[n] >>
      <4>1. i + 1 = 20 + 4 * n + (k + 1) /\ k + 1 \in 1 .. 4
        BY <2>1, <2>2, <2>5
      <4> QED BY <4>1, NodeStepAt
    <3>2. k = 1 => i + 3 \in 25 .. LastStep - 1 /\ Plan[i + 3] = << "server", Nodes[n] >>
      <4>1. (k = 1 => i + 3 = 20 + 4 * n + 4) /\ 4 \in 1 .. 4
        BY <2>1, <2>2
      <4> QED BY <4>1, NodeStepAt, PhaseNames
    <3>3. i + 3 \in 25 .. LastStep - 1 => i + 3 \in 1 .. LastStep
      BY PlanDomain
    <3>4. Plan[i][1] = "find" => k = 1
      BY <2>1, <2>5, PhaseNames
    <3>5. Plan[i][1] \in {"find", "volume", "port"} /\ Plan[i][2] = Nodes[n] /\ Plan[i + 1][2] = Nodes[n]
      BY <2>1, <2>5, <3>1, PhaseNames
    <3> QED BY <1>1, <2>3, <3>2, <3>3, <3>4, <3>5
  <2> QED BY <2>4, <2>5
<1>4. CASE i = LastStep
  <2>1. Plan[i] = << "publish", "none" >> /\ i + 1 \notin 1 .. LastStep
    BY <1>4, PlanLast, PlanDomain
  <2> QED BY <1>4, <2>1
<1> QED BY <1>2, <1>3, <1>4, PlanCases

\* No step comes twice.
LEMMA PlanOnce ==
  ASSUME NEW i \in 1 .. LastStep, NEW j \in 1 .. LastStep, Plan[i] = Plan[j]
  PROVE  i = j
<1>1. LastStep \in Nat /\ LastStep >= 25
  BY PlanDomain
<1>2. Plan[i][1] = Plan[j][1] /\ Plan[i][2] = Plan[j][2]
  OBVIOUS
<1>3. ASSUME NEW a \in 25 .. LastStep - 1
      PROVE  /\ Plan[a][1] \in {"find", "volume", "port", "server"}
             /\ Plan[a][2] # "jumphost"
  <2>1. PICK n \in 1 .. Len(Nodes), k \in 1 .. 4 : Plan[a] = << Stages[k], Nodes[n] >>
    BY NodeSteps
  <2>2. Stages[k] \in {"find", "volume", "port", "server"}
    BY PhaseNames
  <2>3. Nodes[n] # "jumphost"
    BY NodesTyped
  <2> QED BY <2>1, <2>2, <2>3
<1>4. ASSUME NEW a \in 1 .. 24
      PROVE  /\ Plan[a][1] # "publish"
             /\ Plan[a][1] \in {"find", "volume", "port", "server"} => Plan[a][2] = "jumphost"
  BY FirstPlan
<1>5. Plan[LastStep][1] = "publish"
  BY PlanLast
<1>6. CASE i \in 1 .. 24 /\ j \in 1 .. 24
  <2>1. CASE i \in 1 .. 8
    BY <1>2, <1>6, <2>1, FirstPlan
  <2>2. CASE i \in 9 .. 16
    BY <1>2, <1>6, <2>2, FirstPlan
  <2>3. CASE i \in 17 .. 24
    BY <1>2, <1>6, <2>3, FirstPlan
  <2> QED BY <1>6, <2>1, <2>2, <2>3
<1>7. CASE i \in 25 .. LastStep - 1 /\ j \in 25 .. LastStep - 1
  <2>1. PICK m \in 1 .. Len(Nodes), k \in 1 .. 4 : i = 20 + 4 * m + k /\ Plan[i] = << Stages[k], Nodes[m] >>
    BY <1>7, NodeSteps
  <2>2. PICK n \in 1 .. Len(Nodes), l \in 1 .. 4 : j = 20 + 4 * n + l /\ Plan[j] = << Stages[l], Nodes[n] >>
    BY <1>7, NodeSteps
  <2>3. Stages[k] = Stages[l] /\ Nodes[m] = Nodes[n]
    BY <2>1, <2>2
  <2>4. k = l
    BY <2>3, PhaseNames
  <2>5. m = n
    BY <2>3, NodesTyped
  <2> QED BY <2>1, <2>2, <2>4, <2>5
<1>8. /\ i \in 1 .. 24 \/ i \in 25 .. LastStep - 1 \/ i = LastStep
      /\ j \in 1 .. 24 \/ j \in 25 .. LastStep - 1 \/ j = LastStep
  BY PlanCases
<1>9. ~(i \in 1 .. 24 /\ j \in 25 .. LastStep - 1) /\ ~(j \in 1 .. 24 /\ i \in 25 .. LastStep - 1)
  BY <1>2, <1>3, <1>4
<1>10. i = LastStep => j \notin 1 .. 24 /\ j \notin 25 .. LastStep - 1
  BY <1>2, <1>3, <1>4, <1>5
<1>11. j = LastStep => i \notin 1 .. 24 /\ i \notin 25 .. LastStep - 1
  BY <1>2, <1>3, <1>4, <1>5
<1> QED BY <1>6, <1>7, <1>8, <1>9, <1>10, <1>11

\* The items are steps of the plan.
LEMMA ItemSteps ==
  ASSUME NEW x
  PROVE  x \in Items <=> x[1] \in Kinds /\ \E i \in 1 .. LastStep : Plan[i] = x
<1>1. Range(Plan) = {Plan[i] : i \in 1 .. LastStep}
  BY PlanDomain DEF Range
<1> QED BY <1>1 DEF Items

LEMMA ItemPair ==
  ASSUME NEW x \in Items
  PROVE  x = << x[1], x[2] >>
<1>1. PICK i \in 1 .. LastStep : Plan[i] = x
  BY ItemSteps
<1> QED BY <1>1, PlanPairs

\* The rules of a group, and the server of a volume, come after it.
LEMMA Followed ==
  ASSUME NEW i \in 1 .. LastStep
  PROVE  /\ Plan[i][1] = "group" => \E j \in 1 .. LastStep - 1 : Plan[j] = <<"rule", Plan[i][2]>>
         /\ Plan[i][1] = "volume" => \E j \in 1 .. LastStep - 1 : Plan[j] = <<"server", Plan[i][2]>>
         /\ Plan[i][1] \in {"group", "rule"} => Plan[i][2] \in Groups
<1>1. LastStep \in Nat /\ LastStep >= 25
  BY PlanDomain
<1>2. CASE i \in 1 .. 24
  <2>1. ASSUME Plan[i][1] = "group"
        PROVE  \E j \in 1 .. LastStep - 1 : Plan[j] = <<"rule", Plan[i][2]>>
    <3>1. Plan[9] = <<"rule", "cluster">> /\ Plan[10] = <<"rule", "jumphost">>
          /\ Plan[11] = <<"rule", "api">> /\ Plan[12] = <<"rule", "ingress">>
      BY PlanFirst, FirstSteps
    <3>2. i \in 5 .. 8 /\ Plan[i + 4] = <<"rule", Plan[i][2]>>
      BY <1>2, <2>1, <3>1, FirstPlan
    <3>3. i + 4 \in 1 .. LastStep - 1
      BY <1>1, <3>2
    <3> QED BY <3>2, <3>3
  <2>2. ASSUME Plan[i][1] = "volume"
        PROVE  \E j \in 1 .. LastStep - 1 : Plan[j] = <<"server", Plan[i][2]>>
    <3>1. i = 21 /\ Plan[i][2] = "jumphost"
      BY <1>2, <2>2, FirstPlan
    <3>2. Plan[23] = <<"server", "jumphost">> /\ 23 \in 1 .. LastStep - 1
      BY <1>1, PlanFirst, FirstSteps
    <3> QED BY <3>1, <3>2
  <2>3. Plan[i][1] \in {"group", "rule"} => Plan[i][2] \in Groups
    BY <1>2, FirstPlan DEF Groups
  <2> QED BY <2>1, <2>2, <2>3
<1>3. CASE i \in 25 .. LastStep - 1
  <2>1. PICK n \in 1 .. Len(Nodes), k \in 1 .. 4 : i = 20 + 4 * n + k /\ Plan[i] = << Stages[k], Nodes[n] >>
    BY <1>3, NodeSteps
  <2>2. Plan[i][1] \in {"find", "volume", "port", "server"}
    BY <2>1, PhaseNames
  <2>3. ASSUME Plan[i][1] = "volume"
        PROVE  \E j \in 1 .. LastStep - 1 : Plan[j] = <<"server", Plan[i][2]>>
    <3>1. k = 2
      BY <2>1, <2>3, PhaseNames
    <3>2. 20 + 4 * n + 4 \in 25 .. LastStep - 1 /\ Plan[20 + 4 * n + 4] = <<"server", Nodes[n]>>
      <4>1. 4 \in 1 .. 4
        OBVIOUS
      <4> QED BY <4>1, NodeStepAt, PhaseNames
    <3>3. Plan[i][2] = Nodes[n]
      BY <2>1
    <3>4. PICK a \in Int : a = 20 + 4 * n + 4 /\ a \in 25 .. LastStep - 1
      BY <3>2
    <3>5. a \in 1 .. LastStep - 1 /\ Plan[a] = <<"server", Nodes[n]>>
      BY <1>1, <3>2, <3>4
    <3> QED BY <3>3, <3>5
  <2> QED BY <2>2, <2>3
<1>4. CASE i = LastStep
  <2>1. Plan[i][1] = "publish"
    BY <1>4, PlanLast
  <2> QED BY <2>1
<1> QED BY <1>2, <1>3, <1>4, PlanCases

\* What a step needs are items, with owners.
LEMMA NeededItems ==
  ASSUME NEW i \in 1 .. LastStep, NEW z \in Needs(Plan[i])
  PROVE  z \in Items /\ z[1] # "keypair" /\ \E j \in 1 .. i - 1 : Plan[j] = z
<1>1. PICK j \in 1 .. i - 1 : Plan[j] = z
  BY NeedsAreMet DEF Before
<1>2. j \in 1 .. LastStep
  BY <1>1, PlanDomain
<1>3. z[1] \in {"network", "subnet", "group", "vip", "volume", "port"}
  BY DEF Needs, PortOf
<1>4. z[1] \in Kinds /\ z[1] # "keypair"
  BY <1>3 DEF Kinds
<1> QED BY <1>1, <1>2, <1>4, ItemSteps

\* A server of the plan has a volume and a port.
LEMMA ServerParts ==
  ASSUME NEW x \in Items, x[1] = "server"
  PROVE  <<"volume", x[2]>> \in Items /\ <<"port", x[2]>> \in Items
<1>1. PICK i \in 1 .. LastStep : Plan[i] = x
  BY ItemSteps
<1>2. Needs(Plan[i]) = {<<"volume", x[2]>>, <<"port", x[2]>>}
  BY <1>1 DEF Needs
<1> QED BY <1>2, NeededItems

LEMMA ServerItems ==
  ASSUME NEW s \in Range(Servers)
  PROVE  <<"server", s>> \in Items /\ <<"volume", s>> \in Items
<1>1. s = "jumphost" \/ \E n \in 1 .. Len(Nodes) : s = Nodes[n]
  <2>1. Nodes \in Seq(STRING \ {"jumphost"})
    BY NodesAssumption DEF Nodes
  <2>2. PICK i \in DOMAIN Servers : Servers[i] = s
    BY DEF Range
  <2>3. PICK m \in Nat : m = Len(Nodes)
    BY <2>1
  <2>4. i \in 1 .. m + 1
    BY <2>1, <2>2, <2>3 DEF Servers
  <2>5. CASE i = 1
    BY <2>1, <2>2, <2>5 DEF Servers
  <2>6. CASE i \in 2 .. m + 1
    <3>1. Servers[i] = Nodes[i - 1]
      BY <2>1, <2>3, <2>6 DEF Servers
    <3>2. i - 1 \in 1 .. Len(Nodes)
      BY <2>3, <2>6
    <3> QED BY <2>2, <3>1, <3>2
  <2> QED BY <2>4, <2>5, <2>6
<1>2. \E i \in 1 .. LastStep : Plan[i] = <<"server", s>>
  <2>1. CASE s = "jumphost"
    <3>1. 23 \in 1 .. LastStep
      BY PlanDomain
    <3> QED BY <2>1, <3>1, PlanFirst, FirstSteps
  <2>2. ASSUME NEW n \in 1 .. Len(Nodes), s = Nodes[n]
        PROVE  \E i \in 1 .. LastStep : Plan[i] = <<"server", s>>
    <3>1. 4 \in 1 .. 4
      OBVIOUS
    <3>2. PICK a \in Int : a = 20 + 4 * n + 4 /\ a \in 25 .. LastStep - 1
      BY <3>1, NodeStepAt
    <3>3. Plan[a] = <<"server", s>>
      BY <2>2, <3>1, <3>2, NodeStepAt, PhaseNames
    <3>4. a \in 1 .. LastStep
      BY <3>2, PlanDomain
    <3> QED BY <3>3, <3>4
  <2> QED BY <1>1, <2>1, <2>2
<1>3. "server" \in Kinds
  BY DEF Kinds
<1>4. <<"server", s>> \in Items
  BY <1>2, <1>3, ItemSteps
<1> QED BY <1>4, ServerParts

-----------------------------------------------------------------------------
(* What a step that changes the store leaves as it is. *)

LEMMA StoreAt ==
  ASSUME NEW R \in Store, NEW x \in Items
  PROVE  /\ R[x] \in Seq(Instance) /\ DOMAIN R[x] = 1 .. Len(R[x]) /\ Len(R[x]) \in Nat
         /\ \A k \in 1 .. Len(R[x]) : R[x][k] \in Instance
BY DEF Store

LEMMA EvolvesAt ==
  ASSUME NEW R \in Store, NEW S \in Store, Evolves(R, S), NEW x \in Items, NEW k \in 1 .. Len(R[x])
  PROVE  k \in 1 .. Len(S[x]) /\ Grows(x[1], R[x][k], S[x][k])
BY StoreAt DEF Evolves

LEMMA FineKept ==
  ASSUME NEW R \in Store, NEW S \in Store, Evolves(R, S), NEW x \in Items, NEW r \in Instance,
         Fine(R, x, r)
  PROVE  Fine(S, x, r)
<1>1. ASSUME NEW l \in r.links
      PROVE  l[1] \in Items /\ l[2] \in 1 .. Len(S[l[1]]) /\ S[l[1]][l[2]].uid = r.maker
  <2>1. l[1] \in Items /\ l[2] \in 1 .. Len(R[l[1]]) /\ R[l[1]][l[2]].uid = r.maker
    BY DEF Fine
  <2>2. l[2] \in 1 .. Len(S[l[1]]) /\ Grows(l[1][1], R[l[1]][l[2]], S[l[1]][l[2]])
    BY <2>1, EvolvesAt
  <2> QED BY <2>1, <2>2 DEF Fine, Grows
<1>2. ASSUME x[1] = "server"
      PROVE  /\ <<"volume", x[2]>> \in Items /\ <<"port", x[2]>> \in Items
             /\ \E i \in 1 .. Len(S[<<"volume", x[2]>>]), j \in 1 .. Len(S[<<"port", x[2]>>]) :
                  /\ r.links = {<< <<"volume", x[2]>>, i >>, << <<"port", x[2]>>, j >>}
                  /\ r.state = "active" => S[<<"volume", x[2]>>][i].state = "in-use"
  <2>1. PICK v, w : v = <<"volume", x[2]>> /\ w = <<"port", x[2]>>
    OBVIOUS
  <2>2. v \in Items /\ w \in Items /\ v[1] = "volume"
    BY <1>2, <2>1 DEF Fine
  <2>3. PICK i \in 1 .. Len(R[v]), j \in 1 .. Len(R[w]) :
          r.links = {<<v, i>>, <<w, j>>} /\ (r.state = "active" => R[v][i].state = "in-use")
    BY <1>2, <2>1 DEF Fine
  <2>4. /\ i \in 1 .. Len(S[v]) /\ Grows(v[1], R[v][i], S[v][i])
        /\ j \in 1 .. Len(S[w])
    BY <2>2, EvolvesAt
  <2>5. r.state = "active" => S[v][i].state = "in-use"
    BY <2>2, <2>3, <2>4 DEF Grows
  <2> QED BY <2>1, <2>2, <2>3, <2>4, <2>5
<1> QED BY <1>1, <1>2 DEF Fine

LEMMA MineKept ==
  ASSUME NEW R \in Store, NEW S \in Store, Evolves(R, S), NEW v \in PodRecord, v.uid # Nobody,
         NEW x, Mine(R, v, x)
  PROVE  Mine(S, v, x)
<1>1. x \in Items /\ v.got[x] \in 1 .. Len(R[x])
  BY DEF Mine
<1>2. v.got[x] \in 1 .. Len(S[x]) /\ Grows(x[1], R[x][v.got[x]], S[x][v.got[x]])
  BY <1>1, EvolvesAt
<1> QED BY <1>1, <1>2 DEF Mine, Grows

LEMMA HoldsKept ==
  ASSUME NEW R \in Store, NEW S \in Store, Evolves(R, S), NEW v \in PodRecord, v.uid # Nobody,
         NEW y, Holds(R, v, y), y[1] \in {"router", "server"} => y \in Items
  PROVE  Holds(S, v, y)
<1>1. y \in Items => Mine(S, v, y)
  BY MineKept DEF Holds
<1>2. ASSUME y \in Items
      PROVE  v.got[y] \in 1 .. Len(R[y]) /\ Grows(y[1], R[y][v.got[y]], S[y][v.got[y]])
  BY <1>2, EvolvesAt DEF Holds, Mine
<1>3. ASSUME y[1] = "router"
      PROVE  S[y][v.got[y]].links # {}
  BY <1>2, <1>3 DEF Holds, Grows
<1>4. ASSUME y[1] = "rule"
      PROVE  /\ Mine(S, v, <<"group", y[2]>>)
             /\ Rules(y[2]) \subseteq S[<<"group", y[2]>>][v.got[<<"group", y[2]>>]].rules
  <2>1. PICK g : g = <<"group", y[2]>>
    OBVIOUS
  <2>2. Mine(R, v, g) /\ Rules(y[2]) \subseteq R[g][v.got[g]].rules /\ g[1] = "group"
    BY <1>4, <2>1 DEF Holds
  <2>3. Grows(g[1], R[g][v.got[g]], S[g][v.got[g]])
    BY <2>2, EvolvesAt DEF Mine
  <2>4. Rules(y[2]) \subseteq S[g][v.got[g]].rules
    BY <2>2, <2>3 DEF Grows
  <2>5. Mine(S, v, g)
    BY <2>2, MineKept
  <2> QED BY <2>1, <2>4, <2>5
<1>5. ASSUME y[1] = "server"
      PROVE  /\ Mine(S, v, <<"volume", y[2]>>)
             /\ S[y][v.got[y]].state = "active"
             /\ S[<<"volume", y[2]>>][v.got[<<"volume", y[2]>>]].state = "in-use"
  <2>1. PICK g : g = <<"volume", y[2]>>
    OBVIOUS
  <2>2. Mine(R, v, g) /\ R[g][v.got[g]].state = "in-use" /\ g[1] = "volume"
    BY <1>5, <2>1 DEF Holds
  <2>3. Grows(g[1], R[g][v.got[g]], S[g][v.got[g]])
    BY <2>2, EvolvesAt DEF Mine
  <2>4. S[g][v.got[g]].state = "in-use"
    BY <2>2, <2>3 DEF Grows
  <2>5. Mine(S, v, g)
    BY <2>2, MineKept
  <2>6. R[y][v.got[y]].state = "active"
    BY <1>5 DEF Holds
  <2>7. S[y][v.got[y]].state = "active"
    BY <1>2, <1>5, <2>6 DEF Grows
  <2> QED BY <2>1, <2>4, <2>5, <2>7
<1> QED BY <1>1, <1>3, <1>4, <1>5 DEF Holds

\* A Pod that does not move keeps what it has.
LEMMA WorksKept ==
  ASSUME NEW R \in Store, NEW S \in Store, Evolves(R, S), NEW v \in PodRecord, Works(R, v)
  PROVE  Works(S, v)
<1>1. v.uid # Nobody
  BY DEF Works
<1>2. ASSUME NEW x \in Items
      PROVE  v.got[x] \in 0 .. Len(S[x])
  <2>1. v.got[x] \in 0 .. Len(R[x]) /\ Len(R[x]) <= Len(S[x])
    BY DEF Works, Evolves
  <2>2. Len(R[x]) \in Nat /\ Len(S[x]) \in Nat
    BY StoreAt
  <2> QED BY <2>1, <2>2
<1>3. ASSUME NEW i \in 1 .. v.at - 1
      PROVE  Holds(S, v, Plan[i])
  <2>1. i \in 1 .. LastStep
    BY PlanDomain DEF PodRecord
  <2>2. Plan[i][1] \in {"router", "server"} => Plan[i] \in Items
    BY <2>1, ItemSteps DEF Kinds
  <2>3. Holds(R, v, Plan[i])
    BY DEF Works
  <2> QED BY <1>1, <2>2, <2>3, HoldsKept
<1>4. Begun(S, v)
  <2>1. PICK x : x = Plan[v.at]
    OBVIOUS
  <2>2. ASSUME v.pc = "tag"
        PROVE  /\ x \in Items /\ x[1] \in Tagged
               /\ v.got[x] \in 1 .. Len(S[x]) /\ S[x][v.got[x]].maker = v.uid
    <3>1. /\ x \in Items /\ x[1] \in Tagged
          /\ v.got[x] \in 1 .. Len(R[x]) /\ R[x][v.got[x]].maker = v.uid
      BY <2>1, <2>2 DEF Works, Begun
    <3>2. v.got[x] \in 1 .. Len(S[x]) /\ Grows(x[1], R[x][v.got[x]], S[x][v.got[x]])
      BY <3>1, EvolvesAt
    <3> QED BY <3>1, <3>2 DEF Grows
  <2>3. v.pc = "create" => x \in Items /\ x[1] # "server"
    BY <2>1 DEF Works, Begun
  <2>4. v.pc = "link" => x[1] \in {"router", "fip", "port"} /\ Mine(R, v, x)
    BY <2>1 DEF Works, Begun
  <2>5. v.pc = "wait" => x[1] = "volume" /\ Mine(R, v, x)
    BY <2>1 DEF Works, Begun
  <2> QED BY <1>1, <2>1, <2>2, <2>3, <2>4, <2>5, MineKept DEF Begun
<1> QED BY <1>1, <1>2, <1>3, <1>4 DEF Works

LEMMA StandsKept ==
  ASSUME NEW R \in Store, NEW S \in Store, Evolves(R, S), NEW u \in Nat \ {Nobody}, NEW x \in Items,
         Stands(R, u, x)
  PROVE  Stands(S, u, x)
<1>1. PICK k \in 1 .. Len(R[x]) :
        /\ R[x][k].maker = u /\ (x[1] = "keypair" \/ R[x][k].uid = u)
        /\ x[1] = "router" => R[x][k].links # {}
        /\ x[1] = "group" => Rules(x[2]) \subseteq R[x][k].rules
        /\ x[1] = "volume" => R[x][k].state = "in-use"
        /\ x[1] = "server" => R[x][k].state = "active"
  BY DEF Stands
<1>2. k \in 1 .. Len(S[x]) /\ Grows(x[1], R[x][k], S[x][k])
  BY EvolvesAt
<1>3. /\ S[x][k].maker = u /\ (x[1] = "keypair" \/ S[x][k].uid = u)
      /\ x[1] = "router" => S[x][k].links # {}
      /\ x[1] = "group" => Rules(x[2]) \subseteq S[x][k].rules
      /\ x[1] = "volume" => S[x][k].state = "in-use"
      /\ x[1] = "server" => S[x][k].state = "active"
  BY <1>1, <1>2 DEF Grows
<1> QED BY <1>2, <1>3 DEF Stands

\* The next step of a Pod: what it has got for earlier steps stays.
LEMMA Forward ==
  ASSUME NEW R \in Store, NEW v \in PodRecord, NEW w \in PodRecord, Works(R, v), w.uid = v.uid,
         \A x \in Items : w.got[x] \in 0 .. Len(R[x]),
         \A i \in 1 .. v.at - 1 : Plan[i] \in Items => w.got[Plan[i]] = v.got[Plan[i]],
         w.at = v.at \/ (w.at = v.at + 1 /\ Holds(R, w, Plan[v.at])),
         Begun(R, w)
  PROVE  Works(R, w)
<1>1. ASSUME NEW i \in 1 .. v.at - 1
      PROVE  Holds(R, w, Plan[i])
  <2>1. i \in 1 .. LastStep /\ v.at \in 1 .. LastStep /\ LastStep \in Nat
    BY PlanDomain DEF PodRecord
  <2>2. Holds(R, v, Plan[i])
    BY DEF Works
  <2>3. ASSUME NEW z \in Needs(Plan[i])
        PROVE  w.got[z] = v.got[z]
    <3>1. PICK j \in 1 .. i - 1 : Plan[j] = z /\ z \in Items
      BY <2>1, NeededItems
    <3>2. j \in 1 .. v.at - 1
      BY <2>1
    <3> QED BY <3>1, <3>2
  <2>4. Plan[i] \in Items => w.got[Plan[i]] = v.got[Plan[i]]
    OBVIOUS
  <2>5. PICK y : y = Plan[i]
    OBVIOUS
  <2>6. y \in Items => Mine(R, w, y)
    BY <2>2, <2>4, <2>5 DEF Holds, Mine
  <2>7. ASSUME y[1] = "router"
        PROVE  R[y][w.got[y]].links # {}
    <3>1. y \in Items
      BY <2>1, <2>5, <2>7, ItemSteps DEF Kinds
    <3> QED BY <2>2, <2>4, <2>5, <2>7, <3>1 DEF Holds
  <2>8. ASSUME y[1] = "rule"
        PROVE  /\ Mine(R, w, <<"group", y[2]>>)
               /\ Rules(y[2]) \subseteq R[<<"group", y[2]>>][w.got[<<"group", y[2]>>]].rules
    <3>1. PICK g : g = <<"group", y[2]>>
      OBVIOUS
    <3>2. g \in Needs(y)
      BY <2>8, <3>1 DEF Needs
    <3>3. w.got[g] = v.got[g]
      BY <2>3, <2>5, <3>2
    <3>4. Mine(R, v, g) /\ Rules(y[2]) \subseteq R[g][v.got[g]].rules
      BY <2>2, <2>5, <2>8, <3>1 DEF Holds
    <3>5. Mine(R, w, g) /\ Rules(y[2]) \subseteq R[g][w.got[g]].rules
      BY <3>3, <3>4 DEF Mine
    <3> QED BY <3>1, <3>5
  <2>9. ASSUME y[1] = "server"
        PROVE  /\ Mine(R, w, <<"volume", y[2]>>)
               /\ R[y][w.got[y]].state = "active"
               /\ R[<<"volume", y[2]>>][w.got[<<"volume", y[2]>>]].state = "in-use"
    <3>1. PICK g : g = <<"volume", y[2]>>
      OBVIOUS
    <3>2. g \in Needs(y)
      BY <2>9, <3>1 DEF Needs
    <3>3. w.got[g] = v.got[g]
      BY <2>3, <2>5, <3>2
    <3>4. Mine(R, v, g) /\ R[y][v.got[y]].state = "active" /\ R[g][v.got[g]].state = "in-use"
      BY <2>2, <2>5, <2>9, <3>1 DEF Holds
    <3>5. Mine(R, w, g) /\ R[g][w.got[g]].state = "in-use"
      BY <3>3, <3>4 DEF Mine
    <3>6. y \in Items
      BY <2>1, <2>5, <2>9, ItemSteps DEF Kinds
    <3>7. R[y][w.got[y]].state = "active"
      BY <2>4, <2>5, <3>4, <3>6
    <3> QED BY <3>1, <3>5, <3>7
  <2>10. Holds(R, w, y)
    BY <2>6, <2>7, <2>8, <2>9 DEF Holds
  <2> QED BY <2>5, <2>10
<1>2. ASSUME NEW i \in 1 .. w.at - 1
      PROVE  Holds(R, w, Plan[i])
  <2>1. v.at \in Nat /\ w.at \in Nat
    BY PlanDomain DEF PodRecord
  <2>2. i \in 1 .. v.at - 1 \/ (i = v.at /\ w.at = v.at + 1)
    BY <2>1
  <2> QED BY <1>1, <2>1, <2>2
<1> QED BY <1>2 DEF Works

-----------------------------------------------------------------------------
(* Changes of the store. *)

\* S is R with one instance changed, or added.
Sets(R, S, x, k, r) == S = [R EXCEPT ![x][k] = r]
Adds(R, S, x, r) == S = [R EXCEPT ![x] = Append(@, r)]

LEMMA SetKept ==
  ASSUME NEW R \in Store, NEW x \in Items, NEW k \in 1 .. Len(R[x]), NEW r \in Instance,
         Grows(x[1], R[x][k], r),
         NEW S, Sets(R, S, x, k, r)
  PROVE  /\ S \in Store /\ Evolves(R, S)
         /\ \A y \in Items : Len(S[y]) = Len(R[y])
         /\ \A y \in Items : \A j \in 1 .. Len(R[y]) :
              S[y][j] = R[y][j] \/ (y = x /\ j = k /\ S[y][j] = r)
         /\ S[x][k] = r
<1>1. /\ R[x] \in Seq(Instance) /\ DOMAIN R[x] = 1 .. Len(R[x])
      /\ S[x] = [R[x] EXCEPT ![k] = r]
  BY StoreAt DEF Store, Sets
<1>2. S[x] \in Seq(Instance) /\ Len(S[x]) = Len(R[x]) /\ S[x][k] = r
  BY <1>1
<1>3. \A y \in Items : y # x => S[y] = R[y]
  BY DEF Store, Sets
<1>4. S \in Store
  BY <1>2 DEF Store, Sets
<1>5. ASSUME NEW y \in Items
      PROVE  /\ Len(S[y]) = Len(R[y])
             /\ \A j \in 1 .. Len(R[y]) : S[y][j] = R[y][j] \/ (y = x /\ j = k /\ S[y][j] = r)
  BY <1>1, <1>2, <1>3
<1>6. ASSUME NEW y \in Items, NEW j \in 1 .. Len(R[y])
      PROVE  Grows(y[1], R[y][j], S[y][j])
  <2>1. CASE S[y][j] = R[y][j]
    BY <2>1 DEF Grows
  <2>2. CASE y = x /\ j = k /\ S[y][j] = r
    BY <2>2
  <2> QED BY <1>5, <2>1, <2>2
<1>7. Evolves(R, S)
  <2>1. \A y \in Items : Len(R[y]) \in Nat
    BY StoreAt
  <2> QED BY <1>5, <1>6, <2>1 DEF Evolves
<1> QED BY <1>2, <1>4, <1>5, <1>7

LEMMA AppendKept ==
  ASSUME NEW R \in Store, NEW x \in Items, NEW r \in Instance,
         NEW S, Adds(R, S, x, r)
  PROVE  /\ S \in Store /\ Evolves(R, S)
         /\ S[x] = Append(R[x], r) /\ Len(S[x]) = Len(R[x]) + 1 /\ S[x][Len(R[x]) + 1] = r
         /\ \A y \in Items : \A j \in 1 .. Len(S[y]) :
              \/ j \in 1 .. Len(R[y]) /\ S[y][j] = R[y][j]
              \/ y = x /\ S[y][j] = r
         /\ \A y \in Items : y # x => S[y] = R[y]
<1>1. R[x] \in Seq(Instance) /\ S[x] = Append(R[x], r)
  BY DEF Store, Adds
<1>2. /\ S[x] \in Seq(Instance) /\ Len(S[x]) = Len(R[x]) + 1 /\ S[x][Len(R[x]) + 1] = r
      /\ \A j \in 1 .. Len(R[x]) : S[x][j] = R[x][j]
  BY <1>1
<1>3. \A y \in Items : y # x => S[y] = R[y]
  BY DEF Store, Adds
<1>4. S \in Store
  BY <1>2 DEF Store, Adds
<1>5. ASSUME NEW y \in Items
      PROVE  /\ Len(R[y]) <= Len(S[y])
             /\ \A j \in 1 .. Len(R[y]) : S[y][j] = R[y][j]
             /\ \A j \in 1 .. Len(S[y]) : j \in 1 .. Len(R[y]) \/ (y = x /\ S[y][j] = r)
  <2>1. Len(R[y]) \in Nat
    BY StoreAt
  <2> QED BY <1>2, <1>3, <2>1
<1>6. ASSUME NEW y \in Items, NEW j \in 1 .. Len(R[y])
      PROVE  Grows(y[1], R[y][j], S[y][j])
  <2>1. S[y][j] = R[y][j]
    BY <1>5
  <2> QED BY <2>1 DEF Grows
<1>7. Evolves(R, S)
  BY <1>5, <1>6 DEF Evolves
<1> QED BY <1>1, <1>2, <1>3, <1>4, <1>5, <1>7

LEMMA SameStore ==
  ASSUME NEW R \in Store
  PROVE  Evolves(R, R)
<1>1. \A x \in Items : Len(R[x]) <= Len(R[x])
  BY StoreAt
<1>2. ASSUME NEW x \in Items, NEW k \in 1 .. Len(R[x])
      PROVE  Grows(x[1], R[x][k], R[x][k])
  BY DEF Grows
<1> QED BY <1>1, <1>2 DEF Evolves

LEMMA AllFine ==
  ASSUME NEW R \in Store, NEW S \in Store, Evolves(R, S), FineIn(R),
         \A y \in Items : \A j \in 1 .. Len(S[y]) :
           (j \in 1 .. Len(R[y]) /\ S[y][j] = R[y][j]) \/ Fine(S, y, S[y][j])
  PROVE  FineIn(S)
<1> SUFFICES ASSUME NEW y \in Items, NEW j \in 1 .. Len(S[y]),
                    j \in 1 .. Len(R[y]), S[y][j] = R[y][j]
             PROVE  Fine(S, y, S[y][j])
  BY DEF FineIn
<1>1. PICK r \in Instance : r = R[y][j] /\ Fine(R, y, r)
  BY StoreAt DEF FineIn
<1>2. Fine(S, y, r)
  BY <1>1, FineKept
<1> QED BY <1>1, <1>2

LEMMA SetFine ==
  ASSUME NEW R \in Store, FineIn(R), NEW x \in Items, NEW k \in 1 .. Len(R[x]), NEW r \in Instance,
         Grows(x[1], R[x][k], r), Fine(R, x, r),
         NEW S, Sets(R, S, x, k, r)
  PROVE  S \in Store /\ Evolves(R, S) /\ FineIn(S) /\ S[x][k] = r
         /\ \A y \in Items : Len(S[y]) = Len(R[y])
<1>1. /\ S \in Store /\ Evolves(R, S)
      /\ \A y \in Items : Len(S[y]) = Len(R[y])
      /\ \A y \in Items : \A j \in 1 .. Len(R[y]) :
           S[y][j] = R[y][j] \/ (y = x /\ j = k /\ S[y][j] = r)
      /\ S[x][k] = r
  BY SetKept
<1>2. Fine(S, x, r)
  BY <1>1, FineKept
<1>3. \A y \in Items : \A j \in 1 .. Len(S[y]) :
        (j \in 1 .. Len(R[y]) /\ S[y][j] = R[y][j]) \/ Fine(S, y, S[y][j])
  BY <1>1, <1>2
<1>4. FineIn(S)
  BY <1>1, <1>3, AllFine
<1> QED BY <1>1, <1>4

LEMMA AppendFine ==
  ASSUME NEW R \in Store, FineIn(R), NEW x \in Items, NEW r \in Instance, Fine(R, x, r),
         NEW S, Adds(R, S, x, r)
  PROVE  /\ S \in Store /\ Evolves(R, S) /\ FineIn(S)
         /\ Len(S[x]) = Len(R[x]) + 1 /\ S[x][Len(R[x]) + 1] = r
<1>1. /\ S \in Store /\ Evolves(R, S)
      /\ Len(S[x]) = Len(R[x]) + 1 /\ S[x][Len(R[x]) + 1] = r
      /\ \A y \in Items : \A j \in 1 .. Len(S[y]) :
           \/ j \in 1 .. Len(R[y]) /\ S[y][j] = R[y][j]
           \/ y = x /\ S[y][j] = r
  BY AppendKept
<1>2. Fine(S, x, r)
  BY <1>1, FineKept
<1>3. \A y \in Items : \A j \in 1 .. Len(S[y]) :
        (j \in 1 .. Len(R[y]) /\ S[y][j] = R[y][j]) \/ Fine(S, y, S[y][j])
  BY <1>1, <1>2
<1>4. FineIn(S)
  BY <1>1, <1>3, AllFine
<1> QED BY <1>1, <1>4

-----------------------------------------------------------------------------
(* Steps of a Pod. *)

\* w is what v becomes within a step of the plan, or at the next one.
Goes(v, w, pc, x, k) == w = [v EXCEPT !.pc = pc, !.got[x] = k]
Proceeds(v, w, x, k) ==
  w = [v EXCEPT !.pc = "look", !.at = @ + 1, !.got = IF x \in Items THEN [@ EXCEPT ![x] = k] ELSE @]

LEMMA Needed ==
  ASSUME NEW R \in Store, NEW v \in PodRecord, Works(R, v), NEW z \in Needs(Plan[v.at])
  PROVE  z \in Items /\ Mine(R, v, z) /\ z[1] # "keypair"
<1>1. v.at \in 1 .. LastStep
  BY DEF PodRecord
<1>2. PICK j \in 1 .. v.at - 1 : Plan[j] = z /\ z \in Items /\ z[1] # "keypair"
  BY <1>1, NeededItems
<1> QED BY <1>2 DEF Works, Holds

LEMMA NextWorks ==
  ASSUME NEW R \in Store, NEW v \in PodRecord, Works(R, v), NEW x, x = Plan[v.at], x[1] # "publish",
         NEW k \in Nat, x \in Items => k \in 1 .. Len(R[x]),
         NEW w, Proceeds(v, w, x, k),
         Holds(R, w, x)
  PROVE  w \in PodRecord /\ Works(R, w)
<1>1. v.at \in 1 .. LastStep /\ v.at # LastStep
  BY PlanLast DEF PodRecord
<1>2. v.at + 1 \in 1 .. LastStep
  BY <1>1, PlanDomain
<1>3. v.got \in [Items -> Nat]
  BY DEF PodRecord
<1>4. PICK g : g = IF x \in Items THEN [v.got EXCEPT ![x] = k] ELSE v.got
  OBVIOUS
<1>5. g \in [Items -> Nat] /\ (\A y \in Items : y # x => g[y] = v.got[y]) /\ (x \in Items => g[x] = k)
  BY <1>3, <1>4
<1>6. w = [v EXCEPT !.pc = "look", !.at = @ + 1, !.got = g]
  BY <1>4 DEF Proceeds
<1>7. w \in PodRecord /\ w.pc = "look" /\ w.at = v.at + 1 /\ w.got = g /\ w.uid = v.uid
  BY <1>2, <1>5, <1>6 DEF PodRecord
<1>8. \A y \in Items : w.got[y] \in 0 .. Len(R[y])
  <2> TAKE y \in Items
  <2>1. v.got[y] \in 0 .. Len(R[y])
    BY DEF Works
  <2>2. CASE y = x
    <3>1. k \in 1 .. Len(R[y]) /\ w.got[y] = k
      BY <1>5, <1>7, <2>2
    <3> QED BY <3>1
  <2>3. CASE y # x
    BY <1>5, <1>7, <2>1, <2>3
  <2> QED BY <2>2, <2>3
<1>9. ASSUME NEW i \in 1 .. v.at - 1, Plan[i] \in Items
      PROVE  w.got[Plan[i]] = v.got[Plan[i]]
  <2>1. i \in 1 .. LastStep /\ i # v.at
    BY <1>1, PlanDomain
  <2>2. Plan[i] # x
    BY <1>1, <2>1, PlanOnce
  <2> QED BY <1>5, <1>7, <1>9, <2>2
<1>10. Begun(R, w)
  BY <1>7 DEF Begun
<1> QED BY <1>7, <1>8, <1>9, <1>10, Forward

\* A resource of the plan, other than a server, is there.
LEMMA NextItem ==
  ASSUME NEW R \in Store, NEW v \in PodRecord, Works(R, v), NEW x \in Items, x = Plan[v.at],
         x[1] # "server", NEW k \in 1 .. Len(R[x]), R[x][k].maker = v.uid,
         x[1] # "keypair" => R[x][k].uid = v.uid, x[1] = "router" => R[x][k].links # {},
         NEW w, Proceeds(v, w, x, k)
  PROVE  w \in PodRecord /\ Works(R, w)
<1>1. x[1] \in Kinds
  BY ItemSteps
<1>2. x[1] # "publish" /\ x[1] # "rule"
  BY <1>1 DEF Kinds
<1>3. w.got[x] = k /\ w.uid = v.uid
  <2>1. v.got \in [Items -> Nat]
    BY DEF PodRecord
  <2> QED BY <2>1 DEF PodRecord, Proceeds
<1>4. Mine(R, w, x)
  BY <1>3 DEF Mine
<1>5. Holds(R, w, x)
  BY <1>2, <1>3, <1>4 DEF Holds
<1>6. k \in Nat
  BY StoreAt
<1> QED BY <1>2, <1>5, <1>6, NextWorks

LEMMA GoToWorks ==
  ASSUME NEW R \in Store, NEW v \in PodRecord, Works(R, v), NEW x \in Items, x = Plan[v.at],
         NEW k \in 1 .. Len(R[x]), NEW pc \in {"look", "tag", "link", "wait"},
         NEW w, Goes(v, w, pc, x, k),
         pc = "tag" => x[1] \in Tagged /\ R[x][k].maker = v.uid,
         pc \in {"link", "wait"} => R[x][k].maker = v.uid /\ R[x][k].uid = v.uid,
         pc = "link" => x[1] \in {"router", "fip", "port"}, pc = "wait" => x[1] = "volume"
  PROVE  w \in PodRecord /\ Works(R, w)
<1>1. v.at \in 1 .. LastStep /\ v.got \in [Items -> Nat] /\ k \in Nat
  BY StoreAt DEF PodRecord
<1>2. PICK g : g = [v.got EXCEPT ![x] = k]
  OBVIOUS
<1>3. g \in [Items -> Nat] /\ (\A y \in Items : y # x => g[y] = v.got[y]) /\ g[x] = k
  BY <1>1, <1>2
<1>4. w = [v EXCEPT !.pc = pc, !.got = g]
  BY <1>2 DEF Goes
<1>5. w \in PodRecord /\ w.pc = pc /\ w.at = v.at /\ w.got = g /\ w.uid = v.uid
  BY <1>3, <1>4 DEF PodRecord
<1>6. \A y \in Items : w.got[y] \in 0 .. Len(R[y])
  <2> TAKE y \in Items
  <2>1. v.got[y] \in 0 .. Len(R[y])
    BY DEF Works
  <2>2. CASE y = x
    <3>1. k \in 1 .. Len(R[y]) /\ w.got[y] = k
      BY <1>3, <1>5, <2>2
    <3> QED BY <3>1
  <2>3. CASE y # x
    BY <1>3, <1>5, <2>1, <2>3
  <2> QED BY <2>2, <2>3
<1>7. ASSUME NEW i \in 1 .. v.at - 1, Plan[i] \in Items
      PROVE  w.got[Plan[i]] = v.got[Plan[i]]
  <2>1. i \in 1 .. LastStep /\ i # v.at
    BY <1>1, PlanDomain
  <2>2. Plan[i] # x
    BY <1>1, <2>1, PlanOnce
  <2> QED BY <1>3, <1>5, <1>7, <2>2
<1>8. pc \in {"link", "wait"} => Mine(R, w, x)
  BY <1>3, <1>5 DEF Mine
<1>9. Begun(R, w)
  <2>1. Plan[w.at] = x /\ w.got[x] = k /\ w.pc # "create"
    BY <1>3, <1>5
  <2> QED BY <1>5, <1>8, <2>1 DEF Begun
<1> QED BY <1>5, <1>6, <1>7, <1>9, Forward

-----------------------------------------------------------------------------
(* The actions. *)

\* What is to be shown of every action.
Preserved == CompleteInv' /\ Evolves(res, res')

LEMMA Typed ==
  ASSUME CompleteInv
  PROVE  /\ res \in Store /\ FineIn(res)
         /\ \A p \in Pods : pod[p] \in PodRecord /\ (Running(p) => Works(res, pod[p]))
BY DEF CompleteInv, WorkerTypeOK, Store, WorksInv

LEMMA NoPodTyped == NoPod \in PodRecord /\ NoPod.pc = "idle"
<1>1. 1 \in 1 .. LastStep
  BY PlanDomain
<1>2. [x \in Items |-> 0] \in [Items -> Nat]
  OBVIOUS
<1> QED BY <1>1, <1>2 DEF NoPod, PodRecord, Nobody

\* What a step has to leave intact.
LEMMA StepKept ==
  ASSUME CompleteInv,
         allowance' \in [WorkerActs -> Nat], uid' \in Nat \ {Nobody}, key' \in Nat,
         overlapped' \in BOOLEAN, turn' \in Pods, published' \subseteq Nat \ {Nobody},
         res' \in Store, Evolves(res, res'), FineIn(res'),
         pod' \in [Pods -> PodRecord],
         \A q \in Pods : pod'[q] = pod[q] \/ pod'[q].pc = "idle" \/ Works(res', pod'[q]),
         \A u \in published' : u \in published \/ \A x \in Items : Stands(res', u, x)
  PROVE  Preserved
<1>1. WorkerTypeOK'
  BY DEF WorkerTypeOK, Store
<1>2. WorksInv'
  <2>1. ASSUME NEW q \in Pods, pod'[q].pc # "idle"
        PROVE  Works(res', pod'[q])
    <3>1. CASE pod'[q] = pod[q]
      <4>1. pod[q] \in PodRecord /\ Works(res, pod[q]) /\ res \in Store
        BY <2>1, <3>1, Typed DEF Running
      <4>2. PICK v, S : v = pod[q] /\ S = res'
        OBVIOUS
      <4>3. Works(S, v)
        BY <4>1, <4>2, WorksKept
      <4> QED BY <3>1, <4>2, <4>3
    <3> QED BY <2>1, <3>1
  <2> QED BY <2>1 DEF WorksInv, Running
<1>3. StandsInv'
  <2>1. ASSUME NEW u \in published', NEW x \in Items
        PROVE  Stands(res', u, x)
    <3>1. CASE u \in published
      <4>1. Stands(res, u, x) /\ res \in Store /\ u \in Nat \ {Nobody}
        BY <3>1, Typed DEF CompleteInv, StandsInv, WorkerTypeOK
      <4>2. PICK S, a : S = res' /\ a = u
        OBVIOUS
      <4>3. Stands(S, a, x)
        BY <4>1, <4>2, StandsKept
      <4> QED BY <4>2, <4>3
    <3> QED BY <2>1, <3>1
  <2> QED BY <2>1 DEF StandsInv
<1>4. FineIn(res)'
  OBVIOUS
<1> QED BY <1>1, <1>2, <1>3, <1>4 DEF CompleteInv, Preserved

\* A step of one Pod.
LEMMA PodKept ==
  ASSUME CompleteInv, NEW p \in Pods, NEW w \in PodRecord, w.pc = "idle" \/ Works(res', w),
         res' \in Store, Evolves(res, res'), FineIn(res'),
         pod' = [pod EXCEPT ![p] = w],
         allowance' \in [WorkerActs -> Nat],
         UNCHANGED <<uid, key, published, overlapped, turn>>
  PROVE  Preserved
<1>1. pod \in [Pods -> PodRecord]
  BY DEF CompleteInv, WorkerTypeOK
<1>2. pod' \in [Pods -> PodRecord]
  BY <1>1
<1>3. \A q \in Pods : pod'[q] = pod[q] \/ pod'[q].pc = "idle" \/ Works(res', pod'[q])
  BY <1>1
<1>4. /\ uid' \in Nat \ {Nobody} /\ key' \in Nat
      /\ overlapped' \in BOOLEAN /\ turn' \in Pods /\ published' \subseteq Nat \ {Nobody}
  BY DEF CompleteInv, WorkerTypeOK
<1>5. \A u \in published' : u \in published \/ \A x \in Items : Stands(res', u, x)
  OBVIOUS
<1> QED BY <1>2, <1>3, <1>4, <1>5, StepKept

\* A step of one Pod that leaves OpenStack as it is.
LEMMA PodAlone ==
  ASSUME CompleteInv, NEW p \in Pods, NEW w \in PodRecord, w.pc = "idle" \/ Works(res, w),
         Becomes(p, w), UNCHANGED <<allowance, uid, key, res, published, overlapped, turn>>
  PROVE  Preserved
<1>1. res' \in Store /\ Evolves(res, res') /\ FineIn(res') /\ (w.pc = "idle" \/ Works(res', w))
  BY Typed, SameStore
<1>2. allowance' \in [WorkerActs -> Nat] /\ pod' = [pod EXCEPT ![p] = w]
  BY DEF CompleteInv, WorkerTypeOK, Becomes
<1> QED BY <1>1, <1>2, PodKept

LEMMA FailKept ==
  ASSUME CompleteInv, NEW p \in Pods, Fail(p),
         UNCHANGED <<allowance, uid, key, res, published, overlapped, turn>>
  PROVE  Preserved
BY NoPodTyped, PodAlone DEF Fail

LEMMA AllowTyped ==
  ASSUME allowance \in [WorkerActs -> Nat], NEW act \in WorkerActs, Allow(act)
  PROVE  allowance' \in [WorkerActs -> Nat]
BY DEF Allow

LEMMA KillKept ==
  ASSUME CompleteInv, NEW p \in Pods, Kill(p), UNCHANGED turn
  PROVE  Preserved
<1>1. res' \in Store /\ Evolves(res, res') /\ FineIn(res')
  BY Typed, SameStore DEF Kill
<1>2. "kills" \in WorkerActs
  BY DEF WorkerActs
<1>3. allowance' \in [WorkerActs -> Nat] /\ pod' = [pod EXCEPT ![p] = NoPod]
  BY <1>2, AllowTyped DEF CompleteInv, WorkerTypeOK, Kill, Fail, Becomes
<1> QED BY <1>1, <1>3, NoPodTyped, PodKept DEF Kill

LEMMA BeginKept ==
  ASSUME CompleteInv, NEW p \in Pods, BeginPod(p)
  PROVE  Preserved
<1>1. res' \in Store /\ Evolves(res, res') /\ FineIn(res')
  BY Typed, SameStore DEF BeginPod
<1>2. PICK w : w = [NoPod EXCEPT !.pc = "look", !.uid = uid, !.key = key]
  OBVIOUS
<1>3. uid \in Nat \ {Nobody} /\ key \in Nat
  BY DEF CompleteInv, WorkerTypeOK
<1>4. w \in PodRecord /\ w.pc = "look" /\ w.uid = uid /\ w.at = 1 /\ w.got = [x \in Items |-> 0]
  <2>1. [x \in Items |-> 0] \in [Items -> Nat] /\ 1 \in 1 .. LastStep
    BY PlanDomain
  <2> QED BY <1>2, <1>3, <2>1 DEF NoPod, PodRecord
<1>5. Works(res, w)
  <2>1. \A x \in Items : w.got[x] \in 0 .. Len(res[x])
    BY <1>4, Typed, StoreAt
  <2> QED BY <1>3, <1>4, <2>1 DEF Works, Begun
<1>6. pod \in [Pods -> PodRecord] /\ pod' = [pod EXCEPT ![p] = w]
  BY <1>2 DEF CompleteInv, WorkerTypeOK, BeginPod
<1>7. pod' \in [Pods -> PodRecord]
  BY <1>4, <1>6
<1>8. \A q \in Pods : pod'[q] = pod[q] \/ pod'[q].pc = "idle" \/ Works(res', pod'[q])
  BY <1>5, <1>6 DEF BeginPod
<1>9. allowance' \in [WorkerActs -> Nat]
  <2>1. allowance \in [WorkerActs -> Nat]
    BY DEF CompleteInv, WorkerTypeOK
  <2>2. "overlaps" \in WorkerActs /\ "reruns" \in WorkerActs /\ "overlaps" # "reruns"
    BY DEF WorkerActs
  <2>3. PICK second \in BOOLEAN, again \in BOOLEAN :
          /\ again \/ second => allowance[IF second THEN "overlaps" ELSE "reruns"] > 0
          /\ allowance' = [allowance EXCEPT !["overlaps"] = IF second THEN @ - 1 ELSE @,
                                            !["reruns"] = IF again /\ ~second THEN @ - 1 ELSE @]
    <3> DEFINE second == \E q \in Pods : Running(q)
    <3>1. second \in BOOLEAN /\ (uid \in published) \in BOOLEAN
      OBVIOUS
    <3> QED BY <3>1 DEF BeginPod
  <2>4. PICK a \in Nat : a = IF second THEN allowance["overlaps"] - 1 ELSE allowance["overlaps"]
    BY <2>1, <2>2, <2>3
  <2>5. PICK b \in Nat : b = IF again /\ ~second THEN allowance["reruns"] - 1 ELSE allowance["reruns"]
    BY <2>1, <2>2, <2>3
  <2>6. allowance' = [allowance EXCEPT !["overlaps"] = a, !["reruns"] = b]
    BY <2>1, <2>2, <2>3, <2>4, <2>5
  <2> QED BY <2>1, <2>6
<1>10. uid' \in Nat \ {Nobody} /\ key' \in Nat /\ published' \subseteq Nat \ {Nobody} /\ turn' \in Pods
  BY DEF CompleteInv, WorkerTypeOK, BeginPod
<1>11. overlapped' \in BOOLEAN
  BY DEF CompleteInv, WorkerTypeOK, BeginPod
<1>12. \A u \in published' : u \in published \/ \A x \in Items : Stands(res', u, x)
  BY DEF BeginPod
<1> QED BY <1>1, <1>7, <1>8, <1>9, <1>10, <1>11, <1>12, StepKept

LEMMA SwitchKept ==
  ASSUME CompleteInv, NEW p \in Pods, Switch(p)
  PROVE  Preserved
<1>1. res' \in Store /\ Evolves(res, res') /\ FineIn(res')
  BY Typed, SameStore DEF Switch
<1>2. "switches" \in WorkerActs
  BY DEF WorkerActs
<1>3. allowance' \in [WorkerActs -> Nat]
  BY <1>2, AllowTyped DEF CompleteInv, WorkerTypeOK, Switch
<1>4. /\ uid' \in Nat \ {Nobody} /\ key' \in Nat /\ overlapped' \in BOOLEAN /\ turn' \in Pods
      /\ published' \subseteq Nat \ {Nobody} /\ pod' \in [Pods -> PodRecord]
  BY DEF CompleteInv, WorkerTypeOK, Switch
<1>5. \A q \in Pods : pod'[q] = pod[q] \/ pod'[q].pc = "idle" \/ Works(res', pod'[q])
  BY DEF Switch
<1>6. \A u \in published' : u \in published \/ \A x \in Items : Stands(res', u, x)
  BY DEF Switch
<1> QED BY <1>1, <1>3, <1>4, <1>5, <1>6, StepKept

\* Resources that a new one is linked to are the Pod's own.
LEMMA LinksFine ==
  ASSUME CompleteInv, NEW p \in Pods, Running(p), NEW l \in Links(p, Item(p))
  PROVE  /\ l \in Items \X Nat
         /\ l[1] \in Items /\ l[2] \in 1 .. Len(res[l[1]]) /\ res[l[1]][l[2]].uid = pod[p].uid
<1>1. PICK v, x : /\ v \in PodRecord /\ v = pod[p] /\ x = Item(p) /\ x = Plan[v.at]
                  /\ Works(res, v) /\ res \in Store
  BY Typed DEF Item
<1>2. l \in Links(p, x)
  BY <1>1
<1>3. PICK z \in Needs(x) : l = Uses(p, z)
  BY <1>2 DEF Links, Needs
<1>4. l = <<z, v.got[z]>>
  BY <1>1, <1>3 DEF Uses
<1>5. Mine(res, v, z) /\ z[1] # "keypair"
  BY <1>1, Needed
<1>6. z \in Items /\ v.got[z] \in 1 .. Len(res[z]) /\ res[z][v.got[z]].uid = v.uid /\ v.got[z] \in Nat
  BY <1>5 DEF Mine, PodRecord
<1> QED BY <1>1, <1>4, <1>6

LEMMA Looked ==
  ASSUME CompleteInv, NEW p \in Pods, Look(p), UNCHANGED turn
  PROVE  Preserved
<1>1. PICK v, x : /\ v \in PodRecord /\ v = pod[p] /\ x = Item(p) /\ x = Plan[v.at]
                  /\ Works(res, v) /\ v.pc = "look" /\ x \in Items /\ x[1] # "server"
  BY Typed DEF Look, Running, Item
<1>2. UNCHANGED <<allowance, uid, key, res, published, overlapped, turn>> /\ res \in Store
  BY Typed DEF Look
<1>3. CASE Fail(p)
  BY <1>2, <1>3, FailKept
<1>4. CASE Becomes(p, [pod[p] EXCEPT !.pc = "create"])
  <2>1. PICK w : w = [v EXCEPT !.pc = "create"]
    OBVIOUS
  <2>2. w \in PodRecord /\ w.pc = "create" /\ w.at = v.at /\ w.uid = v.uid /\ w.got = v.got
    BY <1>1, <2>1 DEF PodRecord
  <2>3. Begun(res, w)
    BY <1>1, <2>2 DEF Begun
  <2>4. Works(res, w)
    <3>1. \A y \in Items : w.got[y] \in 0 .. Len(res[y])
      BY <1>1, <2>2 DEF Works
    <3> QED BY <1>1, <1>2, <2>2, <2>3, <3>1, Forward
  <2> QED BY <1>1, <1>2, <1>4, <2>1, <2>2, <2>4, PodAlone
<1>5. ASSUME NEW k \in Matches(p, x), LET r == Inst(x, k)
                                     IN  IF ~Owned(p, x, r) \/ ~Fits(p, x, r) THEN Fail(p)
                                         ELSE IF Todo(p, x, r) = "none" THEN Next1(p, x, k)
                                         ELSE GoTo(p, "link", x, k)
      PROVE  Preserved
  <2>1. k \in 1 .. Len(res[x])
    BY <1>1, <1>2, StoreAt DEF Matches
  <2>2. PICK r : r = res[x][k] /\ Fine(res, x, r)
    BY <1>1, <2>1, Typed DEF FineIn
  <2>3. SUFFICES ASSUME Owned(p, x, r), \/ (Todo(p, x, r) = "none" /\ Next1(p, x, k))
                                       \/ (Todo(p, x, r) # "none" /\ GoTo(p, "link", x, k))
                 PROVE  Preserved
    BY <1>2, <1>5, <2>2, FailKept DEF Inst
  <2>4. r.maker = v.uid /\ (x[1] # "keypair" => r.uid = v.uid)
    <3>1. CASE x[1] = "keypair"
      BY <1>1, <1>5, <2>2, <3>1 DEF Matches, Inst
    <3>2. CASE x[1] # "keypair"
      <4>1. r.uid = v.uid /\ v.uid # Nobody
        BY <1>1, <2>3, <3>2 DEF Owned, Works
      <4> QED BY <2>2, <4>1 DEF Fine
    <3> QED BY <3>1, <3>2
  <2>5. CASE Todo(p, x, r) = "none" /\ Next1(p, x, k)
    <3>1. PICK w : Proceeds(v, w, x, k) /\ Becomes(p, w)
      BY <1>1, <2>5 DEF Next1, Proceeds
    <3>2. x[1] = "router" => r.links # {}
      BY <2>5 DEF Todo
    <3>3. w \in PodRecord /\ Works(res, w)
      BY <1>1, <1>2, <2>1, <2>2, <2>4, <3>1, <3>2, NextItem
    <3> QED BY <1>2, <3>1, <3>3, PodAlone
  <2>6. CASE Todo(p, x, r) # "none" /\ GoTo(p, "link", x, k)
    <3>1. PICK w : Goes(v, w, "link", x, k) /\ Becomes(p, w)
      BY <1>1, <2>6 DEF GoTo, Goes
    <3>2. x[1] \in {"router", "fip", "port"}
      BY <2>6 DEF Todo
    <3>3. r.uid = v.uid
      BY <2>4, <3>2
    <3>4. w \in PodRecord /\ Works(res, w)
      BY <1>1, <1>2, <2>1, <2>2, <2>4, <3>1, <3>2, <3>3, GoToWorks
    <3> QED BY <1>2, <3>1, <3>4, PodAlone
  <2> QED BY <2>3, <2>5, <2>6
<1>6. \/ Fail(p) \/ Becomes(p, [pod[p] EXCEPT !.pc = "create"])
      \/ \E k \in Matches(p, x) :
           LET r == Inst(x, k)
           IN  IF ~Owned(p, x, r) \/ ~Fits(p, x, r) THEN Fail(p)
               ELSE IF Todo(p, x, r) = "none" THEN Next1(p, x, k)
               ELSE GoTo(p, "link", x, k)
  BY <1>1 DEF Look
<1> QED BY <1>3, <1>4, <1>5, <1>6

\* A new instance has its type, and is not linked to what is another's.
LEMMA NewFine ==
  ASSUME CompleteInv, NEW p \in Pods, Running(p), Item(p) \in Items
  PROVE  /\ New(p, Item(p)) \in Instance
         /\ Item(p)[1] # "server" => Fine(res, Item(p), New(p, Item(p)))
<1>1. PICK v, x : /\ v \in PodRecord /\ v = pod[p] /\ x = Item(p) /\ x = Plan[v.at]
                  /\ Works(res, v) /\ x \in Items
  BY Typed DEF Item
<1>2. PICK links : links = Links(p, x)
  OBVIOUS
<1>3. \A l \in links : /\ l \in Items \X Nat
                       /\ l[1] \in Items /\ l[2] \in 1 .. Len(res[l[1]]) /\ res[l[1]][l[2]].uid = v.uid
  BY <1>1, <1>2, LinksFine
<1>4. v.uid \in Nat /\ v.uid # Nobody /\ v.key \in Nat
  BY <1>1 DEF Works, PodRecord
<1>5. PICK u \in Nat, a \in Nat, g \in SUBSET (Groups \cup {"internal", "ssh", "6443", "80", "443", "other"}),
           t \in {"none", "creating", "build"} :
        New(p, x) = [uid |-> u, maker |-> v.uid, key |-> a, links |-> links, rules |-> g, state |-> t]
        /\ u \in {Nobody, v.uid} /\ (x[1] \in {"volume", "server"} => u = v.uid)
  <2>1. PICK u \in Nat : u = IF x[1] \in {"volume", "server"} THEN pod[p].uid ELSE Nobody
    BY <1>1, <1>4 DEF Nobody
  <2>2. PICK a \in Nat : a = IF x[1] = "keypair" THEN pod[p].key ELSE Nobody
    BY <1>1, <1>4 DEF Nobody
  <2>3. PICK g \in SUBSET Groups : g = IF x[1] = "port" THEN GroupsOf(x[2]) ELSE {}
    BY DEF GroupsOf, Groups
  <2>4. PICK t \in {"none", "creating", "build"} :
          t = CASE x[1] = "volume" -> "creating" [] x[1] = "server" -> "build" [] OTHER -> "none"
    OBVIOUS
  <2>5. New(p, x) = [uid |-> u, maker |-> v.uid, key |-> a, links |-> links, rules |-> g, state |-> t]
    BY <1>1, <1>2, <2>1, <2>2, <2>3, <2>4 DEF New
  <2>6. u \in {Nobody, v.uid} /\ (x[1] \in {"volume", "server"} => u = v.uid)
    BY <1>1, <2>1
  <2>7. g \in SUBSET (Groups \cup {"internal", "ssh", "6443", "80", "443", "other"})
    OBVIOUS
  <2> QED BY <2>5, <2>6, <2>7
<1>6. New(p, x) \in Instance
  <2>1. links \in SUBSET (Items \X Nat)
    BY <1>3
  <2> QED BY <1>4, <1>5, <2>1 DEF Instance
<1>7. ASSUME x[1] # "server"
      PROVE  Fine(res, x, New(p, x))
  <2>1. PICK r : r = New(p, x)
    OBVIOUS
  <2>2. r.maker = v.uid /\ r.uid \in {Nobody, v.uid} /\ (x[1] \in {"volume", "server"} => r.uid = v.uid)
        /\ r.links = links
    BY <1>5, <2>1
  <2>3. Fine(res, x, r)
    BY <1>3, <1>4, <1>7, <2>2 DEF Fine
  <2> QED BY <2>1, <2>3
<1> QED BY <1>1, <1>6, <1>7

LEMMA Created ==
  ASSUME CompleteInv, NEW p \in Pods, Create(p), UNCHANGED turn
  PROVE  Preserved
<1>1. PICK v, x : /\ v \in PodRecord /\ v = pod[p] /\ x = Item(p) /\ x = Plan[v.at]
                  /\ Works(res, v) /\ v.pc = "create" /\ x \in Items /\ x[1] # "server" /\ Running(p)
  BY Typed DEF Create, Running, Item, Works, Begun
<1>2. UNCHANGED <<allowance, uid, key, published, overlapped, turn>> /\ res \in Store
  BY Typed DEF Create
<1>3. CASE Fail(p) /\ UNCHANGED res
  BY <1>2, <1>3, FailKept
<1>4. ASSUME res' = [res EXCEPT ![x] = Append(@, New(p, x))],
             IF x[1] \in Tagged THEN GoTo(p, "tag", x, Len(res[x]) + 1)
             ELSE IF x[1] = "volume" THEN GoTo(p, "wait", x, Len(res[x]) + 1)
             ELSE Next1(p, x, Len(res[x]) + 1)
      PROVE  Preserved
  <2>1. PICK r \in Instance : r = New(p, x) /\ Fine(res, x, r)
    BY <1>1, NewFine
  <2>2. PICK S : S = res'
    OBVIOUS
  <2>3. Adds(res, S, x, r)
    BY <1>4, <2>1, <2>2 DEF Adds
  <2>4. /\ S \in Store /\ Evolves(res, S) /\ FineIn(S)
        /\ Len(S[x]) = Len(res[x]) + 1 /\ S[x][Len(res[x]) + 1] = r
    BY <1>1, <1>2, <2>1, <2>3, Typed, AppendFine
  <2>5. Works(S, v)
    BY <1>1, <1>2, <2>4, WorksKept
  <2>6. PICK k \in 1 .. Len(S[x]) : k = Len(res[x]) + 1 /\ S[x][k] = r
    BY <1>1, <1>2, <2>4, StoreAt
  <2>7. r.maker = v.uid /\ (x[1] = "volume" => r.uid = v.uid)
    BY <1>1, <2>1 DEF New
  <2>8. PICK w : w \in PodRecord /\ Works(S, w) /\ Becomes(p, w)
    <3>1. CASE x[1] \in Tagged
      <4>1. PICK w : Goes(v, w, "tag", x, k) /\ Becomes(p, w)
        BY <1>1, <1>4, <2>6, <3>1 DEF GoTo, Goes
      <4>2. w \in PodRecord /\ Works(S, w)
        BY <1>1, <2>4, <2>5, <2>6, <2>7, <3>1, <4>1, GoToWorks
      <4> QED BY <4>1, <4>2
    <3>2. CASE x[1] = "volume"
      <4>1. PICK w : Goes(v, w, "wait", x, k) /\ Becomes(p, w)
        BY <1>1, <1>4, <2>6, <3>2 DEF GoTo, Goes, Tagged
      <4>2. w \in PodRecord /\ Works(S, w)
        BY <1>1, <2>4, <2>5, <2>6, <2>7, <3>2, <4>1, GoToWorks
      <4> QED BY <4>1, <4>2
    <3>3. CASE x[1] \notin Tagged /\ x[1] # "volume"
      <4>1. x[1] = "keypair"
        BY <1>1, <3>3, ItemSteps DEF Kinds, Tagged
      <4>2. PICK w : Proceeds(v, w, x, k) /\ Becomes(p, w)
        BY <1>1, <1>4, <2>6, <3>3 DEF Next1, Proceeds
      <4>3. w \in PodRecord /\ Works(S, w)
        BY <1>1, <2>4, <2>5, <2>6, <2>7, <4>1, <4>2, NextItem
      <4> QED BY <4>2, <4>3
    <3> QED BY <3>1, <3>2, <3>3
  <2>9. allowance' \in [WorkerActs -> Nat] /\ pod' = [pod EXCEPT ![p] = w]
    BY <1>2, <2>8 DEF CompleteInv, WorkerTypeOK, Becomes
  <2> QED BY <1>2, <2>2, <2>4, <2>8, <2>9, PodKept
<1> QED BY <1>1, <1>3, <1>4 DEF Create

LEMMA TagKept ==
  ASSUME CompleteInv, NEW p \in Pods, Tag(p), UNCHANGED turn
  PROVE  Preserved
<1>1. PICK v, x, k : /\ v \in PodRecord /\ v = pod[p] /\ x = Item(p) /\ x = Plan[v.at]
                     /\ Works(res, v) /\ v.pc = "tag" /\ k = pod[p].got[x] /\ x \in Items
                     /\ x[1] \in Tagged /\ k \in 1 .. Len(res[x]) /\ res[x][k].maker = v.uid
  BY Typed DEF Tag, Running, Item, Works, Begun
<1>2. UNCHANGED <<allowance, uid, key, published, overlapped, turn>> /\ res \in Store
  BY Typed DEF Tag
<1>3. PICK o \in Instance : o = res[x][k] /\ Fine(res, x, o)
  BY <1>1, <1>2, StoreAt, Typed DEF FineIn
<1>4. PICK r : r = [o EXCEPT !.uid = v.uid]
  OBVIOUS
<1>5. r \in Instance /\ r.uid = v.uid /\ r.maker = o.maker /\ r.links = o.links /\ r.rules = o.rules
      /\ r.state = o.state
  BY <1>1, <1>4 DEF Instance, PodRecord
<1>6. Grows(x[1], o, r) /\ Fine(res, x, r)
  BY <1>1, <1>3, <1>5 DEF Grows, Fine
<1>7. PICK S : S = res'
  OBVIOUS
<1>8. Sets(res, S, x, k, r)
  BY <1>1, <1>3, <1>4, <1>7 DEF Tag, SetInst, Inst, Sets
<1>9. S \in Store /\ Evolves(res, S) /\ FineIn(S) /\ S[x][k] = r /\ k \in 1 .. Len(S[x])
  <2>1. FineIn(res) /\ Grows(x[1], res[x][k], r) /\ x \in Items /\ k \in 1 .. Len(res[x])
    BY <1>1, <1>3, <1>6, Typed
  <2> QED BY <1>2, <1>5, <1>6, <1>8, <2>1, SetFine
<1>10. Works(S, v)
  BY <1>1, <1>2, <1>9, WorksKept
<1>11. PICK w : w \in PodRecord /\ Works(S, w) /\ Becomes(p, w)
  <2>1. CASE x[1] = "router"
    <3>1. PICK w : Goes(v, w, "link", x, k) /\ Becomes(p, w)
      BY <1>1, <2>1 DEF Tag, GoTo, Goes
    <3>2. w \in PodRecord /\ Works(S, w)
      BY <1>1, <1>3, <1>5, <1>9, <1>10, <2>1, <3>1, GoToWorks
    <3> QED BY <3>1, <3>2
  <2>2. CASE x[1] # "router"
    <3>1. PICK w : Proceeds(v, w, x, k) /\ Becomes(p, w)
      BY <1>1, <2>2 DEF Tag, Next1, Proceeds
    <3>2. x[1] # "server"
      BY <1>1 DEF Tagged
    <3>3. w \in PodRecord /\ Works(S, w)
      BY <1>1, <1>3, <1>5, <1>9, <1>10, <2>2, <3>1, <3>2, NextItem
    <3> QED BY <3>1, <3>3
  <2> QED BY <2>1, <2>2
<1>12. allowance' \in [WorkerActs -> Nat] /\ pod' = [pod EXCEPT ![p] = w]
  BY <1>2, <1>11 DEF CompleteInv, WorkerTypeOK, Becomes
<1> QED BY <1>2, <1>7, <1>9, <1>11, <1>12, PodKept

\* A Pod that changes an instance stands where it stood.
LEMMA SetStep ==
  ASSUME CompleteInv, NEW p \in Pods, Running(p), NEW x \in Items, NEW k \in 1 .. Len(res[x]),
         NEW r \in Instance, Grows(x[1], res[x][k], r), Fine(res, x, r), SetInst(x, k, r)
  PROVE  /\ res' \in Store /\ Evolves(res, res') /\ FineIn(res') /\ res'[x][k] = r
         /\ (\A y \in Items : Len(res'[y]) = Len(res[y])) /\ Works(res', pod[p])
<1>1. PICK S : S = res'
  OBVIOUS
<1>2. Sets(res, S, x, k, r)
  BY <1>1 DEF Sets, SetInst
<1>3. res \in Store /\ FineIn(res) /\ pod[p] \in PodRecord /\ Works(res, pod[p])
  BY Typed
<1>4. /\ S \in Store /\ Evolves(res, S) /\ FineIn(S) /\ S[x][k] = r
      /\ \A y \in Items : Len(S[y]) = Len(res[y])
  BY <1>2, <1>3, SetFine
<1>5. Works(S, pod[p])
  BY <1>3, <1>4, WorksKept
<1> QED BY <1>1, <1>4, <1>5

LEMMA Linked ==
  ASSUME CompleteInv, NEW p \in Pods, Link(p), UNCHANGED turn
  PROVE  Preserved
<1>1. PICK v, x, k : /\ v \in PodRecord /\ v = pod[p] /\ x = Item(p) /\ x = Plan[v.at] /\ Running(p)
                     /\ Works(res, v) /\ v.pc = "link" /\ k = pod[p].got[x]
                     /\ x[1] \in {"router", "fip", "port"} /\ Mine(res, v, x)
  BY Typed DEF Link, Running, Item, Works, Begun
<1>2. UNCHANGED <<allowance, uid, key, published, overlapped, turn>> /\ res \in Store
  BY Typed DEF Link
<1>3. CASE Fail(p) /\ UNCHANGED res
  BY <1>2, <1>3, FailKept
<1>4. x \in Items /\ k \in 1 .. Len(res[x]) /\ res[x][k].maker = v.uid /\ res[x][k].uid = v.uid
  BY <1>1 DEF Mine
<1>5. PICK o \in Instance : o = res[x][k] /\ Fine(res, x, o)
  BY <1>2, <1>4, StoreAt, Typed DEF FineIn
<1>6. ASSUME NEW z \in Needs(x)
      PROVE  /\ Uses(p, z) \in Items \X Nat
             /\ Uses(p, z)[1] \in Items /\ Uses(p, z)[2] \in 1 .. Len(res[Uses(p, z)[1]])
             /\ res[Uses(p, z)[1]][Uses(p, z)[2]].uid = v.uid
  <2>1. Mine(res, v, z) /\ z[1] # "keypair"
    BY <1>1, <1>2, Needed
  <2>2. z \in Items /\ v.got[z] \in 1 .. Len(res[z]) /\ res[z][v.got[z]].uid = v.uid /\ v.got[z] \in Nat
    BY <1>1, <2>1 DEF Mine, PodRecord
  <2> QED BY <1>1, <2>2 DEF Uses
<1>7. ASSUME SetInst(x, k, IF x[1] = "router"
                           THEN [o EXCEPT !.links = {Uses(p, <<"subnet", "none">>)}]
                           ELSE IF x[1] = "fip" THEN [o EXCEPT !.links = {Uses(p, PortOf(x[2]))}]
                           ELSE [o EXCEPT !.rules = GroupsOf(x[2])]),
             Next1(p, x, k)
      PROVE  Preserved
  <2>1. PICK r : /\ r \in Instance /\ r.maker = o.maker /\ r.uid = o.uid
                 /\ (x[1] = "router" => r.links # {}) /\ Fine(res, x, r) /\ SetInst(x, k, r)
    <3>1. CASE x[1] \in {"router", "fip"}
      <4>1. PICK z : z = IF x[1] = "router" THEN <<"subnet", "none">> ELSE PortOf(x[2])
        OBVIOUS
      <4>2. z \in Needs(x)
        BY <3>1, <4>1 DEF Needs
      <4>3. PICK l : /\ l = Uses(p, z) /\ l \in Items \X Nat
                     /\ l[1] \in Items /\ l[2] \in 1 .. Len(res[l[1]]) /\ res[l[1]][l[2]].uid = v.uid
        BY <1>6, <4>2
      <4>4. PICK r : r = [o EXCEPT !.links = {l}]
        OBVIOUS
      <4>5. SetInst(x, k, r)
        BY <1>7, <3>1, <4>1, <4>3, <4>4
      <4>6. r \in Instance /\ r.maker = o.maker /\ r.uid = o.uid /\ r.links = {l}
        BY <4>3, <4>4 DEF Instance
      <4>7. Fine(res, x, r)
        BY <1>4, <1>5, <3>1, <4>3, <4>6 DEF Fine
      <4> QED BY <4>5, <4>6, <4>7
    <3>2. CASE x[1] = "port"
      <4>1. PICK r : r = [o EXCEPT !.rules = GroupsOf(x[2])]
        OBVIOUS
      <4>2. SetInst(x, k, r)
        BY <1>7, <3>2, <4>1
      <4>3. GroupsOf(x[2]) \subseteq Groups
        BY DEF GroupsOf, Groups
      <4>4. r \in Instance /\ r.maker = o.maker /\ r.uid = o.uid /\ r.links = o.links
        BY <4>1, <4>3 DEF Instance
      <4>5. Fine(res, x, r)
        BY <1>4, <1>5, <3>2, <4>4 DEF Fine
      <4> QED BY <3>2, <4>2, <4>4, <4>5
    <3> QED BY <1>1, <3>1, <3>2
  <2>2. Grows(x[1], res[x][k], r)
    BY <1>1, <1>5, <2>1 DEF Grows
  <2>3. PICK S : S = res' /\ S \in Store /\ Evolves(res, S) /\ FineIn(S) /\ S[x][k] = r
                 /\ Len(S[x]) = Len(res[x]) /\ Works(S, v)
    BY <1>1, <1>4, <2>1, <2>2, SetStep
  <2>4. PICK w : Proceeds(v, w, x, k) /\ Becomes(p, w)
    BY <1>1, <1>7 DEF Next1, Proceeds
  <2>5. w \in PodRecord /\ Works(S, w)
    <3>1. x[1] # "server" /\ k \in 1 .. Len(S[x])
      BY <1>1, <1>4, <2>3
    <3> QED BY <1>1, <1>4, <1>5, <2>1, <2>3, <2>4, <3>1, NextItem
  <2>6. allowance' \in [WorkerActs -> Nat] /\ pod' = [pod EXCEPT ![p] = w]
    BY <1>2, <2>4 DEF CompleteInv, WorkerTypeOK, Becomes
  <2> QED BY <1>2, <2>3, <2>5, <2>6, PodKept
<1>8. \/ Fail(p) /\ UNCHANGED res
      \/ /\ SetInst(x, k, IF x[1] = "router"
                           THEN [o EXCEPT !.links = {Uses(p, <<"subnet", "none">>)}]
                           ELSE IF x[1] = "fip" THEN [o EXCEPT !.links = {Uses(p, PortOf(x[2]))}]
                           ELSE [o EXCEPT !.rules = GroupsOf(x[2])])
         /\ Next1(p, x, k)
  BY <1>1, <1>5 DEF Link, Inst
<1> QED BY <1>3, <1>7, <1>8

LEMMA VolumeKept ==
  ASSUME CompleteInv, NEW p \in Pods, VolumeReady(p), UNCHANGED turn
  PROVE  Preserved
<1>1. PICK v, x, k : /\ v \in PodRecord /\ v = pod[p] /\ x = Item(p) /\ x = Plan[v.at]
                     /\ Works(res, v) /\ k = pod[p].got[x] /\ x[1] = "volume" /\ Mine(res, v, x)
  BY Typed DEF VolumeReady, Running, Item, Works, Begun
<1>2. UNCHANGED <<allowance, uid, key, res, published, overlapped, turn>> /\ res \in Store
  BY Typed DEF VolumeReady
<1>3. CASE Fail(p)
  BY <1>2, <1>3, FailKept
<1>4. CASE Next1(p, x, k)
  <2>1. PICK w : Proceeds(v, w, x, k) /\ Becomes(p, w)
    BY <1>1, <1>4 DEF Next1, Proceeds
  <2>2. x \in Items /\ k \in 1 .. Len(res[x]) /\ res[x][k].maker = v.uid /\ res[x][k].uid = v.uid
    BY <1>1 DEF Mine
  <2>3. x[1] # "server" /\ x[1] # "router"
    BY <1>1
  <2>4. w \in PodRecord /\ Works(res, w)
    BY <1>1, <1>2, <2>1, <2>2, <2>3, NextItem
  <2> QED BY <1>2, <2>1, <2>4, PodAlone
<1> QED BY <1>1, <1>3, <1>4 DEF VolumeReady

\* A step that is about no item of its own.
LEMMA PassKept ==
  ASSUME CompleteInv, NEW p \in Pods, Running(p), Next1(p, Item(p), 0), Item(p) \notin Items,
         Item(p)[1] \in {"external", "image", "rules"},
         UNCHANGED <<allowance, uid, key, res, published, overlapped, turn>>
  PROVE  Preserved
<1>1. PICK v, x : /\ v \in PodRecord /\ v = pod[p] /\ x = Item(p) /\ x = Plan[v.at] /\ Works(res, v)
  BY Typed DEF Item
<1>2. PICK w : Proceeds(v, w, x, 0) /\ Becomes(p, w)
  BY <1>1 DEF Next1, Proceeds
<1>3. Holds(res, w, x)
  BY <1>1 DEF Holds
<1>4. x \notin Items /\ x[1] # "publish" /\ 0 \in Nat /\ res \in Store
  BY <1>1, Typed
<1>5. w \in PodRecord /\ Works(res, w)
  BY <1>1, <1>2, <1>3, <1>4, NextWorks
<1> QED BY <1>2, <1>5, PodAlone

LEMMA NotItems ==
  ASSUME NEW x, x[1] \in {"external", "image", "rules", "rule", "find", "publish"}
  PROVE  x \notin Items
BY ItemSteps DEF Kinds

LEMMA LookUpKept ==
  ASSUME CompleteInv, NEW p \in Pods, LookUp(p), UNCHANGED turn
  PROVE  Preserved
<1>1. Item(p)[1] \in {"external", "image"} /\ Running(p)
  BY DEF LookUp, Running
<1>2. Item(p) \notin Items
  BY <1>1, NotItems
<1> QED BY <1>1, <1>2, PassKept DEF LookUp

LEMMA CheckRulesKept ==
  ASSUME CompleteInv, NEW p \in Pods, CheckRules(p), UNCHANGED turn
  PROVE  Preserved
<1>1. Item(p)[1] = "rules" /\ Running(p)
  BY DEF CheckRules, Running
<1>2. Item(p) \notin Items
  BY <1>1, NotItems
<1>3. UNCHANGED <<allowance, uid, key, res, published, overlapped, turn>>
  BY DEF CheckRules
<1>4. CASE Fail(p)
  BY <1>3, <1>4, FailKept
<1>5. CASE Next1(p, Item(p), 0)
  BY <1>1, <1>2, <1>3, <1>5, PassKept
<1> QED BY <1>4, <1>5 DEF CheckRules

LEMMA AddRulesKept ==
  ASSUME CompleteInv, NEW p \in Pods, AddRules(p), UNCHANGED turn
  PROVE  Preserved
<1>1. PICK v, x : /\ v \in PodRecord /\ v = pod[p] /\ x = Item(p) /\ x = Plan[v.at] /\ Works(res, v)
                  /\ x[1] = "rule" /\ Running(p)
  BY Typed DEF Item, AddRules, Running
<1>2. UNCHANGED <<allowance, uid, key, published, overlapped, turn>> /\ res \in Store
  BY Typed DEF AddRules
<1>3. PICK g : g = <<"group", x[2]>>
  OBVIOUS
<1>4. g \in Needs(x) /\ g[1] = "group"
  BY <1>1, <1>3 DEF Needs
<1>5. PICK k : k = v.got[g] /\ g \in Items /\ k \in 1 .. Len(res[g]) /\ Mine(res, v, g)
  BY <1>1, <1>2, <1>4, Needed DEF Mine
<1>6. PICK o \in Instance : o = res[g][k] /\ Fine(res, g, o)
  BY <1>2, <1>5, StoreAt, Typed DEF FineIn
<1>7. PICK r : r = [o EXCEPT !.rules = @ \cup Rules(x[2])]
  OBVIOUS
<1>8. x[2] \in Groups
  BY <1>1, Followed DEF PodRecord
<1>9. Rules(x[2]) \subseteq {"internal", "ssh", "6443", "80", "443"}
  BY <1>8 DEF Groups, Rules
<1>10. r \in Instance /\ r.maker = o.maker /\ r.uid = o.uid /\ r.links = o.links
       /\ r.rules = o.rules \cup Rules(x[2])
  BY <1>7, <1>9 DEF Instance
<1>11. Grows(g[1], res[g][k], r) /\ Fine(res, g, r)
  BY <1>4, <1>6, <1>10 DEF Grows, Fine
<1>12. SetInst(g, k, r)
  BY <1>1, <1>3, <1>5, <1>6, <1>7 DEF AddRules, Group, Inst
<1>13. PICK S : S = res' /\ S \in Store /\ Evolves(res, S) /\ FineIn(S) /\ S[g][k] = r
                /\ Len(S[g]) = Len(res[g]) /\ Works(S, v)
  BY <1>1, <1>5, <1>10, <1>11, <1>12, SetStep
<1>14. PICK w : Proceeds(v, w, x, 0) /\ Becomes(p, w)
  BY <1>1 DEF AddRules, Next1, Proceeds
<1>15. x \notin Items
  BY <1>1, NotItems
<1>16. w.got = v.got /\ w.uid = v.uid
  BY <1>1, <1>14, <1>15 DEF Proceeds, PodRecord
<1>17. Mine(S, w, g)
  BY <1>5, <1>6, <1>10, <1>13, <1>16 DEF Mine
<1>18. Holds(S, w, x)
  <2>1. Rules(x[2]) \subseteq S[g][w.got[g]].rules
    BY <1>5, <1>10, <1>13, <1>16
  <2> QED BY <1>1, <1>3, <1>15, <1>17, <2>1 DEF Holds
<1>19. w \in PodRecord /\ Works(S, w)
  <2>1. x[1] # "publish" /\ 0 \in Nat
    BY <1>1
  <2> QED BY <1>1, <1>13, <1>14, <1>15, <1>18, <2>1, NextWorks
<1>20. allowance' \in [WorkerActs -> Nat] /\ pod' = [pod EXCEPT ![p] = w]
  BY <1>2, <1>14 DEF CompleteInv, WorkerTypeOK, Becomes
<1> QED BY <1>2, <1>13, <1>19, <1>20, PodKept

LEMMA FindKept ==
  ASSUME CompleteInv, NEW p \in Pods, Find(p), UNCHANGED turn
  PROVE  Preserved
<1>1. PICK v, y, x : /\ v \in PodRecord /\ v = pod[p] /\ y = Item(p) /\ y = Plan[v.at] /\ Works(res, v)
                     /\ y[1] = "find" /\ v.pc = "look" /\ x = <<"server", y[2]>>
  BY Typed DEF Find, Running, Item
<1>2. UNCHANGED <<allowance, uid, key, res, published, overlapped, turn>> /\ res \in Store
  BY Typed DEF Find
<1>3. CASE Fail(p)
  BY <1>2, <1>3, FailKept
<1>4. PICK i \in 1 .. LastStep : i = v.at
  BY <1>1 DEF PodRecord
<1>5. i + 3 \in 1 .. LastStep /\ Plan[i + 3] = x
  BY <1>1, <1>4, ServerInARow
<1>6. x \in Items
  BY <1>1, <1>5, ItemSteps DEF Kinds
<1>7. PICK n \in Nat : n = Len(res[x])
  BY <1>2, <1>6, StoreAt
<1>8. CASE Becomes(p, [pod[p] EXCEPT !.at = @ + 1, !.got[x] = n])
  <2>1. PICK g : g = [v.got EXCEPT ![x] = n]
    OBVIOUS
  <2>2. g \in [Items -> Nat] /\ (\A z \in Items : z # x => g[z] = v.got[z]) /\ g[x] = n
    BY <1>1, <1>6, <2>1 DEF PodRecord
  <2>3. PICK w : w = [v EXCEPT !.at = @ + 1, !.got = g]
    OBVIOUS
  <2>4. Becomes(p, w)
    BY <1>1, <1>8, <2>1, <2>3
  <2>5. i + 1 \in 1 .. LastStep
    BY <1>4, <1>5, PlanDomain
  <2>6. w \in PodRecord /\ w.pc = "look" /\ w.at = v.at + 1 /\ w.got = g /\ w.uid = v.uid
    BY <1>1, <1>4, <2>2, <2>3, <2>5 DEF PodRecord
  <2>7. ASSUME NEW z \in Items
        PROVE  w.got[z] \in 0 .. Len(res[z])
    <3>1. v.got[z] \in 0 .. Len(res[z])
      BY <1>1 DEF Works
    <3>2. n \in 0 .. n
      OBVIOUS
    <3> QED BY <1>7, <2>2, <2>6, <3>1, <3>2
  <2>8. ASSUME NEW j \in 1 .. v.at - 1, Plan[j] \in Items
        PROVE  w.got[Plan[j]] = v.got[Plan[j]]
    <3>1. j \in 1 .. LastStep /\ j # i + 3
      BY <1>4, PlanDomain
    <3>2. Plan[j] # x
      BY <1>5, <3>1, PlanOnce
    <3> QED BY <2>2, <2>6, <2>8, <3>2
  <2>9. Begun(res, w)
    BY <2>6 DEF Begun
  <2>10. Holds(res, w, y)
    <3>1. y \notin Items
      BY <1>1, NotItems
    <3> QED BY <1>1, <3>1 DEF Holds
  <2>11. Works(res, w)
    BY <1>1, <1>2, <2>6, <2>7, <2>8, <2>9, <2>10, Forward
  <2> QED BY <1>2, <2>4, <2>6, <2>11, PodAlone
<1> QED BY <1>1, <1>3, <1>7, <1>8 DEF Find

LEMMA EvolvesFurther ==
  ASSUME NEW R \in Store, NEW S \in Store, NEW T \in Store, Evolves(R, S), Evolves(S, T)
  PROVE  Evolves(R, T)
<1>1. ASSUME NEW x \in Items
      PROVE  Len(R[x]) <= Len(T[x])
  <2>1. Len(R[x]) \in Nat /\ Len(S[x]) \in Nat /\ Len(T[x]) \in Nat
    BY StoreAt
  <2> QED BY <2>1 DEF Evolves
<1>2. ASSUME NEW x \in Items, NEW k \in 1 .. Len(R[x])
      PROVE  Grows(x[1], R[x][k], T[x][k])
  <2>1. k \in 1 .. Len(S[x]) /\ Grows(x[1], R[x][k], S[x][k])
    BY EvolvesAt
  <2>2. Grows(x[1], S[x][k], T[x][k])
    BY <2>1, EvolvesAt
  <2> QED BY <2>1, <2>2 DEF Grows
<1> QED BY <1>1, <1>2 DEF Evolves

LEMMA ServerCreated ==
  ASSUME CompleteInv, NEW p \in Pods, CreateServer(p), UNCHANGED turn
  PROVE  Preserved
<1>1. PICK v, x, y, z : /\ v \in PodRecord /\ v = pod[p] /\ x = Item(p) /\ x = Plan[v.at] /\ Works(res, v)
                        /\ x[1] = "server" /\ v.pc = "look" /\ Running(p)
                        /\ y = <<"volume", x[2]>> /\ z = <<"port", x[2]>>
  BY Typed DEF CreateServer, Running, Item
<1>2. UNCHANGED <<allowance, uid, key, published, overlapped, turn>> /\ res \in Store /\ FineIn(res)
  BY Typed DEF CreateServer
<1>3. CASE Fail(p) /\ UNCHANGED res
  BY <1>2, <1>3, FailKept
<1>4. x \in Items
  BY <1>1, ItemSteps DEF Kinds, PodRecord
<1>5. y \in Needs(x) /\ z \in Needs(x)
  BY <1>1 DEF Needs
<1>6. Mine(res, v, y) /\ Mine(res, v, z) /\ y \in Items /\ z \in Items
  BY <1>1, <1>2, <1>5, Needed
<1>7. PICK k : k = v.got[y] /\ k \in 1 .. Len(res[y]) /\ res[y][k].uid = v.uid
  BY <1>1, <1>6 DEF Mine
<1>8. PICK j : j = v.got[z] /\ j \in 1 .. Len(res[z]) /\ res[z][j].uid = v.uid
  BY <1>1, <1>6 DEF Mine
<1>9. PICK o \in Instance : o = res[y][k] /\ Fine(res, y, o)
  BY <1>2, <1>6, <1>7, StoreAt DEF FineIn
<1>10. PICK n \in Instance : n = New(p, x)
  BY <1>1, <1>4, NewFine
<1>11. Fine(res, x, n)
  <2>1. n.maker = v.uid /\ n.uid = v.uid /\ n.state = "build" /\ n.links = {<<y, k>>, <<z, j>>}
    BY <1>1, <1>7, <1>8, <1>10 DEF New, Links, Uses
  <2>2. v.uid # Nobody
    BY <1>1 DEF Works
  <2>3. \A l \in n.links : l[1] \in Items /\ l[2] \in 1 .. Len(res[l[1]]) /\ res[l[1]][l[2]].uid = n.maker
    BY <1>6, <1>7, <1>8, <2>1
  <2>4. /\ <<"volume", x[2]>> \in Items /\ <<"port", x[2]>> \in Items
        /\ \E i \in 1 .. Len(res[<<"volume", x[2]>>]), m \in 1 .. Len(res[<<"port", x[2]>>]) :
             /\ n.links = {<< <<"volume", x[2]>>, i >>, << <<"port", x[2]>>, m >>}
             /\ n.state = "active" => res[<<"volume", x[2]>>][i].state = "in-use"
    BY <1>1, <1>6, <1>7, <1>8, <2>1
  <2> QED BY <2>1, <2>2, <2>3, <2>4 DEF Fine
<1>12. ASSUME o.state = "available",
              res' = [res EXCEPT ![x] = Append(@, n), ![y][k].state = "reserved"],
              GoTo(p, "look", x, Len(res[x]) + 1)
       PROVE  Preserved
  <2>1. PICK r : r = [o EXCEPT !.state = "reserved"]
    OBVIOUS
  <2>2. /\ r \in Instance /\ r.maker = o.maker /\ r.uid = o.uid /\ r.links = o.links
        /\ r.state = "reserved"
    BY <2>1 DEF Instance
  <2>3. Grows(y[1], res[y][k], r) /\ Fine(res, y, r)
    <3>1. o.state # "in-use" /\ y[1] = "volume"
      BY <1>1, <1>12
    <3>2. Grows(y[1], res[y][k], r)
      BY <1>9, <2>2, <3>1 DEF Grows
    <3>3. Fine(res, y, r)
      BY <1>9, <2>2, <3>1 DEF Fine
    <3> QED BY <3>2, <3>3
  <2>4. PICK T : T = [res EXCEPT ![y][k] = r]
    OBVIOUS
  <2>5. /\ T \in Store /\ Evolves(res, T) /\ FineIn(T)
        /\ \A a \in Items : Len(T[a]) = Len(res[a])
    <3>1. Sets(res, T, y, k, r)
      BY <2>4 DEF Sets
    <3> QED BY <1>2, <1>6, <1>7, <2>2, <2>3, <3>1, SetFine
  <2>6. PICK S : S = [T EXCEPT ![x] = Append(@, n)]
    OBVIOUS
  <2>7. S \in Store /\ Evolves(T, S) /\ FineIn(S) /\ Len(S[x]) = Len(T[x]) + 1
    <3>1. Adds(T, S, x, n)
      BY <2>6 DEF Adds
    <3>2. Fine(T, x, n)
      BY <1>2, <1>4, <1>11, <2>5, FineKept
    <3> QED BY <1>4, <2>5, <3>1, <3>2, AppendFine
  <2>8. Evolves(res, S)
    BY <1>2, <2>5, <2>7, EvolvesFurther
  <2>9. res' = S
    <3>1. x # y
      BY <1>1
    <3>2. res'[x] = S[x]
      BY <1>2, <1>4, <1>12, <2>4, <2>6, <3>1 DEF Store
    <3>3. res'[y] = S[y]
      <4>1. res'[y] = [res[y] EXCEPT ![k].state = "reserved"]
        BY <1>2, <1>6, <1>12, <3>1 DEF Store
      <4>2. S[y] = [res[y] EXCEPT ![k] = r]
        BY <1>2, <1>6, <2>4, <2>6, <3>1 DEF Store
      <4> QED BY <1>9, <2>1, <4>1, <4>2
    <3>4. \A a \in Items : a # x /\ a # y => res'[a] = S[a]
      BY <1>2, <1>12, <2>4, <2>6 DEF Store
    <3>5. \A a \in Items : res'[a] = S[a]
      BY <3>2, <3>3, <3>4
    <3>6. res' = [a \in Items |-> res'[a]]
      BY <1>2, <1>12 DEF Store
    <3>7. S = [a \in Items |-> S[a]]
      BY <2>7 DEF Store
    <3> QED BY <3>5, <3>6, <3>7
  <2>10. Works(S, v)
    BY <1>1, <1>2, <2>7, <2>8, WorksKept
  <2>11. PICK m \in 1 .. Len(S[x]) : m = Len(res[x]) + 1
    <3>1. Len(res[x]) \in Nat
      BY <1>2, <1>4, StoreAt
    <3> QED BY <1>4, <2>5, <2>7, <3>1
  <2>12. PICK w : Goes(v, w, "look", x, m) /\ Becomes(p, w)
    BY <1>1, <1>12, <2>11 DEF GoTo, Goes
  <2>13. w \in PodRecord /\ Works(S, w)
    BY <1>1, <1>4, <2>7, <2>10, <2>12, GoToWorks
  <2>14. allowance' \in [WorkerActs -> Nat] /\ pod' = [pod EXCEPT ![p] = w]
    BY <1>2, <2>12 DEF CompleteInv, WorkerTypeOK, Becomes
  <2> QED BY <1>2, <2>7, <2>8, <2>9, <2>13, <2>14, PodKept
<1>13. \/ Fail(p) /\ UNCHANGED res
       \/ /\ o.state = "available"
          /\ res' = [res EXCEPT ![x] = Append(@, n), ![y][k].state = "reserved"]
          /\ GoTo(p, "look", x, Len(res[x]) + 1)
  BY <1>1, <1>7, <1>9, <1>10 DEF CreateServer, Inst
<1> QED BY <1>3, <1>12, <1>13

LEMMA ServerVerified ==
  ASSUME CompleteInv, NEW p \in Pods, VerifyServer(p), UNCHANGED turn
  PROVE  Preserved
<1>1. PICK v, x, k : /\ v \in PodRecord /\ v = pod[p] /\ x = Item(p) /\ x = Plan[v.at] /\ Works(res, v)
                     /\ x[1] = "server" /\ v.pc = "look" /\ Running(p) /\ k = v.got[x] /\ k # 0
  BY Typed DEF VerifyServer, Running, Item
<1>2. UNCHANGED <<allowance, uid, key, res, published, overlapped, turn>> /\ res \in Store /\ FineIn(res)
  BY Typed DEF VerifyServer
<1>3. CASE Fail(p)
  BY <1>2, <1>3, FailKept
<1>4. x \in Items
  BY <1>1, ItemSteps DEF Kinds, PodRecord
<1>5. k \in 1 .. Len(res[x])
  <2>1. k \in 0 .. Len(res[x]) /\ Len(res[x]) \in Nat
    BY <1>1, <1>2, <1>4, StoreAt DEF Works
  <2> QED BY <1>1, <2>1
<1>6. PICK y, z : y = <<"volume", x[2]>> /\ z = <<"port", x[2]>>
  OBVIOUS
<1>7. PICK r : r = res[x][k] /\ Fine(res, x, r)
  BY <1>2, <1>4, <1>5 DEF FineIn
<1>8. ASSUME r.state = "active", r.uid = v.uid, r.links = Links(p, x), Next1(p, x, k)
      PROVE  Preserved
  <2>1. y \in Needs(x) /\ y[1] = "volume"
    BY <1>1, <1>6 DEF Needs
  <2>2. Mine(res, v, y)
    BY <1>1, <1>2, <2>1, Needed
  <2>3. r.links = {<<y, v.got[y]>>, <<z, v.got[z]>>}
    BY <1>1, <1>6, <1>8 DEF Links, Uses
  <2>4. PICK i \in 1 .. Len(res[y]), j \in 1 .. Len(res[z]) :
          r.links = {<<y, i>>, <<z, j>>} /\ res[y][i].state = "in-use"
    <3>1. \E i \in 1 .. Len(res[y]), j \in 1 .. Len(res[z]) :
            r.links = {<<y, i>>, <<z, j>>} /\ (r.state = "active" => res[y][i].state = "in-use")
      BY <1>1, <1>6, <1>7 DEF Fine
    <3> QED BY <1>8, <3>1
  <2>5. y # z
    BY <1>6
  <2>6. i = v.got[y]
    <3>1. <<y, v.got[y]>> \in {<<y, i>>, <<z, j>>}
      BY <2>3, <2>4
    <3> QED BY <2>5, <3>1
  <2>7. PICK w : Proceeds(v, w, x, k) /\ Becomes(p, w)
    BY <1>1, <1>8 DEF Next1, Proceeds
  <2>8. w.got = v.got /\ w.uid = v.uid
    <3>1. v.got \in [Items -> Nat]
      BY <1>1 DEF PodRecord
    <3>2. [v.got EXCEPT ![x] = k] = v.got
      BY <1>1, <1>4, <3>1
    <3> QED BY <1>1, <1>4, <2>7, <3>2 DEF Proceeds, PodRecord
  <2>9. r.maker = v.uid
    BY <1>1, <1>7, <1>8 DEF Fine
  <2>10. Mine(res, w, x) /\ Mine(res, w, y)
    BY <1>1, <1>4, <1>5, <1>7, <1>8, <2>2, <2>8, <2>9 DEF Mine
  <2>11. res[x][w.got[x]].state = "active" /\ res[y][w.got[y]].state = "in-use"
    BY <1>1, <1>7, <1>8, <2>4, <2>6, <2>8
  <2>12. Holds(res, w, x)
    BY <1>1, <1>6, <2>10, <2>11 DEF Holds
  <2>13. x[1] # "publish" /\ k \in Nat
    BY <1>1, <1>2, <1>4, <1>5, StoreAt
  <2>14. w \in PodRecord /\ Works(res, w)
    BY <1>1, <1>2, <1>5, <2>7, <2>12, <2>13, NextWorks
  <2> QED BY <1>2, <2>7, <2>14, PodAlone
<1>9. \/ Fail(p)
      \/ r.state = "active" /\ r.uid = v.uid /\ r.links = Links(p, x) /\ Next1(p, x, k)
  BY <1>1, <1>7 DEF VerifyServer, Inst
<1> QED BY <1>3, <1>8, <1>9

LEMMA Published ==
  ASSUME CompleteInv, NEW p \in Pods, Publish(p), UNCHANGED turn
  PROVE  Preserved
<1>1. PICK v : /\ v \in PodRecord /\ v = pod[p] /\ Item(p) = Plan[v.at] /\ Works(res, v)
               /\ Plan[v.at][1] = "publish"
  BY Typed DEF Publish, Running, Item
<1>2. res \in Store /\ FineIn(res) /\ UNCHANGED res
  BY Typed DEF Publish
<1>3. v.at = LastStep
  BY <1>1, ServerInARow DEF PodRecord
<1>4. LastStep \in Nat
  BY PlanDomain
<1>5. ASSUME NEW x \in Items
      PROVE  Stands(res, v.uid, x)
  <2>1. PICK i \in 1 .. LastStep : Plan[i] = x
    BY ItemSteps
  <2>2. i # LastStep
    BY <1>1, <1>3, <2>1, NotItems
  <2>3. i \in 1 .. v.at - 1
    BY <1>3, <1>4, <2>2
  <2>4. Holds(res, v, x)
    BY <1>1, <2>1, <2>3 DEF Works
  <2>5. Mine(res, v, x)
    BY <2>4 DEF Holds
  <2>6. PICK k \in 1 .. Len(res[x]) : k = v.got[x]
    BY <2>5 DEF Mine
  <2>7. PICK r : r = res[x][k]
    OBVIOUS
  <2>8. r.maker = v.uid /\ (x[1] = "keypair" \/ r.uid = v.uid)
    BY <2>5, <2>6, <2>7 DEF Mine
  <2>9. (x[1] = "router" => r.links # {}) /\ (x[1] = "server" => r.state = "active")
    BY <2>4, <2>6, <2>7 DEF Holds
  <2>10. ASSUME x[1] = "group"
         PROVE  Rules(x[2]) \subseteq r.rules
    <3>1. PICK j \in 1 .. LastStep - 1 : Plan[j] = <<"rule", x[2]>>
      BY <2>1, <2>10, Followed
    <3>2. Holds(res, v, <<"rule", x[2]>>)
      BY <1>1, <1>3, <3>1 DEF Works
    <3>3. x = <<"group", x[2]>>
      BY <2>10, ItemPair
    <3>4. PICK y, s : s = x[2] /\ y = <<"rule", s>>
      OBVIOUS
    <3>6. y[1] = "rule" /\ y[2] = s
      BY <3>4
    <3>5. Rules(y[2]) \subseteq res[<<"group", y[2]>>][v.got[<<"group", y[2]>>]].rules
      BY <3>2, <3>4, <3>6 DEF Holds
    <3> QED BY <2>6, <2>7, <3>3, <3>4, <3>5, <3>6
  <2>11. ASSUME x[1] = "volume"
         PROVE  r.state = "in-use"
    <3>1. PICK j \in 1 .. LastStep - 1 : Plan[j] = <<"server", x[2]>>
      BY <2>1, <2>11, Followed
    <3>2. Holds(res, v, <<"server", x[2]>>)
      BY <1>1, <1>3, <3>1 DEF Works
    <3>3. x = <<"volume", x[2]>>
      BY <2>11, ItemPair
    <3>4. PICK y, s : s = x[2] /\ y = <<"server", s>>
      OBVIOUS
    <3>6. y[1] = "server" /\ y[2] = s
      BY <3>4
    <3>5. res[<<"volume", y[2]>>][v.got[<<"volume", y[2]>>]].state = "in-use"
      BY <3>2, <3>4, <3>6 DEF Holds
    <3> QED BY <2>6, <2>7, <3>3, <3>4, <3>5, <3>6
  <2> QED BY <2>7, <2>8, <2>9, <2>10, <2>11 DEF Stands
<1>6. v.uid \in Nat \ {Nobody}
  BY <1>1 DEF Works, PodRecord
<1>7. published' = published \cup {v.uid} /\ pod' = [pod EXCEPT ![p] = NoPod]
  BY <1>1 DEF Publish, Fail, Becomes
<1>8. /\ allowance' \in [WorkerActs -> Nat] /\ uid' \in Nat \ {Nobody} /\ key' \in Nat
      /\ overlapped' \in BOOLEAN /\ turn' \in Pods
      /\ pod \in [Pods -> PodRecord] /\ published \subseteq Nat \ {Nobody}
  BY DEF Publish, CompleteInv, WorkerTypeOK
<1>9. published' \subseteq Nat \ {Nobody} /\ pod' \in [Pods -> PodRecord]
  BY <1>6, <1>7, <1>8, NoPodTyped
<1>10. \A q \in Pods : pod'[q] = pod[q] \/ pod'[q].pc = "idle" \/ Works(res', pod'[q])
  BY <1>7, <1>8, NoPodTyped
<1>11. \A u \in published' : u \in published \/ \A x \in Items : Stands(res', u, x)
  BY <1>2, <1>5, <1>7
<1>12. res' \in Store /\ Evolves(res, res') /\ FineIn(res')
  BY <1>2, SameStore
<1> QED BY <1>8, <1>9, <1>10, <1>11, <1>12, StepKept

\* What others do leaves the Pods where they are.
LEMMA OthersKept ==
  ASSUME CompleteInv, res' \in Store, Evolves(res, res'), FineIn(res'),
         allowance' \in [WorkerActs -> Nat], uid' \in Nat \ {Nobody}, key' \in Nat,
         UNCHANGED <<pod, published, overlapped, turn>>
  PROVE  Preserved
<1>1. /\ overlapped' \in BOOLEAN /\ turn' \in Pods /\ published' \subseteq Nat \ {Nobody}
      /\ pod' \in [Pods -> PodRecord]
  BY DEF CompleteInv, WorkerTypeOK
<1>2. \A q \in Pods : pod'[q] = pod[q] \/ pod'[q].pc = "idle" \/ Works(res', pod'[q])
  OBVIOUS
<1>3. \A u \in published' : u \in published \/ \A x \in Items : Stands(res', u, x)
  OBVIOUS
<1> QED BY <1>1, <1>2, <1>3, StepKept

\* An instance changes in a way that suits it.
LEMMA ChangeFine ==
  ASSUME CompleteInv, NEW x \in Items, NEW k \in 1 .. Len(res[x]), NEW r \in Instance,
         r.maker = res[x][k].maker, r.uid = res[x][k].uid,
         r.links = res[x][k].links \/ (r.links = {} /\ x[1] = "fip"),
         x[1] = "group" => res[x][k].rules \subseteq r.rules,
         x[1] = "volume" => res[x][k].state # "in-use",
         x[1] = "server" => res[x][k].state = "build" /\ r.state = "error",
         SetInst(x, k, r)
  PROVE  res' \in Store /\ Evolves(res, res') /\ FineIn(res')
<1>1. res \in Store /\ FineIn(res)
  BY Typed
<1>2. PICK o : o = res[x][k] /\ Fine(res, x, o)
  BY <1>1 DEF FineIn
<1>3. Fine(res, x, r)
  BY <1>2 DEF Fine
<1>4. Grows(x[1], res[x][k], r)
  BY DEF Grows
<1>5. PICK S : S = res'
  OBVIOUS
<1>6. Sets(res, S, x, k, r)
  BY <1>5 DEF Sets, SetInst
<1>7. S \in Store /\ Evolves(res, S) /\ FineIn(S)
  BY <1>1, <1>3, <1>4, <1>6, SetFine
<1> QED BY <1>5, <1>7

LEMMA VolumeCreatedKept ==
  ASSUME CompleteInv, NEW s \in Range(Servers), VolumeCreated(s), UNCHANGED turn
  PROVE  Preserved
<1>1. PICK x : x = <<"volume", s>> /\ x \in Items
  BY ServerItems
<1>2. res \in Store
  BY Typed
<1>3. PICK k \in 1 .. Len(res[x]) :
        /\ res[x][k].state = "creating"
        /\ SetInst(x, k, [res[x][k] EXCEPT !.state = "available"])
  BY <1>1, <1>2, StoreAt DEF VolumeCreated, Inst
<1>4. PICK o \in Instance : o = res[x][k]
  BY <1>1, <1>2, StoreAt
<1>5. PICK r : r = [o EXCEPT !.state = "available"]
  OBVIOUS
<1>6. /\ r \in Instance /\ r.maker = o.maker /\ r.uid = o.uid /\ r.links = o.links
  BY <1>5 DEF Instance
<1>7. SetInst(x, k, r) /\ x[1] = "volume"
  BY <1>1, <1>3, <1>4, <1>5
<1>8. res' \in Store /\ Evolves(res, res') /\ FineIn(res')
  BY <1>1, <1>3, <1>4, <1>6, <1>7, ChangeFine
<1>9. allowance' \in [WorkerActs -> Nat] /\ uid' \in Nat \ {Nobody} /\ key' \in Nat
  BY DEF VolumeCreated, CompleteInv, WorkerTypeOK
<1> QED BY <1>8, <1>9, OthersKept DEF VolumeCreated

LEMMA VolumeFailsKept ==
  ASSUME CompleteInv, NEW s \in Range(Servers), VolumeFails(s), UNCHANGED turn
  PROVE  Preserved
<1>1. PICK x : x = <<"volume", s>> /\ x \in Items
  BY ServerItems
<1>2. res \in Store
  BY Typed
<1>3. PICK k \in 1 .. Len(res[x]) :
        res[x][k].state = "creating" /\ SetInst(x, k, [res[x][k] EXCEPT !.state = "error"])
  BY <1>1, <1>2, StoreAt DEF VolumeFails, Inst
<1>4. PICK o \in Instance : o = res[x][k]
  BY <1>1, <1>2, StoreAt
<1>5. PICK r : r = [o EXCEPT !.state = "error"]
  OBVIOUS
<1>6. r \in Instance /\ r.maker = o.maker /\ r.uid = o.uid /\ r.links = o.links /\ r.state = "error"
  BY <1>5 DEF Instance
<1>7. SetInst(x, k, r) /\ x[1] = "volume"
  BY <1>1, <1>3, <1>4, <1>5
<1>8. res' \in Store /\ Evolves(res, res') /\ FineIn(res')
  BY <1>1, <1>3, <1>4, <1>6, <1>7, ChangeFine
<1>9. allowance' \in [WorkerActs -> Nat]
  <2>1. "errors" \in WorkerActs
    BY DEF WorkerActs
  <2> QED BY <2>1, AllowTyped DEF CompleteInv, WorkerTypeOK, VolumeFails
<1>10. uid' \in Nat \ {Nobody} /\ key' \in Nat
  BY DEF VolumeFails, CompleteInv, WorkerTypeOK
<1> QED BY <1>8, <1>9, <1>10, OthersKept DEF VolumeFails

LEMMA ServerFailsKept ==
  ASSUME CompleteInv, NEW s \in Range(Servers), ServerFails(s), UNCHANGED turn
  PROVE  Preserved
<1>1. PICK x : x = <<"server", s>> /\ x \in Items
  BY ServerItems
<1>2. res \in Store
  BY Typed
<1>3. PICK k \in 1 .. Len(res[x]) :
        res[x][k].state = "build" /\ SetInst(x, k, [res[x][k] EXCEPT !.state = "error"])
  BY <1>1, <1>2, StoreAt DEF ServerFails, Inst
<1>4. PICK o \in Instance : o = res[x][k]
  BY <1>1, <1>2, StoreAt
<1>5. PICK r : r = [o EXCEPT !.state = "error"]
  OBVIOUS
<1>6. r \in Instance /\ r.maker = o.maker /\ r.uid = o.uid /\ r.links = o.links /\ r.state = "error"
  BY <1>5 DEF Instance
<1>7. SetInst(x, k, r) /\ x[1] = "server"
  BY <1>1, <1>3, <1>4, <1>5
<1>8. res' \in Store /\ Evolves(res, res') /\ FineIn(res')
  BY <1>1, <1>3, <1>4, <1>6, <1>7, ChangeFine
<1>9. allowance' \in [WorkerActs -> Nat]
  <2>1. "errors" \in WorkerActs
    BY DEF WorkerActs
  <2> QED BY <2>1, AllowTyped DEF CompleteInv, WorkerTypeOK, ServerFails
<1>10. uid' \in Nat \ {Nobody} /\ key' \in Nat
  BY DEF ServerFails, CompleteInv, WorkerTypeOK
<1> QED BY <1>8, <1>9, <1>10, OthersKept DEF ServerFails

LEMMA ServerBuiltKept ==
  ASSUME CompleteInv, NEW s \in Range(Servers), ServerBuilt(s), UNCHANGED turn
  PROVE  Preserved
<1>1. PICK x, y, z : x = <<"server", s>> /\ y = <<"volume", s>> /\ z = <<"port", s>>
  OBVIOUS
<1>2. x \in Items /\ y \in Items /\ x # y /\ y # z /\ x[1] = "server" /\ y[1] = "volume" /\ x[2] = s
  BY <1>1, ServerItems
<1>3. res \in Store /\ FineIn(res)
  BY Typed
<1>4. PICK k \in 1 .. Len(res[x]) : \E v \in Inst(x, k).links :
        /\ Inst(x, k).state = "build" /\ v[1] = y
        /\ res' = [res EXCEPT ![x][k].state = "active",
                              ![y][v[2]] = [@ EXCEPT !.state = "in-use", !.links = {<<x, k>>}]]
  <2>1. DOMAIN res[x] = 1 .. Len(res[x])
    BY <1>2, <1>3, StoreAt
  <2> QED BY <1>1, <2>1 DEF ServerBuilt
<1>5. PICK o \in Instance : o = res[x][k] /\ Fine(res, x, o) /\ o = Inst(x, k)
  BY <1>2, <1>3, StoreAt DEF FineIn, Inst
<1>6. PICK i \in 1 .. Len(res[y]), j \in Nat : o.links = {<<y, i>>, <<z, j>>}
  <2>1. \E i \in 1 .. Len(res[y]), j \in 1 .. Len(res[z]) : o.links = {<<y, i>>, <<z, j>>}
    BY <1>1, <1>2, <1>5 DEF Fine
  <2> QED BY <2>1
<1>7. PICK v \in o.links :
        /\ v[1] = y
        /\ res' = [res EXCEPT ![x][k].state = "active",
                              ![y][v[2]] = [@ EXCEPT !.state = "in-use", !.links = {<<x, k>>}]]
  BY <1>4, <1>5
<1>8. res' = [res EXCEPT ![x][k].state = "active",
                         ![y][i] = [@ EXCEPT !.state = "in-use", !.links = {<<x, k>>}]]
  <2>1. v = <<y, i>>
    BY <1>2, <1>6, <1>7
  <2>2. v[2] = i
    BY <2>1
  <2> QED BY <1>7, <2>2
<1>9. PICK a \in Instance : a = res[y][i] /\ Fine(res, y, a)
  BY <1>2, <1>3, StoreAt DEF FineIn
<1>10. a.uid = o.maker /\ o.uid = o.maker /\ a.uid = a.maker
  <2>1. <<y, i>> \in o.links
    BY <1>6
  <2> QED BY <1>2, <1>5, <1>9, <2>1 DEF Fine
<1>11. PICK b : b = [a EXCEPT !.state = "in-use", !.links = {<<x, k>>}]
  OBVIOUS
<1>12. /\ b \in Instance /\ b.maker = a.maker /\ b.uid = a.uid /\ b.links = {<<x, k>>}
       /\ b.state = "in-use"
  <2>1. k \in Nat
    BY <1>2, <1>3, StoreAt
  <2>2. PICK links \in SUBSET (Items \X Nat) : links = {<<x, k>>}
    <3>1. <<x, k>> \in Items \X Nat
      BY <1>2, <2>1
    <3>2. {<<x, k>>} \in SUBSET (Items \X Nat)
      BY <3>1
    <3> QED BY <3>2
  <2>3. b = [a EXCEPT !.state = "in-use", !.links = links]
    BY <1>11, <2>2
  <2>4. /\ b \in Instance /\ b.maker = a.maker /\ b.uid = a.uid /\ b.links = links
        /\ b.state = "in-use"
    BY <2>2, <2>3 DEF Instance
  <2> QED BY <2>2, <2>4
<1>13. Grows(y[1], res[y][i], b) /\ Fine(res, y, b)
  <2>1. Grows(y[1], res[y][i], b)
    BY <1>2, <1>9, <1>12 DEF Grows
  <2>2. a.maker # Nobody
    BY <1>9 DEF Fine
  <2>3. \A l \in b.links : l[1] \in Items /\ l[2] \in 1 .. Len(res[l[1]]) /\ res[l[1]][l[2]].uid = b.maker
    <3>1. ASSUME NEW l \in b.links
          PROVE  l[1] = x /\ l[2] = k
      BY <1>12, <3>1
    <3>2. x \in Items /\ k \in 1 .. Len(res[x]) /\ res[x][k].uid = b.maker
      BY <1>2, <1>5, <1>10, <1>12
    <3> QED BY <3>1, <3>2
  <2> QED BY <1>2, <1>10, <1>12, <2>1, <2>2, <2>3 DEF Fine
<1>14. PICK T : T = [res EXCEPT ![y][i] = b]
  OBVIOUS
<1>15. /\ T \in Store /\ Evolves(res, T) /\ FineIn(T) /\ T[y][i] = b
       /\ \A c \in Items : Len(T[c]) = Len(res[c])
  <2>1. Sets(res, T, y, i, b)
    BY <1>14 DEF Sets
  <2> QED BY <1>2, <1>3, <1>12, <1>13, <2>1, SetFine
<1>16. T[x] = res[x]
  BY <1>2, <1>3, <1>14 DEF Store
<1>17. PICK r : r = [o EXCEPT !.state = "active"]
  OBVIOUS
<1>18. r \in Instance /\ r.maker = o.maker /\ r.uid = o.uid /\ r.links = o.links /\ r.state = "active"
  BY <1>17 DEF Instance
<1>19. Fine(T, x, o)
  BY <1>2, <1>5, <1>15, <1>16 DEF FineIn
<1>20. Fine(T, x, r)
  <2>1. /\ <<"volume", x[2]>> \in Items /\ <<"port", x[2]>> \in Items
        /\ \E c \in 1 .. Len(T[<<"volume", x[2]>>]), d \in 1 .. Len(T[<<"port", x[2]>>]) :
             /\ r.links = {<< <<"volume", x[2]>>, c >>, << <<"port", x[2]>>, d >>}
             /\ r.state = "active" => T[<<"volume", x[2]>>][c].state = "in-use"
    <3>1. y = <<"volume", x[2]>> /\ z = <<"port", x[2]>>
      BY <1>1, <1>2
    <3>2. PICK c \in 1 .. Len(T[y]), d \in 1 .. Len(T[z]) : o.links = {<<y, c>>, <<z, d>>}
      BY <1>2, <1>19, <3>1 DEF Fine
    <3>3. c = i
      <4>1. <<y, c>> \in {<<y, i>>, <<z, j>>}
        BY <1>6, <3>2
      <4> QED BY <1>2, <4>1
    <3>4. y \in Items /\ z \in Items
      BY <1>2, <1>19, <3>1 DEF Fine
    <3>5. r.links = {<<y, c>>, <<z, d>>} /\ T[y][c].state = "in-use"
      BY <1>12, <1>15, <1>18, <3>2, <3>3
    <3> QED BY <3>1, <3>2, <3>4, <3>5
  <2> QED BY <1>18, <1>19, <2>1 DEF Fine
<1>21. Grows(x[1], T[x][k], r)
  BY <1>2, <1>5, <1>16, <1>18 DEF Grows
<1>22. PICK S : S = [T EXCEPT ![x][k] = r]
  OBVIOUS
<1>23. S \in Store /\ Evolves(T, S) /\ FineIn(S)
  <2>1. Sets(T, S, x, k, r)
    BY <1>22 DEF Sets
  <2>2. k \in 1 .. Len(T[x])
    BY <1>16
  <2> QED BY <1>2, <1>15, <1>18, <1>20, <1>21, <2>1, <2>2, SetFine
<1>24. Evolves(res, S)
  BY <1>3, <1>15, <1>23, EvolvesFurther
<1>25. res' = S
  <2>1. res'[x] = S[x]
    <3>1. res'[x] = [res[x] EXCEPT ![k].state = "active"]
      BY <1>2, <1>3, <1>8 DEF Store
    <3>2. S[x] = [res[x] EXCEPT ![k] = r]
      BY <1>2, <1>15, <1>16, <1>22 DEF Store
    <3> QED BY <1>5, <1>17, <3>1, <3>2
  <2>2. res'[y] = S[y]
    <3>1. res'[y] = [res[y] EXCEPT ![i] = [@ EXCEPT !.state = "in-use", !.links = {<<x, k>>}]]
      BY <1>2, <1>3, <1>8 DEF Store
    <3>2. S[y] = [res[y] EXCEPT ![i] = b]
      BY <1>2, <1>3, <1>14, <1>22 DEF Store
    <3> QED BY <1>9, <1>11, <3>1, <3>2
  <2>3. \A c \in Items : c # x /\ c # y => res'[c] = S[c]
    BY <1>3, <1>8, <1>14, <1>22 DEF Store
  <2>4. \A c \in Items : res'[c] = S[c]
    BY <2>1, <2>2, <2>3
  <2>5. res' = [c \in Items |-> res'[c]]
    BY <1>3, <1>8 DEF Store
  <2>6. S = [c \in Items |-> S[c]]
    BY <1>23 DEF Store
  <2> QED BY <2>4, <2>5, <2>6
<1>26. allowance' \in [WorkerActs -> Nat] /\ uid' \in Nat \ {Nobody} /\ key' \in Nat
  BY DEF ServerBuilt, CompleteInv, WorkerTypeOK
<1> QED BY <1>23, <1>24, <1>25, <1>26, OthersKept DEF ServerBuilt

LEMMA RecreateKept ==
  ASSUME CompleteInv, Recreate \/ RotateKey, UNCHANGED turn
  PROVE  Preserved
<1>1. res' \in Store /\ Evolves(res, res') /\ FineIn(res')
  BY Typed, SameStore DEF Recreate, RotateKey
<1>2. "recreations" \in WorkerActs /\ "rotations" \in WorkerActs
  BY DEF WorkerActs
<1>3. allowance' \in [WorkerActs -> Nat]
  BY <1>2, AllowTyped DEF CompleteInv, WorkerTypeOK, Recreate, RotateKey
<1>4. uid' \in Nat \ {Nobody} /\ key' \in Nat
  BY DEF Recreate, RotateKey, CompleteInv, WorkerTypeOK, Nobody
<1> QED BY <1>1, <1>3, <1>4, OthersKept DEF Recreate, RotateKey

LEMMA TamperKept ==
  ASSUME CompleteInv, Tamper, UNCHANGED turn
  PROVE  Preserved
<1>1. res \in Store
  BY Typed
<1>2. PICK x \in Items : \E k \in DOMAIN res[x] :
        \/ x[1] = "group" /\ SetInst(x, k, [Inst(x, k) EXCEPT !.rules = @ \cup {"other"}])
        \/ x[1] = "port" /\ SetInst(x, k, [Inst(x, k) EXCEPT !.rules = {}])
        \/ x[1] = "fip" /\ SetInst(x, k, [Inst(x, k) EXCEPT !.links = {}])
  BY DEF Tamper
<1>3. PICK k \in 1 .. Len(res[x]) :
        \/ x[1] = "group" /\ SetInst(x, k, [Inst(x, k) EXCEPT !.rules = @ \cup {"other"}])
        \/ x[1] = "port" /\ SetInst(x, k, [Inst(x, k) EXCEPT !.rules = {}])
        \/ x[1] = "fip" /\ SetInst(x, k, [Inst(x, k) EXCEPT !.links = {}])
  BY <1>1, <1>2, StoreAt
<1>4. PICK o \in Instance : o = res[x][k] /\ o = Inst(x, k)
  BY <1>1, <1>3, StoreAt DEF Inst
<1>5. res' \in Store /\ Evolves(res, res') /\ FineIn(res')
  <2>1. CASE x[1] = "group" /\ SetInst(x, k, [o EXCEPT !.rules = @ \cup {"other"}])
    <3>1. PICK r : r = [o EXCEPT !.rules = @ \cup {"other"}]
      OBVIOUS
    <3>2. /\ r \in Instance /\ r.maker = o.maker /\ r.uid = o.uid
          /\ r.links = o.links /\ o.rules \subseteq r.rules
      BY <3>1 DEF Instance
    <3>3. SetInst(x, k, r)
      BY <2>1, <3>1
    <3> QED BY <1>3, <1>4, <2>1, <3>2, <3>3, ChangeFine
  <2>2. CASE x[1] = "port" /\ SetInst(x, k, [o EXCEPT !.rules = {}])
    <3>1. PICK r : r = [o EXCEPT !.rules = {}]
      OBVIOUS
    <3>2. r \in Instance /\ r.maker = o.maker /\ r.uid = o.uid /\ r.links = o.links
      BY <3>1 DEF Instance
    <3>3. SetInst(x, k, r)
      BY <2>2, <3>1
    <3> QED BY <1>3, <1>4, <2>2, <3>2, <3>3, ChangeFine
  <2>3. CASE x[1] = "fip" /\ SetInst(x, k, [o EXCEPT !.links = {}])
    <3>1. PICK r : r = [o EXCEPT !.links = {}]
      OBVIOUS
    <3>2. r \in Instance /\ r.maker = o.maker /\ r.uid = o.uid /\ r.links = {}
      BY <3>1 DEF Instance
    <3>3. SetInst(x, k, r)
      BY <2>3, <3>1
    <3> QED BY <1>3, <1>4, <2>3, <3>2, <3>3, ChangeFine
  <2> QED BY <1>3, <1>4, <2>1, <2>2, <2>3
<1>6. allowance' \in [WorkerActs -> Nat]
  <2>1. "tampers" \in WorkerActs
    BY DEF WorkerActs
  <2> QED BY <2>1, AllowTyped DEF CompleteInv, WorkerTypeOK, Tamper
<1>7. uid' \in Nat \ {Nobody} /\ key' \in Nat
  BY DEF Tamper, CompleteInv, WorkerTypeOK
<1> QED BY <1>5, <1>6, <1>7, OthersKept DEF Tamper

-----------------------------------------------------------------------------
(* The theorems. *)

LEMMA CompleteInit == WorkerInit => CompleteInv
<1> SUFFICES ASSUME WorkerInit PROVE CompleteInv
  OBVIOUS
<1>1. res = [x \in Items |-> <<>>] /\ res \in [Items -> Seq(Instance)]
  BY DEF WorkerInit
<1>2. pod \in [Pods -> PodRecord] /\ \A p \in Pods : pod[p] = NoPod
  BY NoPodTyped DEF WorkerInit
<1>3. WorkerTypeOK
  <2>1. allowance \in [WorkerActs -> Nat]
    BY BudgetAssumption DEF WorkerInit
  <2>2. uid \in Nat \ {Nobody} /\ key \in Nat
    BY DEF WorkerInit, Nobody
  <2>3. published \subseteq Nat \ {Nobody}
    BY DEF WorkerInit
  <2>4. overlapped \in BOOLEAN /\ turn \in Pods
    BY DEF WorkerInit
  <2> QED BY <1>1, <1>2, <2>1, <2>2, <2>3, <2>4 DEF WorkerTypeOK
<1>4. FineIn(res)
  BY <1>1 DEF FineIn
<1>5. WorksInv
  BY <1>2, NoPodTyped DEF WorksInv, Running
<1>6. StandsInv
  BY DEF WorkerInit, StandsInv
<1> QED BY <1>3, <1>4, <1>5, <1>6 DEF CompleteInv

LEMMA CompleteStep == CompleteInv /\ [WorkerNext]_workerVars => Preserved
<1> SUFFICES ASSUME CompleteInv, [WorkerNext]_workerVars
             PROVE  Preserved
  OBVIOUS
<1>1. ASSUME NEW p \in Pods, BeginPod(p) \/ Switch(p)
      PROVE  Preserved
  BY <1>1, BeginKept, SwitchKept
<1>2. ASSUME NEW p \in Pods, PodStep(p)
      PROVE  Preserved
  BY <1>2, Looked, Created, TagKept, Linked, VolumeKept, LookUpKept, AddRulesKept, CheckRulesKept,
     FindKept, ServerCreated, ServerVerified, Published DEF PodStep
<1>3. CASE CloudStep
  BY <1>3, VolumeCreatedKept, ServerBuiltKept DEF CloudStep
<1>4. CASE Outside
  BY <1>4, KillKept, VolumeFailsKept, ServerFailsKept, RecreateKept, TamperKept DEF Outside
<1>5. CASE UNCHANGED workerVars
  <2>1. CompleteInv'
    BY <1>5 DEF workerVars, CompleteInv, WorkerTypeOK, WorksInv, Running, StandsInv
  <2>2. Evolves(res, res')
    BY <1>5, Typed, SameStore DEF workerVars
  <2> QED BY <2>1, <2>2 DEF Preserved
<1> QED BY <1>1, <1>2, <1>3, <1>4, <1>5 DEF WorkerNext

LEMMA CompleteAlways == WorkerSpec => []CompleteInv
<1>1. CompleteInv /\ [WorkerNext]_workerVars => CompleteInv'
  BY CompleteStep DEF Preserved
<1> QED BY CompleteInit, <1>1, PTL DEF WorkerSpec

\* Every variable of the worker keeps its type, for any names and number of nodes, any
\* number of Pods and whatever the environment does: no step looks at an instance that
\* does not exist.
THEOREM WorkerTypeCorrect == WorkerSpec => []WorkerTypeOK
<1>1. CompleteInv => WorkerTypeOK
  BY DEF CompleteInv
<1> QED BY <1>1, CompleteAlways, PTL

LEMMA CompleteNow == CompleteInv => PublishedIsComplete
<1> SUFFICES ASSUME CompleteInv, NEW u \in published, NEW x \in Items
             PROVE  Sound(u, x)
  BY DEF PublishedIsComplete
<1>1. PICK k \in 1 .. Len(res[x]) :
        /\ res[x][k].maker = u /\ (x[1] = "keypair" \/ res[x][k].uid = u)
        /\ x[1] = "router" => res[x][k].links # {}
        /\ x[1] = "group" => Rules(x[2]) \subseteq res[x][k].rules
        /\ x[1] = "volume" => res[x][k].state = "in-use"
        /\ x[1] = "server" => res[x][k].state = "active"
  BY DEF CompleteInv, StandsInv, Stands
<1>2. k \in DOMAIN res[x]
  BY <1>1, Typed, StoreAt
<1>3. \A l \in res[x][k].links : res[l[1]][l[2]].uid = u
  BY <1>1, Typed DEF FineIn, Fine
<1>4. (CASE x[1] = "router" -> res[x][k].links # {}
         [] x[1] = "group" -> Rules(x[2]) \subseteq res[x][k].rules
         [] x[1] = "volume" -> res[x][k].state = "in-use"
         [] x[1] = "server" -> res[x][k].state = "active"
         [] OTHER -> TRUE)
  BY <1>1
<1> QED BY <1>1, <1>2, <1>3, <1>4 DEF Sound

\* What has been reported as ready is all there, of one owner and linked up, however
\* many Pods have each contributed a part before they died and whatever others did to it.
THEOREM CompleteWhenPublished == WorkerSpec => []PublishedIsComplete
BY CompleteAlways, CompleteNow, PTL

-----------------------------------------------------------------------------
(* One of each. *)

\* One Pod runs.
SoleInv == ~overlapped => \A p, q \in Pods : Running(p) /\ Running(q) => p = q

OneIn(R) == \A x \in Items : x[1] # "keypair" => Len(R[x]) <= 1

\* What a Pod is about to create is not there; and from the moment it has looked for a
\* server it knows whether there is one.
Absent(R, v) ==
  LET x == Plan[v.at]
  IN  /\ v.pc = "create" /\ x[1] # "keypair" => Len(R[x]) = 0
      /\ v.pc # "idle" /\ x[1] \in {"volume", "port", "server"} =>
           v.got[<<"server", x[2]>>] = Len(R[<<"server", x[2]>>])
AbsentInv == ~overlapped => \A p \in Pods : Absent(res, pod[p])

\* Floating IPs are of the owner of the one network: a Pod that has its network finds
\* all of them.
FipIn(R) ==
  \A x \in Items : \A k \in 1 .. Len(R[x]) :
    x[1] = "fip" => /\ Len(R[<<"network", "none">>]) > 0
                    /\ R[<<"network", "none">>][1].uid = R[x][k].maker

OnceInv == SoleInv /\ AbsentInv /\ (~overlapped => OneIn(res) /\ FipIn(res))

\* The server of a volume or a port is an item.
LEMMA PartOfServer ==
  ASSUME NEW i \in 1 .. LastStep, Plan[i][1] \in {"volume", "port", "server"}
  PROVE  <<"server", Plan[i][2]>> \in Items
<1>1. LastStep \in Nat /\ LastStep >= 25
  BY PlanDomain
<1>2. \E j \in 1 .. LastStep : Plan[j] = <<"server", Plan[i][2]>>
  <2>1. CASE i \in 1 .. 24
    <3>1. Plan[i][2] = "jumphost"
      BY <2>1, FirstPlan
    <3>2. Plan[23] = <<"server", "jumphost">> /\ 23 \in 1 .. LastStep
      BY <1>1, PlanFirst, FirstSteps
    <3> QED BY <3>1, <3>2
  <2>2. CASE i \in 25 .. LastStep - 1
    <3>1. PICK n \in 1 .. Len(Nodes), k \in 1 .. 4 : Plan[i] = << Stages[k], Nodes[n] >>
      BY <2>2, NodeSteps
    <3>2. 4 \in 1 .. 4
      OBVIOUS
    <3>3. PICK a \in Int : a = 20 + 4 * n + 4 /\ a \in 25 .. LastStep - 1
      BY <3>2, NodeStepAt
    <3>4. Plan[a] = <<"server", Nodes[n]>>
      BY <3>2, <3>3, NodeStepAt, PhaseNames
    <3>5. Plan[i][2] = Nodes[n] /\ a \in 1 .. LastStep
      BY <1>1, <3>1, <3>3
    <3> QED BY <3>4, <3>5
  <2>3. CASE i = LastStep
    BY <2>3, PlanLast
  <2> QED BY <2>1, <2>2, <2>3, PlanCases
<1>3. "server" \in Kinds
  BY DEF Kinds
<1> QED BY <1>2, <1>3, ItemSteps

\* The step makes no instance.
SameSize == \A x \in Items : Len(res'[x]) = Len(res[x])

\* The network is one of the resources.
LEMMA NetworkItem == <<"network", "none">> \in Items
<1>1. 1 \in 1 .. 24 /\ 1 \in 1 .. LastStep
  BY PlanDomain
<1>2. Plan[1] = <<"network", "none">>
  BY <1>1, PlanFirst, FirstSteps
<1> QED BY <1>1, <1>2, ItemSteps DEF Kinds

\* No new instance: still one of each, and floating IPs of the network's owner.
LEMMA SizeOnce ==
  ASSUME CompleteInv, Preserved, SameSize, OneIn(res), FipIn(res)
  PROVE  OneIn(res') /\ FipIn(res')
<1>1. OneIn(res')
  BY DEF SameSize, OneIn
<1>2. res \in Store /\ res' \in Store /\ Evolves(res, res') /\ FineIn(res)
  BY Typed DEF Preserved, CompleteInv, WorkerTypeOK, Store
<1>3. ASSUME NEW x \in Items, NEW k \in 1 .. Len(res'[x]), x[1] = "fip"
      PROVE  /\ Len(res'[<<"network", "none">>]) > 0
             /\ res'[<<"network", "none">>][1].uid = res'[x][k].maker
  <2>1. PICK n : n = <<"network", "none">>
    OBVIOUS
  <2>2. n \in Items
    BY <2>1, NetworkItem
  <2>3. k \in 1 .. Len(res[x])
    BY DEF SameSize
  <2>4. Len(res[n]) > 0 /\ res[n][1].uid = res[x][k].maker
    BY <1>3, <2>1, <2>3 DEF FipIn
  <2>5. 1 \in 1 .. Len(res[n])
    BY <1>2, <2>2, <2>4, StoreAt
  <2>6. 1 \in 1 .. Len(res'[n]) /\ Grows(n[1], res[n][1], res'[n][1])
    BY <1>2, <2>2, <2>5, EvolvesAt
  <2>7. Grows(x[1], res[x][k], res'[x][k])
    BY <1>2, <2>3, EvolvesAt
  <2>8. res[x][k].maker # Nobody
    BY <1>2, <2>3 DEF FineIn, Fine
  <2>9. res'[n][1].uid = res'[x][k].maker
    BY <2>4, <2>6, <2>7, <2>8 DEF Grows
  <2>10. Len(res'[n]) > 0
    BY <2>2, <2>4 DEF SameSize
  <2> QED BY <2>1, <2>9, <2>10
<1>4. FipIn(res')
  BY <1>3 DEF FipIn
<1> QED BY <1>1, <1>4

\* Only this Pod runs.
LEMMA PodOnce ==
  ASSUME CompleteInv, OnceInv, NEW p \in Pods, Running(p), NEW w, pod' = [pod EXCEPT ![p] = w],
         UNCHANGED overlapped,
         ~overlapped => Absent(res', w) /\ OneIn(res') /\ FipIn(res')
  PROVE  OnceInv'
<1>1. DOMAIN pod = Pods
  BY DEF CompleteInv, WorkerTypeOK
<1>2. pod'[p] = w /\ \A q \in Pods : q # p => pod'[q] = pod[q]
  BY <1>1
<1>3. \A q \in Pods : pod'[q].pc # "idle" => Running(q)
  BY <1>2 DEF Running
<1>4. SoleInv'
  BY <1>3 DEF OnceInv, SoleInv, Running
<1>5. ASSUME ~overlapped, NEW q \in Pods
      PROVE  Absent(res', pod'[q])
  <2>1. CASE q = p
    BY <1>2, <1>5, <2>1
  <2>2. CASE q # p
    <3>1. pod'[q].pc = "idle"
      BY <1>2, <1>5, <2>2 DEF OnceInv, SoleInv, Running
    <3> QED BY <3>1 DEF Absent
  <2> QED BY <2>1, <2>2
<1>6. AbsentInv'
  BY <1>5 DEF AbsentInv
<1> QED BY <1>4, <1>6 DEF OnceInv

\* No Pod moves, and no resource is made.
LEMMA OthersOnce ==
  ASSUME CompleteInv, OnceInv, Preserved, SameSize, UNCHANGED <<pod, overlapped>>
  PROVE  OnceInv'
<1>1. SoleInv'
  BY DEF OnceInv, SoleInv, Running
<1>2. ASSUME ~overlapped, NEW q \in Pods
      PROVE  Absent(res', pod[q])
  <2>1. PICK v, x : v = pod[q] /\ x = Plan[v.at] /\ v \in PodRecord /\ (v.pc # "idle" => Works(res, v))
    BY Typed DEF Running
  <2>2. Absent(res, v)
    BY <1>2, <2>1 DEF OnceInv, AbsentInv
  <2>3. v.pc = "create" /\ x[1] # "keypair" => Len(res'[x]) = 0
    <3>1. v.pc = "create" => x \in Items
      BY <2>1 DEF Works, Begun
    <3> QED BY <2>1, <2>2, <3>1 DEF Absent, SameSize
  <2>4. ASSUME v.pc # "idle", x[1] \in {"volume", "port", "server"}
        PROVE  v.got[<<"server", x[2]>>] = Len(res'[<<"server", x[2]>>])
    <3>1. <<"server", x[2]>> \in Items
      BY <2>1, <2>4, PartOfServer DEF PodRecord
    <3> QED BY <2>1, <2>2, <2>4, <3>1 DEF Absent, SameSize
  <2> QED BY <2>1, <2>3, <2>4 DEF Absent
<1>3. AbsentInv'
  BY <1>2 DEF AbsentInv
<1>4. ~overlapped => OneIn(res') /\ FipIn(res')
  BY SizeOnce DEF OnceInv
<1> QED BY <1>1, <1>3, <1>4 DEF OnceInv

LEMMA NoPodAbsent ==
  ASSUME NEW R
  PROVE  Absent(R, NoPod)
BY NoPodTyped DEF Absent

\* A Pod that goes on within a step, or to the next one.
LEMMA GoesAbsent ==
  ASSUME NEW R, NEW S, NEW v \in PodRecord, Absent(R, v), v.pc # "idle", NEW x \in Items, x = Plan[v.at],
         x[1] # "server", \A y \in Items : y[1] = "server" => Len(S[y]) = Len(R[y]),
         NEW pc, pc # "create", NEW k, NEW w, Goes(v, w, pc, x, k)
  PROVE  Absent(S, w)
<1>1. w.pc = pc /\ w.at = v.at /\ \A y \in Items : y # x => w.got[y] = v.got[y]
  BY DEF Goes, PodRecord
<1>2. ASSUME x[1] \in {"volume", "port", "server"}
      PROVE  w.got[<<"server", x[2]>>] = Len(S[<<"server", x[2]>>])
  <2>1. PICK y : y = <<"server", x[2]>> /\ y \in Items
    BY <1>2, PartOfServer DEF PodRecord
  <2>2. y[1] = "server" /\ y # x
    BY <2>1
  <2>3. v.got[y] = Len(R[y])
    BY <1>2, <2>1 DEF Absent
  <2> QED BY <1>1, <2>1, <2>2, <2>3
<1> QED BY <1>1, <1>2 DEF Absent

LEMMA ProceedsAbsent ==
  ASSUME NEW R, NEW S, NEW v \in PodRecord, Absent(R, v), v.pc # "idle", NEW x, x = Plan[v.at],
         x[1] # "find", x[1] # "publish", \A y \in Items : y[1] = "server" => Len(S[y]) = Len(R[y]),
         NEW k, NEW w, Proceeds(v, w, x, k)
  PROVE  Absent(S, w)
<1>1. PICK g : g = IF x \in Items THEN [v.got EXCEPT ![x] = k] ELSE v.got
  OBVIOUS
<1>2. w = [v EXCEPT !.pc = "look", !.at = @ + 1, !.got = g]
  BY <1>1 DEF Proceeds
<1>3. \A y \in Items : y # x => g[y] = v.got[y]
  BY <1>1 DEF PodRecord
<1>4. w.pc = "look" /\ w.at = v.at + 1 /\ w.got = g
  BY <1>2 DEF PodRecord
<1>5. PICK i \in 1 .. LastStep : i = v.at
  BY DEF PodRecord
<1>6. i + 1 \in 1 .. LastStep
  BY <1>5, ServerInARow
<1>7. ASSUME Plan[i + 1][1] \in {"volume", "port", "server"}
      PROVE  w.got[<<"server", Plan[i + 1][2]>>] = Len(S[<<"server", Plan[i + 1][2]>>])
  <2>1. x[1] \in {"volume", "port"} /\ x[2] = Plan[i + 1][2]
    BY <1>5, <1>6, <1>7, ServerInARow
  <2>2. PICK y : y = <<"server", x[2]>> /\ y \in Items
    BY <1>5, <2>1, PartOfServer
  <2>3. y[1] = "server" /\ y # x
    BY <2>1, <2>2
  <2>4. v.got[y] = Len(R[y])
    BY <2>1, <2>2 DEF Absent
  <2> QED BY <1>3, <1>4, <2>1, <2>2, <2>3, <2>4
<1> QED BY <1>4, <1>5, <1>7 DEF Absent

LEMMA MoveOnce ==
  ASSUME CompleteInv, OnceInv, NEW p \in Pods, Running(p), UNCHANGED overlapped,
         Item(p)[1] \notin {"find", "publish"},
         \A y \in Items : y[1] = "server" => Len(res'[y]) = Len(res[y]),
         ~overlapped => OneIn(res') /\ FipIn(res'),
         \/ Fail(p)
         \/ \E k : Next1(p, Item(p), k)
         \/ /\ Item(p) \in Items /\ Item(p)[1] # "server"
            /\ \E k, pc : pc # "create" /\ GoTo(p, pc, Item(p), k)
  PROVE  OnceInv'
<1>1. PICK v, x : v = pod[p] /\ v \in PodRecord /\ x = Item(p) /\ x = Plan[v.at] /\ v.pc # "idle"
  BY Typed DEF Running, Item
<1>2. ~overlapped => Absent(res, v)
  BY <1>1 DEF OnceInv, AbsentInv
<1>3. CASE Fail(p)
  BY <1>3, NoPodAbsent, PodOnce DEF Fail, Becomes
<1>4. ASSUME NEW k, Next1(p, x, k)
      PROVE  OnceInv'
  <2>1. PICK w : Proceeds(v, w, x, k) /\ pod' = [pod EXCEPT ![p] = w]
    BY <1>1, <1>4 DEF Next1, Proceeds, Becomes
  <2>2. ~overlapped => Absent(res', w)
    BY <1>1, <1>2, <2>1, ProceedsAbsent
  <2> QED BY <2>1, <2>2, PodOnce
<1>5. ASSUME NEW k, NEW pc, pc # "create", x \in Items, x[1] # "server", GoTo(p, pc, x, k)
      PROVE  OnceInv'
  <2>1. PICK w : Goes(v, w, pc, x, k) /\ pod' = [pod EXCEPT ![p] = w]
    BY <1>1, <1>5 DEF GoTo, Goes, Becomes
  <2>2. ~overlapped => Absent(res', w)
    BY <1>1, <1>2, <1>5, <2>1, GoesAbsent
  <2> QED BY <2>1, <2>2, PodOnce
<1> QED BY <1>1, <1>3, <1>4, <1>5

LEMMA ItemKind ==
  ASSUME NEW x \in Items
  PROVE  x[1] \notin {"find", "publish", "rule", "rules", "external", "image"}
BY NotItems

\* A Pod that makes nothing.
LEMMA QuietOnce ==
  ASSUME CompleteInv, OnceInv, Preserved, SameSize, NEW p \in Pods, Running(p), UNCHANGED overlapped,
         Item(p)[1] \notin {"find", "publish"},
         \/ Fail(p)
         \/ \E k : Next1(p, Item(p), k)
         \/ /\ Item(p) \in Items /\ Item(p)[1] # "server"
            /\ \E k, pc : pc # "create" /\ GoTo(p, pc, Item(p), k)
  PROVE  OnceInv'
<1>1. \A y \in Items : y[1] = "server" => Len(res'[y]) = Len(res[y])
  BY DEF SameSize
<1>2. ~overlapped => OneIn(res') /\ FipIn(res')
  BY SizeOnce DEF OnceInv
<1> QED BY <1>1, <1>2, MoveOnce

LEMMA SameResSize ==
  ASSUME UNCHANGED res
  PROVE  SameSize
BY DEF SameSize

LEMMA SetSize ==
  ASSUME CompleteInv, Preserved, NEW x, NEW k, NEW r, SetInst(x, k, r)
  PROVE  SameSize
<1>1. res \in Store /\ res' \in Store
  BY Typed DEF Preserved, CompleteInv, WorkerTypeOK, Store
<1>2. ASSUME NEW y \in Items
      PROVE  Len(res'[y]) = Len(res[y])
  <2>1. DOMAIN res'[y] = DOMAIN res[y]
    BY <1>1 DEF SetInst, Store
  <2>2. /\ DOMAIN res[y] = 1 .. Len(res[y]) /\ Len(res[y]) \in Nat
        /\ DOMAIN res'[y] = 1 .. Len(res'[y]) /\ Len(res'[y]) \in Nat
    BY <1>1, StoreAt
  <2> QED BY <2>1, <2>2
<1> QED BY <1>2 DEF SameSize

LEMMA LookOnce ==
  ASSUME CompleteInv, OnceInv, Preserved, NEW p \in Pods, Look(p), UNCHANGED turn
  PROVE  OnceInv'
<1>1. PICK v, x : /\ v \in PodRecord /\ v = pod[p] /\ x = Item(p) /\ x = Plan[v.at] /\ Running(p)
                  /\ Works(res, v) /\ v.pc = "look" /\ x \in Items /\ x[1] # "server"
  BY Typed DEF Look, Running, Item
<1>2. UNCHANGED <<res, overlapped>> /\ res \in Store /\ FineIn(res) /\ SameSize
  BY Typed, SameResSize DEF Look
<1>3. x[1] \notin {"find", "publish"}
  BY <1>1, ItemKind
<1>4. CASE Fail(p) \/ (\E k : Next1(p, x, k)) \/ (\E k : GoTo(p, "link", x, k))
  BY <1>1, <1>2, <1>3, <1>4, QuietOnce
<1>5. ASSUME Matches(p, x) = {}, Becomes(p, [pod[p] EXCEPT !.pc = "create"])
      PROVE  OnceInv'
  <2>1. PICK w : w = [v EXCEPT !.pc = "create"]
    OBVIOUS
  <2>2. w.pc = "create" /\ w.at = v.at /\ w.got = v.got
    BY <1>1, <2>1 DEF PodRecord
  <2>3. ASSUME ~overlapped, x[1] # "keypair"
        PROVE  Len(res[x]) = 0
    <3>1. DOMAIN res[x] = 1 .. Len(res[x]) /\ Len(res[x]) \in Nat
      BY <1>1, <1>2, StoreAt
    <3>2. CASE x[1] # "fip"
      <4>1. DOMAIN res[x] = {}
        BY <1>5, <2>3, <3>2 DEF Matches
      <4>2. 1 \notin 1 .. Len(res[x])
        BY <3>1, <4>1
      <4> QED BY <3>1, <4>2
    <3>3. CASE x[1] = "fip"
      <4>1. SUFFICES ASSUME Len(res[x]) # 0 PROVE FALSE
        OBVIOUS
      <4>2. PICK n : n = <<"network", "none">>
        OBVIOUS
      <4>3. n \in Needs(x)
        BY <3>3, <4>2 DEF Needs
      <4>4. Mine(res, v, n) /\ n \in Items /\ n[1] # "keypair"
        BY <1>1, <1>2, <4>3, Needed
      <4>5. 1 \in 1 .. Len(res[x])
        BY <3>1, <4>1
      <4>6. FipIn(res) /\ OneIn(res)
        BY <2>3 DEF OnceInv
      <4>7. res[n][1].uid = res[x][1].maker
        BY <1>1, <3>3, <4>2, <4>5, <4>6 DEF FipIn
      <4>8. /\ Len(res[n]) \in Nat /\ Len(res[n]) <= 1
            /\ v.got[n] \in 1 .. Len(res[n]) /\ res[n][v.got[n]].uid = v.uid
        BY <1>2, <4>4, <4>6, StoreAt DEF OneIn, Mine
      <4>9. v.got[n] = 1
        BY <4>8
      <4>10. res[x][1].maker = v.uid
        BY <4>7, <4>8, <4>9
      <4>11. 1 \in Matches(p, x)
        BY <1>1, <3>1, <3>3, <4>5, <4>10 DEF Matches, Inst
      <4> QED BY <1>5, <4>11
    <3> QED BY <3>2, <3>3
  <2>4. ~overlapped => Absent(res, v)
    BY <1>1 DEF OnceInv, AbsentInv
  <2>5. ~overlapped => Absent(res', w)
    BY <1>1, <1>2, <2>2, <2>3, <2>4 DEF Absent
  <2>6. ~overlapped => OneIn(res') /\ FipIn(res')
    BY <1>2, SizeOnce DEF OnceInv
  <2>7. pod' = [pod EXCEPT ![p] = w]
    BY <1>1, <1>5, <2>1 DEF Becomes
  <2> QED BY <1>1, <1>2, <2>5, <2>6, <2>7, PodOnce
<1>6. \/ Fail(p) \/ (\E k : Next1(p, x, k)) \/ (\E k : GoTo(p, "link", x, k))
      \/ Matches(p, x) = {} /\ Becomes(p, [pod[p] EXCEPT !.pc = "create"])
  BY <1>1 DEF Look
<1> QED BY <1>4, <1>5, <1>6

\* Creation, with nothing of the kind there before.
LEMMA CreateOnce ==
  ASSUME CompleteInv, OnceInv, Preserved, NEW p \in Pods, Create(p), UNCHANGED turn
  PROVE  OnceInv'
<1>1. PICK v, x : /\ v \in PodRecord /\ v = pod[p] /\ x = Item(p) /\ x = Plan[v.at] /\ Running(p)
                  /\ Works(res, v) /\ v.pc = "create" /\ x \in Items /\ x[1] # "server"
  BY Typed DEF Create, Running, Item, Works, Begun
<1>2. UNCHANGED overlapped /\ res \in Store /\ FineIn(res) /\ x[1] \notin {"find", "publish"}
  BY <1>1, Typed, ItemKind DEF Create
<1>3. CASE Fail(p) /\ UNCHANGED res
  BY <1>1, <1>2, <1>3, SameResSize, QuietOnce
<1>4. ASSUME res' = [res EXCEPT ![x] = Append(@, New(p, x))],
             \/ \E k : Next1(p, x, k)
             \/ \E k, pc : pc # "create" /\ GoTo(p, pc, x, k)
      PROVE  OnceInv'
  <2>1. PICK r \in Instance : r = New(p, x)
    BY <1>1, NewFine
  <2>2. PICK S : S = res'
    OBVIOUS
  <2>3. Adds(res, S, x, r)
    BY <1>4, <2>1, <2>2 DEF Adds
  <2>4. /\ S \in Store /\ Evolves(res, S)
        /\ Len(S[x]) = Len(res[x]) + 1
        /\ \A y \in Items : \A j \in 1 .. Len(S[y]) :
             \/ j \in 1 .. Len(res[y]) /\ S[y][j] = res[y][j]
             \/ y = x /\ S[y][j] = r
        /\ \A y \in Items : y # x => S[y] = res[y]
    BY <1>1, <1>2, <2>3, AppendKept
  <2>5. \A y \in Items : y[1] = "server" => Len(S[y]) = Len(res[y])
    BY <1>1, <2>4
  <2>6. ASSUME ~overlapped
        PROVE  OneIn(S) /\ FipIn(S)
    <3>1. OneIn(res) /\ FipIn(res) /\ Absent(res, v)
      BY <1>1, <2>6 DEF OnceInv, AbsentInv
    <3>2. x[1] # "keypair" => Len(res[x]) = 0
      BY <1>1, <3>1 DEF Absent
    <3>3. OneIn(S)
      <4>1. ASSUME NEW y \in Items, y[1] # "keypair"
            PROVE  Len(S[y]) <= 1
        <5>1. CASE y = x
          BY <2>4, <3>2, <4>1, <5>1
        <5>2. CASE y # x
          BY <2>4, <3>1, <4>1, <5>2 DEF OneIn
        <5> QED BY <5>1, <5>2
      <4> QED BY <4>1 DEF OneIn
    <3>4. PICK n : n = <<"network", "none">>
      OBVIOUS
    <3>5. n \in Items
      BY <3>4, NetworkItem
    <3>6. ASSUME NEW y \in Items, NEW k \in 1 .. Len(S[y]), y[1] = "fip"
          PROVE  Len(S[n]) > 0 /\ S[n][1].uid = S[y][k].maker
      <4>1. CASE k \in 1 .. Len(res[y]) /\ S[y][k] = res[y][k]
        <5>1. Len(res[n]) > 0 /\ res[n][1].uid = res[y][k].maker
          BY <3>1, <3>4, <3>6, <4>1 DEF FipIn
        <5>2. 1 \in 1 .. Len(res[n])
          BY <1>2, <3>5, <5>1, StoreAt
        <5>3. 1 \in 1 .. Len(S[n]) /\ Grows(n[1], res[n][1], S[n][1])
          BY <1>2, <2>4, <3>5, <5>2, EvolvesAt
        <5>4. res[y][k].maker # Nobody
          BY <1>2, <4>1 DEF FineIn, Fine
        <5>5. S[n][1].uid = S[y][k].maker
          BY <4>1, <5>1, <5>3, <5>4 DEF Grows
        <5>6. Len(S[n]) \in Nat
          BY <2>4, <3>5, StoreAt
        <5> QED BY <5>3, <5>5, <5>6
      <4>2. CASE y = x /\ S[y][k] = r
        <5>1. n \in Needs(x) /\ n # x /\ n[1] # "keypair"
          BY <3>4, <3>6, <4>2 DEF Needs
        <5>2. Mine(res, v, n)
          BY <1>1, <1>2, <5>1, Needed
        <5>3. /\ Len(res[n]) \in Nat /\ Len(res[n]) <= 1
              /\ v.got[n] \in 1 .. Len(res[n]) /\ res[n][v.got[n]].uid = v.uid
          BY <1>2, <3>1, <3>5, <5>1, <5>2, StoreAt DEF OneIn, Mine
        <5>4. v.got[n] = 1 /\ Len(res[n]) > 0
          BY <5>3
        <5>5. S[n] = res[n]
          BY <2>4, <3>5, <5>1
        <5>6. r.maker = v.uid
          BY <1>1, <2>1 DEF New
        <5> QED BY <4>2, <5>3, <5>4, <5>5, <5>6
      <4> QED BY <2>4, <4>1, <4>2
    <3>7. FipIn(S)
      BY <3>4, <3>6 DEF FipIn
    <3> QED BY <3>3, <3>7
  <2> QED BY <1>1, <1>2, <1>4, <2>2, <2>5, <2>6, MoveOnce
<1>5. \/ Fail(p) /\ UNCHANGED res
      \/ /\ res' = [res EXCEPT ![x] = Append(@, New(p, x))]
         /\ \/ \E k : Next1(p, x, k)
            \/ \E k, pc : pc # "create" /\ GoTo(p, pc, x, k)
  BY <1>1 DEF Create
<1> QED BY <1>3, <1>4, <1>5

LEMMA TagOnce ==
  ASSUME CompleteInv, OnceInv, Preserved, NEW p \in Pods, Tag(p), UNCHANGED turn
  PROVE  OnceInv'
<1>1. PICK v, x : /\ v \in PodRecord /\ v = pod[p] /\ x = Item(p) /\ x = Plan[v.at] /\ Running(p)
                  /\ Works(res, v) /\ v.pc = "tag" /\ x \in Items /\ x[1] \in Tagged
  BY Typed DEF Tag, Running, Item, Works, Begun
<1>2. x[1] \notin {"find", "publish", "server"}
  BY <1>1 DEF Tagged
<1>3. UNCHANGED overlapped /\ ((\E k : Next1(p, x, k)) \/ (\E k : GoTo(p, "link", x, k)))
  BY <1>1 DEF Tag
<1>4. \E k, r : SetInst(x, k, r)
  BY <1>1 DEF Tag
<1>5. SameSize
  BY <1>4, SetSize
<1> QED BY <1>1, <1>2, <1>3, <1>5, QuietOnce

LEMMA LinkOnce ==
  ASSUME CompleteInv, OnceInv, Preserved, NEW p \in Pods, Link(p), UNCHANGED turn
  PROVE  OnceInv'
<1>1. PICK v, x : /\ v \in PodRecord /\ v = pod[p] /\ x = Item(p) /\ x = Plan[v.at] /\ Running(p)
                  /\ Works(res, v) /\ v.pc = "link" /\ x[1] \in {"router", "fip", "port"}
  BY Typed DEF Link, Running, Item, Works, Begun
<1>2. UNCHANGED overlapped /\ (Fail(p) \/ \E k : Next1(p, x, k))
  BY <1>1 DEF Link
<1>3. UNCHANGED res \/ \E k, r : SetInst(x, k, r)
  BY <1>1 DEF Link
<1>4. SameSize
  BY <1>3, SetSize, SameResSize
<1> QED BY <1>1, <1>2, <1>4, QuietOnce

LEMMA AddRulesOnce ==
  ASSUME CompleteInv, OnceInv, Preserved, NEW p \in Pods, AddRules(p), UNCHANGED turn
  PROVE  OnceInv'
<1>1. Item(p)[1] = "rule" /\ Running(p) /\ UNCHANGED overlapped /\ Next1(p, Item(p), 0)
  BY DEF AddRules, Running
<1>2. \E x, k, r : SetInst(x, k, r)
  BY DEF AddRules
<1>3. SameSize
  BY <1>2, SetSize
<1> QED BY <1>1, <1>3, QuietOnce

\* Steps that only look.
LEMMA PassOnce ==
  ASSUME CompleteInv, OnceInv, Preserved, NEW p \in Pods, UNCHANGED turn,
         VolumeReady(p) \/ LookUp(p) \/ CheckRules(p) \/ VerifyServer(p)
  PROVE  OnceInv'
<1>1. SameSize /\ UNCHANGED overlapped
  BY SameResSize DEF VolumeReady, LookUp, CheckRules, VerifyServer
<1>2. Running(p) /\ Item(p)[1] \in {"volume", "external", "image", "rules", "server"}
  BY DEF VolumeReady, LookUp, CheckRules, VerifyServer, Running
<1>3. Fail(p) \/ \E k : Next1(p, Item(p), k)
  BY DEF VolumeReady, LookUp, CheckRules, VerifyServer
<1> QED BY <1>1, <1>2, <1>3, QuietOnce

LEMMA FindOnce ==
  ASSUME CompleteInv, OnceInv, Preserved, NEW p \in Pods, Find(p), UNCHANGED turn
  PROVE  OnceInv'
<1>1. PICK v, y, x : /\ v \in PodRecord /\ v = pod[p] /\ y = Item(p) /\ y = Plan[v.at] /\ Running(p)
                     /\ y[1] = "find" /\ v.pc = "look" /\ x = <<"server", y[2]>>
  BY Typed DEF Find, Running, Item
<1>2. SameSize /\ UNCHANGED <<res, overlapped>>
  BY SameResSize DEF Find
<1>3. ~overlapped => OneIn(res') /\ FipIn(res')
  BY <1>2, SizeOnce DEF OnceInv
<1>4. CASE Fail(p)
  BY <1>1, <1>2, <1>3, <1>4, NoPodAbsent, PodOnce DEF Fail, Becomes
<1>5. CASE Becomes(p, [pod[p] EXCEPT !.at = @ + 1, !.got[x] = Len(res[x])])
  <2>1. PICK i \in 1 .. LastStep : i = v.at
    BY <1>1 DEF PodRecord
  <2>2. i + 3 \in 1 .. LastStep /\ Plan[i + 3] = x /\ i + 1 \in 1 .. LastStep
    BY <1>1, <2>1, ServerInARow, PlanDomain
  <2>3. x \in Items
    BY <1>1, <2>2, ItemSteps DEF Kinds
  <2>4. PICK g : g = [v.got EXCEPT ![x] = Len(res[x])]
    OBVIOUS
  <2>5. g[x] = Len(res[x])
    BY <1>1, <2>3, <2>4 DEF PodRecord
  <2>6. PICK w : w = [v EXCEPT !.at = @ + 1, !.got = g]
    OBVIOUS
  <2>7. w.pc = "look" /\ w.at = v.at + 1 /\ w.got = g
    BY <1>1, <2>6 DEF PodRecord
  <2>8. pod' = [pod EXCEPT ![p] = w]
    BY <1>1, <1>5, <2>4, <2>6 DEF Becomes
  <2>9. Absent(res', w)
    <3>1. Plan[i + 1][1] \in {"volume", "port", "server"} => Plan[i + 1][2] = y[2]
      BY <1>1, <2>1, <2>2, ServerInARow
    <3> QED BY <1>1, <1>2, <2>1, <2>5, <2>7, <3>1 DEF Absent
  <2> QED BY <1>1, <1>2, <1>3, <2>8, <2>9, PodOnce
<1> QED BY <1>1, <1>4, <1>5 DEF Find

LEMMA CreateServerOnce ==
  ASSUME CompleteInv, OnceInv, Preserved, NEW p \in Pods, CreateServer(p), UNCHANGED turn
  PROVE  OnceInv'
<1>1. PICK v, x, y : /\ v \in PodRecord /\ v = pod[p] /\ x = Item(p) /\ x = Plan[v.at] /\ Running(p)
                     /\ x[1] = "server" /\ v.pc = "look" /\ y = <<"volume", x[2]>> /\ v.got[x] = 0
  BY Typed DEF CreateServer, Running, Item
<1>2. UNCHANGED overlapped /\ res \in Store /\ res' \in Store
  BY Typed DEF CreateServer, Preserved, CompleteInv, WorkerTypeOK, Store
<1>3. CASE Fail(p) /\ UNCHANGED res
  <2>1. x[1] \notin {"find", "publish"}
    BY <1>1
  <2> QED BY <1>1, <1>2, <1>3, <2>1, SameResSize, QuietOnce
<1>4. x \in Items /\ x = <<"server", x[2]>> /\ y # x
  <2>1. x \in Items
    BY <1>1, ItemSteps DEF Kinds, PodRecord
  <2> QED BY <1>1, <2>1, ItemPair
<1>5. ASSUME NEW k, res' = [res EXCEPT ![x] = Append(@, New(p, x)), ![y][k].state = "reserved"],
             GoTo(p, "look", x, Len(res[x]) + 1)
      PROVE  OnceInv'
  <2>1. Len(res'[x]) = Len(res[x]) + 1
    <3>1. res'[x] = Append(res[x], New(p, x))
      BY <1>2, <1>4, <1>5 DEF Store
    <3>2. New(p, x) \in Instance
      BY <1>1, <1>4, NewFine
    <3>3. res[x] \in Seq(Instance)
      BY <1>2, <1>4, StoreAt
    <3> QED BY <3>1, <3>2, <3>3
  <2>2. ASSUME NEW z \in Items, z # x
        PROVE  Len(res'[z]) = Len(res[z])
    <3>1. DOMAIN res'[z] = DOMAIN res[z]
      BY <1>2, <1>5, <2>2 DEF Store
    <3>2. /\ DOMAIN res[z] = 1 .. Len(res[z]) /\ Len(res[z]) \in Nat
          /\ DOMAIN res'[z] = 1 .. Len(res'[z]) /\ Len(res'[z]) \in Nat
      BY <1>2, StoreAt
    <3> QED BY <3>1, <3>2
  <2>3. PICK w : Goes(v, w, "look", x, Len(res[x]) + 1) /\ pod' = [pod EXCEPT ![p] = w]
    BY <1>1, <1>5 DEF GoTo, Goes, Becomes
  <2>4. w.pc = "look" /\ w.at = v.at /\ w.got[x] = Len(res[x]) + 1
    BY <1>1, <1>4, <2>3 DEF Goes, PodRecord
  <2>5. Absent(res', w)
    BY <1>1, <1>4, <2>1, <2>4 DEF Absent
  <2>6. ASSUME ~overlapped
        PROVE  OneIn(res') /\ FipIn(res')
    <3>1. OneIn(res) /\ FipIn(res) /\ Absent(res, v)
      BY <1>1, <2>6 DEF OnceInv, AbsentInv
    <3>2. Len(res[x]) = 0
      BY <1>1, <1>4, <3>1 DEF Absent
    <3>3. ASSUME NEW z \in Items, z[1] # "keypair"
          PROVE  Len(res'[z]) <= 1
      <4>1. CASE z = x
        <5>1. Len(res'[x]) <= 1
          BY <2>1, <3>2
        <5> QED BY <4>1, <5>1
      <4>2. CASE z # x
        BY <2>2, <3>1, <3>3, <4>2 DEF OneIn
      <4> QED BY <4>1, <4>2
    <3>4. FipIn(res')
      <4>1. PICK n : n = <<"network", "none">>
        OBVIOUS
      <4>2. n \in Items /\ n # x
        <5>1. n \in Items /\ n[1] = "network"
          BY <4>1, NetworkItem
        <5> QED BY <1>1, <5>1 DEF Kinds
      <4>3. res'[n] = res[n]
        <5>1. n # y
          BY <1>1, <4>1
        <5> QED BY <1>2, <1>5, <4>2, <5>1 DEF Store
      <4>4. ASSUME NEW z \in Items, NEW j \in 1 .. Len(res'[z]), z[1] = "fip"
            PROVE  Len(res'[n]) > 0 /\ res'[n][1].uid = res'[z][j].maker
        <5>1. z # x /\ z # y
          BY <1>1, <4>4
        <5>2. res'[z] = res[z]
          BY <1>2, <1>5, <5>1 DEF Store
        <5> QED BY <3>1, <4>1, <4>3, <4>4, <5>2 DEF FipIn
      <4> QED BY <4>1, <4>4 DEF FipIn
    <3> QED BY <3>3, <3>4 DEF OneIn
  <2> QED BY <1>1, <1>2, <2>3, <2>5, <2>6, PodOnce
<1>6. PICK k, n : k = v.got[y] /\ n = New(p, x)
  OBVIOUS
<1>7. \/ Fail(p) /\ UNCHANGED res
      \/ /\ res' = [res EXCEPT ![x] = Append(@, n), ![y][k].state = "reserved"]
         /\ GoTo(p, "look", x, Len(res[x]) + 1)
  BY <1>1, <1>6 DEF CreateServer
<1> QED BY <1>3, <1>5, <1>6, <1>7

LEMMA LeaveOnce ==
  ASSUME CompleteInv, OnceInv, Preserved, NEW p \in Pods, Publish(p) \/ Kill(p), UNCHANGED turn
  PROVE  OnceInv'
<1>1. SameSize /\ UNCHANGED <<res, overlapped>> /\ Running(p) /\ Fail(p)
  BY SameResSize DEF Publish, Kill, Running
<1>2. ~overlapped => OneIn(res') /\ FipIn(res')
  BY <1>1, SizeOnce DEF OnceInv
<1> QED BY <1>1, <1>2, NoPodAbsent, PodOnce DEF Fail, Becomes

LEMMA BeginOnce ==
  ASSUME CompleteInv, OnceInv, Preserved, NEW p \in Pods, BeginPod(p)
  PROVE  OnceInv'
<1>1. PICK w : w = [NoPod EXCEPT !.pc = "look", !.uid = uid, !.key = key]
  OBVIOUS
<1>2. /\ pod' = [pod EXCEPT ![p] = w] /\ UNCHANGED res
      /\ overlapped' = (overlapped \/ \E q \in Pods : Running(q))
  BY <1>1 DEF BeginPod
<1>3. w.pc = "look" /\ w.at = 1
  BY <1>1 DEF NoPod
<1>4. DOMAIN pod = Pods
  BY DEF CompleteInv, WorkerTypeOK
<1>5. pod'[p] = w /\ \A q \in Pods : q # p => pod'[q] = pod[q]
  BY <1>2, <1>4
<1>6. CASE overlapped'
  BY <1>6 DEF OnceInv, SoleInv, AbsentInv
<1>7. CASE ~overlapped'
  <2>1. ~overlapped /\ \A q \in Pods : ~Running(q)
    BY <1>2, <1>7
  <2>2. SoleInv'
    BY <1>5, <2>1 DEF SoleInv, Running
  <2>3. Absent(res', w)
    <3>1. Plan[1][1] = "network"
      BY PlanFirst, FirstSteps
    <3> QED BY <1>3, <3>1 DEF Absent
  <2>4. ASSUME NEW q \in Pods
        PROVE  Absent(res', pod'[q])
    <3>1. CASE q = p
      BY <1>5, <2>3, <3>1
    <3>2. CASE q # p
      BY <1>5, <2>1, <3>2 DEF Absent, Running
    <3> QED BY <3>1, <3>2
  <2>5. AbsentInv'
    BY <2>4 DEF AbsentInv
  <2>6. OneIn(res') /\ FipIn(res')
    BY <1>2, <2>1 DEF OnceInv
  <2> QED BY <2>2, <2>5, <2>6 DEF OnceInv
<1> QED BY <1>6, <1>7

\* A server that is built keeps every list of resources as long as it is.
LEMMA BuiltSize ==
  ASSUME CompleteInv, Preserved, NEW s \in Range(Servers), ServerBuilt(s)
  PROVE  SameSize
<1>1. res \in Store /\ res' \in Store
  BY Typed DEF Preserved, CompleteInv, WorkerTypeOK, Store
<1>2. PICK x, y : x = <<"server", s>> /\ y = <<"volume", s>>
  OBVIOUS
<1>3. PICK k, v : res' = [res EXCEPT ![x][k].state = "active",
                                     ![y][v[2]] = [@ EXCEPT !.state = "in-use", !.links = {<<x, k>>}]]
  <2>1. PICK k \in DOMAIN res[x] : \E v \in Inst(x, k).links :
          /\ Inst(x, k).state = "build" /\ v[1] = y
          /\ res' = [res EXCEPT ![x][k].state = "active",
                                ![y][v[2]] = [@ EXCEPT !.state = "in-use", !.links = {<<x, k>>}]]
    BY <1>2 DEF ServerBuilt
  <2>2. PICK v \in Inst(x, k).links :
          res' = [res EXCEPT ![x][k].state = "active",
                             ![y][v[2]] = [@ EXCEPT !.state = "in-use", !.links = {<<x, k>>}]]
    BY <2>1
  <2> QED BY <2>2
<1>4. PICK S : S = [res EXCEPT ![x][k].state = "active"]
  OBVIOUS
<1>5. res' = [S EXCEPT ![y][v[2]] = [@ EXCEPT !.state = "in-use", !.links = {<<x, k>>}]]
  BY <1>3, <1>4
<1>6. ASSUME NEW z \in Items
      PROVE  DOMAIN res'[z] = DOMAIN res[z]
  <2>1. DOMAIN res = Items /\ DOMAIN S = Items
    BY <1>1, <1>4 DEF Store
  <2>2. DOMAIN S[z] = DOMAIN res[z]
    BY <1>4, <2>1
  <2>3. DOMAIN res'[z] = DOMAIN S[z]
    BY <1>5, <2>1
  <2> QED BY <2>2, <2>3
<1>7. ASSUME NEW z \in Items
      PROVE  /\ DOMAIN res[z] = 1 .. Len(res[z]) /\ Len(res[z]) \in Nat
             /\ DOMAIN res'[z] = 1 .. Len(res'[z]) /\ Len(res'[z]) \in Nat
  BY <1>1, StoreAt
<1> QED BY <1>6, <1>7 DEF SameSize

LEMMA RestOnce ==
  ASSUME CompleteInv, OnceInv, Preserved, UNCHANGED <<pod, overlapped>>,
         \/ UNCHANGED res
         \/ \E x, k, r : SetInst(x, k, r)
         \/ \E s \in Range(Servers) : ServerBuilt(s)
  PROVE  OnceInv'
<1>1. ASSUME NEW s \in Range(Servers), ServerBuilt(s)
      PROVE  SameSize
  BY <1>1, BuiltSize
<1>2. SameSize
  BY <1>1, SetSize, SameResSize
<1> QED BY <1>2, OthersOnce

LEMMA OnceStep == CompleteInv /\ OnceInv /\ [WorkerNext]_workerVars => OnceInv'
<1> SUFFICES ASSUME CompleteInv, OnceInv, [WorkerNext]_workerVars
             PROVE  OnceInv'
  OBVIOUS
<1>1. Preserved
  BY CompleteStep
<1>2. ASSUME NEW p \in Pods, BeginPod(p)
      PROVE  OnceInv'
  BY <1>1, <1>2, BeginOnce
<1>3. ASSUME NEW p \in Pods, Switch(p)
      PROVE  OnceInv'
  BY <1>1, <1>3, RestOnce DEF Switch
<1>4. ASSUME NEW p \in Pods, PodStep(p)
      PROVE  OnceInv'
  BY <1>1, <1>4, LookOnce, CreateOnce, TagOnce, LinkOnce, AddRulesOnce, PassOnce, FindOnce,
     CreateServerOnce, LeaveOnce DEF PodStep
<1>5. CASE CloudStep
  <2>1. ASSUME NEW s \in Range(Servers), VolumeCreated(s)
        PROVE  OnceInv'
    BY <1>1, <2>1, RestOnce DEF VolumeCreated
  <2>2. ASSUME NEW s \in Range(Servers), ServerBuilt(s)
        PROVE  OnceInv'
    <3>1. UNCHANGED <<pod, overlapped>>
      BY <2>2 DEF ServerBuilt
    <3> QED BY <1>1, <2>2, <3>1, RestOnce
  <2> QED BY <1>5, <2>1, <2>2 DEF CloudStep
<1>6. CASE Outside
  <2>1. ASSUME NEW s \in Range(Servers), VolumeFails(s) \/ ServerFails(s)
        PROVE  OnceInv'
    BY <1>1, <2>1, RestOnce DEF VolumeFails, ServerFails
  <2>2. CASE Recreate \/ RotateKey
    BY <1>1, <2>2, RestOnce DEF Recreate, RotateKey
  <2>3. CASE Tamper
    BY <1>1, <2>3, RestOnce DEF Tamper
  <2>4. UNCHANGED turn
    BY <1>6 DEF Outside
  <2> QED BY <1>1, <1>6, <2>1, <2>2, <2>3, <2>4, LeaveOnce DEF Outside
<1>7. CASE UNCHANGED workerVars
  BY <1>1, <1>7, RestOnce DEF workerVars
<1> QED BY <1>2, <1>3, <1>4, <1>5, <1>6, <1>7 DEF WorkerNext

LEMMA OnceInit == WorkerInit => OnceInv
<1> SUFFICES ASSUME WorkerInit PROVE OnceInv
  OBVIOUS
<1>1. \A p \in Pods : pod[p] = NoPod
  BY DEF WorkerInit
<1>2. SoleInv
  BY <1>1, NoPodTyped DEF SoleInv, Running
<1>3. AbsentInv
  BY <1>1, NoPodAbsent DEF AbsentInv
<1>4. OneIn(res) /\ FipIn(res)
  BY DEF WorkerInit, OneIn, FipIn
<1> QED BY <1>2, <1>3, <1>4 DEF OnceInv

\* Without Pods that overlap there is one instance of everything a cluster has, although
\* Pods are killed between any two calls and start over: a Pod creates what it has not
\* found and nobody else has made since, and it finds all floating IPs of its network.
THEOREM OneOfEachAlways == WorkerSpec => []OneOfEach
<1>1. CompleteInv /\ OnceInv /\ [WorkerNext]_workerVars => OnceInv'
  BY OnceStep
<1>2. OnceInv => OneOfEach
  BY DEF OnceInv, OneIn, OneOfEach
<1> QED BY CompleteAlways, OnceInit, <1>1, <1>2, PTL DEF WorkerSpec

=============================================================================
