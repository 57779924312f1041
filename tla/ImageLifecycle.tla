---------------------------- MODULE ImageLifecycle ----------------------------
(***************************************************************************)
(* The life of an OpenstackImage (handlers/image.py, resources/image.py):  *)
(* the change handlers, the two timers that share its status, poll_image_  *)
(* status and reconcile_image, and the Glance import they wait for.  The   *)
(* CR is alone with its image name; what it shares with the CRs of other   *)
(* images is the registry (ResourceRegistry), of which its entry is left.  *)
(***************************************************************************)
EXTENDS Naturals, FiniteSets

CONSTANTS
  Images,        \* Glance image ids: numbers, the lowest free one is handed out
  Environments,  \* the environments considered: faults, and bounds on users
  None

Faults == {"edit",    \* users edit the CR
           "api",     \* a call to Glance or to the registry fails after its retries
           "crash",   \* the operator restarts
           "import",  \* an import fails
           "admin",   \* somebody deletes an image outside the operator
           "upload"}  \* somebody creates an image of the name outside the operator

ASSUME ImageAssumption == Images \subseteq Nat /\ None \notin Images
ASSUME EnvAssumption ==
  Environments \subseteq [faults : SUBSET Faults, inputs : Nat, external : SUBSET BOOLEAN]

VARIABLES
  env,     \* the environment
  inputs,  \* how many times users created or edited the CR or uploaded an image of its
           \* name (bounded by env.inputs)
  cr,      \* the CR object in the API server
  thr,     \* the threads: the change handler and the two timers
  img,     \* Glance: the images of the CR's name
  entry    \* the registry entry of the image name

vars == <<env, inputs, cr, thr, img, entry>>
faults == env.faults
Threads == {"job", "poll", "recon"}

\* started is importStartedAt: unset, or set less or more than 600 s ago.
AbsentCR == [exists |-> FALSE, deleting |-> FALSE, external |-> FALSE, gen |-> 0,
             handled |-> 0, phase |-> "new", id |-> None, started |-> "unset", retries |-> 0]
\* id is what the patch will hold, status what was seen of the image, out the outcome.
Idle == [pc |-> "idle", gen |-> 0, external |-> FALSE, id |-> None, status |-> "unset",
         retries |-> 0, out |-> "unset"]
NoImage == [status |-> "none", ours |-> FALSE, requested |-> FALSE]

Live == cr.exists /\ ~cr.deleting
Exists(i) == img[i].status # "none"
\* A mistake the code does not make: an image whose import is not complete is not found.
NamedActive == {i \in Images : img[i].status = "active"}

\* get_image: the images of the name, any of them when there are several.
Named == {i \in Images : Exists(i)}
\* Glance never reuses an id; here one is taken again when nothing refers to it any more.
Free == {i \in Images : ~Exists(i) /\ i \notin {cr.id, entry} \cup {thr[t].id : t \in Threads}}
Fresh(i) == i \in Free /\ \A j \in Free : i <= j

Init ==
  /\ env \in Environments
  /\ inputs = 0
  /\ cr = AbsentCR
  /\ thr = [t \in Threads |-> Idle]
  /\ img = [i \in Images |-> NoImage]
  /\ entry = None

-----------------------------------------------------------------------------
(* Users, Glance, and time. *)

Remove(i) == img' = [img EXCEPT ![i] = NoImage]

UserCreates ==
  /\ ~cr.exists
  /\ inputs < env.inputs
  /\ inputs' = inputs + 1
  /\ \E x \in env.external :
       cr' = [AbsentCR EXCEPT !.exists = TRUE, !.gen = 1, !.external = x]
  /\ UNCHANGED <<env, thr, img, entry>>

UserEdits ==
  /\ "edit" \in faults
  /\ Live
  /\ inputs < env.inputs
  /\ inputs' = inputs + 1
  /\ \E x \in env.external : cr' = [cr EXCEPT !.gen = @ + 1, !.external = x]
  /\ UNCHANGED <<env, thr, img, entry>>

UserDeletes ==
  /\ Live
  /\ cr' = [cr EXCEPT !.deleting = TRUE]
  /\ UNCHANGED <<env, inputs, thr, img, entry>>

GlanceImports(i) ==
  /\ \/ /\ img[i].status = "queued" /\ img[i].requested
        /\ img' = [img EXCEPT ![i].status = "importing"]
     \/ /\ img[i].status = "importing"
        /\ \E s \in {"active"} \cup {f \in {"killed"} : "import" \in faults} :
             img' = [img EXCEPT ![i].status = s]
  /\ UNCHANGED <<env, inputs, cr, thr, entry>>

OthersUpload(i) ==
  /\ "upload" \in faults
  /\ Fresh(i)
  /\ inputs < env.inputs
  /\ inputs' = inputs + 1
  /\ img' = [img EXCEPT ![i] = [status |-> "queued", ours |-> FALSE, requested |-> TRUE]]
  /\ UNCHANGED <<env, cr, thr, entry>>

OthersDelete(i) ==
  /\ "admin" \in faults
  /\ Exists(i)
  /\ Remove(i)
  /\ UNCHANGED <<env, inputs, cr, thr, entry>>

TimePasses ==
  /\ cr.started = "recent"
  /\ cr' = [cr EXCEPT !.started = "old"]
  /\ UNCHANGED <<env, inputs, thr, img, entry>>

-----------------------------------------------------------------------------
(* How a thread starts. *)

Begin(t, pc, id) ==
  /\ thr[t].pc = "idle"
  /\ thr' = [thr EXCEPT ![t] = [Idle EXCEPT !.pc = pc, !.gen = cr.gen,
                                            !.external = cr.external, !.id = id]]
  /\ UNCHANGED <<env, inputs, cr, img, entry>>

BeginCreate == Live /\ cr.handled = 0 /\ Begin("job", "find", None)

BeginUpdate ==
  /\ Live /\ 0 < cr.handled /\ cr.handled < cr.gen
  /\ IF cr.id = None THEN Begin("job", "find", None)   \* "treat as create"
     ELSE Begin("job", "modify", cr.id)

BeginDelete ==
  /\ cr.deleting
  /\ IF cr.external \/ cr.id = None THEN Begin("job", "release", None)
     ELSE Begin("job", "drop", cr.id)

\* poll_image_status, every 30 s.  It does not ask whether the image is external.
BeginPoll ==
  Live /\ cr.phase \in {"Provisioning", "Pending"} /\ cr.id # None /\ Begin("poll", "look", cr.id)

\* reconcile_image, every 300 s.
BeginRecon ==
  Live /\ \/ cr.phase = "Pending" /\ Begin("recon", "find", None)
          \/ cr.phase = "Ready" /\ Begin("recon", "drift", None)

-----------------------------------------------------------------------------
(* ensure_image and ensure_image_settings, in a handler or in reconcile_image. *)

\* The thread ends with a status patch.
Finish(t, id, out) ==
  thr' = [thr EXCEPT ![t].pc = "patch", ![t].id = id, ![t].out = out]
Quit(t) == thr' = [thr EXCEPT ![t] = Idle]
Goto(t, pc) == thr' = [thr EXCEPT ![t].pc = pc]

\* An exception: phase Error, with the image id that an update started with; a
\* handler is then retried, a timer is not.  For an external image reconcile_image
\* does not catch it.
Raise(t) ==
  IF t = "recon" /\ thr[t].external THEN Quit(t)
  ELSE Finish(t, IF thr[t].pc = "modify" THEN thr[t].id ELSE None, "error")

Find(t) ==
  /\ thr[t].pc = "find"
  /\ \/ \E i \in Named :
          thr' = [thr EXCEPT ![t].pc = "adopt", ![t].id = i, ![t].status = img[i].status]
     \/ Named = {} /\ ~thr[t].external /\ Goto(t, "create")
     \/ Named = {} /\ thr[t].external /\ t = "job" /\ Finish(t, None, "notfound")
     \/ Named = {} /\ thr[t].external /\ t = "recon" /\ Quit(t)
  /\ UNCHANGED <<env, inputs, cr, img, entry>>

\* update_image sets the image's visibility, protection, tags and properties.
Adopt(t) ==
  /\ thr[t].pc = "adopt"
  /\ \/ Exists(thr[t].id) /\ thr[t].external /\ Finish(t, thr[t].id, "ready")
     \/ Exists(thr[t].id) /\ ~thr[t].external /\ Goto(t, "register")
     \/ ~Exists(thr[t].id) /\ Raise(t)
  /\ UNCHANGED <<env, inputs, cr, img, entry>>

Create(t) ==
  /\ thr[t].pc = "create"
  /\ \E i \in Images :
       /\ Fresh(i)
       /\ img' = [img EXCEPT ![i] = [NoImage EXCEPT !.status = "queued", !.ours = TRUE]]
       /\ thr' = [thr EXCEPT ![t].pc = "import", ![t].id = i]
  /\ UNCHANGED <<env, inputs, cr, entry>>

Import(t) ==
  /\ thr[t].pc = "import"
  /\ \/ /\ Exists(thr[t].id)
        /\ img' = [img EXCEPT ![thr[t].id].requested = TRUE]
        /\ Goto(t, "check")
     \/ ~Exists(thr[t].id) /\ Raise(t) /\ UNCHANGED img
  /\ UNCHANGED <<env, inputs, cr, entry>>

Check(t) ==
  /\ thr[t].pc = "check"
  /\ thr' = [thr EXCEPT ![t].pc = "register",
       ![t].status = IF Exists(thr[t].id) THEN img[thr[t].id].status ELSE "queued"]
  /\ UNCHANGED <<env, inputs, cr, img, entry>>

\* A mistake the code does not make: the import is taken to be complete; an image that a timer
\* recreated is not registered.
RegisterReady(t) ==
  /\ thr[t].pc = "register"
  /\ entry' = thr[t].id
  /\ Finish(t, thr[t].id, "ready")
  /\ UNCHANGED <<env, inputs, cr, img>>

RegisterJobOnly(t) ==
  /\ thr[t].pc = "register"
  /\ entry' = IF t = "job" THEN thr[t].id ELSE entry
  /\ Finish(t, thr[t].id, IF thr[t].status = "active" THEN "ready" ELSE "importing")
  /\ UNCHANGED <<env, inputs, cr, img>>

Register(t) ==
  /\ thr[t].pc = "register"
  /\ entry' = thr[t].id
  /\ Finish(t, thr[t].id, IF thr[t].status = "active" THEN "ready" ELSE "importing")
  /\ UNCHANGED <<env, inputs, cr, img>>

Modify ==
  /\ thr["job"].pc = "modify"
  /\ IF Exists(thr["job"].id) THEN Finish("job", thr["job"].id, "ready") ELSE Raise("job")
  /\ UNCHANGED <<env, inputs, cr, img, entry>>

-----------------------------------------------------------------------------
(* delete_image_handler. *)

Drop ==
  /\ thr["job"].pc = "drop"
  /\ Remove(thr["job"].id)
  /\ Goto("job", "unregister")
  /\ UNCHANGED <<env, inputs, cr, entry>>

Unregister ==
  /\ thr["job"].pc = "unregister"
  /\ entry' = None
  /\ Goto("job", "release")
  /\ UNCHANGED <<env, inputs, cr, img>>

\* Kopf removes the finalizer when the handler and the CR's timers have ended.
Release ==
  /\ thr["job"].pc = "release"
  /\ thr["poll"].pc = "idle" /\ thr["recon"].pc = "idle"
  /\ cr' = AbsentCR
  /\ Quit("job")
  /\ UNCHANGED <<env, inputs, img, entry>>

-----------------------------------------------------------------------------
(* poll_image_status and the drift check of reconcile_image. *)

PollImage ==
  LET i == thr["poll"].id
      s == img[i].status
  IN /\ thr["poll"].pc = "look"
     /\ CASE ~Exists(i) -> Finish("poll", None, "lost")
          [] s = "active" -> Finish("poll", i, "active")
          [] s = "killed" -> Finish("poll", i, "failed")
          [] s = "importing" -> Quit("poll")
          [] s = "queued" /\ cr.started = "unset" -> Finish("poll", i, "start")
          [] s = "queued" /\ cr.started = "recent" -> Quit("poll")
          [] s = "queued" /\ cr.started = "old" ->
               thr' = [thr EXCEPT !["poll"].pc = "reap", !["poll"].retries = cr.retries + 1]
     /\ UNCHANGED <<env, inputs, cr, img, entry>>

\* An import stuck in "queued" for 600 s: the image is deleted, and recreated by
\* reconcile_image unless it was the third.  A failed deletion is only logged.
ReapImage ==
  /\ thr["poll"].pc = "reap"
  /\ Remove(thr["poll"].id) \/ ("api" \in faults /\ UNCHANGED img)
  /\ Finish("poll", thr["poll"].id, IF thr["poll"].retries < 3 THEN "retry" ELSE "failed")
  /\ UNCHANGED <<env, inputs, cr, entry>>

Drift ==
  /\ thr["recon"].pc = "drift"
  /\ \/ Named = {} /\ Finish("recon", None, "lost")
     \/ \E i \in Named \ {cr.id} : Finish("recon", i, "mismatch")
     \/ cr.id \in Named /\ Quit("recon")
  /\ UNCHANGED <<env, inputs, cr, img, entry>>

\* A call fails for good.  The delete handler is retried as it is; a failed look of
\* a timer is only logged.
FailCall(t) ==
  /\ "api" \in faults
  /\ \/ thr[t].pc \in {"find", "adopt", "create", "import", "check", "register", "modify"} /\ Raise(t)
     \/ thr[t].pc \in {"look", "drift", "drop", "unregister"} /\ Quit(t)
  /\ UNCHANGED <<env, inputs, cr, img, entry>>

-----------------------------------------------------------------------------
(* The status patches. *)

PatchJob ==
  LET j == thr["job"]
      done == j.out \in {"ready", "importing"}
  IN /\ j.pc = "patch"
     /\ cr' = [cr EXCEPT
          !.phase = CASE j.out = "ready" -> "Ready" [] j.out = "importing" -> "Provisioning"
                      [] j.out = "notfound" /\ cr.handled = 0 -> "Pending" [] OTHER -> "Error",
          !.id = IF j.id # None THEN j.id ELSE @,
          !.started = IF j.out = "importing" THEN "recent" ELSE @,
          !.retries = IF j.out = "importing" THEN 0 ELSE @,
          !.handled = IF done THEN j.gen ELSE @]
     /\ Quit("job")
     /\ UNCHANGED <<env, inputs, img, entry>>

PatchPoll ==
  LET p == thr["poll"]
  IN /\ p.pc = "patch"
     /\ cr' = CASE p.out = "active" -> [cr EXCEPT !.phase = "Ready"]
                [] p.out = "failed" -> [cr EXCEPT !.phase = "Error"]
                [] p.out = "start" -> [cr EXCEPT !.started = "recent"]
                [] p.out = "lost" -> [cr EXCEPT !.phase = "Pending", !.id = None]
                [] p.out = "retry" -> [cr EXCEPT !.phase = "Pending", !.id = None,
                                         !.started = "unset", !.retries = p.retries]
     /\ Quit("poll")
     /\ UNCHANGED <<env, inputs, img, entry>>

\* A mistake the code does not make: recreating the image counts as a first attempt again.
PatchReconForgets ==
  LET r == thr["recon"]
  IN /\ r.pc = "patch"
     /\ cr' = CASE r.out = "ready" -> [cr EXCEPT !.phase = "Ready", !.id = r.id]
                [] r.out = "importing" -> [cr EXCEPT !.phase = "Provisioning", !.id = r.id,
                                             !.started = "recent", !.retries = 0]
                [] r.out = "error" -> [cr EXCEPT !.phase = "Error"]
                [] r.out \in {"lost", "mismatch"} -> [cr EXCEPT !.phase = "Pending", !.id = r.id]
     /\ Quit("recon")
     /\ UNCHANGED <<env, inputs, img, entry>>

PatchRecon ==
  LET r == thr["recon"]
  IN /\ r.pc = "patch"
     /\ cr' = CASE r.out = "ready" -> [cr EXCEPT !.phase = "Ready", !.id = r.id]
                [] r.out = "importing" -> [cr EXCEPT !.phase = "Provisioning", !.id = r.id,
                                             !.started = "recent"]
                [] r.out = "error" -> [cr EXCEPT !.phase = "Error"]
                [] r.out \in {"lost", "mismatch"} -> [cr EXCEPT !.phase = "Pending", !.id = r.id]
     /\ Quit("recon")
     /\ UNCHANGED <<env, inputs, img, entry>>

-----------------------------------------------------------------------------
(* The cluster garbage collector, as far as this image is concerned: with no CR, *)
(* the registered image is deleted and its entry removed.                        *)

GcCollect ==
  /\ ~cr.exists /\ entry # None
  /\ Remove(entry)
  /\ entry' = None
  /\ UNCHANGED <<env, inputs, cr, thr>>

OperatorRestart ==
  /\ "crash" \in faults
  /\ \E t \in Threads : thr[t] # Idle
  /\ thr' = [t \in Threads |-> Idle]
  /\ UNCHANGED <<env, inputs, cr, img, entry>>

-----------------------------------------------------------------------------
Job == BeginCreate \/ BeginUpdate \/ BeginDelete \/ Modify \/ Drop \/ Unregister
       \/ Release \/ PatchJob
Timers == BeginPoll \/ PollImage \/ ReapImage \/ PatchPoll \/ BeginRecon \/ Drift \/ PatchRecon
Ensure(t) == Find(t) \/ Adopt(t) \/ Create(t) \/ Import(t) \/ Check(t) \/ Register(t)
Operator == Job \/ Timers \/ (\E t \in Threads : Ensure(t) \/ FailCall(t)) \/ GcCollect

Next ==
  \/ UserCreates \/ UserEdits \/ UserDeletes
  \/ \E i \in Images : GlanceImports(i) \/ OthersUpload(i) \/ OthersDelete(i)
  \/ TimePasses
  \/ Operator
  \/ OperatorRestart

Spec == Init /\ [][Next]_vars

\* Handlers and timers keep running, an import that has begun ends, time passes.
\* Glance need not begin an import.
Fairness ==
  /\ WF_vars(Job) /\ WF_vars(BeginPoll \/ PollImage \/ ReapImage \/ PatchPoll)
  /\ WF_vars(BeginRecon \/ Drift \/ PatchRecon \/ Ensure("recon")) /\ WF_vars(Ensure("job"))
  /\ \A i \in Images : WF_vars(img[i].status = "importing" /\ GlanceImports(i))
  /\ WF_vars(TimePasses) /\ WF_vars(GcCollect)
FairSpec == Spec /\ Fairness

-----------------------------------------------------------------------------
(* Properties. *)

MaybeImage == Images \cup {None}

\* Every variable holds a value of its type; three stuck imports are the most that
\* are retried.
TypeOK ==
  /\ env \in Environments
  /\ inputs \in Nat
  /\ cr \in [exists : BOOLEAN, deleting : BOOLEAN, external : BOOLEAN, gen : Nat, handled : Nat,
             phase : {"new", "Provisioning", "Pending", "Ready", "Error"}, id : MaybeImage,
             started : {"unset", "recent", "old"}, retries : 0..2]
  /\ thr \in [Threads ->
       [pc : {"idle", "find", "adopt", "create", "import", "check", "register", "modify", "drop",
              "unregister", "release", "look", "reap", "drift", "patch"},
        gen : Nat, external : BOOLEAN, id : MaybeImage,
        status : {"unset", "queued", "importing", "active", "killed"}, retries : 0..3,
        out : {"unset", "ready", "importing", "notfound", "error", "active", "failed", "start",
               "lost", "retry", "mismatch"}]]
  /\ img \in [Images -> [status : {"none", "queued", "importing", "active", "killed"},
                         ours : BOOLEAN, requested : BOOLEAN]]
  /\ entry \in MaybeImage

\* Nobody edits the CR, or puts images of its name there.
Undisturbed == faults \cap {"edit", "upload"} = {}

\* A CR that is not edited becomes Ready only with an image whose
\* import is complete, whichever of its handler and timers gets there first.
ReadyAfterImport ==
  Undisturbed /\ Live /\ ~cr.external /\ cr.phase = "Ready" /\ cr.id # None
    => img[cr.id].status \in {"active", "none"}

\* However its handlers and timers fail, are restarted and retry, a CR that is not
\* edited has at most one image.
OneImage ==
  Undisturbed => Cardinality({i \in Images : img[i].ours /\ Exists(i)}) <= 1

\* With no CR left, an image that the operator created is registered for collection.
NothingForgotten ==
  Undisturbed /\ faults \cap {"api", "crash"} = {} /\ ~cr.exists
    => \A i \in Images : img[i].ours /\ Exists(i) => entry = i

\* An image that imports badly ends up retried to the end or given up, not polled
\* for ever.
Unsettled == Live /\ ~cr.external /\ cr.phase \in {"new", "Provisioning", "Pending"}
ManagedSettles == faults \subseteq {"edit", "import"} => Unsettled ~> ~Unsettled

\* Not kept: "The image is not created or deleted by the operator"
\* (openstackimage_crd.yaml:60, of spec.external); one that is replaced by an image
\* that stays queued sends its CR to Pending, where poll_image_status deletes it.
ExternalKept ==
  [][Operator /\ env.external = {TRUE}
       => \A i \in Images : Exists(i) => img'[i].status # "none"]_vars
=============================================================================
