---------------------------- MODULE ProjectAccess ----------------------------
(***************************************************************************)
(* Who may use a project: the role bindings of an OpenstackProject and the *)
(* rules of the federation mapping that all projects share.                *)
(*                                                                         *)
(* Handlers and timers are threads that synchronise the Keystone group of  *)
(* their CR user by user, then read the rules of all projects, change one  *)
(* and write them back.  The notification listener is a coroutine that     *)
(* synchronises groups when a user first logs in; it makes blocking calls, *)
(* so that the event loop starts no handler and applies no patch meanwhile.*)
(*                                                                         *)
(* Every CR has a target of its own, a federationRef, and bindings of      *)
(* allowed roles; ProjectLifecycle models claims and provisioning.         *)
(***************************************************************************)
EXTENDS Naturals, Sequences

CONSTANTS
  CRs,
  Users,
  Specs,    \* specs a CR may have: [bindings, managed, annotation], a
            \* binding being the set of users it names and the annotation that
            \* which asks for a repair of the contract tag
  Budgets,  \* what the environment may do at most, from the start (bounds)
  None

Acts == {"creations", "edits", "deletions",
         "logins",     \* a user logs in for the first time
         "failures",   \* an OpenStack call fails after its retries
         "losses",     \* a notification is lost, or its TTL expires
         "crashes"}    \* the operator restarts

ASSUME SpecAssumption ==
  Specs \subseteq [bindings : Seq(SUBSET Users), managed : BOOLEAN, annotation : Nat]
ASSUME BudgetAssumption == Budgets \subseteq [Acts -> Nat]

VARIABLES
  budget,       \* what is left of the environment's budget
  cr,           \* the CR objects in the API server
  th,           \* the threads: a job and a timer per CR, and the listener
  notice,       \* the notification the listener handles: its user and the CRs left
  mail,         \* user-created notifications in the queue
  known,        \* Keystone: the users that exist
  provisioned,  \* Keystone: the CRs whose project and group exist
  members,      \* Keystone: the members of each CR's group
  direct,       \* Keystone: the users with a role of their own on the project
  rules         \* Keystone: the users each project's rule admits, {} if no rule

keystone == <<provisioned, members, direct, rules>>
vars == <<budget, cr, th, notice, mail, known, keystone>>

Job(c) == <<"job", c>>
Timer(c) == <<"timer", c>>
Listener == <<"listener", None>>
Threads == ({"job", "timer"} \X CRs) \cup {Listener}

AbsentCR == [exists |-> FALSE, deleting |-> FALSE, spec |-> None,
             applied |-> None, phase |-> "", made |-> FALSE]
Idle == [pc |-> "idle", cr |-> None, spec |-> None, left |-> <<>>, adds |-> {},
         drops |-> {}, goal |-> "none", seen |-> None, end |-> "idle", ok |-> TRUE]
NoNotice == [user |-> None, todo |-> {}]

Init ==
  /\ budget \in Budgets
  /\ cr = [c \in CRs |-> AbsentCR]
  /\ th = [t \in Threads |-> Idle]
  /\ notice = NoNotice
  /\ mail = {} /\ known = {} /\ provisioned = {}
  /\ members = [c \in CRs |-> {}]
  /\ direct = [c \in CRs |-> {}]
  /\ rules = [c \in CRs |-> {}]

-----------------------------------------------------------------------------
Live(c) == cr[c].exists /\ ~cr[c].deleting
Ready(c) == Live(c) /\ cr[c].phase = "Ready"

EventLoopFree == th[Listener].pc = "idle"

\* get_users_from_role_bindings
Named(s) == UNION {s.bindings[i] : i \in DOMAIN s.bindings}

\* _is_contract_tag_only_update: the annotation has changed, the spec has not.
ContractOnly(new, old) == new.bindings = old.bindings /\ new.managed = old.managed

\* The environment spends one unit of its budget.
Spend(act) ==
  /\ budget[act] > 0
  /\ budget' = [budget EXCEPT ![act] = @ - 1]

-----------------------------------------------------------------------------
(* The environment. *)

UserCreates(c, s) ==
  /\ ~cr[c].exists
  /\ Spend("creations")
  /\ cr' = [cr EXCEPT ![c] = [AbsentCR EXCEPT !.exists = TRUE, !.spec = s]]
  /\ UNCHANGED <<th, notice, mail, known, keystone>>

UserEdits(c, s) ==
  /\ Live(c) /\ s # cr[c].spec
  /\ Spend("edits")
  /\ cr' = [cr EXCEPT ![c].spec = s]
  /\ UNCHANGED <<th, notice, mail, known, keystone>>

UserDeletes(c) ==
  /\ Live(c)
  /\ Spend("deletions")
  /\ cr' = [cr EXCEPT ![c].deleting = TRUE]
  /\ UNCHANGED <<th, notice, mail, known, keystone>>

\* The first login of a user creates it in Keystone, which sends a notification.
UserLogsIn(u) ==
  /\ u \notin known
  /\ Spend("logins")
  /\ known' = known \cup {u}
  /\ mail' = mail \cup {u}
  /\ UNCHANGED <<cr, th, notice, keystone>>

NoticeLost(u) ==
  /\ u \in mail
  /\ Spend("losses")
  /\ mail' = mail \ {u}
  /\ UNCHANGED <<cr, th, notice, known, keystone>>

\* All threads end; an unacknowledged notification is delivered again.
OperatorRestart ==
  /\ Spend("crashes")
  /\ th' = [t \in Threads |-> Idle]
  /\ mail' = mail \cup ({notice.user} \ {None})
  /\ notice' = NoNotice
  /\ UNCHANGED <<cr, known, keystone>>

-----------------------------------------------------------------------------
(* Threads start, with a snapshot of the spec. *)

Start(t, pc, bindings, goal, end) ==
  /\ th[t].pc = "idle"
  /\ EventLoopFree
  /\ th' = [th EXCEPT ![t] = [Idle EXCEPT !.pc = pc, !.cr = t[2], !.spec = cr[t[2]].spec,
                                !.left = bindings, !.goal = goal, !.end = end]]
  /\ UNCHANGED <<budget, cr, notice, mail, known, keystone>>

\* add_project_mapping does nothing without users.
PutIfNamed(s) == IF Named(s) # {} THEN "put" ELSE "none"

\* create_project
BeginCreate(c) ==
  /\ Live(c) /\ cr[c].applied = None
  /\ LET s == cr[c].spec
     IN  Start(Job(c), "ensure", s.bindings,
               IF s.managed THEN "none" ELSE PutIfNamed(s), "patch")

\* update_project: the rule of a project that turned managed is left to the timer.
BeginUpdate(c) ==
  /\ Live(c) /\ cr[c].applied \notin {None, cr[c].spec}
  /\ LET s == cr[c].spec
     IN  IF ContractOnly(s, cr[c].applied)
         THEN Start(Job(c), "bind", <<>>, "none", "patch")
         ELSE Start(Job(c), "bind", s.bindings,
                    IF s.managed THEN "none"
                    ELSE IF Named(s) # {} THEN "put" ELSE "cut", "patch")

\* delete_project_handler
BeginDelete(c) ==
  /\ cr[c].deleting
  /\ IF cr[c].made THEN Start(Job(c), "bind", <<>>, "cut", "drop")
                   ELSE Start(Job(c), "release", <<>>, "none", "idle")

\* A mistake the code does not make: only drift of the project is repaired.
BeginTimerDriftOnly(c) ==
  Ready(c) /\ Start(Timer(c), "bind", <<>>, "none", "idle")

\* A mistake the code does not make: the bindings of a managed project are applied by jobs only.
BeginTimerUnmanaged(c) ==
  /\ Ready(c)
  /\ LET s == cr[c].spec
     IN  Start(Timer(c), "bind", IF s.managed THEN <<>> ELSE s.bindings,
               IF s.bindings = <<>> THEN "none"
               ELSE IF s.managed THEN "cut" ELSE PutIfNamed(s), "idle")

\* reconcile_project: nothing without bindings.
BeginTimer(c) ==
  /\ Ready(c)
  /\ LET s == cr[c].spec
     IN  Start(Timer(c), "bind", s.bindings,
               IF s.bindings = <<>> THEN "none"
               ELSE IF s.managed THEN "cut" ELSE PutIfNamed(s), "idle")

-----------------------------------------------------------------------------
(* The steps of a thread t. *)

Step(t, record) == th' = [th EXCEPT ![t] = record]

\* What becomes of a thread that has done its work.
Ended(t) == IF th[t].end = "idle" THEN Idle
            ELSE [Idle EXCEPT !.pc = th[t].end, !.cr = th[t].cr, !.spec = th[t].spec]

\* What becomes of one that raises: a create or update job patches phase Error,
\* the listener goes on with the next CR, a timer or a delete job just stops.
Raised(t) ==
  IF th[t].end = "patch" THEN [Ended(t) EXCEPT !.ok = FALSE]
  ELSE IF th[t].end = "scan" THEN Ended(t)
  ELSE Idle

\* ensure_project
Ensure(t) ==
  /\ th[t].pc = "ensure"
  /\ provisioned' = provisioned \cup {th[t].cr}
  /\ Step(t, [th[t] EXCEPT !.pc = "bind"])
  /\ UNCHANGED <<budget, cr, notice, mail, known, members, direct, rules>>

BetweenBindings(t) == th[t].pc = "bind" /\ th[t].adds \cup th[t].drops = {}

\* A mistake the code does not make: users are only ever added to the group.
CompareAddOnly(t) ==
  /\ BetweenBindings(t) /\ th[t].left # <<>>
  /\ Step(t, [th[t] EXCEPT !.left = Tail(@), !.adds = Head(th[t].left)])
  /\ UNCHANGED <<budget, cr, notice, mail, known, keystone>>

\* apply_role_bindings takes up the next binding. _sync_users_to_group compares
\* the group's members with the users of this one binding;
\* _sync_user_role_assignments only adds.
Compare(t) ==
  /\ BetweenBindings(t) /\ th[t].left # <<>>
  /\ LET c == th[t].cr
         wanted == Head(th[t].left)
     IN  Step(t, IF th[t].spec.managed
                 THEN [th[t] EXCEPT !.left = Tail(@), !.adds = wanted]
                 ELSE IF c \in provisioned
                 THEN [th[t] EXCEPT !.left = Tail(@), !.adds = wanted \ members[c],
                                    !.drops = members[c] \ wanted]
                 ELSE Raised(t))
  /\ UNCHANGED <<budget, cr, notice, mail, known, keystone>>

\* One user joins the group or, in a managed project, gets the role itself; a
\* user that does not exist yet is skipped, a project or group that is gone
\* raises.
AddUser(t) ==
  /\ th[t].pc = "bind"
  /\ \E u \in th[t].adds :
       LET c == th[t].cr
           present == u \in known /\ c \in provisioned
       IN  /\ Step(t, IF u \in known /\ ~present THEN Raised(t)
                      ELSE [th[t] EXCEPT !.adds = @ \ {u}])
           /\ members' = [members EXCEPT ![c] = @ \cup {v \in {u} : present /\ ~th[t].spec.managed}]
           /\ direct' = [direct EXCEPT ![c] = @ \cup {v \in {u} : present /\ th[t].spec.managed}]
  /\ UNCHANGED <<budget, cr, notice, mail, known, provisioned, rules>>

\* One user leaves the group, once all have joined; a user that another thread
\* has removed meanwhile is not found.
RemoveUser(t) ==
  /\ th[t].pc = "bind" /\ th[t].adds = {}
  /\ \E u \in th[t].drops :
       LET c == th[t].cr
       IN  /\ Step(t, IF u \in members[c] THEN [th[t] EXCEPT !.drops = @ \ {u}] ELSE Raised(t))
           /\ members' = [members EXCEPT ![c] = @ \ {u}]
  /\ UNCHANGED <<budget, cr, notice, mail, known, provisioned, direct, rules>>

AllBound(t) == BetweenBindings(t) /\ th[t].left = <<>>

\* All bindings are applied, and the federation mapping needs no change.
NoFederation(t) ==
  /\ AllBound(t) /\ th[t].goal = "none"
  /\ Step(t, Ended(t))
  /\ UNCHANGED <<budget, cr, notice, mail, known, keystone>>

\* A mistake the code does not make: the last rule may be removed.
ReadRulesNoLast(t) ==
  /\ AllBound(t) /\ th[t].goal # "none"
  /\ Step(t, IF th[t].goal = "cut" /\ rules[th[t].cr] = {} THEN Ended(t)
             ELSE [th[t] EXCEPT !.pc = "write", !.seen = rules])
  /\ UNCHANGED <<budget, cr, notice, mail, known, keystone>>

\* get_current_mapping_rules. remove_project_mapping ends here when there is no
\* rule of the project, or no other.
ReadRules(t) ==
  /\ AllBound(t) /\ th[t].goal # "none"
  /\ LET nothing == rules[th[t].cr] = {} \/ \A d \in CRs \ {th[t].cr} : rules[d] = {}
     IN  Step(t, IF th[t].goal = "cut" /\ nothing THEN Ended(t)
                 ELSE [th[t] EXCEPT !.pc = "write", !.seen = rules])
  /\ UNCHANGED <<budget, cr, notice, mail, known, keystone>>

\* update_mapping puts the rules as they were read, with one changed, over
\* whatever the mapping holds now.
WriteRules(t) ==
  /\ th[t].pc = "write"
  /\ rules' = [th[t].seen EXCEPT ![th[t].cr] =
                 IF th[t].goal = "put" THEN Named(th[t].spec) ELSE {}]
  /\ Step(t, Ended(t))
  /\ UNCHANGED <<budget, cr, notice, mail, known, provisioned, members, direct>>

FailCall(t) ==
  /\ th[t].pc \in {"bind", "write"}
  /\ ~(AllBound(t) /\ th[t].goal = "none")
  /\ Spend("failures")
  /\ Step(t, Raised(t))
  /\ UNCHANGED <<cr, notice, mail, known, keystone>>

-----------------------------------------------------------------------------
(* The end of a job. *)

\* Kopf applies the patch; the spec counts as handled unless the handler raised.
PatchJob(c) ==
  /\ th[Job(c)].pc = "patch"
  /\ EventLoopFree
  /\ cr' = [cr EXCEPT ![c].phase = IF th[Job(c)].ok THEN "Ready" ELSE "Error",
                      ![c].applied = IF th[Job(c)].ok THEN th[Job(c)].spec ELSE @,
                      ![c].made = TRUE]
  /\ Step(Job(c), Idle)
  /\ UNCHANGED <<budget, notice, mail, known, keystone>>

\* delete_project: the group and the project, with all that is assigned to them.
DropProject(c) ==
  /\ th[Job(c)].pc = "drop"
  /\ provisioned' = provisioned \ {c}
  /\ members' = [members EXCEPT ![c] = {}]
  /\ direct' = [direct EXCEPT ![c] = {}]
  /\ Step(Job(c), [th[Job(c)] EXCEPT !.pc = "release"])
  /\ UNCHANGED <<budget, cr, notice, mail, known, rules>>

\* Kopf removes the finalizer once the timer of the CR has ended.
Release(c) ==
  /\ th[Job(c)].pc = "release"
  /\ th[Timer(c)].pc = "idle"
  /\ EventLoopFree
  /\ cr' = [cr EXCEPT ![c] = AbsentCR]
  /\ Step(Job(c), Idle)
  /\ UNCHANGED <<budget, notice, mail, known, keystone>>

-----------------------------------------------------------------------------
(* The notification listener. *)

\* on_user_created lists the CRs that name the user and are Ready, also
\* those being deleted; a failure to look up or list is logged.
TakeNotice(u) ==
  /\ EventLoopFree
  /\ u \in mail
  /\ mail' = mail \ {u}
  /\ \/ /\ notice' = [user |-> u,
                      todo |-> {[cr |-> c, spec |-> cr[c].spec] :
                                  c \in {d \in CRs : /\ cr[d].exists /\ cr[d].phase = "Ready"
                                                     /\ u \in Named(cr[d].spec)}}]
        /\ Step(Listener, [Idle EXCEPT !.pc = "scan"])
        /\ UNCHANGED budget
     \/ Spend("failures") /\ UNCHANGED <<notice, th>>
  /\ UNCHANGED <<cr, known, keystone>>

ScanNotice ==
  /\ th[Listener].pc = "scan"
  /\ \/ \E w \in notice.todo :
          /\ notice' = [notice EXCEPT !.todo = @ \ {w}]
          /\ Step(Listener, [Idle EXCEPT !.pc = "bind", !.cr = w.cr, !.spec = w.spec,
                                         !.left = w.spec.bindings, !.end = "scan"])
     \/ notice.todo = {} /\ notice' = NoNotice /\ Step(Listener, Idle)
  /\ UNCHANGED <<budget, cr, mail, known, keystone>>

-----------------------------------------------------------------------------
ThreadStep(t) ==
  \/ Ensure(t) \/ Compare(t) \/ AddUser(t) \/ RemoveUser(t)
  \/ NoFederation(t) \/ ReadRules(t) \/ WriteRules(t)

JobStep(c) ==
  \/ BeginCreate(c) \/ BeginUpdate(c) \/ BeginDelete(c)
  \/ PatchJob(c) \/ DropProject(c) \/ Release(c)

Environment ==
  \/ \E c \in CRs, s \in Specs : UserCreates(c, s) \/ UserEdits(c, s)
  \/ \E c \in CRs : UserDeletes(c)
  \/ \E u \in Users : UserLogsIn(u) \/ NoticeLost(u)
  \/ \E t \in Threads : FailCall(t)
  \/ OperatorRestart

Next ==
  \/ \E t \in Threads : ThreadStep(t)
  \/ \E c \in CRs : JobStep(c) \/ BeginTimer(c)
  \/ \E u \in Users : TakeNotice(u)
  \/ ScanNotice
  \/ Environment

\* Threads go on, jobs that are due are started, timers recur and the queue is
\* consumed; users and faults need not act.
Spec ==
  /\ Init /\ [][Next]_vars
  /\ \A t \in Threads : WF_vars(ThreadStep(t))
  /\ \A c \in CRs : WF_vars(JobStep(c)) /\ WF_vars(BeginTimer(c))
  /\ WF_vars(ScanNotice)
  /\ WF_vars(\E u \in Users : TakeNotice(u))

-----------------------------------------------------------------------------
(* Properties. *)

Record == [pc : {"idle", "ensure", "bind", "write", "patch", "drop", "release", "scan"},
           cr : CRs \cup {None}, spec : Specs \cup {None}, left : Seq(SUBSET Users),
           adds : SUBSET Users, drops : SUBSET Users, goal : {"put", "cut", "none"},
           seen : [CRs -> SUBSET Users] \cup {None},
           end : {"patch", "drop", "scan", "idle"}, ok : BOOLEAN]

\* Every variable has its type.
TypeOK ==
  /\ budget \in [Acts -> Nat]
  /\ cr \in [CRs -> [exists : BOOLEAN, deleting : BOOLEAN, spec : Specs \cup {None},
                     applied : Specs \cup {None}, phase : {"", "Ready", "Error"},
                     made : BOOLEAN]]
  /\ th \in [Threads -> Record]
  /\ notice \in [user : Users \cup {None}, todo : SUBSET [cr : CRs, spec : Specs]]
  /\ mail \subseteq known /\ known \subseteq Users /\ provisioned \subseteq CRs
  /\ members \in [CRs -> SUBSET Users] /\ direct \in [CRs -> SUBSET Users]
  /\ rules \in [CRs -> SUBSET Users]

NoRules == [c \in CRs |-> {}]

\* Once the mapping has a rule it is never written without one, which Keystone
\* would refuse: no interleaving of removals that each looked at rules since
\* overwritten gets around the check of remove_project_mapping.
NeverEmptied == [][rules # NoRules => rules' # NoRules]_vars

\* What the rule of a CR should be: removing the last one is refused.
RuleAsSpecified(c) ==
  IF cr[c].spec.managed
  THEN rules[c] = {} \/ \A d \in CRs \ {c} : rules[d] = {}
  ELSE rules[c] = Named(cr[c].spec)

\* The rule of a Ready CR that names users is what its spec says again and
\* again, although threads of other CRs write back rules they read before: the
\* timer repairs what they undo.
RulesRepaired ==
  \A c \in CRs :
    []<>(Ready(c) /\ Named(cr[c].spec) # {} => RuleAsSpecified(c))

\* All bindings of a CR name the same users.
Uniform(s) == s.bindings # <<>> /\ \A i \in DOMAIN s.bindings : s.bindings[i] = Named(s)

\* The group of a Ready CR whose bindings agree ends up with exactly the
\* bindings' users that exist, and stays so: late first logins whose
\* notification was lost, edits, and threads that still apply an older spec
\* are made good by the timer.
MembersSettle ==
  \A c \in CRs :
    <>[](Ready(c) /\ ~cr[c].spec.managed /\ Uniform(cr[c].spec)
           => members[c] = known \cap Named(cr[c].spec))

\* In a managed project every user of every binding ends up with its role, once
\* it exists (role_binding.py:135, "retried on the next reconcile").
ManagedServed ==
  \A c \in CRs :
    <>[](Ready(c) /\ cr[c].spec.managed => known \cap Named(cr[c].spec) \subseteq direct[c])

\* Not kept: "binding.users are added to the project's federation group"
\* (role_binding.py:46); two bindings that name different users throw each
\* other's out of the group, at every run of the timer.
BindingsAdmitted ==
  \A c \in CRs :
    <>[](Ready(c) /\ ~cr[c].spec.managed => known \cap Named(cr[c].spec) \subseteq members[c])
=============================================================================
