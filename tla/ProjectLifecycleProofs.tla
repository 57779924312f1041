----------------------- MODULE ProjectLifecycleProofs -----------------------
(***************************************************************************)
(* Theorems about ProjectLifecycle, for every set of CRs, targets, project *)
(* ids and environments.  The invariants below are layered: each one is    *)
(* inductive relative to those before it.                                  *)
(***************************************************************************)
EXTENDS ProjectLifecycle, TLAPS

MakePCs == {"tag", "group", "provision"}
DeletePCs == {"guard", "cleanup", "dropproject", "release"}

\* The handler and timer of a CR agree with its object: nothing runs for a CR
\* that does not exist, a step that uses a project id has one, and a timer runs
\* only for a CR that has a project.
Shape(c) ==
  /\ ~cr[c].exists => cr[c].pid = None /\ job[c].pc = "idle" /\ timer[c].pc = "idle"
  /\ cr[c].exists => cr[c].made < clock
  /\ timer[c].pc # "idle" \/ cr[c].phase = "Ready" => cr[c].pid # None
  /\ timer[c].pc # "patch" => timer[c].pid = None
  /\ job[c].pc \in {"idle", "list", "find", "make"} => job[c].pid = None
  /\ job[c].pc \in MakePCs \cup {"retag", "guard", "cleanup", "dropproject"}
       => job[c].pid # None
  /\ job[c].pc = "patch" /\ job[c].ok => job[c].pid # None
  /\ job[c].pc \in DeletePCs => cr[c].deleting
ShapeInv == \A c \in CRs : Shape(c)

\* Keystone: the projects that exist have names, and no two the same one.
KeystoneInv ==
  /\ \A p \in palive : pname[p] # None
  /\ \A p, q \in palive : pname[p] = pname[q] => p = q

\* Without renames, every project id held for a CR is of a project of its target.
Names(c) ==
  /\ cr[c].pid # None => pname[cr[c].pid] = cr[c].target
  /\ job[c].pid # None => pname[job[c].pid] = cr[c].target
  /\ timer[c].pid # None => pname[timer[c].pid] = cr[c].target
  /\ job[c].pc # "idle" => job[c].target = cr[c].target
NameInv == "rename" \notin faults => \A c \in CRs : Names(c)

\* A live CR past the owner check precedes every live rival.
Claiming(c) ==
  Live(c) /\ (cr[c].pid # None \/ job[c].pid # None \/ job[c].pc \in {"find", "make"})
Rivals(c, d) == c # d /\ cr[c].target = cr[d].target
OrderInv ==
  Trusted => \A c, d \in CRs : Claiming(c) /\ Live(d) /\ Rivals(c, d) => Precedes(c, d)

\* What a pass expects covers every CR that has a project or is getting one, and
\* what it has on its list is expected by none.
Swept ==
  /\ gc.pc \in {"idle", "scan"} => gc.todo = {}
  /\ gc.pc = "drop" => gc.current \in gc.todo
  /\ \A p \in gc.todo : pname[p] # None /\ pname[p].name \notin gc.expected
Covered(c) ==
  "rename" \notin faults /\ gc.pc # "idle" /\ (cr[c].pid # None \/ job[c].pc # "idle")
    => cr[c].target.name \in gc.expected
GcInv == Swept /\ \A c \in CRs : Covered(c)

\* A delete handler past its guard has no rival, and gets none.
SpareInv ==
  faults \cap {"overlap", "rename"} = {} =>
    \A c, d \in CRs :
      job[c].pc \in {"cleanup", "dropproject"} /\ cr[d].exists => ~Rivals(c, d)

\* The projects of a CR exist until its own delete handler has dropped them, and
\* until then its timer has nothing to correct.
Present(c) ==
  /\ job[c].pc \in MakePCs \cup {"retag", "patch"} /\ job[c].pid # None
       => job[c].pid \in palive
  /\ cr[c].pid # None /\ cr[c].pid \notin palive
       => cr[c].deleting /\ job[c].pc \in DeletePCs \cup {"idle"}
  /\ timer[c].pc = "patch" => cr[c].pid \notin palive
PresentInv == Undisturbed => \A c \in CRs : Present(c)

-----------------------------------------------------------------------------
(* Type correctness. *)

\* What TypeOK needs to be inductive: a CR that exists and a handler that runs
\* have a target.
Targeted(c) ==
  /\ cr[c].exists => cr[c].target \in Targets
  /\ cr[c].deleting => cr[c].exists
  /\ job[c].pc # "idle" => job[c].target \in Targets
TypeInv == TypeOK /\ \A c \in CRs : Targeted(c)

\* The initial state is well typed: nothing exists, nothing runs.
LEMMA InitTypeInv == Init => TypeInv
<1> SUFFICES ASSUME Init PROVE TypeInv
  OBVIOUS
<1> USE DEF Init
<1>1. AbsentCR \in CRType
  BY DEF AbsentCR, CRType, Pids, Gids
<1>2. IdleJob \in JobType
  BY DEF IdleJob, JobType, JobPCs, Pids, Gids
<1>3. IdleTimer \in TimerType /\ IdleGc \in GcType
  BY DEF IdleTimer, TimerType, IdleGc, GcType, Pids, Gids
<1>4. TypeOK
  BY <1>1, <1>2, <1>3 DEF TypeOK
<1>5. ASSUME NEW c \in CRs PROVE Targeted(c)
  BY DEF Targeted, AbsentCR, IdleJob
<1> QED
  BY <1>4, <1>5 DEF TypeInv

\* A step that only moves the handler thread of one CR.
LEMMA JobStep ==
  ASSUME TypeInv, NEW c \in CRs, NEW j \in JobType, j.pc # "idle" => j.target \in Targets,
         job' = [job EXCEPT ![c] = j],
         UNCHANGED <<env, clock, cr, timer, gc>>,
         pname' \in [ProjectIds -> Targets \cup {None}], palive' \subseteq ProjectIds,
         ptagged' \subseteq ProjectIds, groups' \subseteq {GroupOf[t] : t \in Targets}
  PROVE  TypeInv'
<1>1. TypeOK'
  BY DEF TypeInv, TypeOK
<1>2. ASSUME NEW d \in CRs PROVE Targeted(d)'
  BY DEF TypeInv, TypeOK, Targeted
<1> QED
  BY <1>1, <1>2 DEF TypeInv

\* The idle handler thread is a well-typed one.
LEMMA IdleJobType == IdleJob \in JobType /\ IdleJob.pc = "idle"
  BY DEF IdleJob, JobType, JobPCs, Pids, Gids

\* Starting a handler preserves the types.
LEMMA BeginType ==
  ASSUME TypeInv, NEW c \in CRs, NEW pc \in JobPCs, NEW pid \in Pids, NEW gid \in Gids,
         cr[c].exists, Begin(c, pc, pid, gid)
  PROVE  TypeInv'
<1> DEFINE j == [IdleJob EXCEPT !.pc = pc, !.gen = cr[c].gen, !.target = cr[c].target,
                                !.pid = pid, !.gid = gid]
<1>1. cr[c] \in CRType
  BY DEF TypeInv, TypeOK
<1>2. j \in JobType /\ j.target \in Targets
  BY <1>1, IdleJobType DEF JobType, CRType, TypeInv, Targeted
<1>3. job' = [job EXCEPT ![c] = j]
  BY DEF Begin
<1> HIDE DEF j
<1> QED
  BY <1>2, <1>3, JobStep DEF Begin, keystone, TypeInv, TypeOK

\* Moving a handler on preserves the types.
LEMMA GotoType ==
  ASSUME TypeInv, NEW c \in CRs, NEW pc \in JobPCs, job[c].pc # "idle", Goto(c, pc)
  PROVE  TypeInv'
<1> DEFINE j == [job[c] EXCEPT !.pc = pc]
<1>1. job[c] \in JobType
  BY DEF TypeInv, TypeOK
<1>2. j \in JobType /\ j.target \in Targets
  BY <1>1 DEF JobType, TypeInv, Targeted
<1>3. job' = [job EXCEPT ![c] = j]
  BY DEF Goto
<1> HIDE DEF j
<1> QED
  BY <1>2, <1>3, JobStep DEF Goto, keystone, TypeInv, TypeOK

\* A handler that raises preserves the types.
LEMMA RaiseType ==
  ASSUME TypeInv, NEW c \in CRs, NEW pid \in Pids, NEW gid \in Gids, job[c].pc # "idle",
         Raise(c, pid, gid)
  PROVE  TypeInv'
<1> DEFINE j == [job[c] EXCEPT !.pc = "patch", !.ok = FALSE, !.pid = pid, !.gid = gid]
<1>1. job[c] \in JobType
  BY DEF TypeInv, TypeOK
<1>2. j \in JobType /\ j.target \in Targets
  BY <1>1 DEF JobType, JobPCs, TypeInv, Targeted
<1>3. job' = [job EXCEPT ![c] = j]
  BY DEF Raise
<1> HIDE DEF j
<1> QED
  BY <1>2, <1>3, JobStep DEF Raise, keystone, TypeInv, TypeOK

\* A handler that gives up without a patch preserves the types.
LEMMA AbandonType == ASSUME TypeInv, NEW c \in CRs, Abandon(c) PROVE TypeInv'
  BY IdleJobType, JobStep DEF Abandon, keystone, TypeInv, TypeOK

\* A step that changes the object, handler and timer of one CR preserves the types.
LEMMA CRStep ==
  ASSUME TypeInv, NEW c \in CRs, NEW r \in CRType, r.exists => r.target \in Targets,
         r.deleting => r.exists, cr' = [cr EXCEPT ![c] = r], clock' \in Nat \ {0},
         UNCHANGED <<env, gc, keystone>>,
         job' \in {job, [job EXCEPT ![c] = IdleJob]},
         timer' \in [CRs -> TimerType]
  PROVE  TypeInv'
<1>1. job' \in [CRs -> JobType]
  BY IdleJobType DEF TypeInv, TypeOK
<1>2. TypeOK'
  BY <1>1 DEF TypeInv, TypeOK, keystone
<1>3. ASSUME NEW d \in CRs PROVE Targeted(d)'
  BY IdleJobType DEF TypeInv, TypeOK, Targeted
<1> QED
  BY <1>2, <1>3 DEF TypeInv

\* A step of the collector preserves the types.
LEMMA GcStep ==
  ASSUME TypeInv, gc' \in GcType, palive' \subseteq ProjectIds,
         groups' \subseteq {GroupOf[t] : t \in Targets},
         UNCHANGED <<env, clock, cr, job, timer, pname, ptagged>>
  PROVE  TypeInv'
  BY DEF TypeInv, TypeOK, Targeted

\* A step of one timer preserves the types.
LEMMA TimerStep ==
  ASSUME TypeInv, NEW c \in CRs, NEW r \in TimerType, timer' = [timer EXCEPT ![c] = r],
         UNCHANGED <<env, clock, cr, job, gc, keystone>>
  PROVE  TypeInv'
  BY DEF TypeInv, TypeOK, Targeted, keystone

\* Every step keeps the types.
LEMMA StepTypeInv == TypeInv /\ [Next]_vars => TypeInv'
<1> SUFFICES ASSUME TypeInv, [Next]_vars PROVE TypeInv'
  OBVIOUS
<1> USE DEF JobPCs, Pids, Gids
<1>1. TypeOK /\ \A c \in CRs : cr[c] \in CRType /\ job[c] \in JobType /\ timer[c] \in TimerType
  BY DEF TypeInv, TypeOK
<1>2. CASE UNCHANGED vars
  BY <1>2 DEF vars, TypeInv, TypeOK, Targeted
<1>3. ASSUME NEW c \in CRs, NEW t \in Targets, UserCreates(c, t) PROVE TypeInv'
  <2>1. PICK stamp \in {clock} \cup {s \in {clock - 1} : "tie" \in faults} :
          cr' = [cr EXCEPT ![c] = [AbsentCR EXCEPT !.exists = TRUE, !.made = stamp,
                                                   !.target = t, !.gen = 1]]
    BY <1>3 DEF UserCreates
  <2> DEFINE r == [AbsentCR EXCEPT !.exists = TRUE, !.made = stamp, !.target = t, !.gen = 1]
  <2>2. stamp \in Nat /\ clock' \in Nat \ {0}
    BY <1>1, <1>3 DEF UserCreates, TypeOK
  <2>3. r \in CRType /\ r.exists /\ r.target = t
    BY <2>2 DEF AbsentCR, CRType
  <2>4. cr' = [cr EXCEPT ![c] = r] /\ UNCHANGED <<env, job, timer, gc, keystone>>
    BY <1>3, <2>1 DEF UserCreates
  <2> HIDE DEF r
  <2> QED
    BY <1>1, <2>2, <2>3, <2>4, CRStep DEF TypeOK
<1>4. ASSUME NEW c \in CRs, NEW t \in Targets, UserEdits(c, t) PROVE TypeInv'
  <2> DEFINE g == cr[c].gen + 1
             r == [cr[c] EXCEPT !.gen = g, !.target = t]
  <2>1. r \in CRType /\ r.target = t /\ r.exists
    <3>1. cr[c] \in CRType /\ cr[c].exists
      BY <1>1, <1>4 DEF UserEdits, Live
    <3>2. cr[c].gen \in Nat
      BY <3>1 DEF CRType
    <3>3. g \in Nat
      BY <3>2
    <3> HIDE DEF g
    <3> QED
      BY <3>1, <3>3 DEF CRType
  <2>2. cr' = [cr EXCEPT ![c] = r]
    BY <1>4 DEF UserEdits
  <2> HIDE DEF r
  <2> QED
    BY <1>1, <1>4, <2>1, <2>2, CRStep DEF UserEdits, TypeOK, keystone
<1>5. ASSUME NEW c \in CRs, UserDeletes(c) PROVE TypeInv'
  <2> DEFINE r == [cr[c] EXCEPT !.deleting = TRUE]
  <2>1. r \in CRType /\ r.target \in Targets /\ r.exists
    BY <1>1, <1>5 DEF UserDeletes, Live, CRType, TypeInv, Targeted
  <2>2. cr' = [cr EXCEPT ![c] = r]
    BY <1>5 DEF UserDeletes
  <2> HIDE DEF r
  <2> QED
    BY <1>1, <1>5, <2>1, <2>2, CRStep DEF UserDeletes, TypeOK, keystone
<1>6. ASSUME NEW c \in CRs, BeginHandler(c) PROVE TypeInv'
  <2>1. cr[c].exists /\ cr[c].pid \in Pids /\ cr[c].gid \in Gids
    BY <1>1, <1>6 DEF BeginHandler, BeginCreate, BeginUpdate, BeginDelete, Live, CRType,
                      TypeInv, Targeted
  <2> QED
    BY <1>6, <2>1, BeginType DEF BeginHandler, BeginCreate, BeginUpdate, BeginDelete
<1>7. ASSUME NEW c \in CRs, CheckOwner(c) PROVE TypeInv'
  BY <1>7, GotoType, RaiseType DEF CheckOwner
<1>8. ASSUME NEW c \in CRs, FindProject(c) PROVE TypeInv'
  <2>1. CASE \E p \in ProjectsNamed(job[c].target) :
               job' = [job EXCEPT ![c].pc = "tag", ![c].pid = p]
    <3>1. PICK p \in ProjectIds : job' = [job EXCEPT ![c].pc = "tag", ![c].pid = p]
      BY <1>1, <2>1 DEF ProjectsNamed, TypeOK
    <3> DEFINE j == [job[c] EXCEPT !.pc = "tag", !.pid = p]
    <3>2. j \in JobType /\ j.target \in Targets
      BY <1>1, <1>8 DEF FindProject, JobType, TypeInv, Targeted
    <3>3. job' = [job EXCEPT ![c] = j]
      BY <3>1
    <3> HIDE DEF j
    <3> QED
      BY <1>1, <1>8, <3>2, <3>3, JobStep DEF FindProject, TypeOK, keystone
  <2>2. CASE job' = [job EXCEPT ![c].pc = "make"]
    BY <1>8, <2>2, GotoType DEF FindProject, Goto
  <2> QED
    BY <1>8, <2>1, <2>2 DEF FindProject
<1>9. ASSUME NEW c \in CRs, MakeProject(c) PROVE TypeInv'
  <2>1. CASE ProjectsNamed(job[c].target) # {} /\ Raise(c, None, None)
    BY <1>9, <2>1, RaiseType DEF MakeProject
  <2>2. CASE ProjectsNamed(job[c].target) = {}
    <3>1. PICK p \in ProjectIds : /\ pname' = [pname EXCEPT ![p] = job[c].target]
                                  /\ palive' = palive \cup {p}
                                  /\ job' = [job EXCEPT ![c].pc = "tag", ![c].pid = p]
      BY <1>9, <2>2 DEF MakeProject
    <3> DEFINE j == [job[c] EXCEPT !.pc = "tag", !.pid = p]
    <3>2. j \in JobType /\ j.target \in Targets /\ job[c].target \in Targets
      BY <1>1, <1>9 DEF MakeProject, JobType, TypeInv, Targeted
    <3>3. job' = [job EXCEPT ![c] = j]
      BY <3>1
    <3>4. UNCHANGED <<env, clock, cr, timer, gc, ptagged, groups>>
      BY <1>9, <2>2 DEF MakeProject
    <3>5. /\ pname' \in [ProjectIds -> Targets \cup {None}]
          /\ palive' \subseteq ProjectIds
      BY <1>1, <3>1, <3>2 DEF TypeOK
    <3> HIDE DEF j
    <3> QED
      BY <1>1, <3>2, <3>3, <3>4, <3>5, JobStep DEF TypeOK
  <2> QED
    BY <1>9, <2>1, <2>2 DEF MakeProject
<1>10. ASSUME NEW c \in CRs, TagProject(c) PROVE TypeInv'
  <2>1. CASE job[c].pid \in palive /\ ~Raise(c, None, None)
    <3> DEFINE j == [job[c] EXCEPT !.pc = "group"]
    <3>1. j \in JobType /\ j.target \in Targets
      BY <1>1, <1>10 DEF TagProject, JobType, TypeInv, Targeted
    <3>2. job' = [job EXCEPT ![c] = j]
      BY <1>10, <2>1 DEF TagProject
    <3> HIDE DEF j
    <3> QED
      BY <1>1, <1>10, <2>1, <3>1, <3>2, JobStep DEF TagProject, TypeOK
  <2>2. CASE Raise(c, None, None)
    BY <1>10, <2>2, RaiseType DEF TagProject
  <2> QED
    BY <1>10, <2>1, <2>2 DEF TagProject
<1>11. ASSUME NEW c \in CRs, EnsureGroup(c) PROVE TypeInv'
  <2> DEFINE g == GroupOf[job[c].target]
             j == IF job[c].pid \in palive THEN [job[c] EXCEPT !.pc = "provision", !.gid = g]
                  ELSE [job[c] EXCEPT !.pc = "patch", !.ok = FALSE, !.pid = None]
  <2>1. job[c].target \in Targets
    BY <1>11 DEF EnsureGroup, TypeInv, Targeted
  <2>2. j \in JobType /\ j.target \in Targets
    BY <1>1, <2>1 DEF JobType
  <2>3. job' = [job EXCEPT ![c] = j]
    BY <1>11 DEF EnsureGroup
  <2>4. groups' \subseteq {GroupOf[t] : t \in Targets}
    BY <1>1, <1>11, <2>1 DEF EnsureGroup, TypeOK
  <2> HIDE DEF j
  <2> QED
    BY <1>1, <1>11, <2>2, <2>3, <2>4, JobStep DEF EnsureGroup, TypeOK
<1>12. ASSUME NEW c \in CRs, RetagProject(c) PROVE TypeInv'
  BY <1>1, <1>12, GotoType, RaiseType DEF RetagProject, JobType
<1>13. ASSUME NEW c \in CRs, Provision(c) PROVE TypeInv'
  BY <1>13, GotoType DEF Provision
<1>14. ASSUME NEW c \in CRs, FailCall(c) PROVE TypeInv'
  BY <1>1, <1>14, RaiseType DEF FailCall, JobType
<1>15. ASSUME NEW c \in CRs, GuardDelete(c) PROVE TypeInv'
  BY <1>15, GotoType, AbandonType DEF GuardDelete
<1>16. ASSUME NEW c \in CRs, DropGroup(c) PROVE TypeInv'
  <2>1. CASE Abandon(c)
    BY <2>1, AbandonType
  <2>2. CASE ~Abandon(c)
    <3> DEFINE j == [job[c] EXCEPT !.pc = "dropproject"]
    <3>1. j \in JobType /\ j.target \in Targets
      BY <1>1, <1>16 DEF DropGroup, JobType, TypeInv, Targeted
    <3>2. job' = [job EXCEPT ![c] = j]
      BY <1>16, <2>2 DEF DropGroup
    <3> HIDE DEF j
    <3> QED
      BY <1>1, <1>16, <2>2, <3>1, <3>2, JobStep DEF DropGroup, TypeOK
  <2> QED
    BY <2>1, <2>2
<1>17. ASSUME NEW c \in CRs, DropProject(c) PROVE TypeInv'
  <2> DEFINE j == [job[c] EXCEPT !.pc = "release"]
  <2>1. j \in JobType /\ j.target \in Targets
    BY <1>1, <1>17 DEF DropProject, JobType, TypeInv, Targeted
  <2>2. job' = [job EXCEPT ![c] = j]
    BY <1>17 DEF DropProject
  <2> HIDE DEF j
  <2> QED
    BY <1>1, <1>17, <2>1, <2>2, JobStep DEF DropProject, TypeOK
<1>18. ASSUME NEW c \in CRs, Patch(c) PROVE TypeInv'
  <2> DEFINE r == [cr[c] EXCEPT !.phase = IF job[c].ok THEN "Ready" ELSE "Error",
                                !.handled = IF job[c].ok THEN job[c].gen ELSE @,
                                !.pid = IF job[c].pid # None THEN job[c].pid ELSE @,
                                !.gid = IF job[c].pid # None THEN job[c].gid ELSE @]
  <2>1. r \in CRType
    <3>1. cr[c] \in CRType /\ job[c].pid \in Pids /\ job[c].gid \in Gids /\ job[c].gen \in Nat
      BY <1>1 DEF JobType
    <3> HIDE DEF Pids, Gids
    <3> QED
      BY <3>1 DEF CRType
  <2>2. r.target = cr[c].target /\ r.exists = cr[c].exists /\ r.deleting = cr[c].deleting
    BY <1>1 DEF CRType
  <2>3. (r.exists => r.target \in Targets) /\ (r.deleting => r.exists)
    BY <2>2 DEF TypeInv, Targeted
  <2>4. /\ cr' = [cr EXCEPT ![c] = r]
        /\ job' = [job EXCEPT ![c] = IdleJob]
        /\ UNCHANGED <<env, clock, timer, gc, keystone>>
    BY <1>18 DEF Patch
  <2> HIDE DEF r
  <2> QED
    BY <1>1, <2>1, <2>3, <2>4, CRStep DEF TypeOK
<1>19. ASSUME NEW c \in CRs, Release(c) PROVE TypeInv'
  <2>1. AbsentCR \in CRType /\ ~AbsentCR.exists /\ ~AbsentCR.deleting
    BY DEF AbsentCR, CRType
  <2> QED
    BY <1>1, <1>19, <2>1, CRStep DEF Release, TypeOK, keystone
<1>20. ASSUME NEW c \in CRs, StartTimer(c) PROVE TypeInv'
  <2> DEFINE r == [timer[c] EXCEPT !.pc = "query"]
  <2>1. r \in TimerType
    BY <1>1 DEF TimerType
  <2>2. timer' = [timer EXCEPT ![c] = r]
    BY <1>20 DEF StartTimer
  <2> HIDE DEF r
  <2> QED
    BY <1>20, <2>1, <2>2, TimerStep DEF StartTimer
<1>21. ASSUME NEW c \in CRs, QueryProject(c) PROVE TypeInv'
  <2>1. PICK r : timer' = [timer EXCEPT ![c] = r] /\ r \in TimerType
    <3>1. [timer[c] EXCEPT !.pc = "patch"] \in TimerType /\ IdleTimer \in TimerType
      BY <1>1 DEF TimerType, IdleTimer
    <3>2. ASSUME NEW p \in ProjectsNamed(cr[c].target) \ {cr[c].pid}, NEW g
          PROVE  [pc |-> "patch", pid |-> p, gid |-> IF g \in groups THEN g ELSE None]
                   \in TimerType
      BY <1>1 DEF ProjectsNamed, TypeOK, TimerType
    <3> QED
      BY <1>21, <3>1, <3>2 DEF QueryProject
  <2> QED
    BY <1>21, <2>1, TimerStep DEF QueryProject
<1>22. ASSUME NEW c \in CRs, PatchTimer(c) PROVE TypeInv'
  <2> DEFINE r == [cr[c] EXCEPT !.phase = "Pending", !.pid = timer[c].pid, !.gid = timer[c].gid]
  <2>1. r \in CRType
    BY <1>1 DEF TimerType, CRType
  <2>2. r.target = cr[c].target /\ r.exists = cr[c].exists /\ r.deleting = cr[c].deleting
    BY <1>1 DEF CRType
  <2>3. cr' = [cr EXCEPT ![c] = r]
    BY <1>22 DEF PatchTimer
  <2>4. timer' \in [CRs -> TimerType]
    BY <1>1, <1>22 DEF PatchTimer, TypeOK, TimerType, IdleTimer
  <2> HIDE DEF r
  <2> QED
    BY <1>1, <1>22, <2>1, <2>2, <2>3, <2>4, CRStep
       DEF PatchTimer, TypeOK, TypeInv, Targeted, keystone
<1>23. ASSUME NEW c \in CRs, GcStart(c) PROVE TypeInv'
  <2>1. {cr[d].target.name : d \in {e \in CRs : cr[e].exists}} \subseteq {t.name : t \in Targets}
    BY DEF TypeInv, Targeted
  <2>2. gc' \in GcType
    BY <1>23, <2>1 DEF GcStart, IdleGc, GcType
  <2> QED
    BY <1>1, <1>23, <2>2, GcStep DEF GcStart, TypeOK, keystone
<1>24. CASE GcPass
  <2>1. gc' \in GcType
    <3>1. gc \in GcType /\ palive \subseteq ProjectIds
      BY <1>1 DEF TypeOK
    <3>2. CASE GcScan
      BY <3>1, <3>2 DEF GcScan, GcType, IdleGc
    <3>3. ASSUME NEW p \in ProjectIds, GcDropGroup(p) PROVE gc' \in GcType
      BY <3>1, <3>3 DEF GcDropGroup, GcType
    <3>4. CASE GcDropProject
      BY <3>1, <3>4 DEF GcDropProject, GcType, IdleGc
    <3>5. CASE GcAbort
      BY <3>5 DEF GcAbort, GcType, IdleGc
    <3> QED
      BY <1>24, <3>2, <3>3, <3>4, <3>5 DEF GcPass
  <2> QED
    BY <1>1, <1>24, <2>1, GcStep
       DEF GcPass, GcScan, GcAbort, GcDropGroup, GcDropProject, TypeOK, keystone
<1>25. CASE OperatorRestart
  <2>1. IdleJob \in JobType /\ IdleTimer \in TimerType /\ IdleGc \in GcType
    BY IdleJobType DEF IdleTimer, TimerType, IdleGc, GcType
  <2> QED
    BY <1>1, <1>25, <2>1, IdleJobType DEF OperatorRestart, TypeInv, TypeOK, Targeted, keystone
<1>26. ASSUME NEW p \in ProjectIds, AdminDeletes(p) PROVE TypeInv'
  BY <1>1, <1>26 DEF AdminDeletes, TypeInv, TypeOK, Targeted
<1> QED
  BY <1>2, <1>3, <1>4, <1>5, <1>6, <1>7, <1>8, <1>9, <1>10, <1>11, <1>12, <1>13, <1>14, <1>15,
     <1>16, <1>17, <1>18, <1>19, <1>20, <1>21, <1>22, <1>23, <1>24, <1>25, <1>26
     DEF Next, User, Work, Timer

\* Every variable holds a value of its type, whatever the environment does: the
\* handlers, the timer and the collector never write an id, a phase or a name of
\* the wrong kind into the CRs or into Keystone.
THEOREM TypeCorrect == Spec => []TypeOK
<1>1. TypeInv => TypeOK
  BY DEF TypeInv
<1> QED
  BY InitTypeInv, StepTypeInv, <1>1, PTL DEF Spec

-----------------------------------------------------------------------------
(* What each step does to the fields the invariants speak of. *)

\* Only the handler of c moves.
OnlyJob(c) ==
  UNCHANGED <<env, clock, cr, timer, gc>> /\ \A d \in CRs \ {c} : job'[d] = job[d]
JobAt(c, pc, pid, ok) ==
  job'[c].pc = pc /\ job'[c].pid = pid /\ job'[c].ok = ok /\ job'[c].target = job[c].target
SameProjects == UNCHANGED <<pname, palive>>
JobEnds(c) == job'[c].pc = "idle" /\ job'[c].pid = None
TimerEnds(c) == timer'[c].pc = "idle" /\ timer'[c].pid = None

\* Only the object of c and what is at work on it change.
OnlyCR(c) ==
  /\ UNCHANGED <<env, gc, keystone>>
  /\ \A d \in CRs \ {c} : cr'[d] = cr[d] /\ job'[d] = job[d] /\ timer'[d] = timer[d]
CRAt(c, exists, deleting, target, phase, pid) ==
  /\ cr'[c].exists = exists /\ cr'[c].deleting = deleting /\ cr'[c].target = target
  /\ cr'[c].phase = phase /\ cr'[c].pid = pid

Creates(c, t) ==
  /\ ~cr[c].exists /\ CRAt(c, TRUE, FALSE, t, "", None)
  /\ clock' = clock + 1 /\ cr'[c].made <= clock /\ cr'[c].made \in Nat
  /\ "tie" \notin faults => cr'[c].made = clock
  /\ "overlap" \in faults \/ ~\E d \in CRs : cr[d].deleting /\ cr[d].target = t
  /\ UNCHANGED <<job, timer>> /\ OnlyCR(c)
Edits(c, t) ==
  /\ Live(c) /\ CRAt(c, TRUE, FALSE, t, cr[c].phase, cr[c].pid)
  /\ t = cr[c].target \/ "rename" \in faults
  /\ cr'[c].made = cr[c].made
  /\ UNCHANGED <<clock, job, timer>> /\ OnlyCR(c)
Deletes(c) ==
  /\ Live(c) /\ CRAt(c, TRUE, TRUE, cr[c].target, cr[c].phase, cr[c].pid)
  /\ cr'[c].made = cr[c].made
  /\ UNCHANGED <<clock, job, timer>> /\ OnlyCR(c)

\* What the three user actions do to a CR.
LEMMA UserEffect ==
  ASSUME TypeInv, NEW c \in CRs, User(c)
  PROVE  (\E t \in Targets : Creates(c, t) \/ Edits(c, t)) \/ Deletes(c)
<1>1. /\ cr \in [CRs -> CRType] /\ cr[c] \in CRType /\ clock \in Nat \ {0}
      /\ cr[c].deleting \in BOOLEAN /\ cr[c].exists \in BOOLEAN
  BY DEF TypeInv, TypeOK, CRType
<1>2. ASSUME NEW t \in Targets, UserCreates(c, t) PROVE Creates(c, t)
  <2>1. PICK stamp \in {clock} \cup {s \in {clock - 1} : "tie" \in faults} :
          cr' = [cr EXCEPT ![c] = [AbsentCR EXCEPT !.exists = TRUE, !.made = stamp,
                                                   !.target = t, !.gen = 1]]
    BY <1>2 DEF UserCreates
  <2>2. CRAt(c, TRUE, FALSE, t, "", None) /\ cr'[c].made = stamp
    BY <1>1, <2>1 DEF CRAt, AbsentCR
  <2>3. stamp \in Nat /\ stamp <= clock /\ ("tie" \notin faults => stamp = clock)
    BY <1>1
  <2>4. OnlyCR(c) /\ UNCHANGED <<job, timer>>
    BY <1>1, <1>2, <2>1 DEF UserCreates, OnlyCR
  <2> QED
    BY <1>2, <2>2, <2>3, <2>4 DEF UserCreates, Creates
<1>3. ASSUME NEW t \in Targets, UserEdits(c, t) PROVE Edits(c, t)
  BY <1>1, <1>3 DEF UserEdits, Edits, CRAt, OnlyCR, Live, CRType
<1>4. ASSUME UserDeletes(c) PROVE Deletes(c)
  BY <1>1, <1>4 DEF UserDeletes, Deletes, CRAt, OnlyCR, Live, CRType
<1> QED
  BY <1>2, <1>3, <1>4 DEF User

Begins(c, pc, pid) ==
  /\ job[c].pc = "idle" /\ gc.pc = "idle" /\ OnlyJob(c) /\ SameProjects
  /\ job'[c].pc = pc /\ job'[c].pid = pid /\ job'[c].ok /\ job'[c].target = cr[c].target

\* Which handler Kopf starts, and on what snapshot.
LEMMA BeginEffect ==
  ASSUME TypeInv, NEW c \in CRs, BeginHandler(c)
  PROVE  \/ Live(c) /\ Begins(c, "list", None)
         \/ Live(c) /\ cr[c].pid # None /\ Begins(c, "retag", cr[c].pid)
         \/ cr[c].deleting /\ Begins(c, "release", None)
         \/ cr[c].deleting /\ cr[c].pid # None /\ Begins(c, "guard", cr[c].pid)
<1>1. ASSUME NEW pc, NEW pid, NEW gid, Begin(c, pc, pid, gid) PROVE Begins(c, pc, pid)
  BY <1>1 DEF Begin, Begins, IdleJob, EventLoopFree, OnlyJob, SameProjects, keystone,
              TypeInv, TypeOK
<1> QED
  BY <1>1 DEF BeginHandler, BeginCreate, BeginUpdate, BeginDelete

Passes(c) ==
  /\ job[c].pc = "list" /\ JobAt(c, "find", job[c].pid, job[c].ok) /\ SameProjects
  /\ PriorClaims(c, job[c].target) = {} \/ "list" \in faults
Finds(c) ==
  /\ job[c].pc = "find" /\ SameProjects
  /\ \E p \in ProjectsNamed(job[c].target) : JobAt(c, "tag", p, job[c].ok)
Misses(c) ==
  job[c].pc = "find" /\ JobAt(c, "make", job[c].pid, job[c].ok) /\ SameProjects
Makes(c) ==
  /\ job[c].pc = "make" /\ ProjectsNamed(job[c].target) = {}
  /\ \E p \in ProjectIds : /\ pname[p] = None
                           /\ pname' = [pname EXCEPT ![p] = job[c].target]
                           /\ palive' = palive \cup {p}
                           /\ JobAt(c, "tag", p, job[c].ok)
Advances(c) ==
  /\ <<job[c].pc, job'[c].pc>> \in {<<"tag", "group">>, <<"group", "provision">>,
       <<"retag", "provision">>, <<"provision", "patch">>}
  /\ JobAt(c, job'[c].pc, job[c].pid, job[c].ok) /\ SameProjects
Fails(c) ==
  /\ SameProjects
  /\ \/ /\ job[c].pc \in {"list", "find", "make", "tag", "group"}
        /\ JobAt(c, "patch", None, FALSE)
     \/ /\ job[c].pc \in {"retag", "provision"}
        /\ JobAt(c, "patch", job[c].pid, FALSE)
Unwinds(c) ==
  /\ SameProjects
  /\ \/ /\ job[c].pc = "guard" /\ Duplicates(c, job[c].target) = {}
        /\ JobAt(c, "cleanup", job[c].pid, job[c].ok)
     \/ job[c].pc = "guard" /\ JobAt(c, "release", job[c].pid, job[c].ok)
     \/ job[c].pc = "cleanup" /\ JobAt(c, "dropproject", job[c].pid, job[c].ok)
     \/ job[c].pc \in {"guard", "cleanup"} /\ JobEnds(c)
Drops(c) ==
  /\ job[c].pc = "dropproject" /\ JobAt(c, "release", job[c].pid, job[c].ok)
  /\ palive' \in {palive, palive \ {job[c].pid}} /\ UNCHANGED pname

\* What a step of a worker thread does to the thread and to Keystone.
LEMMA WorkEffect ==
  ASSUME TypeInv, NEW c \in CRs, Work(c)
  PROVE  /\ OnlyJob(c)
         /\ \/ Passes(c) \/ Finds(c) \/ Misses(c) \/ Makes(c) \/ Advances(c) \/ Fails(c)
            \/ Unwinds(c) \/ Drops(c)
<1>1. job \in [CRs -> JobType] /\ job[c] \in JobType
  BY DEF TypeInv, TypeOK
<1>2. ASSUME NEW pc, Goto(c, pc)
      PROVE  OnlyJob(c) /\ SameProjects /\ JobAt(c, pc, job[c].pid, job[c].ok)
  BY <1>1, <1>2 DEF Goto, OnlyJob, SameProjects, JobAt, JobType, keystone
<1>3. ASSUME NEW pid, NEW gid, Raise(c, pid, gid)
      PROVE  OnlyJob(c) /\ SameProjects /\ JobAt(c, "patch", pid, FALSE)
  BY <1>1, <1>3 DEF Raise, OnlyJob, SameProjects, JobAt, JobType, keystone
<1>4. ASSUME Abandon(c) PROVE OnlyJob(c) /\ SameProjects /\ JobEnds(c)
  BY <1>1, <1>4 DEF Abandon, OnlyJob, SameProjects, JobEnds, IdleJob, keystone
<1>5. CASE CheckOwner(c)
  BY <1>2, <1>3, <1>5 DEF CheckOwner, Passes, Fails
<1>6. CASE FindProject(c)
  <2>1. OnlyJob(c) /\ SameProjects
    BY <1>1, <1>6 DEF FindProject, OnlyJob, SameProjects, keystone
  <2>2. (\E p \in ProjectsNamed(job[c].target) : JobAt(c, "tag", p, job[c].ok))
          \/ JobAt(c, "make", job[c].pid, job[c].ok)
    BY <1>1, <1>6 DEF FindProject, JobAt, JobType
  <2> QED
    BY <1>6, <2>1, <2>2 DEF FindProject, Finds, Misses
<1>7. CASE MakeProject(c)
  <2>1. CASE Raise(c, None, None)
    BY <1>3, <1>7, <2>1 DEF MakeProject, Fails
  <2>2. CASE ~Raise(c, None, None)
    <3>1. PICK p \in ProjectIds : /\ pname[p] = None
                                  /\ pname' = [pname EXCEPT ![p] = job[c].target]
                                  /\ palive' = palive \cup {p}
                                  /\ job' = [job EXCEPT ![c].pc = "tag", ![c].pid = p]
      BY <1>7, <2>2 DEF MakeProject
    <3>2. JobAt(c, "tag", p, job[c].ok)
      BY <1>1, <3>1 DEF JobAt, JobType
    <3>3. OnlyJob(c) /\ job[c].pc = "make" /\ ProjectsNamed(job[c].target) = {}
      BY <1>1, <1>7, <2>2, <3>1 DEF MakeProject, OnlyJob
    <3> QED
      BY <3>1, <3>2, <3>3 DEF Makes
  <2> QED
    BY <2>1, <2>2
<1>8. CASE TagProject(c)
  <2>1. CASE Raise(c, None, None)
    BY <1>3, <1>8, <2>1 DEF TagProject, Fails
  <2>2. CASE ~Raise(c, None, None)
    <3>1. OnlyJob(c) /\ SameProjects
      BY <1>1, <1>8, <2>2 DEF TagProject, OnlyJob, SameProjects
    <3>2. JobAt(c, "group", job[c].pid, job[c].ok)
      BY <1>1, <1>8, <2>2 DEF TagProject, JobAt, JobType
    <3>3. <<job[c].pc, job'[c].pc>> = <<"tag", "group">>
      BY <1>8, <3>2 DEF TagProject, JobAt
    <3> QED
      BY <3>1, <3>2, <3>3 DEF Advances, JobAt
  <2> QED
    BY <2>1, <2>2
<1>9. CASE EnsureGroup(c)
  <2>1. OnlyJob(c) /\ SameProjects /\ job[c].pc = "group"
    BY <1>1, <1>9 DEF EnsureGroup, OnlyJob, SameProjects
  <2>2. CASE job[c].pid \in palive
    <3>1. job' = [job EXCEPT ![c].pc = "provision", ![c].gid = GroupOf[job[c].target]]
      BY <1>9, <2>2 DEF EnsureGroup
    <3>2. JobAt(c, "provision", job[c].pid, job[c].ok)
      BY <1>1, <3>1 DEF JobAt, JobType
    <3>3. <<job[c].pc, job'[c].pc>> = <<"group", "provision">>
      BY <2>1, <3>2 DEF JobAt
    <3> QED
      BY <2>1, <3>2, <3>3 DEF Advances, JobAt
  <2>3. CASE job[c].pid \notin palive
    <3>1. job' = [job EXCEPT ![c].pc = "patch", ![c].ok = FALSE, ![c].pid = None]
      BY <1>9, <2>3 DEF EnsureGroup
    <3>2. JobAt(c, "patch", None, FALSE)
      BY <1>1, <3>1 DEF JobAt, JobType
    <3> QED
      BY <2>1, <3>2 DEF Fails
  <2> QED
    BY <2>2, <2>3
<1>10. CASE RetagProject(c)
  <2>1. CASE Goto(c, "provision")
    <3>1. <<job[c].pc, job'[c].pc>> = <<"retag", "provision">>
      BY <1>2, <1>10, <2>1 DEF RetagProject, JobAt
    <3> QED
      BY <1>2, <2>1, <3>1 DEF Advances, JobAt
  <2>2. CASE Raise(c, job[c].pid, job[c].gid)
    BY <1>3, <1>10, <2>2 DEF RetagProject, Fails
  <2> QED
    BY <1>10, <2>1, <2>2 DEF RetagProject
<1>11. CASE Provision(c)
  <2>1. <<job[c].pc, job'[c].pc>> = <<"provision", "patch">>
    BY <1>2, <1>11 DEF Provision, JobAt
  <2> QED
    BY <1>2, <1>11, <2>1 DEF Provision, Advances, JobAt
<1>12. CASE FailCall(c)
  BY <1>3, <1>12 DEF FailCall, Fails
<1>13. CASE GuardDelete(c)
  BY <1>2, <1>4, <1>13 DEF GuardDelete, Unwinds
<1>14. CASE DropGroup(c)
  <2>1. CASE Abandon(c)
    BY <1>4, <1>14, <2>1 DEF DropGroup, Unwinds
  <2>2. CASE ~Abandon(c)
    <3>1. OnlyJob(c) /\ SameProjects /\ job[c].pc = "cleanup"
      BY <1>1, <1>14, <2>2 DEF DropGroup, OnlyJob, SameProjects
    <3>2. JobAt(c, "dropproject", job[c].pid, job[c].ok)
      BY <1>1, <1>14, <2>2 DEF DropGroup, JobAt, JobType
    <3> QED
      BY <3>1, <3>2 DEF Unwinds
  <2> QED
    BY <2>1, <2>2
<1>15. CASE DropProject(c)
  <2>1. JobAt(c, "release", job[c].pid, job[c].ok)
    BY <1>1, <1>15 DEF DropProject, JobAt, JobType
  <2>2. palive' \in {palive, palive \ {job[c].pid}} /\ UNCHANGED pname /\ OnlyJob(c)
    BY <1>1, <1>15 DEF DropProject, OnlyJob
  <2> QED
    BY <1>15, <2>1, <2>2 DEF DropProject, Drops
<1> QED
  BY <1>5, <1>6, <1>7, <1>8, <1>9, <1>10, <1>11, <1>12, <1>13, <1>14, <1>15 DEF Work

Patches(c) ==
  /\ job[c].pc = "patch" /\ gc.pc = "idle" /\ OnlyCR(c) /\ UNCHANGED <<clock, timer>>
  /\ CRAt(c, cr[c].exists, cr[c].deleting, cr[c].target,
          IF job[c].ok THEN "Ready" ELSE "Error",
          IF job[c].pid # None THEN job[c].pid ELSE cr[c].pid)
  /\ cr'[c].made = cr[c].made /\ JobEnds(c)
Releases(c) ==
  /\ job[c].pc = "release" /\ gc.pc = "idle" /\ timer[c].pc = "idle"
  /\ OnlyCR(c) /\ UNCHANGED <<clock, timer>> /\ JobEnds(c)
  /\ CRAt(c, FALSE, FALSE, None, "", None)
Corrects(c) ==
  /\ timer[c].pc = "patch" /\ gc.pc = "idle" /\ OnlyCR(c) /\ UNCHANGED <<clock, job>>
  /\ CRAt(c, cr[c].exists, cr[c].deleting, cr[c].target, "Pending", timer[c].pid)
  /\ cr'[c].made = cr[c].made /\ TimerEnds(c)

\* What Kopf's status patch does.
LEMMA PatchEffect == ASSUME TypeInv, NEW c \in CRs, Patch(c) PROVE Patches(c)
<1>1. cr \in [CRs -> CRType] /\ cr[c] \in CRType /\ job \in [CRs -> JobType]
  BY DEF TypeInv, TypeOK
<1>2. CRAt(c, cr[c].exists, cr[c].deleting, cr[c].target,
           IF job[c].ok THEN "Ready" ELSE "Error",
           IF job[c].pid # None THEN job[c].pid ELSE cr[c].pid) /\ cr'[c].made = cr[c].made
  BY <1>1 DEF Patch, CRAt, CRType
<1>3. OnlyCR(c) /\ UNCHANGED <<clock, timer>> /\ JobEnds(c)
  BY <1>1 DEF Patch, OnlyCR, JobEnds, IdleJob
<1> QED
  BY <1>2, <1>3 DEF Patch, Patches, EventLoopFree

\* What the removal of the finalizer does.
LEMMA ReleaseEffect == ASSUME TypeInv, NEW c \in CRs, Release(c) PROVE Releases(c)
  BY DEF TypeInv, TypeOK, Release, Releases, OnlyCR, CRAt, JobEnds, IdleJob, AbsentCR,
         EventLoopFree

\* What the timer's status patch does.
LEMMA CorrectEffect == ASSUME TypeInv, NEW c \in CRs, PatchTimer(c) PROVE Corrects(c)
<1>1. cr \in [CRs -> CRType] /\ cr[c] \in CRType /\ timer \in [CRs -> TimerType]
  BY DEF TypeInv, TypeOK
<1>2. CRAt(c, cr[c].exists, cr[c].deleting, cr[c].target, "Pending", timer[c].pid)
      /\ cr'[c].made = cr[c].made
  BY <1>1 DEF PatchTimer, CRAt, CRType
<1> QED
  BY <1>1, <1>2 DEF PatchTimer, Corrects, OnlyCR, TimerEnds, IdleTimer, EventLoopFree

\* Only the timer of c moves.
OnlyTimer(c) ==
  /\ UNCHANGED <<env, clock, cr, job, gc, keystone>>
  /\ \A d \in CRs \ {c} : timer'[d] = timer[d]
Ticks(c) ==
  /\ OnlyTimer(c) /\ timer[c].pc = "idle" /\ gc.pc = "idle" /\ Live(c) /\ cr[c].phase = "Ready"
  /\ timer'[c].pc = "query" /\ timer'[c].pid = timer[c].pid
Queries(c) ==
  /\ OnlyTimer(c) /\ timer[c].pc = "query"
  /\ \/ /\ ProjectsNamed(cr[c].target) = {}
        /\ timer'[c].pc = "patch" /\ timer'[c].pid = timer[c].pid
     \/ \E p \in ProjectsNamed(cr[c].target) \ {cr[c].pid} :
          timer'[c].pc = "patch" /\ timer'[c].pid = p
     \/ TimerEnds(c)

\* What the timer's start and query do.
LEMMA TimerEffect ==
  ASSUME TypeInv, NEW c \in CRs, StartTimer(c) \/ QueryProject(c) PROVE Ticks(c) \/ Queries(c)
<1>1. timer \in [CRs -> TimerType] /\ timer[c] \in TimerType
  BY DEF TypeInv, TypeOK
<1>2. CASE StartTimer(c)
  BY <1>1, <1>2 DEF StartTimer, Ticks, OnlyTimer, EventLoopFree, TimerType
<1>3. CASE QueryProject(c)
  <2>1. OnlyTimer(c) /\ timer[c].pc = "query"
    BY <1>1, <1>3 DEF QueryProject, OnlyTimer
  <2>2. CASE timer' = [timer EXCEPT ![c].pc = "patch"] /\ ProjectsNamed(cr[c].target) = {}
    BY <1>1, <2>1, <2>2 DEF Queries, TimerType
  <2>3. CASE timer' = [timer EXCEPT ![c] = IdleTimer]
    BY <1>1, <2>1, <2>3 DEF Queries, TimerEnds, IdleTimer
  <2>4. CASE \E p \in ProjectsNamed(cr[c].target) \ {cr[c].pid} :
               LET g == GroupOf[cr[c].target]
               IN timer' = [timer EXCEPT ![c] = [pc |-> "patch", pid |-> p,
                              gid |-> IF g \in groups THEN g ELSE None]]
    BY <1>1, <2>1, <2>4 DEF Queries
  <2> QED
    BY <1>3, <2>2, <2>3, <2>4 DEF QueryProject
<1> QED
  BY <1>2, <1>3

\* Only the collector moves, and takes at most a project off its list away.
OnlyGc == UNCHANGED <<env, clock, cr, job, timer, pname>>
PassStarts ==
  /\ OnlyGc /\ UNCHANGED palive /\ gc.pc = "idle" /\ gc'.pc = "scan" /\ gc'.todo = {}
  /\ gc'.expected = {cr[d].target.name : d \in {e \in CRs : cr[e].exists}}
PassScans ==
  /\ OnlyGc /\ UNCHANGED palive /\ gc.pc = "scan" /\ gc'.expected = gc.expected
  /\ gc'.pc = "sweep" /\ gc'.todo \subseteq palive
  /\ \A p \in gc'.todo : pname[p].name \notin gc.expected
PassSweeps ==
  /\ OnlyGc /\ UNCHANGED palive /\ gc.pc = "sweep"
  /\ gc'.expected = gc.expected /\ gc'.todo = gc.todo
  /\ gc'.pc = "drop" /\ gc'.current \in gc.todo
PassDrops ==
  /\ OnlyGc /\ gc.pc = "drop" /\ palive' \in {palive, palive \ {gc.current}}
  /\ gc'.pc = "sweep" /\ gc'.expected = gc.expected /\ gc'.todo = gc.todo \ {gc.current}
PassEnds ==
  /\ OnlyGc /\ gc'.pc = "idle" /\ gc'.todo = {}
  /\ \/ gc.pc \in {"scan", "sweep"} /\ UNCHANGED palive
     \/ gc.pc = "drop" /\ palive' \in {palive, palive \ {gc.current}}

\* What a step of the collector does.
LEMMA GcEffect ==
  ASSUME TypeInv, (\E c \in CRs : GcStart(c)) \/ GcPass
  PROVE  PassStarts \/ PassScans \/ PassSweeps \/ PassDrops \/ PassEnds
<1>1. gc \in GcType
  BY DEF TypeInv, TypeOK
<1>2. CASE \E c \in CRs : GcStart(c)
  BY <1>2 DEF GcStart, PassStarts, OnlyGc, IdleGc, EventLoopFree, keystone
<1>3. CASE GcScan
  BY <1>1, <1>3 DEF GcScan, PassScans, PassEnds, OnlyGc, GcType, IdleGc, keystone
<1>4. ASSUME NEW p \in ProjectIds, GcDropGroup(p) PROVE PassSweeps
  BY <1>1, <1>4 DEF GcDropGroup, PassSweeps, OnlyGc, GcType
<1>5. CASE GcDropProject
  BY <1>1, <1>5 DEF GcDropProject, PassDrops, PassEnds, OnlyGc, GcType, IdleGc
<1>6. CASE GcAbort
  BY <1>6 DEF GcAbort, PassEnds, OnlyGc, IdleGc, keystone
<1> QED
  BY <1>2, <1>3, <1>4, <1>5, <1>6 DEF GcPass

Restarts ==
  /\ UNCHANGED <<env, clock, cr, keystone>> /\ gc'.pc = "idle" /\ gc'.todo = {}
  /\ \A c \in CRs : JobEnds(c) /\ TimerEnds(c)
Vanishes ==
  /\ UNCHANGED <<env, clock, cr, job, timer, gc, pname>> /\ "admin" \in faults
  /\ palive' \subseteq palive

\* Every step of the system is one of these.
Step ==
  \/ \E c \in CRs :
       \/ \E t \in Targets : Creates(c, t) \/ Edits(c, t)
       \/ Deletes(c)
       \/ Live(c) /\ Begins(c, "list", None)
       \/ Live(c) /\ cr[c].pid # None /\ Begins(c, "retag", cr[c].pid)
       \/ cr[c].deleting /\ Begins(c, "release", None)
       \/ cr[c].deleting /\ cr[c].pid # None /\ Begins(c, "guard", cr[c].pid)
       \/ /\ OnlyJob(c)
          /\ \/ Passes(c) \/ Finds(c) \/ Misses(c) \/ Makes(c) \/ Advances(c) \/ Fails(c)
             \/ Unwinds(c) \/ Drops(c)
       \/ Patches(c) \/ Releases(c) \/ Corrects(c) \/ Ticks(c) \/ Queries(c)
  \/ PassStarts \/ PassScans \/ PassSweeps \/ PassDrops \/ PassEnds
  \/ Restarts \/ Vanishes \/ UNCHANGED vars

\* Every step of the specification has one of the listed effects.
LEMMA NextStep == TypeInv /\ [Next]_vars => Step
<1> SUFFICES ASSUME TypeInv, [Next]_vars PROVE Step
  OBVIOUS
<1>1. ASSUME OperatorRestart PROVE Restarts
  BY <1>1 DEF OperatorRestart, Restarts, JobEnds, TimerEnds, IdleJob, IdleTimer, IdleGc, keystone
<1>2. ASSUME NEW p \in ProjectIds, AdminDeletes(p) PROVE Vanishes
  BY <1>2 DEF AdminDeletes, Vanishes
<1>3. ASSUME NEW c \in CRs,
             User(c) \/ BeginHandler(c) \/ Work(c) \/ Patch(c) \/ Release(c) \/ Timer(c)
      PROVE  Step
  <2>1. CASE User(c)
    BY <2>1, UserEffect DEF Step
  <2>2. CASE BeginHandler(c)
    BY <2>2, BeginEffect DEF Step
  <2>3. CASE Work(c)
    BY <2>3, WorkEffect DEF Step
  <2>4. CASE Patch(c)
    BY <2>4, PatchEffect DEF Step
  <2>5. CASE Release(c)
    BY <2>5, ReleaseEffect DEF Step
  <2>6. CASE Timer(c)
    BY <2>6, CorrectEffect, TimerEffect DEF Step, Timer
  <2> QED
    BY <1>3, <2>1, <2>2, <2>3, <2>4, <2>5, <2>6
<1>4. CASE (\E c \in CRs : GcStart(c)) \/ GcPass
  BY <1>4, GcEffect DEF Step
<1> QED
  BY <1>1, <1>2, <1>3, <1>4 DEF Next, Step

-----------------------------------------------------------------------------
(* The layers of the inductive invariant. *)

\* The fields the invariants speak of, initially.
LEMMA InitFields ==
  ASSUME Init, NEW c \in CRs
  PROVE  /\ ~cr[c].exists /\ ~cr[c].deleting /\ cr[c].pid = None /\ cr[c].phase = ""
         /\ job[c].pc = "idle" /\ job[c].pid = None
         /\ timer[c].pc = "idle" /\ timer[c].pid = None
         /\ gc.pc = "idle" /\ gc.todo = {} /\ palive = {}
  BY DEF Init, AbsentCR, IdleJob, IdleTimer, IdleGc

\* Handlers, timers and objects agree at the start.
LEMMA InitShape == Init => ShapeInv
  BY InitFields DEF ShapeInv, Shape, MakePCs, DeletePCs

\* Every step keeps handlers, timers and objects in agreement.
LEMMA StepShape == TypeInv /\ ShapeInv /\ Step => ShapeInv'
<1> SUFFICES ASSUME TypeInv, ShapeInv, Step, NEW d \in CRs PROVE Shape(d)'
  BY DEF ShapeInv
<1> USE DEF ShapeInv, Shape, MakePCs, DeletePCs
<1>1. /\ clock \in Nat /\ \A e \in CRs : cr[e].made \in Nat
      /\ \A e \in CRs : cr[e].deleting => cr[e].exists
  BY DEF TypeInv, TypeOK, Targeted, CRType
<1>2. ASSUME NEW c \in CRs, (\E t \in Targets : Creates(c, t) \/ Edits(c, t)) \/ Deletes(c)
      PROVE  Shape(d)'
  <2>1. ASSUME NEW t \in Targets, Creates(c, t) PROVE Shape(d)'
    <3>1. UNCHANGED <<job, timer>> /\ clock' = clock + 1
      BY <2>1 DEF Creates
    <3>2. CASE d = c
      <4>1. ~cr[d].exists /\ cr'[d].exists /\ cr'[d].pid = None /\ cr'[d].phase = ""
        BY <2>1, <3>2 DEF Creates, CRAt
      <4>2. cr'[d].made \in Nat /\ cr'[d].made <= clock
        BY <2>1, <3>2 DEF Creates
      <4>3. cr'[d].made < clock'
        BY <1>1, <3>1, <4>2
      <4> QED
        BY <3>1, <4>1, <4>3
    <3>3. CASE d # c
      <4>1. cr'[d] = cr[d]
        BY <2>1, <3>3 DEF Creates, OnlyCR
      <4>2. cr[d].exists => cr[d].made < clock'
        BY <1>1, <3>1
      <4> QED
        BY <3>1, <4>1, <4>2
    <3> QED
      BY <3>2, <3>3
  <2>2. ASSUME NEW t \in Targets, Edits(c, t) PROVE Shape(d)'
    BY <1>1, <2>2 DEF Edits, OnlyCR, CRAt, Live
  <2>3. ASSUME Deletes(c) PROVE Shape(d)'
    BY <1>1, <2>3 DEF Deletes, OnlyCR, CRAt, Live
  <2> QED
    BY <1>2, <2>1, <2>2, <2>3
<1>3. ASSUME NEW c \in CRs,
             \/ Live(c) /\ Begins(c, "list", None)
             \/ Live(c) /\ cr[c].pid # None /\ Begins(c, "retag", cr[c].pid)
             \/ cr[c].deleting /\ Begins(c, "release", None)
             \/ cr[c].deleting /\ cr[c].pid # None /\ Begins(c, "guard", cr[c].pid)
      PROVE  Shape(d)'
  BY <1>1, <1>3 DEF Begins, OnlyJob, Live
<1>4. ASSUME NEW c \in CRs, OnlyJob(c),
             Passes(c) \/ Finds(c) \/ Misses(c) \/ Advances(c) \/ Fails(c)
      PROVE  Shape(d)'
  BY <1>4, IdAssumption DEF OnlyJob, Passes, Finds, Misses, Advances, Fails, JobAt, JobEnds,
                           ProjectsNamed, TypeInv, TypeOK
<1>5. ASSUME NEW c \in CRs, OnlyJob(c), Makes(c) \/ Unwinds(c) \/ Drops(c) PROVE Shape(d)'
  BY <1>5, IdAssumption DEF OnlyJob, Makes, Unwinds, Drops, JobAt, JobEnds
<1>6. ASSUME NEW c \in CRs, Patches(c) PROVE Shape(d)'
  BY <1>6 DEF Patches, OnlyCR, CRAt, JobEnds
<1>7. ASSUME NEW c \in CRs, Releases(c) PROVE Shape(d)'
  BY <1>7 DEF Releases, OnlyCR, CRAt, JobEnds
<1>8. ASSUME NEW c \in CRs, Corrects(c) PROVE Shape(d)'
  BY <1>1, <1>8 DEF Corrects, OnlyCR, CRAt, TimerEnds
<1>9. ASSUME NEW c \in CRs, Ticks(c) \/ Queries(c) PROVE Shape(d)'
  BY <1>9 DEF Ticks, Queries, OnlyTimer, Live, TimerEnds
<1>10. CASE PassStarts \/ PassScans \/ PassSweeps \/ PassDrops \/ PassEnds
  BY <1>10 DEF PassStarts, PassScans, PassSweeps, PassDrops, PassEnds, OnlyGc
<1>11. CASE Restarts \/ Vanishes \/ UNCHANGED vars
  BY <1>11 DEF Restarts, Vanishes, vars, JobEnds, TimerEnds
<1> QED
  BY <1>2, <1>3, <1>4, <1>5, <1>6, <1>7, <1>8, <1>9, <1>10, <1>11 DEF Step


\* Keystone holds no project at the start.
LEMMA InitKeystone == Init => KeystoneInv
  BY DEF Init, KeystoneInv

\* Project names stay unique: MakeProject checks them, nothing else names one.
LEMMA StepKeystone == TypeInv /\ KeystoneInv /\ Step => KeystoneInv'
<1> SUFFICES ASSUME TypeInv, KeystoneInv, Step PROVE KeystoneInv'
  OBVIOUS
<1> USE TargetAssumption DEF KeystoneInv
<1>1. /\ \A c \in CRs : job[c].pc # "idle" => job[c].target \in Targets
      /\ pname \in [ProjectIds -> Targets \cup {None}] /\ palive \subseteq ProjectIds
  BY DEF TypeInv, TypeOK, Targeted
<1>2. ASSUME NEW c \in CRs, (\E t \in Targets : Creates(c, t) \/ Edits(c, t)) \/ Deletes(c)
      PROVE  KeystoneInv'
  <2>1. OnlyCR(c)
    BY <1>2 DEF Creates, Edits, Deletes
  <2> QED
    BY <2>1 DEF OnlyCR, keystone
<1>3. ASSUME NEW c \in CRs,
             \/ Live(c) /\ Begins(c, "list", None)
             \/ Live(c) /\ cr[c].pid # None /\ Begins(c, "retag", cr[c].pid)
             \/ cr[c].deleting /\ Begins(c, "release", None)
             \/ cr[c].deleting /\ cr[c].pid # None /\ Begins(c, "guard", cr[c].pid)
      PROVE  KeystoneInv'
  BY <1>1, <1>3 DEF Begins, OnlyJob, SameProjects, Live
<1>4. ASSUME NEW c \in CRs, OnlyJob(c), Passes(c) \/ Misses(c) \/ Advances(c) \/ Fails(c)
      PROVE  KeystoneInv'
  BY <1>1, <1>4 DEF OnlyJob, Passes, Misses, Advances, Fails, JobAt, SameProjects
<1>5. ASSUME NEW c \in CRs, OnlyJob(c), Finds(c)
      PROVE  KeystoneInv'
  BY <1>1, <1>5 DEF OnlyJob, Finds, JobAt, SameProjects, ProjectsNamed
<1>6. ASSUME NEW c \in CRs, OnlyJob(c), Makes(c)
      PROVE  KeystoneInv'
  BY <1>1, <1>6 DEF OnlyJob, Makes, JobAt, ProjectsNamed
<1>7. ASSUME NEW c \in CRs, OnlyJob(c), Unwinds(c)
      PROVE  KeystoneInv'
  BY <1>1, <1>7 DEF OnlyJob, Unwinds, JobAt, JobEnds, SameProjects
<1>8. ASSUME NEW c \in CRs, OnlyJob(c), Drops(c)
      PROVE  KeystoneInv'
  BY <1>1, <1>8 DEF OnlyJob, Drops, JobAt
<1>9. ASSUME NEW c \in CRs, Patches(c)
      PROVE  KeystoneInv'
  BY <1>1, <1>9 DEF Patches, OnlyCR, CRAt, JobEnds, keystone
<1>10. ASSUME NEW c \in CRs, Releases(c)
      PROVE  KeystoneInv'
  BY <1>1, <1>10 DEF Releases, OnlyCR, CRAt, JobEnds, keystone
<1>11. ASSUME NEW c \in CRs, Corrects(c)
      PROVE  KeystoneInv'
  BY <1>1, <1>11 DEF Corrects, OnlyCR, CRAt, TimerEnds, keystone
<1>12. ASSUME NEW c \in CRs, Ticks(c) \/ Queries(c)
      PROVE  KeystoneInv'
  BY <1>1, <1>12 DEF Ticks, Queries, OnlyTimer, Live, TimerEnds, keystone, ProjectsNamed
<1>13. CASE PassStarts \/ PassScans \/ PassSweeps \/ PassDrops \/ PassEnds
  BY <1>1, <1>13 DEF PassStarts, PassScans, PassSweeps, PassDrops, PassEnds, OnlyGc
<1>14. CASE Restarts \/ Vanishes \/ UNCHANGED vars
  BY <1>1, <1>14 DEF Restarts, Vanishes, vars, JobEnds, TimerEnds, keystone
<1> QED
  BY <1>2, <1>3, <1>4, <1>5, <1>6, <1>7, <1>8, <1>9, <1>10, <1>11, <1>12, <1>13, <1>14 DEF Step

\* No project id is held for anybody at the start.
LEMMA InitName == Init => NameInv
  BY InitFields DEF NameInv, Names

\* Ids are only ever taken from projects found or made under the CR's target.
LEMMA StepName ==
  TypeInv /\ ShapeInv /\ KeystoneInv /\ NameInv /\ Step => NameInv'
<1>0. Step => faults' = faults
  BY DEF Step, faults, Creates, Edits, Deletes, OnlyCR, Begins, OnlyJob, Patches, Releases,
         Corrects, Ticks, Queries, OnlyTimer, PassStarts, PassScans, PassSweeps, PassDrops,
         PassEnds, OnlyGc, Restarts, Vanishes, vars
<1> SUFFICES ASSUME TypeInv, ShapeInv, KeystoneInv, NameInv, Step, "rename" \notin faults,
                    NEW d \in CRs
             PROVE  Names(d)'
  BY <1>0 DEF NameInv
<1>1. /\ \A c \in CRs : Names(c) /\ Shape(c)
      /\ \A c \in CRs : job[c].pc # "idle" => job[c].target \in Targets
      /\ pname \in [ProjectIds -> Targets \cup {None}] /\ palive \subseteq ProjectIds
      /\ \A c \in CRs : cr[c].pid \in Pids /\ job[c].pid \in Pids /\ timer[c].pid \in Pids
      /\ \A c \in CRs : cr[c].exists => cr[c].target \in Targets
  BY DEF TypeInv, TypeOK, Targeted, NameInv, ShapeInv, CRType, JobType, TimerType
<1> USE TargetAssumption, IdAssumption DEF Names, Shape, Pids, MakePCs, DeletePCs
<1>2. ASSUME NEW c \in CRs, (\E t \in Targets : Creates(c, t) \/ Edits(c, t)) \/ Deletes(c)
      PROVE  Names(d)'
  <2>1. ASSUME NEW t \in Targets, Creates(c, t) PROVE Names(d)'
    <3>1. UNCHANGED <<job, timer, pname>> /\ (d # c => cr'[d] = cr[d])
      BY <2>1 DEF Creates, OnlyCR, keystone
    <3>2. ~cr[c].exists /\ cr'[c].pid = None
      BY <2>1 DEF Creates, CRAt
    <3> QED
      BY <1>1, <3>1, <3>2
  <2>2. ASSUME NEW t \in Targets, Edits(c, t) PROVE Names(d)'
    BY <1>1, <2>2 DEF Edits, OnlyCR, CRAt, keystone
  <2>3. ASSUME Deletes(c) PROVE Names(d)'
    BY <1>1, <2>3 DEF Deletes, OnlyCR, CRAt, keystone
  <2> QED
    BY <1>2, <2>1, <2>2, <2>3
<1>3. ASSUME NEW c \in CRs,
             \/ Live(c) /\ Begins(c, "list", None)
             \/ Live(c) /\ cr[c].pid # None /\ Begins(c, "retag", cr[c].pid)
             \/ cr[c].deleting /\ Begins(c, "release", None)
             \/ cr[c].deleting /\ cr[c].pid # None /\ Begins(c, "guard", cr[c].pid)
      PROVE  Names(d)'
  BY <1>1, <1>3 DEF Begins, OnlyJob, SameProjects, Live
<1>4. ASSUME NEW c \in CRs, OnlyJob(c), Passes(c) \/ Misses(c) \/ Advances(c) \/ Fails(c)
      PROVE  Names(d)'
  BY <1>1, <1>4 DEF OnlyJob, Passes, Misses, Advances, Fails, JobAt, SameProjects
<1>5. ASSUME NEW c \in CRs, OnlyJob(c), Finds(c)
      PROVE  Names(d)'
  BY <1>1, <1>5 DEF OnlyJob, Finds, JobAt, SameProjects, ProjectsNamed
<1>6. ASSUME NEW c \in CRs, OnlyJob(c), Makes(c)
      PROVE  Names(d)'
  <2>1. PICK p \in ProjectIds : /\ pname[p] = None
                                /\ pname' = [pname EXCEPT ![p] = job[c].target]
                                /\ JobAt(c, "tag", p, job[c].ok)
    BY <1>6 DEF Makes
  <2>2. pname'[p] = job[c].target /\ \A q \in ProjectIds : pname[q] # None => pname'[q] = pname[q]
    BY <1>1, <2>1
  <2>3. job[c].target = cr[c].target
    BY <1>1, <1>6 DEF Makes
  <2>4. \A q \in {cr[d].pid, job[d].pid, timer[d].pid} :
          q # None => q \in ProjectIds /\ cr[d].target # None
    BY <1>1
  <2>5. UNCHANGED <<cr, timer>> /\ (d # c => job'[d] = job[d])
    BY <1>6 DEF OnlyJob
  <2> QED
    BY <1>1, <2>1, <2>2, <2>3, <2>4, <2>5 DEF JobAt
<1>7. ASSUME NEW c \in CRs, OnlyJob(c), Unwinds(c)
      PROVE  Names(d)'
  BY <1>1, <1>7 DEF OnlyJob, Unwinds, JobAt, JobEnds, SameProjects
<1>8. ASSUME NEW c \in CRs, OnlyJob(c), Drops(c)
      PROVE  Names(d)'
  BY <1>1, <1>8 DEF OnlyJob, Drops, JobAt
<1>9. ASSUME NEW c \in CRs, Patches(c)
      PROVE  Names(d)'
  BY <1>1, <1>9 DEF Patches, OnlyCR, CRAt, JobEnds, keystone
<1>10. ASSUME NEW c \in CRs, Releases(c)
      PROVE  Names(d)'
  <2>1. pname' = pname /\ timer' = timer /\ (d # c => cr'[d] = cr[d] /\ job'[d] = job[d])
    BY <1>10 DEF Releases, OnlyCR, keystone
  <2>2. /\ cr'[c].pid = None /\ job'[c].pid = None /\ job'[c].pc = "idle"
        /\ timer[c].pc = "idle"
    BY <1>10 DEF Releases, CRAt, JobEnds
  <2>3. timer[c].pid = None
    BY <1>1, <2>2
  <2>4. Names(d)
    BY <1>1
  <2>5. CASE d = c
    BY <2>1, <2>2, <2>3, <2>5
  <2>6. CASE d # c
    BY <2>1, <2>4, <2>6
  <2> QED
    BY <2>5, <2>6
<1>11. ASSUME NEW c \in CRs, Corrects(c)
      PROVE  Names(d)'
  <2>1. pname' = pname /\ job' = job /\ (d # c => cr'[d] = cr[d] /\ timer'[d] = timer[d])
    BY <1>11 DEF Corrects, OnlyCR, keystone
  <2>2. /\ cr'[c].pid = timer[c].pid /\ cr'[c].target = cr[c].target
        /\ timer'[c].pid = None
    BY <1>11 DEF Corrects, CRAt, TimerEnds
  <2>3. Names(d)
    BY <1>1
  <2>4. CASE d = c
    BY <2>1, <2>2, <2>3, <2>4
  <2>5. CASE d # c
    BY <2>1, <2>3, <2>5
  <2> QED
    BY <2>4, <2>5
<1>12. ASSUME NEW c \in CRs, Ticks(c) \/ Queries(c)
      PROVE  Names(d)'
  BY <1>1, <1>12 DEF Ticks, Queries, OnlyTimer, Live, TimerEnds, keystone, ProjectsNamed
<1>13. CASE PassStarts \/ PassScans \/ PassSweeps \/ PassDrops \/ PassEnds
  BY <1>1, <1>13 DEF PassStarts, PassScans, PassSweeps, PassDrops, PassEnds, OnlyGc
<1>14. CASE Restarts \/ Vanishes \/ UNCHANGED vars
  BY <1>1, <1>14 DEF Restarts, Vanishes, vars, JobEnds, TimerEnds, keystone
<1> QED
  BY <1>2, <1>3, <1>4, <1>5, <1>6, <1>7, <1>8, <1>9, <1>10, <1>11, <1>12, <1>13, <1>14 DEF Step

\* The environment never changes.
LEMMA SameFaults == Step => faults' = faults
  BY DEF Step, faults, Creates, Edits, Deletes, OnlyCR, Begins, OnlyJob, Patches, Releases,
         Corrects, Ticks, Queries, OnlyTimer, PassStarts, PassScans, PassSweeps, PassDrops,
         PassEnds, OnlyGc, Restarts, Vanishes, vars

\* Nobody claims a target at the start.
LEMMA InitOrder == Init => OrderInv
  BY InitFields DEF OrderInv, Claiming, Live

\* Of two CRs one precedes the other.
LEMMA PrecedesTotal ==
  ASSUME TypeInv, NEW c \in CRs, NEW d \in CRs, c # d PROVE Precedes(c, d) \/ Precedes(d, c)
<1>1. cr[c].made \in Nat /\ cr[d].made \in Nat
  BY DEF TypeInv, TypeOK, CRType
<1> QED
  BY <1>1, CRAssumption DEF Precedes

\* A CR passes the owner check only when it precedes its live rivals, and CRs
\* created later come after it.
LEMMA StepOrder ==
  TypeInv /\ ShapeInv /\ NameInv /\ OrderInv /\ Step => OrderInv'
<1> SUFFICES ASSUME TypeInv, ShapeInv, NameInv, OrderInv, Step, Trusted,
                    NEW d \in CRs, NEW e \in CRs, Claiming(d)', Live(e)', Rivals(d, e)'
             PROVE  Precedes(d, e)'
  BY SameFaults DEF OrderInv, Trusted
<1>0. faults \cap {"list", "tie", "rename"} = {}
  BY DEF Trusted
<1>1. /\ \A c \in CRs : Shape(c)
      /\ \A c, f \in CRs : Claiming(c) /\ Live(f) /\ Rivals(c, f) => Precedes(c, f)
  BY DEF ShapeInv, OrderInv
<1>claim. Claiming(d)' /\ Live(e)' /\ Rivals(d, e)'
  OBVIOUS
<1> USE DEF Shape, MakePCs, DeletePCs
<1>2. ASSUME NEW c \in CRs, (\E t \in Targets : Creates(c, t) \/ Edits(c, t)) \/ Deletes(c)
      PROVE  Precedes(d, e)'
  <2>1. ASSUME NEW t \in Targets, Creates(c, t) PROVE Precedes(d, e)'
    <3>1. d # c
      <4>1. UNCHANGED job /\ cr'[c].pid = None /\ ~cr[c].exists
        BY <2>1 DEF Creates, CRAt
      <4>2. ~Claiming(c)'
        BY <1>1, <4>1 DEF Claiming
      <4> QED
        BY <1>claim, <4>2
    <3>2. cr'[d] = cr[d] /\ job'[d] = job[d]
      BY <2>1, <3>1 DEF Creates, OnlyCR
    <3>3. Live(d) /\ Claiming(d)
      BY <1>claim, <3>2 DEF Claiming, Live
    <3>4. CASE e = c
      <4>1. cr'[e].made = clock
        BY <1>0, <2>1, <3>4 DEF Creates, Trusted
      <4>2. cr[d].made < clock
        BY <1>1, <3>3 DEF Live
      <4> QED
        BY <3>2, <4>1, <4>2 DEF Precedes
    <3>5. CASE e # c
      <4>1. cr'[e] = cr[e]
        BY <2>1, <3>5 DEF Creates, OnlyCR
      <4>2. Live(e) /\ Rivals(d, e)
        BY <1>claim, <3>2, <4>1 DEF Live, Rivals
      <4> QED
        BY <1>1, <3>2, <3>3, <4>1, <4>2 DEF Precedes
    <3> QED
      BY <3>4, <3>5
  <2>2. ASSUME NEW t \in Targets, Edits(c, t) PROVE Precedes(d, e)'
    <3>1. \A f \in CRs : /\ cr'[f].target = cr[f].target /\ cr'[f].made = cr[f].made
                         /\ cr'[f].pid = cr[f].pid /\ Live(f)' = Live(f)
      BY <1>0, <2>2 DEF Edits, OnlyCR, CRAt, Live, Trusted
    <3>2. UNCHANGED job
      BY <2>2 DEF Edits
    <3> QED
      BY <1>1, <1>claim, <3>1, <3>2 DEF Claiming, Rivals, Precedes
  <2>3. ASSUME Deletes(c) PROVE Precedes(d, e)'
    <3>1. \A f \in CRs : /\ cr'[f].target = cr[f].target /\ cr'[f].made = cr[f].made
                         /\ cr'[f].pid = cr[f].pid /\ (Live(f)' => Live(f))
      BY <2>3 DEF Deletes, OnlyCR, CRAt, Live
    <3>2. UNCHANGED job
      BY <2>3 DEF Deletes
    <3> QED
      BY <1>1, <1>claim, <3>1, <3>2 DEF Claiming, Rivals, Precedes
  <2> QED
    BY <1>2, <2>1, <2>2, <2>3
<1>3. ASSUME NEW c \in CRs,
             \/ Live(c) /\ Begins(c, "list", None)
             \/ Live(c) /\ cr[c].pid # None /\ Begins(c, "retag", cr[c].pid)
             \/ cr[c].deleting /\ Begins(c, "release", None)
             \/ cr[c].deleting /\ cr[c].pid # None /\ Begins(c, "guard", cr[c].pid)
      PROVE  Precedes(d, e)'
  BY <1>1, <1>claim, <1>3 DEF Begins, OnlyJob, SameProjects, Live, Claiming, Rivals, Precedes
<1>4. ASSUME NEW c \in CRs, OnlyJob(c), Passes(c) \/ Misses(c) \/ Advances(c) \/ Fails(c)
      PROVE  Precedes(d, e)'
  <2>1. CASE Passes(c) /\ d = c
    <3>1. UNCHANGED cr /\ job[c].target = cr[c].target /\ PriorClaims(c, job[c].target) = {}
      BY <1>0, <1>1, <1>4, <2>1 DEF OnlyJob, Passes, Trusted, NameInv, Names
    <3>2. Live(e) /\ Rivals(c, e)
      BY <1>claim, <2>1, <3>1 DEF Live, Rivals
    <3>3. ~Precedes(e, c)
      BY <3>1, <3>2 DEF PriorClaims, Duplicates, Live, Rivals
    <3> QED
      BY <2>1, <3>1, <3>2, <3>3, PrecedesTotal DEF Precedes, Rivals
  <2>2. CASE ~(Passes(c) /\ d = c)
    BY <1>1, <1>claim, <1>4, <2>2
       DEF OnlyJob, Passes, Misses, Advances, Fails, JobAt, Claiming, Live, Rivals, Precedes
  <2> QED
    BY <2>1, <2>2
<1>5. ASSUME NEW c \in CRs, OnlyJob(c), Finds(c)
      PROVE  Precedes(d, e)'
  BY <1>1, <1>claim, <1>5 DEF OnlyJob, Finds, JobAt, SameProjects, ProjectsNamed, Claiming,
     Live, Rivals, Precedes
<1>6. ASSUME NEW c \in CRs, OnlyJob(c), Makes(c)
      PROVE  Precedes(d, e)'
  BY <1>1, <1>claim, <1>6 DEF OnlyJob, Makes, JobAt, ProjectsNamed, Claiming, Live, Rivals,
     Precedes
<1>7. ASSUME NEW c \in CRs, OnlyJob(c), Unwinds(c)
      PROVE  Precedes(d, e)'
  BY <1>1, <1>claim, <1>7 DEF OnlyJob, Unwinds, JobAt, JobEnds, SameProjects, Claiming, Live,
     Rivals, Precedes
<1>8. ASSUME NEW c \in CRs, OnlyJob(c), Drops(c)
      PROVE  Precedes(d, e)'
  BY <1>1, <1>claim, <1>8 DEF OnlyJob, Drops, JobAt, Claiming, Live, Rivals, Precedes
<1>9. ASSUME NEW c \in CRs, Patches(c)
      PROVE  Precedes(d, e)'
  BY <1>1, <1>claim, <1>9 DEF Patches, OnlyCR, CRAt, JobEnds, keystone, Claiming, Live,
     Rivals, Precedes
<1>10. ASSUME NEW c \in CRs, Releases(c)
      PROVE  Precedes(d, e)'
  <2>1. d # c /\ e # c
    BY <1>claim, <1>10 DEF Releases, CRAt, Claiming, Live
  <2>2. cr'[d] = cr[d] /\ cr'[e] = cr[e] /\ job'[d] = job[d]
    BY <1>10, <2>1 DEF Releases, OnlyCR
  <2> QED
    BY <1>1, <1>claim, <2>2 DEF Claiming, Live, Rivals, Precedes
<1>11. ASSUME NEW c \in CRs, Corrects(c)
      PROVE  Precedes(d, e)'
  <2>1. \A f \in CRs : /\ cr'[f].target = cr[f].target /\ cr'[f].made = cr[f].made
                       /\ Live(f)' = Live(f) /\ job'[f] = job[f]
    BY <1>11 DEF Corrects, OnlyCR, CRAt, Live
  <2>2. Claiming(d)
    <3>1. CASE d = c
      BY <1>1, <1>claim, <1>11, <2>1, <3>1 DEF Corrects, Claiming
    <3>2. CASE d # c
      BY <1>claim, <1>11, <2>1, <3>2 DEF Corrects, OnlyCR, Claiming
    <3> QED
      BY <3>1, <3>2
  <2> QED
    BY <1>1, <1>claim, <2>1, <2>2 DEF Rivals, Precedes
<1>12. ASSUME NEW c \in CRs, Ticks(c) \/ Queries(c)
      PROVE  Precedes(d, e)'
  BY <1>1, <1>claim, <1>12 DEF Ticks, Queries, OnlyTimer, Live, TimerEnds, keystone,
     ProjectsNamed, Claiming, Rivals, Precedes
<1>13. CASE PassStarts \/ PassScans \/ PassSweeps \/ PassDrops \/ PassEnds
  BY <1>1, <1>claim, <1>13 DEF PassStarts, PassScans, PassSweeps, PassDrops, PassEnds, OnlyGc,
     Claiming, Live, Rivals, Precedes
<1>14. CASE Restarts \/ Vanishes \/ UNCHANGED vars
  BY <1>1, <1>claim, <1>14 DEF Restarts, Vanishes, vars, JobEnds, TimerEnds, keystone,
     Claiming, Live, Rivals, Precedes
<1> QED
  BY <1>2, <1>3, <1>4, <1>5, <1>6, <1>7, <1>8, <1>9, <1>10, <1>11, <1>12, <1>13, <1>14 DEF Step

\* No pass runs at the start.
LEMMA InitGc == Init => GcInv
<1>1. Init => gc.pc = "idle" /\ gc.todo = {}
  BY DEF Init, IdleGc
<1>2. ASSUME Init PROVE Swept /\ \A c \in CRs : Covered(c)
  BY <1>1, <1>2 DEF Swept, Covered
<1> QED
  BY <1>2 DEF GcInv

\* A pass only ever lists projects it does not expect.
LEMMA StepSwept == TypeInv /\ KeystoneInv /\ Swept /\ Step => Swept'
<1> SUFFICES ASSUME TypeInv, KeystoneInv, Swept, Step PROVE Swept'
  OBVIOUS
<1>1. /\ Swept
      /\ pname \in [ProjectIds -> Targets \cup {None}] /\ palive \subseteq ProjectIds
      /\ gc.todo \subseteq ProjectIds /\ \A p \in palive : pname[p] # None
  BY DEF TypeInv, TypeOK, GcType, KeystoneInv
<1>2. ASSUME NEW c \in CRs, (\E t \in Targets : Creates(c, t) \/ Edits(c, t)) \/ Deletes(c)
      PROVE  Swept'
  <2>1. UNCHANGED <<gc, pname>>
    BY <1>2 DEF Creates, Edits, Deletes, OnlyCR, keystone
  <2> QED
    BY <1>1, <2>1 DEF Swept
<1>3. ASSUME NEW c \in CRs,
             \/ Live(c) /\ Begins(c, "list", None)
             \/ Live(c) /\ cr[c].pid # None /\ Begins(c, "retag", cr[c].pid)
             \/ cr[c].deleting /\ Begins(c, "release", None)
             \/ cr[c].deleting /\ cr[c].pid # None /\ Begins(c, "guard", cr[c].pid)
      PROVE  Swept'
  BY <1>1, <1>3 DEF Begins, OnlyJob, SameProjects, Live, Swept
<1>4. ASSUME NEW c \in CRs, OnlyJob(c), Passes(c) \/ Misses(c) \/ Advances(c) \/ Fails(c)
      PROVE  Swept'
  BY <1>1, <1>4 DEF OnlyJob, Passes, Misses, Advances, Fails, JobAt, SameProjects, Swept
<1>5. ASSUME NEW c \in CRs, OnlyJob(c), Finds(c)
      PROVE  Swept'
  BY <1>1, <1>5 DEF OnlyJob, Finds, JobAt, SameProjects, ProjectsNamed, Swept
<1>6. ASSUME NEW c \in CRs, OnlyJob(c), Makes(c)
      PROVE  Swept'
  <2>1. PICK p \in ProjectIds : pname[p] = None /\ pname' = [pname EXCEPT ![p] = job[c].target]
    BY <1>6 DEF Makes
  <2>2. \A q \in ProjectIds : pname[q] # None => pname'[q] = pname[q]
    BY <1>1, <2>1
  <2> QED
    BY <1>1, <1>6, <2>2 DEF OnlyJob, Swept
<1>7. ASSUME NEW c \in CRs, OnlyJob(c), Unwinds(c)
      PROVE  Swept'
  BY <1>1, <1>7 DEF OnlyJob, Unwinds, JobAt, JobEnds, SameProjects, Swept
<1>8. ASSUME NEW c \in CRs, OnlyJob(c), Drops(c)
      PROVE  Swept'
  BY <1>1, <1>8 DEF OnlyJob, Drops, JobAt, Swept
<1>9. ASSUME NEW c \in CRs, Patches(c)
      PROVE  Swept'
  BY <1>1, <1>9 DEF Patches, OnlyCR, CRAt, JobEnds, keystone, Swept
<1>10. ASSUME NEW c \in CRs, Releases(c)
      PROVE  Swept'
  BY <1>1, <1>10 DEF Releases, OnlyCR, CRAt, JobEnds, keystone, Swept
<1>11. ASSUME NEW c \in CRs, Corrects(c)
      PROVE  Swept'
  BY <1>1, <1>11 DEF Corrects, OnlyCR, CRAt, TimerEnds, keystone, Swept
<1>12. ASSUME NEW c \in CRs, Ticks(c) \/ Queries(c)
      PROVE  Swept'
  BY <1>1, <1>12 DEF Ticks, Queries, OnlyTimer, Live, TimerEnds, keystone, ProjectsNamed, Swept
<1>13. CASE PassStarts \/ PassScans \/ PassSweeps \/ PassDrops \/ PassEnds
  BY <1>1, <1>13 DEF PassStarts, PassScans, PassSweeps, PassDrops, PassEnds, OnlyGc, Swept
<1>14. CASE Restarts \/ Vanishes \/ UNCHANGED vars
  BY <1>1, <1>14 DEF Restarts, Vanishes, vars, JobEnds, TimerEnds, keystone, Swept
<1> QED
  BY <1>2, <1>3, <1>4, <1>5, <1>6, <1>7, <1>8, <1>9, <1>10, <1>11, <1>12, <1>13, <1>14 DEF Step

\* While a pass runs, no handler starts and no patch is applied, so what it
\* expects stays complete.
LEMMA StepGc == TypeInv /\ ShapeInv /\ KeystoneInv /\ GcInv /\ Step => GcInv'
<1> SUFFICES ASSUME TypeInv, ShapeInv, KeystoneInv, GcInv, Step, NEW d \in CRs
             PROVE  Covered(d)'
  BY StepSwept DEF GcInv
<1>1. /\ faults' = faults /\ \A c \in CRs : Shape(c) /\ Covered(c)
      /\ \A c \in CRs : cr[c].deleting => cr[c].exists
  BY SameFaults DEF TypeInv, Targeted, ShapeInv, GcInv
<1> USE DEF Shape, MakePCs, DeletePCs
<1>2. ASSUME NEW c \in CRs, (\E t \in Targets : Creates(c, t) \/ Edits(c, t)) \/ Deletes(c)
      PROVE  Covered(d)'
  <2>1. UNCHANGED job /\ OnlyCR(c)
    BY <1>2 DEF Creates, Edits, Deletes
  <2>2. "rename" \notin faults /\ (cr'[d].pid # None \/ job'[d].pc # "idle") =>
          (cr[d].pid # None \/ job[d].pc # "idle") /\ cr'[d].target = cr[d].target
    <3>1. CASE d = c
      BY <1>1, <1>2, <2>1, <3>1 DEF Creates, Edits, Deletes, CRAt
    <3>2. CASE d # c
      BY <2>1, <3>2 DEF OnlyCR
    <3> QED
      BY <3>1, <3>2
  <2> QED
    BY <1>1, <2>1, <2>2 DEF Covered, OnlyCR
<1>3. ASSUME NEW c \in CRs,
             \/ Live(c) /\ Begins(c, "list", None)
             \/ Live(c) /\ cr[c].pid # None /\ Begins(c, "retag", cr[c].pid)
             \/ cr[c].deleting /\ Begins(c, "release", None)
             \/ cr[c].deleting /\ cr[c].pid # None /\ Begins(c, "guard", cr[c].pid)
      PROVE  Covered(d)'
  BY <1>1, <1>3 DEF Begins, OnlyJob, SameProjects, Live, Covered
<1>4. ASSUME NEW c \in CRs, OnlyJob(c), Passes(c) \/ Misses(c) \/ Advances(c) \/ Fails(c)
      PROVE  Covered(d)'
  BY <1>1, <1>4 DEF OnlyJob, Passes, Misses, Advances, Fails, JobAt, SameProjects, Covered
<1>5. ASSUME NEW c \in CRs, OnlyJob(c), Finds(c)
      PROVE  Covered(d)'
  BY <1>1, <1>5 DEF OnlyJob, Finds, JobAt, SameProjects, ProjectsNamed, Covered
<1>6. ASSUME NEW c \in CRs, OnlyJob(c), Makes(c)
      PROVE  Covered(d)'
  BY <1>1, <1>6 DEF OnlyJob, Makes, JobAt, ProjectsNamed, Covered
<1>7. ASSUME NEW c \in CRs, OnlyJob(c), Unwinds(c)
      PROVE  Covered(d)'
  BY <1>1, <1>7 DEF OnlyJob, Unwinds, JobAt, JobEnds, SameProjects, Covered
<1>8. ASSUME NEW c \in CRs, OnlyJob(c), Drops(c)
      PROVE  Covered(d)'
  BY <1>1, <1>8 DEF OnlyJob, Drops, JobAt, Covered
<1>9. ASSUME NEW c \in CRs, Patches(c)
      PROVE  Covered(d)'
  BY <1>1, <1>9 DEF Patches, OnlyCR, CRAt, JobEnds, keystone, Covered
<1>10. ASSUME NEW c \in CRs, Releases(c)
      PROVE  Covered(d)'
  BY <1>1, <1>10 DEF Releases, OnlyCR, CRAt, JobEnds, keystone, Covered
<1>11. ASSUME NEW c \in CRs, Corrects(c)
      PROVE  Covered(d)'
  BY <1>1, <1>11 DEF Corrects, OnlyCR, CRAt, TimerEnds, keystone, Covered
<1>12. ASSUME NEW c \in CRs, Ticks(c) \/ Queries(c)
      PROVE  Covered(d)'
  BY <1>1, <1>12 DEF Ticks, Queries, OnlyTimer, Live, TimerEnds, keystone, ProjectsNamed,
     Covered
<1>13. CASE PassStarts \/ PassScans \/ PassSweeps \/ PassDrops \/ PassEnds
  BY <1>1, <1>13 DEF PassStarts, PassScans, PassSweeps, PassDrops, PassEnds, OnlyGc, Covered
<1>14. CASE Restarts \/ Vanishes \/ UNCHANGED vars
  BY <1>1, <1>14 DEF Restarts, Vanishes, vars, JobEnds, TimerEnds, keystone, Covered
<1> QED
  BY <1>2, <1>3, <1>4, <1>5, <1>6, <1>7, <1>8, <1>9, <1>10, <1>11, <1>12, <1>13, <1>14 DEF Step

\* No delete handler runs at the start.
LEMMA InitSpare == Init => SpareInv
  BY InitFields DEF SpareInv

\* The delete guard lets a CR without rivals through, and without overlap none is
\* created.
LEMMA StepSpare ==
  TypeInv /\ ShapeInv /\ NameInv /\ SpareInv /\ Step => SpareInv'
<1> SUFFICES ASSUME TypeInv, ShapeInv, NameInv, SpareInv, Step,
                    faults \cap {"overlap", "rename"} = {}, NEW d \in CRs, NEW e \in CRs,
                    job'[d].pc \in {"cleanup", "dropproject"}, cr'[e].exists
             PROVE  ~Rivals(d, e)'
  BY SameFaults DEF SpareInv
<1>0. "overlap" \notin faults /\ "rename" \notin faults
  OBVIOUS
<1>1. /\ \A c \in CRs : Shape(c) /\ Names(c)
      /\ \A c \in CRs : cr[c].deleting => cr[c].exists
      /\ \A c, f \in CRs :
           job[c].pc \in {"cleanup", "dropproject"} /\ cr[f].exists => ~Rivals(c, f)
  BY <1>0 DEF ShapeInv, NameInv, SpareInv, TypeInv, Targeted
<1>late. job'[d].pc \in {"cleanup", "dropproject"} /\ cr'[e].exists
  OBVIOUS
<1> USE DEF Shape, Names, MakePCs, DeletePCs
<1>2. ASSUME NEW c \in CRs, (\E t \in Targets : Creates(c, t) \/ Edits(c, t)) \/ Deletes(c)
      PROVE  ~Rivals(d, e)'
  <2>1. ASSUME NEW t \in Targets, Creates(c, t) PROVE ~Rivals(d, e)'
    <3>1. UNCHANGED job /\ ~cr[c].exists /\ OnlyCR(c) /\ cr'[c].target = t
      BY <2>1 DEF Creates, CRAt
    <3>2. cr[d].deleting /\ cr[d].exists /\ d # c /\ cr'[d] = cr[d]
      BY <1>1, <1>late, <3>1 DEF OnlyCR
    <3>3. CASE e = c
      <4>1. cr[d].target # t
        BY <1>0, <2>1, <3>2 DEF Creates
      <4> QED
        BY <3>1, <3>2, <3>3, <4>1 DEF Rivals
    <3>4. CASE e # c
      BY <1>1, <1>late, <3>1, <3>2, <3>4 DEF OnlyCR, Rivals
    <3> QED
      BY <3>3, <3>4
  <2>2. ASSUME NEW t \in Targets, Edits(c, t) PROVE ~Rivals(d, e)'
    <3>1. UNCHANGED job /\ \A f \in CRs : cr'[f].target = cr[f].target /\ cr'[f].exists = cr[f].exists
      BY <1>0, <2>2 DEF Edits, OnlyCR, CRAt, Live
    <3> QED
      BY <1>1, <1>late, <3>1 DEF Rivals
  <2>3. ASSUME Deletes(c) PROVE ~Rivals(d, e)'
    <3>1. UNCHANGED job /\ \A f \in CRs : cr'[f].target = cr[f].target /\ cr'[f].exists = cr[f].exists
      BY <2>3 DEF Deletes, OnlyCR, CRAt, Live
    <3> QED
      BY <1>1, <1>late, <3>1 DEF Rivals
  <2> QED
    BY <1>2, <2>1, <2>2, <2>3
<1>3. ASSUME NEW c \in CRs,
             \/ Live(c) /\ Begins(c, "list", None)
             \/ Live(c) /\ cr[c].pid # None /\ Begins(c, "retag", cr[c].pid)
             \/ cr[c].deleting /\ Begins(c, "release", None)
             \/ cr[c].deleting /\ cr[c].pid # None /\ Begins(c, "guard", cr[c].pid)
      PROVE  ~Rivals(d, e)'
  BY <1>1, <1>late, <1>3 DEF Begins, OnlyJob, SameProjects, Live, Rivals
<1>4. ASSUME NEW c \in CRs, OnlyJob(c), Passes(c) \/ Misses(c) \/ Advances(c) \/ Fails(c)
      PROVE  ~Rivals(d, e)'
  BY <1>1, <1>late, <1>4 DEF OnlyJob, Passes, Misses, Advances, Fails, JobAt, SameProjects,
     Rivals
<1>5. ASSUME NEW c \in CRs, OnlyJob(c), Finds(c)
      PROVE  ~Rivals(d, e)'
  BY <1>1, <1>late, <1>5 DEF OnlyJob, Finds, JobAt, SameProjects, ProjectsNamed, Rivals
<1>6. ASSUME NEW c \in CRs, OnlyJob(c), Makes(c)
      PROVE  ~Rivals(d, e)'
  BY <1>1, <1>late, <1>6 DEF OnlyJob, Makes, JobAt, ProjectsNamed, Rivals
<1>7. ASSUME NEW c \in CRs, OnlyJob(c), Unwinds(c)
      PROVE  ~Rivals(d, e)'
  <2>1. UNCHANGED cr /\ (d # c => job'[d] = job[d])
    BY <1>7 DEF OnlyJob
  <2>2. CASE d = c /\ job[c].pc = "guard"
    <3>1. Duplicates(c, job[c].target) = {} /\ job[c].target = cr[c].target
      BY <1>1, <1>late, <1>7, <2>2 DEF Unwinds, JobAt, JobEnds
    <3> QED
      BY <1>late, <2>1, <2>2, <3>1 DEF Duplicates, Rivals
  <2>3. CASE ~(d = c /\ job[c].pc = "guard")
    BY <1>1, <1>late, <1>7, <2>1, <2>3 DEF Unwinds, JobAt, JobEnds, Rivals
  <2> QED
    BY <2>2, <2>3
<1>8. ASSUME NEW c \in CRs, OnlyJob(c), Drops(c)
      PROVE  ~Rivals(d, e)'
  BY <1>1, <1>late, <1>8 DEF OnlyJob, Drops, JobAt, Rivals
<1>9. ASSUME NEW c \in CRs, Patches(c)
      PROVE  ~Rivals(d, e)'
  <2>1. /\ \A f \in CRs : cr'[f].target = cr[f].target /\ cr'[f].exists = cr[f].exists
        /\ job'[d] = job[d] \/ job'[d].pc = "idle"
    BY <1>9 DEF Patches, OnlyCR, CRAt, JobEnds
  <2> QED
    BY <1>1, <1>late, <2>1 DEF Rivals
<1>10. ASSUME NEW c \in CRs, Releases(c)
      PROVE  ~Rivals(d, e)'
  <2>1. d # c /\ e # c
    BY <1>late, <1>10 DEF Releases, CRAt, JobEnds
  <2>2. cr'[d] = cr[d] /\ cr'[e] = cr[e] /\ job'[d] = job[d]
    BY <1>10, <2>1 DEF Releases, OnlyCR
  <2> QED
    BY <1>1, <1>late, <2>2 DEF Rivals
<1>11. ASSUME NEW c \in CRs, Corrects(c)
      PROVE  ~Rivals(d, e)'
  <2>1. /\ \A f \in CRs : cr'[f].target = cr[f].target /\ cr'[f].exists = cr[f].exists
        /\ job'[d] = job[d] \/ job'[d].pc = "idle"
    BY <1>11 DEF Corrects, OnlyCR, CRAt, JobEnds
  <2> QED
    BY <1>1, <1>late, <2>1 DEF Rivals
<1>12. ASSUME NEW c \in CRs, Ticks(c) \/ Queries(c)
      PROVE  ~Rivals(d, e)'
  BY <1>1, <1>late, <1>12 DEF Ticks, Queries, OnlyTimer, Live, TimerEnds, keystone,
     ProjectsNamed, Rivals
<1>13. CASE PassStarts \/ PassScans \/ PassSweeps \/ PassDrops \/ PassEnds
  BY <1>1, <1>late, <1>13 DEF PassStarts, PassScans, PassSweeps, PassDrops, PassEnds, OnlyGc,
     Rivals
<1>14. CASE Restarts \/ Vanishes \/ UNCHANGED vars
  BY <1>1, <1>late, <1>14 DEF Restarts, Vanishes, vars, JobEnds, TimerEnds, keystone, Rivals
<1> QED
  BY <1>2, <1>3, <1>4, <1>5, <1>6, <1>7, <1>8, <1>9, <1>10, <1>11, <1>12, <1>13, <1>14 DEF Step

\* No project is relied on at the start.
LEMMA InitPresent == Init => PresentInv
  BY InitFields DEF PresentInv, Present, MakePCs, DeletePCs

\* Only a CR's own delete handler drops its project, and only then has its timer
\* something to correct.
LEMMA StepPresent ==
  /\ TypeInv /\ ShapeInv /\ KeystoneInv /\ NameInv /\ GcInv /\ SpareInv /\ PresentInv
  /\ Step
  => PresentInv'
<1> SUFFICES ASSUME TypeInv, ShapeInv, KeystoneInv, NameInv, GcInv, SpareInv, PresentInv, Step,
                    Undisturbed, NEW d \in CRs
             PROVE  Present(d)'
  BY SameFaults DEF PresentInv, Undisturbed
<1>0. "admin" \notin faults /\ "overlap" \notin faults /\ "rename" \notin faults
  BY DEF Undisturbed
<1>1. /\ \A c \in CRs : Shape(c) /\ Names(c) /\ Present(c) /\ Covered(c)
      /\ \A c \in CRs : cr[c].deleting => cr[c].exists
      /\ \A c \in CRs : cr[c].exists => cr[c].target \in Targets
      /\ \A c \in CRs : cr[c].pid \in ProjectIds \cup {None}
      /\ \A p, q \in palive : pname[p] = pname[q] => p = q
      /\ palive \subseteq ProjectIds /\ gc.todo \subseteq ProjectIds /\ Swept
      /\ \A c, f \in CRs :
           job[c].pc \in {"cleanup", "dropproject"} /\ cr[f].exists => ~Rivals(c, f)
  <2>1. \A c \in CRs : Shape(c) /\ Names(c) /\ Present(c) /\ Covered(c)
    BY <1>0 DEF ShapeInv, NameInv, PresentInv, GcInv
  <2>2. /\ \A c \in CRs : cr[c].deleting => cr[c].exists
        /\ \A c \in CRs : cr[c].exists => cr[c].target \in Targets
    BY DEF TypeInv, Targeted
  <2>3. /\ \A c \in CRs : cr[c].pid \in ProjectIds \cup {None}
        /\ palive \subseteq ProjectIds /\ gc.todo \subseteq ProjectIds
    BY DEF TypeInv, TypeOK, CRType, GcType, Pids
  <2>4. Swept /\ \A p, q \in palive : pname[p] = pname[q] => p = q
    BY DEF GcInv, KeystoneInv
  <2>5. \A c, f \in CRs :
          job[c].pc \in {"cleanup", "dropproject"} /\ cr[f].exists => ~Rivals(c, f)
    <3>1. faults \cap {"overlap", "rename"} = {}
      BY <1>0
    <3> QED
      BY <3>1 DEF SpareInv
  <2> QED
    BY <2>1, <2>2, <2>3, <2>4, <2>5
<1> USE TargetAssumption, IdAssumption DEF Shape, Names, Present, MakePCs, DeletePCs
<1>2. ASSUME NEW c \in CRs, (\E t \in Targets : Creates(c, t) \/ Edits(c, t)) \/ Deletes(c)
      PROVE  Present(d)'
  <2>1. UNCHANGED <<job, timer, palive>> /\ (d # c => cr'[d] = cr[d])
    BY <1>2 DEF Creates, Edits, Deletes, OnlyCR, keystone
  <2>2. CASE d # c
    BY <1>1, <2>1, <2>2
  <2>3. ASSUME d = c, NEW t \in Targets, Creates(c, t) PROVE Present(d)'
    BY <1>1, <2>1, <2>3 DEF Creates, CRAt
  <2>4. ASSUME d = c, Live(c), cr'[c].pid = cr[c].pid PROVE Present(d)'
    BY <1>1, <2>1, <2>4 DEF Live
  <2> QED
    BY <1>2, <2>2, <2>3, <2>4 DEF Edits, Deletes, CRAt
<1>3. ASSUME NEW c \in CRs,
             \/ Live(c) /\ Begins(c, "list", None)
             \/ Live(c) /\ cr[c].pid # None /\ Begins(c, "retag", cr[c].pid)
             \/ cr[c].deleting /\ Begins(c, "release", None)
             \/ cr[c].deleting /\ cr[c].pid # None /\ Begins(c, "guard", cr[c].pid)
      PROVE  Present(d)'
  BY <1>1, <1>3 DEF Begins, OnlyJob, SameProjects, Live
<1>4. ASSUME NEW c \in CRs, OnlyJob(c), Passes(c) \/ Misses(c) \/ Advances(c) \/ Fails(c)
      PROVE  Present(d)'
  BY <1>1, <1>4 DEF OnlyJob, Passes, Misses, Advances, Fails, JobAt, SameProjects
<1>5. ASSUME NEW c \in CRs, OnlyJob(c), Finds(c)
      PROVE  Present(d)'
  BY <1>1, <1>5 DEF OnlyJob, Finds, JobAt, SameProjects, ProjectsNamed
<1>6. ASSUME NEW c \in CRs, OnlyJob(c), Makes(c)
      PROVE  Present(d)'
  <2>1. PICK p \in ProjectIds : pname[p] = None /\ palive' = palive \cup {p}
                               /\ JobAt(c, "tag", p, job[c].ok)
    BY <1>6 DEF Makes
  <2>2. UNCHANGED <<cr, timer>> /\ (d # c => job'[d] = job[d])
    BY <1>6 DEF OnlyJob
  <2>3. cr[d].pid # p
    BY <1>1, <2>1
  <2>4. job'[d].pid # None /\ job'[d].pc \in MakePCs \cup {"retag", "patch"}
          => job'[d].pid \in palive'
    BY <1>1, <2>1, <2>2 DEF JobAt
  <2>5. CASE d = c
    BY <1>1, <1>6, <2>1, <2>2, <2>3, <2>4, <2>5 DEF Makes
  <2>6. CASE d # c
    BY <1>1, <2>1, <2>2, <2>3, <2>4, <2>6
  <2> QED
    BY <2>5, <2>6
<1>7. ASSUME NEW c \in CRs, OnlyJob(c), Unwinds(c)
      PROVE  Present(d)'
  BY <1>1, <1>7 DEF OnlyJob, Unwinds, JobAt, JobEnds, SameProjects
<1>8. ASSUME NEW c \in CRs, OnlyJob(c), Drops(c)
      PROVE  Present(d)'
  <2>1. /\ job[c].pc = "dropproject" /\ job'[c].pc = "release" /\ UNCHANGED <<cr, timer>>
        /\ palive' \in {palive, palive \ {job[c].pid}} /\ (d # c => job'[d] = job[d])
    BY <1>8 DEF OnlyJob, Drops, JobAt
  <2>2. CASE d = c
    BY <1>1, <2>1, <2>2
  <2>3. CASE d # c
    <3>1. cr[d].exists => cr[c].target # cr[d].target
      BY <1>1, <2>1, <2>3 DEF Rivals
    <3>2. cr[d].pid # job[c].pid /\ job[d].pid # job[c].pid
      BY <1>1, <2>1, <3>1
    <3> QED
      BY <1>1, <2>1, <2>3, <3>2
  <2> QED
    BY <2>2, <2>3
<1>9. ASSUME NEW c \in CRs, Patches(c)
      PROVE  Present(d)'
  <2>1. /\ job[c].pc = "patch" /\ UNCHANGED <<timer, palive>>
        /\ d # c => cr'[d] = cr[d] /\ job'[d] = job[d]
    BY <1>9 DEF Patches, OnlyCR, keystone
  <2>2. CASE d # c
    BY <1>1, <2>1, <2>2
  <2>3. CASE d = c
    <3>1. cr'[d].pid = (IF job[d].pid # None THEN job[d].pid ELSE cr[d].pid) /\ job'[d].pc = "idle"
      BY <1>9, <2>3 DEF Patches, CRAt, JobEnds
    <3>2. (cr'[d].pid # None => cr'[d].pid \in palive) /\ timer[d].pc # "patch"
      BY <1>1, <2>1, <2>3, <3>1
    <3> QED
      BY <2>1, <3>1, <3>2
  <2> QED
    BY <2>2, <2>3
<1>10. ASSUME NEW c \in CRs, Releases(c)
      PROVE  Present(d)'
  <2>1. /\ UNCHANGED <<timer, palive>> /\ timer[c].pc = "idle"
        /\ d # c => cr'[d] = cr[d] /\ job'[d] = job[d]
    BY <1>10 DEF Releases, OnlyCR, keystone
  <2>2. cr'[c].pid = None /\ job'[c].pc = "idle"
    BY <1>10 DEF Releases, CRAt, JobEnds
  <2>3. CASE d = c
    BY <2>1, <2>2, <2>3
  <2>4. CASE d # c
    <3>1. Present(d)
      BY <1>1
    <3> QED
      BY <2>1, <2>4, <3>1
  <2> QED
    BY <2>3, <2>4
<1>11. ASSUME NEW c \in CRs, Corrects(c)
      PROVE  Present(d)'
  <2>1. /\ timer[c].pc = "patch" /\ UNCHANGED <<job, palive>>
        /\ d # c => cr'[d] = cr[d] /\ timer'[d] = timer[d]
    BY <1>11 DEF Corrects, OnlyCR, keystone
  <2>2. cr'[c].deleting = cr[c].deleting /\ timer'[c].pc = "idle"
    BY <1>11 DEF Corrects, CRAt, TimerEnds
  <2>3. cr[c].deleting /\ job[c].pc \in DeletePCs \cup {"idle"}
    BY <1>1, <2>1
  <2>4. Present(d)
    BY <1>1
  <2>5. CASE d = c
    BY <2>1, <2>2, <2>3, <2>4, <2>5
  <2>6. CASE d # c
    BY <2>1, <2>4, <2>6
  <2> QED
    BY <2>5, <2>6
<1>12. ASSUME NEW c \in CRs, Ticks(c) \/ Queries(c)
      PROVE  Present(d)'
  <2>1. UNCHANGED <<cr, job, palive>> /\ (d # c => timer'[d] = timer[d])
    BY <1>12 DEF Ticks, Queries, OnlyTimer, keystone
  <2>2. ASSUME timer'[c].pc = "patch" PROVE cr[c].pid \notin palive
    <3>1. timer[c].pc = "query" /\ cr[c].pid # None /\ pname[cr[c].pid] = cr[c].target
      BY <1>1, <1>12, <2>2 DEF Ticks, Queries
    <3>2. \/ ProjectsNamed(cr[c].target) = {}
          \/ \E p \in palive : pname[p] = cr[c].target /\ p # cr[c].pid
      BY <1>12, <2>2, <3>1 DEF Ticks, Queries, TimerEnds, ProjectsNamed
    <3> QED
      BY <1>1, <3>1, <3>2 DEF ProjectsNamed
  <2> QED
    BY <1>1, <2>1, <2>2
<1>13. CASE PassStarts \/ PassScans \/ PassSweeps \/ PassDrops \/ PassEnds
  <2>1. UNCHANGED <<cr, job, timer>>
    BY <1>13 DEF PassStarts, PassScans, PassSweeps, PassDrops, PassEnds, OnlyGc
  <2>2. palive' \in {palive, palive \ {gc.current}}
        /\ (palive' # palive => gc.pc = "drop" /\ gc.current \in gc.todo)
    BY <1>1, <1>13 DEF PassStarts, PassScans, PassSweeps, PassDrops, PassEnds, Swept
  <2>3. ASSUME gc.pc = "drop", gc.current \in gc.todo
        PROVE  cr[d].pid # gc.current /\ job[d].pid # gc.current
    <3>1. gc.current \in ProjectIds /\ pname[gc.current].name \notin gc.expected
      BY <1>1, <2>3 DEF Swept
    <3> QED
      BY <1>0, <1>1, <2>3, <3>1 DEF Covered
  <2> QED
    BY <1>1, <2>1, <2>2, <2>3
<1>14. CASE Restarts \/ Vanishes \/ UNCHANGED vars
  <2>1. CASE Restarts
    BY <1>1, <2>1 DEF Restarts, JobEnds, TimerEnds, keystone
  <2>2. CASE Vanishes \/ UNCHANGED vars
    BY <1>0, <1>1, <2>2 DEF Vanishes, vars
  <2> QED
    BY <1>14, <2>1, <2>2
<1> QED
  BY <1>2, <1>3, <1>4, <1>5, <1>6, <1>7, <1>8, <1>9, <1>10, <1>11, <1>12, <1>13, <1>14 DEF Step

-----------------------------------------------------------------------------
(* The theorems. *)

IInv ==
  /\ TypeInv /\ ShapeInv /\ KeystoneInv /\ NameInv
  /\ OrderInv /\ GcInv /\ SpareInv /\ PresentInv

\* Together the layers are an inductive invariant.
THEOREM Invariance == Spec => []IInv
<1>1. Init => IInv
  BY InitTypeInv, InitShape, InitKeystone, InitName, InitOrder, InitGc, InitSpare, InitPresent
     DEF IInv
<1>2. IInv /\ [Next]_vars => IInv'
  BY NextStep, StepTypeInv, StepShape, StepKeystone, StepName, StepOrder, StepGc, StepSpare,
     StepPresent DEF IInv
<1> QED
  BY <1>1, <1>2, PTL DEF Spec

\* No two live CRs come to record the same project (the owner check of create_project
\* with find_project_owner_cr), whatever else fails, as long as the CRs can be listed,
\* differ in age and keep their targets.
THEOREM OwnershipIsExclusive == Spec => []ExclusiveOwnership
<1>1. IInv => ExclusiveOwnership
  <2> SUFFICES ASSUME IInv, Trusted, NEW c \in CRs, NEW d \in CRs, Live(c), Live(d),
                      cr[c].pid # None, cr[c].pid = cr[d].pid, c # d
               PROVE  FALSE
    BY DEF ExclusiveOwnership, OneOwner
  <2>1. cr[c].target = cr[d].target
    BY DEF IInv, NameInv, Names, Trusted
  <2>2. Precedes(c, d) /\ Precedes(d, c)
    BY <2>1 DEF IInv, OrderInv, Claiming, Rivals
  <2>3. cr[c].made \in Nat /\ cr[d].made \in Nat
    BY DEF IInv, TypeInv, TypeOK, CRType
  <2> QED
    BY <2>2, <2>3, CRAssumption DEF Precedes
<1> QED
  BY <1>1, Invariance, PTL

\* A collection pass holds no project on its list that a CR claims: what the pass
\* expects was read when no handler could start or patch (collect_garbage on the loop).
THEOREM CollectorSparesClaimed == Spec => []GcSparesClaimed
<1>1. IInv => GcSparesClaimed
  <2> SUFFICES ASSUME IInv, "rename" \notin faults, NEW p \in gc.todo, NEW c \in CRs, Claims(c, p)
               PROVE  FALSE
    BY DEF GcSparesClaimed
  <2>1. p # None /\ gc.pc # "idle" /\ pname[p].name \notin gc.expected
    BY IdAssumption DEF IInv, TypeInv, TypeOK, GcType, GcInv, Swept
  <2>2. pname[p] = cr[c].target /\ (cr[c].pid # None \/ job[c].pc # "idle")
    BY <2>1 DEF Claims, IInv, NameInv, Names, ShapeInv, Shape
  <2>3. cr[c].target.name \in gc.expected
    BY <2>1, <2>2 DEF IInv, GcInv, Covered
  <2> QED
    BY <2>1, <2>2, <2>3
<1> QED
  BY <1>1, Invariance, PTL

\* A delete handler past its guard works on no project that a live CR claims.
THEOREM DeletionIsSafe == Spec => []DeletionSparesSharers
<1>1. IInv => DeletionSparesSharers
  <2> SUFFICES ASSUME IInv, faults \cap {"overlap", "rename"} = {},
                      NEW c \in CRs, NEW d \in CRs, c # d,
                      job[c].pc \in {"cleanup", "dropproject"}, Live(d), Claims(d, job[c].pid)
               PROVE  FALSE
    BY DEF DeletionSparesSharers, SharedProjectSurvives
  <2>1. job[c].pid # None
    BY DEF IInv, ShapeInv, Shape
  <2>2. pname[job[c].pid] = cr[c].target /\ pname[job[c].pid] = cr[d].target
    BY <2>1 DEF IInv, NameInv, Names, Claims
  <2> QED
    BY <2>2 DEF IInv, SpareInv, Rivals, Live
<1> QED
  BY <1>1, Invariance, PTL

\* The projects that live CRs rely on exist: collection passes, deletions of CRs that
\* share a project and restarts never take one away.
THEOREM RelianceIsSound == Spec => []RecordedProjectExists
<1>1. IInv => RecordedProjectExists
  <2> SUFFICES ASSUME IInv, Undisturbed, NEW c \in CRs, NEW p \in ProjectIds, Live(c), Claims(c, p)
               PROVE  p \in palive
    BY DEF RecordedProjectExists
  <2>1. Present(c) /\ Shape(c) /\ p # None /\ job[c].pc \in JobPCs
    BY IdAssumption DEF IInv, PresentInv, ShapeInv, TypeInv, TypeOK, JobType
  <2>2. CASE cr[c].pid = p
    BY <2>1, <2>2 DEF Present, Live
  <2>3. CASE job[c].pid = p
    <3>1. job[c].pc \in MakePCs \cup {"retag", "patch"}
      BY <2>1, <2>3 DEF Shape, JobPCs, MakePCs, DeletePCs, Live
    <3> QED
      BY <2>1, <2>3, <3>1 DEF Present
  <2> QED
    BY <2>2, <2>3 DEF Claims
<1> QED
  BY <1>1, Invariance, PTL

\* The steps that change what a CR records.
LEMMA RecordChanges ==
  ASSUME TypeInv, Step, NEW d \in CRs, cr'[d] # cr[d]
  PROVE  \/ \E t \in Targets : Creates(d, t) \/ Edits(d, t)
         \/ Deletes(d) \/ Patches(d) \/ Releases(d) \/ Corrects(d)
<1>1. CASE \E c \in CRs : \/ \E t \in Targets : Creates(c, t) \/ Edits(c, t)
                          \/ Deletes(c) \/ Patches(c) \/ Releases(c) \/ Corrects(c)
  <2>1. PICK c \in CRs : \/ \E t \in Targets : Creates(c, t) \/ Edits(c, t)
                         \/ Deletes(c) \/ Patches(c) \/ Releases(c) \/ Corrects(c)
    BY <1>1
  <2>2. OnlyCR(c)
    BY <2>1 DEF Creates, Edits, Deletes, Patches, Releases, Corrects
  <2>3. c = d
    BY <2>2 DEF OnlyCR
  <2> QED
    BY <2>1, <2>3
<1>2. CASE ~\E c \in CRs : \/ \E t \in Targets : Creates(c, t) \/ Edits(c, t)
                           \/ Deletes(c) \/ Patches(c) \/ Releases(c) \/ Corrects(c)
  <2>1. CASE \E c \in CRs : OnlyJob(c) \/ OnlyTimer(c)
    BY <2>1 DEF OnlyJob, OnlyTimer
  <2>2. CASE OnlyGc \/ Restarts \/ Vanishes \/ UNCHANGED vars
    BY <2>2 DEF OnlyGc, Restarts, Vanishes, vars
  <2> QED
    BY <1>2, <2>1, <2>2 DEF Step, Begins, Ticks, Queries, PassStarts, PassScans, PassSweeps,
       PassDrops, PassEnds
<1> QED
  BY <1>1, <1>2

\* No handler patch and no timer correction makes a CR forget a project that exists,
\* or replaces it by another one.
THEOREM RecordsAreKept == Spec => KeepsLiveProject
<1>1. IInv /\ [Next]_vars =>
        [\A c \in CRs : Undisturbed /\ cr[c].pid \in palive /\ cr'[c].exists
                          => cr'[c].pid = cr[c].pid]_vars
  <2> SUFFICES ASSUME IInv, Step, Undisturbed, NEW d \in CRs, cr[d].pid \in palive,
                      cr'[d].exists, cr'[d] # cr[d]
               PROVE  cr'[d].pid = cr[d].pid
    BY NextStep DEF IInv
  <2>1. cr[d].pid # None /\ Shape(d) /\ Names(d) /\ Present(d) /\ TypeInv
    BY IdAssumption DEF IInv, TypeInv, TypeOK, ShapeInv, NameInv, PresentInv, Undisturbed
  <2>2. CASE \E t \in Targets : Creates(d, t)
    BY <2>1, <2>2 DEF Creates, Shape
  <2>3. CASE (\E t \in Targets : Edits(d, t)) \/ Deletes(d)
    BY <2>3 DEF Edits, Deletes, CRAt
  <2>4. CASE Patches(d)
    <3>1. job[d].pid # None => job[d].pid \in palive /\ pname[job[d].pid] = pname[cr[d].pid]
      BY <2>1, <2>4 DEF Patches, Names, Present
    <3>2. job[d].pid # None => job[d].pid = cr[d].pid
      BY <3>1 DEF IInv, KeystoneInv
    <3> QED
      BY <2>4, <3>2 DEF Patches, CRAt
  <2>5. CASE Releases(d)
    BY <2>5 DEF Releases, CRAt
  <2>6. CASE Corrects(d)
    BY <2>1, <2>6 DEF Corrects, Present
  <2>7. \/ \E t \in Targets : Creates(d, t) \/ Edits(d, t)
        \/ Deletes(d) \/ Patches(d) \/ Releases(d) \/ Corrects(d)
    BY <2>1, RecordChanges
  <2> QED
    BY <2>2, <2>3, <2>4, <2>5, <2>6, <2>7
<1> QED
  BY <1>1, Invariance, PTL DEF Spec, KeepsLiveProject

-----------------------------------------------------------------------------
(* The refinement of ProjectOwnership. *)

Owns(c) == Live(c) /\ cr[c].pid # None

\* How the owners change with the CR of c, when nobody else changes.
LEMMA OwnersKept ==
  ASSUME Trusted, Trusted', NEW c \in CRs, \A d \in CRs \ {c} : cr'[d] = cr[d],
         Owns(c)' <=> Owns(c), Owns(c) => cr'[c].target = cr[c].target
  PROVE  Owners' = Owners
<1>1. ASSUME NEW t \in Targets, NEW d \in CRs
      PROVE  (Owns(d) /\ cr[d].target = t)' <=> Owns(d) /\ cr[d].target = t
  BY DEF Owns, Live
<1> QED
  BY <1>1 DEF Owners, Owns

\* A CR that stops owning its target is a Release of ProjectOwnership.
LEMMA OwnerLost ==
  ASSUME Trusted, Trusted', NEW c \in CRs, \A d \in CRs \ {c} : cr'[d] = cr[d],
         Owns(c), ~Owns(c)', cr[c].target \in Targets,
         \A d \in CRs : Owns(d) /\ cr[d].target = cr[c].target => d = c
  PROVE  Ownership!Next
<1> DEFINE t == cr[c].target
<1>1. Owners[t] = {c}
  BY DEF Owners, Owns
<1>2. ASSUME NEW u \in Targets
      PROVE  Owners'[u] = [Owners EXCEPT ![t] = {}][u]
  <2>1. ASSUME NEW d \in CRs
        PROVE  (Owns(d) /\ cr[d].target = u)' <=> d # c /\ Owns(d) /\ cr[d].target = u
    BY DEF Owns, Live
  <2> QED
    BY <2>1 DEF Owners, Owns
<1>3. Owners' = [Owners EXCEPT ![t] = {}]
  BY <1>2 DEF Owners
<1> QED
  BY <1>1, <1>3 DEF Ownership!Next, Ownership!Release

\* A CR that starts owning its target is an Acquire of ProjectOwnership.
LEMMA OwnerGained ==
  ASSUME Trusted, Trusted', NEW c \in CRs, \A d \in CRs \ {c} : cr'[d] = cr[d],
         ~Owns(c), Owns(c)', cr[c].target \in Targets, cr'[c].target = cr[c].target,
         \A d \in CRs : Owns(d) => cr[d].target # cr[c].target
  PROVE  Ownership!Next
<1> DEFINE t == cr[c].target
<1>1. Owners[t] = {}
  BY DEF Owners, Owns
<1>2. ASSUME NEW u \in Targets
      PROVE  Owners'[u] = [Owners EXCEPT ![t] = {c}][u]
  <2>1. ASSUME NEW d \in CRs
        PROVE  (Owns(d) /\ cr[d].target = u)'
                 <=> (d = c /\ u = t) \/ (d # c /\ Owns(d) /\ cr[d].target = u)
    BY DEF Owns, Live
  <2> QED
    BY <2>1 DEF Owners, Owns
<1>3. Owners' = [Owners EXCEPT ![t] = {c}]
  BY <1>2 DEF Owners
<1> QED
  BY <1>1, <1>3 DEF Ownership!Next, Ownership!Acquire

\* Two CRs with one target cannot both be past the owner check.
LEMMA SoleClaimant ==
  ASSUME IInv, Trusted, NEW c \in CRs, NEW d \in CRs, Claiming(c), Claiming(d),
         cr[c].target = cr[d].target
  PROVE  c = d
<1>1. cr[c].made \in Nat /\ cr[d].made \in Nat
  BY DEF IInv, TypeInv, TypeOK, CRType
<1>2. c # d => Precedes(c, d) /\ Precedes(d, c)
  BY DEF IInv, OrderInv, Claiming, Rivals
<1> QED
  BY <1>1, <1>2, CRAssumption DEF Precedes

\* Every step is a step of ProjectOwnership or leaves the owners alone.
LEMMA OwnershipStep == IInv /\ [Next]_vars => Ownership!Next \/ UNCHANGED Owners
<1> SUFFICES ASSUME IInv, [Next]_vars PROVE Ownership!Next \/ UNCHANGED Owners
  OBVIOUS
<1>1. Step /\ TypeInv /\ TypeInv'
  BY NextStep, StepTypeInv DEF IInv
<1>2. Trusted' <=> Trusted
  BY <1>1, SameFaults DEF Trusted
<1>3. CASE ~Trusted
  BY <1>2, <1>3 DEF Owners
<1>4. CASE UNCHANGED cr
  BY <1>2, <1>4 DEF Owners, Live
<1>5. ASSUME Trusted, NEW c \in CRs, cr'[c] # cr[c] PROVE Ownership!Next \/ UNCHANGED Owners
  <2>1. \/ \E t \in Targets : Creates(c, t) \/ Edits(c, t)
        \/ Deletes(c) \/ Patches(c) \/ Releases(c) \/ Corrects(c)
    BY <1>1, <1>5, RecordChanges
  <2>2. \A d \in CRs \ {c} : cr'[d] = cr[d]
    BY <2>1 DEF Creates, Edits, Deletes, Patches, Releases, Corrects, OnlyCR
  <2>3. Shape(c) /\ (cr[c].exists => cr[c].target \in Targets) /\ "rename" \notin faults
    BY <1>1, <1>5 DEF IInv, ShapeInv, TypeInv, Targeted, Trusted
  <2>4. CASE (Owns(c)' <=> Owns(c)) /\ (Owns(c) => cr'[c].target = cr[c].target)
    BY <1>2, <1>5, <2>2, <2>4, OwnersKept
  <2>5. CASE Owns(c) /\ ~Owns(c)'
    <3>1. \A d \in CRs : Owns(d) /\ cr[d].target = cr[c].target => d = c
      BY <1>5, <2>5, SoleClaimant DEF Owns, Claiming
    <3> QED
      BY <1>2, <1>5, <2>2, <2>3, <2>5, <3>1, OwnerLost DEF Owns, Live
  <2>6. CASE ~Owns(c) /\ Owns(c)'
    <3>1. Patches(c) /\ Live(c) /\ job[c].pid # None /\ cr'[c].target = cr[c].target
      <4>1. ASSUME NEW t \in Targets PROVE ~Creates(c, t) /\ ~Edits(c, t)
        BY <2>6 DEF Creates, Edits, CRAt, Owns, Live
      <4>2. ~Deletes(c) /\ ~Releases(c)
        BY <2>6 DEF Deletes, Releases, CRAt, Owns, Live
      <4>3. ~Corrects(c)
        BY <2>3, <2>6 DEF Corrects, CRAt, Owns, Live, Shape
      <4>4. Patches(c)
        BY <2>1, <4>1, <4>2, <4>3
      <4> QED
        BY <2>6, <4>4 DEF Patches, CRAt, Owns, Live
    <3>2. \A d \in CRs : Owns(d) => cr[d].target # cr[c].target
      BY <1>5, <2>6, <3>1, SoleClaimant DEF Owns, Claiming
    <3> QED
      BY <1>2, <1>5, <2>2, <2>3, <2>6, <3>1, <3>2, OwnerGained DEF Live
  <2>7. CASE Owns(c) /\ Owns(c)' /\ cr'[c].target # cr[c].target
    <3>1. ASSUME NEW t \in Targets PROVE ~Creates(c, t) /\ ~Edits(c, t)
      BY <2>3, <2>7 DEF Creates, Edits, CRAt, Owns, Live
    <3>2. ~Deletes(c) /\ ~Patches(c) /\ ~Releases(c) /\ ~Corrects(c)
      BY <2>7 DEF Deletes, Patches, Releases, Corrects, CRAt, Owns, Live
    <3> QED
      BY <2>1, <3>1, <3>2
  <2> QED
    BY <2>4, <2>5, <2>6, <2>7
<1>6. cr = [c \in CRs |-> cr[c]] /\ cr' = [c \in CRs |-> cr'[c]]
  BY <1>1 DEF TypeInv, TypeOK
<1> QED
  BY <1>3, <1>4, <1>5, <1>6

\* The operator implements ProjectOwnership: a target has at most one owner, and gets
\* another one only after its owner has let go of it.
THEOREM OperatorImplementsOwnership == Spec => ImplementsOwnership
<1>1. Init => Ownership!Init
  <2> SUFFICES ASSUME Init PROVE Owners = [t \in Targets |-> {}]
    BY DEF Ownership!Init
  <2>1. \A c \in CRs : ~Live(c)
    BY DEF Init, Live, AbsentCR
  <2> QED
    BY <2>1 DEF Owners
<1>2. IInv /\ [Next]_vars => [Ownership!Next]_Owners
  BY OwnershipStep
<1> QED
  BY <1>1, <1>2, Invariance, PTL DEF Spec, ImplementsOwnership, Ownership!Spec
=============================================================================
