------------------------- MODULE ProjectAccessProofs -------------------------
(***************************************************************************)
(* Theorems about ProjectAccess: it is well typed, and no interleaving of  *)
(* handlers and timers ever writes the federation mapping without a rule.  *)
(***************************************************************************)
EXTENDS ProjectAccess, TLAPS

-----------------------------------------------------------------------------
(* The inductive invariant. *)

\* A working thread has a CR and a spec; one about to write put back a rule of
\* its own, or cut one while it has seen another.
Sound(r) ==
  /\ r.pc \in {"ensure", "bind", "write", "patch", "drop", "release"}
       => r.cr \in CRs /\ r.spec \in Specs
  /\ r.goal = "put" => Named(r.spec) # {}
  /\ r.pc = "write" =>
       /\ r.seen \in [CRs -> SUBSET Users]
       /\ r.goal # "none"
       /\ r.goal = "cut" => \E d \in CRs \ {r.cr} : r.seen[d] # {}

ThreadsInv ==
  /\ th \in [Threads -> Record]
  /\ \A t \in Threads : Sound(th[t])

CrRecord == [exists : BOOLEAN, deleting : BOOLEAN, spec : Specs \cup {None},
             applied : Specs \cup {None}, phase : {"", "Ready", "Error"}, made : BOOLEAN]

CrInv ==
  /\ cr \in [CRs -> CrRecord]
  /\ \A c \in CRs : /\ cr[c].exists => cr[c].spec \in Specs
                    /\ cr[c].deleting => cr[c].exists

NoticeInv ==
  /\ notice \in [user : Users \cup {None}, todo : SUBSET [cr : CRs, spec : Specs]]
  /\ notice.user \in known \cup {None}
  /\ mail \subseteq known /\ known \subseteq Users

KeystoneInv ==
  /\ provisioned \subseteq CRs
  /\ members \in [CRs -> SUBSET Users] /\ direct \in [CRs -> SUBSET Users]
  /\ rules \in [CRs -> SUBSET Users]

BudgetInv == budget \in [Acts -> Nat]

IInv == ThreadsInv /\ CrInv /\ NoticeInv /\ KeystoneInv /\ BudgetInv

LEMMA InvImpliesTypeOK == IInv => TypeOK
  BY DEF IInv, ThreadsInv, CrInv, CrRecord, NoticeInv, KeystoneInv, BudgetInv, TypeOK

-----------------------------------------------------------------------------
(* The records of threads. *)

LEMMA IdleSound == Idle \in Record /\ Sound(Idle)
  BY DEF Idle, Record, Sound

LEMMA SpecTyped ==
  ASSUME NEW s \in Specs
  PROVE  /\ s.bindings \in Seq(SUBSET Users)
         /\ s.managed \in BOOLEAN
         /\ Named(s) \in SUBSET Users
<1>1. s \in [bindings : Seq(SUBSET Users), managed : BOOLEAN, annotation : Nat]
  BY SpecAssumption
<1>2. s.bindings \in Seq(SUBSET Users)
  BY <1>1
<1>3. s.managed \in BOOLEAN
  BY <1>1
<1>4. \A i \in DOMAIN s.bindings : s.bindings[i] \in SUBSET Users
  BY <1>2
<1>5. Named(s) \in SUBSET Users
  BY <1>4 DEF Named
<1> QED BY <1>2, <1>3, <1>5

\* A working thread that does not write is sound by its CR, spec and goal.
LEMMA WorkerSound ==
  ASSUME NEW r, r.pc # "write", r.cr \in CRs, r.spec \in Specs,
         r.goal = "put" => Named(r.spec) # {}
  PROVE  Sound(r)
  BY DEF Sound

Started(pc, c, s, bindings, goal, end) ==
  [Idle EXCEPT !.pc = pc, !.cr = c, !.spec = s, !.left = bindings,
               !.goal = goal, !.end = end]

\* A thread that starts.
LEMMA StartSound ==
  ASSUME NEW pc \in {"ensure", "bind", "release"}, NEW c \in CRs, NEW s \in Specs,
         NEW bindings \in Seq(SUBSET Users), NEW goal \in {"put", "cut", "none"},
         NEW end \in {"patch", "drop", "scan", "idle"},
         goal = "put" => Named(s) # {}
  PROVE  /\ Started(pc, c, s, bindings, goal, end) \in Record
         /\ Sound(Started(pc, c, s, bindings, goal, end))
<1> DEFINE r == Started(pc, c, s, bindings, goal, end)
<1>1. r \in Record
  BY DEF Started, Idle, Record
<1>2. r.pc = pc /\ r.cr = c /\ r.spec = s /\ r.goal = goal
  BY DEF Started, Idle
<1>3. Sound(r)
  <2> HIDE DEF r
  <2>1. r.pc # "write" /\ r.cr \in CRs /\ r.spec \in Specs
    BY <1>2
  <2>2. r.goal = "put" => Named(r.spec) # {}
    BY <1>2
  <2> QED BY <2>1, <2>2, WorkerSound
<1> QED BY <1>1, <1>3

\* The listener goes through its CRs.
LEMMA ScanSound ==
  /\ [Idle EXCEPT !.pc = "scan"] \in Record
  /\ Sound([Idle EXCEPT !.pc = "scan"])
<1>1. [Idle EXCEPT !.pc = "scan"] \in Record
  BY IdleSound DEF Record
<1>2. Sound([Idle EXCEPT !.pc = "scan"])
  BY DEF Idle, Sound
<1> QED BY <1>1, <1>2

LEMMA ServeSound ==
  ASSUME NEW c \in CRs, NEW s \in Specs, NEW bindings \in Seq(SUBSET Users)
  PROVE  /\ [Idle EXCEPT !.pc = "bind", !.cr = c, !.spec = s, !.left = bindings,
                         !.end = "scan"] \in Record
         /\ Sound([Idle EXCEPT !.pc = "bind", !.cr = c, !.spec = s, !.left = bindings,
                               !.end = "scan"])
<1> DEFINE r == [Idle EXCEPT !.pc = "bind", !.cr = c, !.spec = s, !.left = bindings,
                             !.end = "scan"]
<1>1. r \in Record
  BY DEF Idle, Record
<1>2. r.pc = "bind" /\ r.cr = c /\ r.spec = s /\ r.goal = "none"
  BY DEF Idle
<1>3. Sound(r)
  <2> HIDE DEF r
  <2> QED BY <1>2, WorkerSound
<1> QED BY <1>1, <1>3

LEMMA TailTyped ==
  ASSUME NEW r \in Record, r.left # <<>>
  PROVE  Tail(r.left) \in Seq(SUBSET Users) /\ Head(r.left) \in SUBSET Users
<1>1. r.left \in Seq(SUBSET Users)
  BY DEF Record
<1> QED BY <1>1

\* A working thread takes up a binding, or is done with a user.
LEMMA BindingSound ==
  ASSUME NEW r \in Record, Sound(r), r.pc = "bind",
         NEW q \in Seq(SUBSET Users), NEW a \in SUBSET Users, NEW d \in SUBSET Users
  PROVE  /\ [r EXCEPT !.left = q, !.adds = a, !.drops = d] \in Record
         /\ Sound([r EXCEPT !.left = q, !.adds = a, !.drops = d])
<1>1. [r EXCEPT !.left = q, !.adds = a, !.drops = d] \in Record
  BY DEF Record
<1>2. Sound([r EXCEPT !.left = q, !.adds = a, !.drops = d])
  BY DEF Record, Sound
<1> QED BY <1>1, <1>2

LEMMA DirectSound ==
  ASSUME NEW r \in Record, Sound(r), r.pc = "bind",
         NEW q \in Seq(SUBSET Users), NEW a \in SUBSET Users
  PROVE  /\ [r EXCEPT !.left = q, !.adds = a] \in Record
         /\ Sound([r EXCEPT !.left = q, !.adds = a])
<1>1. [r EXCEPT !.left = q, !.adds = a] \in Record
  BY DEF Record
<1>2. Sound([r EXCEPT !.left = q, !.adds = a])
  BY DEF Record, Sound
<1> QED BY <1>1, <1>2

LEMMA UserSound ==
  ASSUME NEW r \in Record, Sound(r), r.pc = "bind", NEW a \in SUBSET Users
  PROVE  /\ [r EXCEPT !.adds = a] \in Record /\ Sound([r EXCEPT !.adds = a])
         /\ [r EXCEPT !.drops = a] \in Record /\ Sound([r EXCEPT !.drops = a])
<1>1. [r EXCEPT !.adds = a] \in Record /\ [r EXCEPT !.drops = a] \in Record
  BY DEF Record
<1>2. Sound([r EXCEPT !.adds = a]) /\ Sound([r EXCEPT !.drops = a])
  BY DEF Record, Sound
<1> QED BY <1>1, <1>2

LEMMA BindSound ==
  ASSUME NEW r \in Record, Sound(r), r.pc = "ensure"
  PROVE  [r EXCEPT !.pc = "bind"] \in Record /\ Sound([r EXCEPT !.pc = "bind"])
  BY DEF Record, Sound

LEMMA ReleaseSound ==
  ASSUME NEW r \in Record, Sound(r), r.pc = "drop"
  PROVE  [r EXCEPT !.pc = "release"] \in Record /\ Sound([r EXCEPT !.pc = "release"])
  BY DEF Record, Sound

LEMMA ReadSound ==
  ASSUME NEW r \in Record, Sound(r), r.pc = "bind", r.goal # "none",
         NEW q \in [CRs -> SUBSET Users],
         r.goal = "cut" => \E d \in CRs \ {r.cr} : q[d] # {}
  PROVE  /\ [r EXCEPT !.pc = "write", !.seen = q] \in Record
         /\ Sound([r EXCEPT !.pc = "write", !.seen = q])
  BY DEF Record, Sound

\* A thread that has done its work, or raised.
LEMMA EndedSound ==
  ASSUME NEW t \in Threads, th[t] \in Record, Sound(th[t]), th[t].pc \in {"bind", "write"}
  PROVE  /\ Ended(t) \in Record /\ Sound(Ended(t))
         /\ Raised(t) \in Record /\ Sound(Raised(t))
<1> DEFINE r == [Idle EXCEPT !.pc = th[t].end, !.cr = th[t].cr, !.spec = th[t].spec]
           f == [r EXCEPT !.ok = FALSE]
<1>1. /\ th[t].cr \in CRs /\ th[t].spec \in Specs
      /\ th[t].end \in {"patch", "drop", "scan", "idle"}
  BY DEF Sound, Record
<1>2. r \in Record
  <2>1. th[t].end \in {"idle", "ensure", "bind", "write", "patch", "drop", "release", "scan"}
    BY <1>1
  <2> QED BY <1>1, <2>1, IdleSound DEF Record
<1>3. r.pc = th[t].end /\ r.cr = th[t].cr /\ r.spec = th[t].spec /\ r.goal = "none"
  BY DEF Idle
<1>4. f \in Record
  <2> HIDE DEF r
  <2> QED BY <1>2 DEF Record
<1>5. f.pc = r.pc /\ f.cr = r.cr /\ f.spec = r.spec /\ f.goal = r.goal
  <2> HIDE DEF r
  <2> QED BY <1>2 DEF Record
<1>6. Sound(r) /\ Sound(f)
  <2> HIDE DEF r, f
  <2>1. Sound(r)
    BY <1>1, <1>3, WorkerSound
  <2>2. Sound(f)
    BY <1>1, <1>3, <1>5, WorkerSound
  <2> QED BY <2>1, <2>2
<1>7. Ended(t) \in {Idle, r}
  BY DEF Ended
<1>8. Ended(t) \in Record /\ Sound(Ended(t))
  <2> HIDE DEF r
  <2> QED BY <1>2, <1>6, <1>7, IdleSound
<1>9. CASE th[t].end = "patch"
  <2>1. Ended(t) = r
    BY <1>9 DEF Ended
  <2>2. Raised(t) = f
    BY <1>9, <2>1 DEF Raised
  <2> HIDE DEF r, f
  <2> QED BY <1>4, <1>6, <1>8, <2>2
<1>10. CASE th[t].end # "patch"
  <2>1. Raised(t) \in {Ended(t), Idle}
    BY <1>10 DEF Raised
  <2> QED BY <1>8, <2>1, IdleSound
<1> QED BY <1>9, <1>10

\* The step of one thread keeps the others.
LEMMA StepSound ==
  ASSUME ThreadsInv, NEW t \in Threads, NEW r \in Record, Sound(r), Step(t, r)
  PROVE  ThreadsInv'
  BY DEF ThreadsInv, Step

LEMMA ThreadTyped ==
  ASSUME ThreadsInv, NEW t \in Threads
  PROVE  th[t] \in Record /\ Sound(th[t])
  BY DEF ThreadsInv

-----------------------------------------------------------------------------
(* The environment. *)

LEMMA SpendTyped ==
  ASSUME BudgetInv, NEW act \in Acts, Spend(act)
  PROVE  BudgetInv'
<1>1. budget[act] \in Nat /\ budget[act] > 0
  BY DEF BudgetInv, Spend
<1>2. budget[act] - 1 \in Nat
  BY <1>1
<1> QED BY <1>2 DEF BudgetInv, Spend

\* A step that leaves the CR objects, or the threads, alone.
LEMMA CrSame == ASSUME CrInv, UNCHANGED cr PROVE CrInv'
  BY DEF CrInv

LEMMA ThreadsSame == ASSUME ThreadsInv, UNCHANGED th PROVE ThreadsInv'
  BY DEF ThreadsInv

LEMMA NoticeSame == ASSUME NoticeInv, UNCHANGED <<notice, mail, known>> PROVE NoticeInv'
  BY DEF NoticeInv

LEMMA KeystoneSame == ASSUME KeystoneInv, UNCHANGED keystone PROVE KeystoneInv'
  BY DEF KeystoneInv, keystone

LEMMA BudgetSame == ASSUME BudgetInv, UNCHANGED budget PROVE BudgetInv'
  BY DEF BudgetInv

LEMMA UsersKeep ==
  ASSUME IInv, NEW c \in CRs, NEW s \in Specs,
         UserCreates(c, s) \/ UserEdits(c, s) \/ UserDeletes(c)
  PROVE  IInv'
<1> USE DEF IInv
<1>1. UNCHANGED <<th, notice, mail, known, keystone>>
  BY DEF UserCreates, UserEdits, UserDeletes
<1>2. ThreadsInv' /\ NoticeInv' /\ KeystoneInv'
  BY <1>1, ThreadsSame, NoticeSame, KeystoneSame
<1>3. BudgetInv'
  BY SpendTyped DEF UserCreates, UserEdits, UserDeletes, Acts
<1>4. CrInv'
  <2>1. CASE UserCreates(c, s)
    <3>1. [AbsentCR EXCEPT !.exists = TRUE, !.spec = s] \in CrRecord
      BY DEF AbsentCR, CrRecord
    <3>2. /\ [AbsentCR EXCEPT !.exists = TRUE, !.spec = s].spec = s
          /\ [AbsentCR EXCEPT !.exists = TRUE, !.spec = s].exists
      BY DEF AbsentCR
    <3> QED BY <2>1, <3>1, <3>2 DEF CrInv, UserCreates
  <2>2. CASE UserEdits(c, s)
    BY <2>2 DEF CrInv, CrRecord, UserEdits, Live
  <2>3. CASE UserDeletes(c)
    BY <2>3 DEF CrInv, CrRecord, UserDeletes, Live
  <2> QED BY <2>1, <2>2, <2>3
<1> QED BY <1>2, <1>3, <1>4

LEMMA LoginsKeep ==
  ASSUME IInv, NEW u \in Users, UserLogsIn(u) \/ NoticeLost(u)
  PROVE  IInv'
<1> USE DEF IInv
<1>1. UNCHANGED <<cr, th, notice, keystone>>
  BY DEF UserLogsIn, NoticeLost
<1>2. ThreadsInv' /\ CrInv' /\ KeystoneInv'
  BY <1>1, ThreadsSame, CrSame, KeystoneSame
<1>3. BudgetInv'
  BY SpendTyped DEF UserLogsIn, NoticeLost, Acts
<1>4. NoticeInv'
  BY <1>1 DEF NoticeInv, UserLogsIn, NoticeLost
<1> QED BY <1>2, <1>3, <1>4

LEMMA RestartKeeps ==
  ASSUME IInv, OperatorRestart
  PROVE  IInv'
<1> USE DEF IInv
<1>1. UNCHANGED <<cr, known, keystone>>
  BY DEF OperatorRestart
<1>2. CrInv' /\ KeystoneInv'
  BY <1>1, CrSame, KeystoneSame
<1>3. BudgetInv'
  BY SpendTyped DEF OperatorRestart, Acts
<1>4. NoticeInv'
  <2>1. NoNotice \in [user : Users \cup {None}, todo : SUBSET [cr : CRs, spec : Specs]]
    BY DEF NoNotice
  <2>2. NoNotice.user = None
    BY DEF NoNotice
  <2> QED BY <1>1, <2>1, <2>2 DEF NoticeInv, OperatorRestart
<1>5. ThreadsInv'
  BY IdleSound DEF ThreadsInv, OperatorRestart
<1> QED BY <1>2, <1>3, <1>4, <1>5

-----------------------------------------------------------------------------
(* Threads start. *)

LEMMA BeginKeeps ==
  ASSUME IInv, NEW c \in CRs, NEW t \in {Job(c), Timer(c)},
         NEW pc \in {"ensure", "bind", "release"},
         NEW bindings \in Seq(SUBSET Users), NEW goal \in {"put", "cut", "none"},
         NEW end \in {"patch", "drop", "scan", "idle"},
         cr[c].exists, goal = "put" => Named(cr[c].spec) # {},
         Start(t, pc, bindings, goal, end)
  PROVE  IInv'
<1>1. t[2] = c /\ t \in Threads
  BY DEF Job, Timer, Threads
<1> DEFINE s == cr[c].spec
<1>2. s \in Specs /\ (goal = "put" => Named(s) # {})
  BY DEF IInv, CrInv
<1> DEFINE r == Started(pc, c, s, bindings, goal, end)
<1>3. r \in Record /\ Sound(r)
  <2> HIDE DEF s
  <2> QED BY <1>2, StartSound
<1>4. Step(t, r)
  BY <1>1 DEF Start, Step, Started
<1>5. ThreadsInv'
  <2> HIDE DEF r
  <2> QED BY <1>1, <1>3, <1>4, StepSound DEF IInv
<1>6. UNCHANGED <<budget, cr, notice, mail, known, keystone>>
  BY DEF Start
<1> QED BY <1>5, <1>6, CrSame, NoticeSame, KeystoneSame, BudgetSame DEF IInv

LEMMA StartKeeps ==
  ASSUME IInv, NEW c \in CRs,
         BeginCreate(c) \/ BeginUpdate(c) \/ BeginDelete(c) \/ BeginTimer(c)
  PROVE  IInv'
<1> DEFINE s == cr[c].spec
<1>1. cr[c].exists
  BY DEF IInv, CrInv, BeginCreate, BeginUpdate, BeginDelete, BeginTimer, Live, Ready
<1>2. s \in Specs
  BY <1>1 DEF IInv, CrInv
<1>3. s.bindings \in Seq(SUBSET Users) /\ <<>> \in Seq(SUBSET Users)
  BY <1>2, SpecTyped
<1>4. /\ PutIfNamed(s) \in {"put", "cut", "none"}
      /\ PutIfNamed(s) = "put" => Named(s) # {}
  BY DEF PutIfNamed
<1>5. CASE BeginCreate(c)
  <2> DEFINE goal == IF s.managed THEN "none" ELSE PutIfNamed(s)
  <2>1. goal \in {"put", "cut", "none"} /\ (goal = "put" => Named(s) # {})
    BY <1>4
  <2>2. Start(Job(c), "ensure", s.bindings, goal, "patch")
    BY <1>5 DEF BeginCreate
  <2> HIDE DEF goal
  <2> QED BY <1>1, <1>3, <2>1, <2>2, BeginKeeps
<1>6. CASE BeginUpdate(c)
  <2> DEFINE goal == IF s.managed THEN "none" ELSE IF Named(s) # {} THEN "put" ELSE "cut"
  <2>1. goal \in {"put", "cut", "none"} /\ (goal = "put" => Named(s) # {})
    OBVIOUS
  <2>2. \/ Start(Job(c), "bind", <<>>, "none", "patch")
        \/ Start(Job(c), "bind", s.bindings, goal, "patch")
    BY <1>6 DEF BeginUpdate
  <2> HIDE DEF goal
  <2>3. CASE Start(Job(c), "bind", <<>>, "none", "patch")
    BY <1>1, <1>3, <2>3, BeginKeeps
  <2>4. CASE Start(Job(c), "bind", s.bindings, goal, "patch")
    BY <1>1, <1>3, <2>1, <2>4, BeginKeeps
  <2> QED BY <2>2, <2>3, <2>4
<1>7. CASE BeginDelete(c)
  <2>1. CASE Start(Job(c), "bind", <<>>, "cut", "drop")
    BY <1>1, <1>3, <2>1, BeginKeeps
  <2>2. CASE Start(Job(c), "release", <<>>, "none", "idle")
    BY <1>1, <1>3, <2>2, BeginKeeps
  <2> QED BY <1>7, <2>1, <2>2 DEF BeginDelete
<1>8. CASE BeginTimer(c)
  <2> DEFINE goal == IF s.bindings = <<>> THEN "none"
                     ELSE IF s.managed THEN "cut" ELSE PutIfNamed(s)
  <2>1. goal \in {"put", "cut", "none"} /\ (goal = "put" => Named(s) # {})
    BY <1>4
  <2>2. Start(Timer(c), "bind", s.bindings, goal, "idle")
    BY <1>8 DEF BeginTimer
  <2> HIDE DEF goal
  <2> QED BY <1>1, <1>3, <2>1, <2>2, BeginKeeps
<1> QED BY <1>5, <1>6, <1>7, <1>8

-----------------------------------------------------------------------------
(* Threads go on. *)

\* A step of a thread that changes at most Keystone.
LEMMA GoOn ==
  ASSUME IInv, NEW t \in Threads, NEW r \in Record, Sound(r), Step(t, r),
         UNCHANGED <<cr, notice, mail, known>>, KeystoneInv', BudgetInv'
  PROVE  IInv'
  BY StepSound, CrSame, NoticeSame DEF IInv

LEMMA EnsureKeeps == ASSUME IInv, NEW t \in Threads, Ensure(t) PROVE IInv'
<1>1. th[t] \in Record /\ Sound(th[t]) /\ th[t].pc = "ensure"
  BY ThreadTyped DEF IInv, Ensure
<1>2. KeystoneInv' /\ BudgetInv'
  BY <1>1 DEF IInv, KeystoneInv, BudgetInv, Ensure, Sound
<1> DEFINE r == [th[t] EXCEPT !.pc = "bind"]
<1>3. r \in Record /\ Sound(r)
  BY <1>1, BindSound
<1>4. Step(t, r) /\ UNCHANGED <<cr, notice, mail, known>>
  BY DEF Ensure
<1> HIDE DEF r
<1> QED BY <1>2, <1>3, <1>4, GoOn

LEMMA CompareKeeps == ASSUME IInv, NEW t \in Threads, Compare(t) PROVE IInv'
<1> DEFINE wanted == Head(th[t].left)
           c == th[t].cr
           r1 == [th[t] EXCEPT !.left = Tail(th[t].left), !.adds = wanted]
           r2 == [th[t] EXCEPT !.left = Tail(th[t].left), !.adds = wanted \ members[c],
                               !.drops = members[c] \ wanted]
<1>1. /\ th[t] \in Record /\ Sound(th[t])
      /\ th[t].pc = "bind" /\ th[t].left # <<>>
  BY ThreadTyped DEF IInv, Compare, BetweenBindings
<1>2. /\ UNCHANGED <<cr, notice, mail, known>>
      /\ KeystoneInv' /\ BudgetInv'
  BY KeystoneSame, BudgetSame DEF IInv, Compare
<1>3. Tail(th[t].left) \in Seq(SUBSET Users) /\ wanted \in SUBSET Users
  BY <1>1, TailTyped
<1>4. members[c] \in SUBSET Users
  BY <1>1 DEF Sound, IInv, KeystoneInv
<1>5. r1 \in Record /\ Sound(r1)
  BY <1>1, <1>3, DirectSound
<1>6. r2 \in Record /\ Sound(r2)
  <2> HIDE DEF wanted, c
  <2>1. wanted \ members[c] \in SUBSET Users /\ members[c] \ wanted \in SUBSET Users
    BY <1>3, <1>4
  <2> QED BY <1>1, <1>3, <2>1, BindingSound
<1>7. Raised(t) \in Record /\ Sound(Raised(t))
  BY <1>1, EndedSound
<1>8. Step(t, r1) \/ Step(t, r2) \/ Step(t, Raised(t))
  BY DEF Compare
<1> HIDE DEF r1, r2
<1> QED BY <1>2, <1>5, <1>6, <1>7, <1>8, GoOn

LEMMA AddUserKeeps == ASSUME IInv, NEW t \in Threads, AddUser(t) PROVE IInv'
<1>1. th[t] \in Record /\ Sound(th[t]) /\ th[t].pc = "bind"
  BY ThreadTyped DEF IInv, AddUser
<1>2. UNCHANGED <<cr, notice, mail, known>> /\ BudgetInv'
  BY BudgetSame DEF IInv, AddUser
<1> DEFINE r(u) == [th[t] EXCEPT !.adds = th[t].adds \ {u}]
<1>3. PICK u \in th[t].adds :
        /\ Step(t, r(u)) \/ Step(t, Raised(t))
        /\ \E a, b \in SUBSET {u} :
             /\ members' = [members EXCEPT ![th[t].cr] = @ \cup a]
             /\ direct' = [direct EXCEPT ![th[t].cr] = @ \cup b]
  <2>1. PICK u \in th[t].adds :
          LET present == u \in known /\ th[t].cr \in provisioned
          IN  /\ Step(t, IF u \in known /\ ~present THEN Raised(t) ELSE r(u))
              /\ members' = [members EXCEPT ![th[t].cr] =
                               @ \cup {v \in {u} : present /\ ~th[t].spec.managed}]
              /\ direct' = [direct EXCEPT ![th[t].cr] =
                               @ \cup {v \in {u} : present /\ th[t].spec.managed}]
    BY DEF AddUser
  <2> HIDE DEF r
  <2> QED BY <2>1
<1>4. u \in Users /\ th[t].adds \in SUBSET Users
  BY <1>1, <1>3 DEF Record
<1>5. KeystoneInv'
  <2> HIDE DEF r
  <2>1. UNCHANGED <<provisioned, rules>>
    BY DEF AddUser
  <2>2. PICK a, b \in SUBSET {u} :
          /\ members' = [members EXCEPT ![th[t].cr] = @ \cup a]
          /\ direct' = [direct EXCEPT ![th[t].cr] = @ \cup b]
    BY <1>3
  <2>3. a \in SUBSET Users /\ b \in SUBSET Users
    BY <1>4
  <2>4. members' \in [CRs -> SUBSET Users]
    BY <2>2, <2>3 DEF IInv, KeystoneInv
  <2>5. direct' \in [CRs -> SUBSET Users]
    BY <2>2, <2>3 DEF IInv, KeystoneInv
  <2> QED BY <2>1, <2>4, <2>5 DEF IInv, KeystoneInv
<1>6. r(u) \in Record /\ Sound(r(u))
  <2>1. th[t].adds \ {u} \in SUBSET Users
    BY <1>4
  <2> QED BY <1>1, <2>1, UserSound
<1>7. Raised(t) \in Record /\ Sound(Raised(t))
  BY <1>1, EndedSound
<1> HIDE DEF r
<1> QED BY <1>2, <1>3, <1>5, <1>6, <1>7, GoOn

LEMMA RemoveUserKeeps == ASSUME IInv, NEW t \in Threads, RemoveUser(t) PROVE IInv'
<1>1. th[t] \in Record /\ Sound(th[t]) /\ th[t].pc = "bind"
  BY ThreadTyped DEF IInv, RemoveUser
<1>2. UNCHANGED <<cr, notice, mail, known>> /\ BudgetInv'
  BY BudgetSame DEF IInv, RemoveUser
<1> DEFINE r(u) == [th[t] EXCEPT !.drops = th[t].drops \ {u}]
<1>3. PICK u \in th[t].drops :
        /\ Step(t, r(u)) \/ Step(t, Raised(t))
        /\ members' = [members EXCEPT ![th[t].cr] = @ \ {u}]
  BY DEF RemoveUser
<1>4. KeystoneInv'
  <2>1. UNCHANGED <<provisioned, direct, rules>>
    BY DEF RemoveUser
  <2> HIDE DEF r
  <2> QED BY <1>3, <2>1 DEF IInv, KeystoneInv
<1>5. r(u) \in Record /\ Sound(r(u))
  <2>1. th[t].drops \in SUBSET Users
    BY <1>1 DEF Record
  <2>2. th[t].drops \ {u} \in SUBSET Users
    BY <2>1
  <2> QED BY <1>1, <2>2, UserSound
<1>6. Raised(t) \in Record /\ Sound(Raised(t))
  BY <1>1, EndedSound
<1> HIDE DEF r
<1> QED BY <1>2, <1>3, <1>4, <1>5, <1>6, GoOn

LEMMA NoFederationKeeps ==
  ASSUME IInv, NEW t \in Threads, NoFederation(t) \/ FailCall(t)
  PROVE  IInv'
<1>1. th[t] \in Record /\ Sound(th[t]) /\ th[t].pc \in {"bind", "write"}
  BY ThreadTyped DEF IInv, NoFederation, FailCall, AllBound, BetweenBindings
<1>2. UNCHANGED <<cr, notice, mail, known>> /\ KeystoneInv'
  BY KeystoneSame DEF IInv, NoFederation, FailCall
<1>3. BudgetInv'
  BY SpendTyped, BudgetSame DEF IInv, NoFederation, FailCall, Acts
<1>4. Step(t, Ended(t)) \/ Step(t, Raised(t))
  BY DEF NoFederation, FailCall
<1> QED BY <1>1, <1>2, <1>3, <1>4, EndedSound, GoOn

LEMMA ReadRulesKeeps == ASSUME IInv, NEW t \in Threads, ReadRules(t) PROVE IInv'
<1>1. th[t] \in Record /\ Sound(th[t]) /\ th[t].pc = "bind" /\ th[t].goal # "none"
  BY ThreadTyped DEF IInv, ReadRules, AllBound, BetweenBindings
<1>2. UNCHANGED <<cr, notice, mail, known>> /\ KeystoneInv' /\ BudgetInv'
  BY KeystoneSame, BudgetSame DEF IInv, ReadRules
<1> DEFINE nothing == rules[th[t].cr] = {} \/ \A d \in CRs \ {th[t].cr} : rules[d] = {}
           r == [th[t] EXCEPT !.pc = "write", !.seen = rules]
<1>3. CASE th[t].goal = "cut" /\ nothing
  <2>1. Step(t, Ended(t))
    BY <1>3 DEF ReadRules
  <2> QED BY <1>1, <1>2, <2>1, EndedSound, GoOn
<1>4. CASE ~(th[t].goal = "cut" /\ nothing)
  <2>1. Step(t, r)
    BY <1>4 DEF ReadRules
  <2>2. r \in Record /\ Sound(r)
    <3>1. rules \in [CRs -> SUBSET Users]
      BY DEF IInv, KeystoneInv
    <3> QED BY <1>1, <1>4, <3>1, ReadSound
  <2> HIDE DEF r
  <2> QED BY <1>2, <2>1, <2>2, GoOn
<1> QED BY <1>3, <1>4

\* What a thread writes is not empty, whatever the mapping holds by then.
LEMMA WrittenNotEmpty ==
  ASSUME IInv, NEW t \in Threads, WriteRules(t)
  PROVE  /\ rules' \in [CRs -> SUBSET Users]
         /\ rules' # NoRules
<1> DEFINE r == th[t]
           mine == IF r.goal = "put" THEN Named(r.spec) ELSE {}
<1>1. r \in Record /\ Sound(r) /\ r.pc = "write"
  BY ThreadTyped DEF IInv, WriteRules
<1>2. /\ r.cr \in CRs /\ r.spec \in Specs
      /\ r.seen \in [CRs -> SUBSET Users]
      /\ r.goal \in {"put", "cut"}
      /\ r.goal = "put" => Named(r.spec) # {}
      /\ r.goal = "cut" => \E d \in CRs \ {r.cr} : r.seen[d] # {}
  BY <1>1 DEF Sound, Record
<1>3. rules' = [r.seen EXCEPT ![r.cr] = mine]
  BY DEF WriteRules
<1>4. mine \in SUBSET Users
  BY <1>2, SpecTyped
<1> HIDE DEF r
<1>5. rules' \in [CRs -> SUBSET Users]
  <2> HIDE DEF mine
  <2> QED BY <1>2, <1>3, <1>4
<1>6. \E d \in CRs : rules'[d] # {}
  <2>1. CASE r.goal = "put"
    BY <1>2, <1>3, <2>1
  <2>2. CASE r.goal = "cut"
    BY <1>2, <1>3, <2>2
  <2> QED BY <1>2, <2>1, <2>2
<1> QED BY <1>5, <1>6 DEF NoRules

LEMMA WriteRulesKeeps == ASSUME IInv, NEW t \in Threads, WriteRules(t) PROVE IInv'
<1>1. th[t] \in Record /\ Sound(th[t]) /\ th[t].pc = "write"
  BY ThreadTyped DEF IInv, WriteRules
<1>2. UNCHANGED <<cr, notice, mail, known>> /\ BudgetInv'
  BY BudgetSame DEF IInv, WriteRules
<1>3. KeystoneInv'
  BY WrittenNotEmpty DEF IInv, KeystoneInv, WriteRules
<1>4. Step(t, Ended(t))
  BY DEF WriteRules
<1> QED BY <1>1, <1>2, <1>3, <1>4, EndedSound, GoOn

-----------------------------------------------------------------------------
(* The end of a job, and the listener. *)

LEMMA PatchJobKeeps == ASSUME IInv, NEW c \in CRs, PatchJob(c) PROVE IInv'
<1>1. Job(c) \in Threads
  BY DEF Job, Threads
<1>2. th[Job(c)] \in Record /\ Sound(th[Job(c)]) /\ th[Job(c)].pc = "patch"
  BY <1>1, ThreadTyped DEF IInv, PatchJob
<1>3. ThreadsInv'
  BY <1>1, IdleSound, StepSound DEF IInv, PatchJob
<1>4. NoticeInv' /\ KeystoneInv' /\ BudgetInv'
  BY NoticeSame, KeystoneSame, BudgetSame DEF IInv, PatchJob
<1>5. CrInv'
  <2> DEFINE p == IF th[Job(c)].ok THEN "Ready" ELSE "Error"
             a == IF th[Job(c)].ok THEN th[Job(c)].spec ELSE cr[c].applied
  <2>1. cr \in [CRs -> CrRecord]
    BY DEF IInv, CrInv
  <2>2. p \in {"", "Ready", "Error"} /\ a \in Specs \cup {None}
    BY <1>2, <2>1 DEF Sound, CrRecord
  <2>3. cr' = [cr EXCEPT ![c].phase = p, ![c].applied = a, ![c].made = TRUE]
    BY <2>1 DEF PatchJob
  <2> HIDE DEF p, a
  <2>4. cr' = [cr EXCEPT ![c] = [cr[c] EXCEPT !.phase = p, !.applied = a, !.made = TRUE]]
    BY <2>1, <2>3
  <2> DEFINE r == [cr[c] EXCEPT !.phase = p, !.applied = a, !.made = TRUE]
  <2>5. r \in CrRecord
    BY <2>1, <2>2 DEF CrRecord
  <2>6. r.exists = cr[c].exists /\ r.spec = cr[c].spec /\ r.deleting = cr[c].deleting
    BY <2>1 DEF CrRecord
  <2>7. cr' = [cr EXCEPT ![c] = r]
    BY <2>4
  <2> HIDE DEF r
  <2>8. cr' \in [CRs -> CrRecord]
    BY <2>1, <2>5, <2>7
  <2>9. ASSUME NEW d \in CRs
        PROVE  /\ cr'[d].exists = cr[d].exists /\ cr'[d].spec = cr[d].spec
               /\ cr'[d].deleting = cr[d].deleting
    BY <2>1, <2>6, <2>7
  <2> QED BY <2>8, <2>9 DEF IInv, CrInv
<1> QED BY <1>3, <1>4, <1>5 DEF IInv

LEMMA DropProjectKeeps == ASSUME IInv, NEW c \in CRs, DropProject(c) PROVE IInv'
<1>1. Job(c) \in Threads
  BY DEF Job, Threads
<1>2. th[Job(c)] \in Record /\ Sound(th[Job(c)]) /\ th[Job(c)].pc = "drop"
  BY <1>1, ThreadTyped DEF IInv, DropProject
<1>3. KeystoneInv'
  BY DEF IInv, KeystoneInv, DropProject
<1>4. BudgetInv' /\ UNCHANGED <<cr, notice, mail, known>>
  BY BudgetSame DEF IInv, DropProject
<1> DEFINE r == [th[Job(c)] EXCEPT !.pc = "release"]
<1>5. r \in Record /\ Sound(r)
  BY <1>2, ReleaseSound
<1>6. Step(Job(c), r)
  BY DEF DropProject
<1> HIDE DEF r
<1> QED BY <1>1, <1>3, <1>4, <1>5, <1>6, GoOn

LEMMA ReleaseKeeps == ASSUME IInv, NEW c \in CRs, Release(c) PROVE IInv'
<1>1. Job(c) \in Threads
  BY DEF Job, Threads
<1>2. ThreadsInv'
  BY <1>1, IdleSound, StepSound DEF IInv, Release
<1>3. NoticeInv' /\ KeystoneInv' /\ BudgetInv'
  BY NoticeSame, KeystoneSame, BudgetSame DEF IInv, Release
<1>4. CrInv'
  <2>1. AbsentCR \in CrRecord /\ ~AbsentCR.exists /\ ~AbsentCR.deleting
    BY DEF AbsentCR, CrRecord
  <2>2. cr' = [cr EXCEPT ![c] = AbsentCR]
    BY DEF Release
  <2> QED BY <2>1, <2>2 DEF IInv, CrInv
<1> QED BY <1>2, <1>3, <1>4 DEF IInv

LEMMA TakeNoticeKeeps == ASSUME IInv, NEW u \in Users, TakeNotice(u) PROVE IInv'
<1>1. Listener \in Threads
  BY DEF Threads
<1>2. CrInv' /\ KeystoneInv'
  BY CrSame, KeystoneSame DEF IInv, TakeNotice
<1>3. u \in known /\ mail' \subseteq known /\ known' = known
  BY DEF IInv, NoticeInv, TakeNotice
<1> DEFINE todo == {[cr |-> c, spec |-> cr[c].spec] :
                      c \in {d \in CRs : /\ cr[d].exists /\ cr[d].phase = "Ready"
                                          /\ u \in Named(cr[d].spec)}}
           r == [Idle EXCEPT !.pc = "scan"]
<1>4. \/ /\ notice' = [user |-> u, todo |-> todo]
         /\ Step(Listener, r)
         /\ UNCHANGED budget
      \/ Spend("failures") /\ UNCHANGED <<notice, th>>
  BY DEF TakeNotice
<1>5. todo \in SUBSET [cr : CRs, spec : Specs]
  BY DEF IInv, CrInv
<1>6. r \in Record /\ Sound(r)
  BY ScanSound
<1> HIDE DEF todo, r
<1>7. CASE /\ notice' = [user |-> u, todo |-> todo]
           /\ Step(Listener, r)
           /\ UNCHANGED budget
  <2>1. ThreadsInv'
    BY <1>1, <1>6, <1>7, StepSound DEF IInv
  <2>2. NoticeInv'
    BY <1>3, <1>5, <1>7 DEF IInv, NoticeInv
  <2> QED BY <1>2, <1>7, <2>1, <2>2, BudgetSame DEF IInv
<1>8. CASE Spend("failures") /\ UNCHANGED <<notice, th>>
  <2>1. BudgetInv'
    BY <1>8, SpendTyped DEF IInv, Acts
  <2>2. NoticeInv'
    BY <1>3, <1>8 DEF IInv, NoticeInv
  <2> QED BY <1>2, <1>8, <2>1, <2>2, ThreadsSame DEF IInv
<1> QED BY <1>4, <1>7, <1>8

LEMMA ScanNoticeKeeps == ASSUME IInv, ScanNotice PROVE IInv'
<1>1. Listener \in Threads
  BY DEF Threads
<1>2. CrInv' /\ KeystoneInv' /\ BudgetInv' /\ UNCHANGED <<mail, known>>
  BY CrSame, KeystoneSame, BudgetSame DEF IInv, ScanNotice
<1> DEFINE r(w) == [Idle EXCEPT !.pc = "bind", !.cr = w.cr, !.spec = w.spec,
                                !.left = w.spec.bindings, !.end = "scan"]
<1>3. \/ \E w \in notice.todo :
            /\ notice' = [notice EXCEPT !.todo = @ \ {w}]
            /\ Step(Listener, r(w))
      \/ notice' = NoNotice /\ Step(Listener, Idle)
  BY DEF ScanNotice
<1>4. ASSUME NEW w \in notice.todo,
             notice' = [notice EXCEPT !.todo = @ \ {w}], Step(Listener, r(w))
      PROVE  IInv'
  <2>1. w.cr \in CRs /\ w.spec \in Specs
    BY DEF IInv, NoticeInv
  <2>2. r(w) \in Record /\ Sound(r(w))
    <3>1. w.spec.bindings \in Seq(SUBSET Users)
      BY <2>1, SpecTyped
    <3> QED BY <2>1, <3>1, ServeSound
  <2> HIDE DEF r
  <2>3. ThreadsInv'
    BY <1>1, <1>4, <2>2, StepSound DEF IInv
  <2>4. NoticeInv'
    BY <1>2, <1>4 DEF IInv, NoticeInv
  <2> QED BY <1>2, <2>3, <2>4 DEF IInv
<1>5. CASE notice' = NoNotice /\ Step(Listener, Idle)
  <2>1. ThreadsInv'
    BY <1>1, <1>5, IdleSound, StepSound DEF IInv
  <2>2. /\ NoNotice \in [user : Users \cup {None}, todo : SUBSET [cr : CRs, spec : Specs]]
        /\ NoNotice.user = None
    BY DEF NoNotice
  <2>3. NoticeInv'
    BY <1>2, <1>5, <2>2 DEF IInv, NoticeInv
  <2> QED BY <1>2, <2>1, <2>3 DEF IInv
<1> HIDE DEF r
<1> QED BY <1>3, <1>4, <1>5

-----------------------------------------------------------------------------
(* The theorems. *)

LEMMA InitInv == Init => IInv
<1> SUFFICES ASSUME Init PROVE IInv
  OBVIOUS
<1>1. ThreadsInv
  BY IdleSound DEF Init, ThreadsInv
<1>2. CrInv
  <2>1. AbsentCR \in CrRecord /\ ~AbsentCR.exists /\ ~AbsentCR.deleting
    BY DEF AbsentCR, CrRecord
  <2> QED BY <2>1 DEF Init, CrInv
<1>3. NoticeInv
  BY DEF Init, NoticeInv, NoNotice
<1>4. KeystoneInv /\ BudgetInv
  BY BudgetAssumption DEF Init, KeystoneInv, BudgetInv
<1> QED BY <1>1, <1>2, <1>3, <1>4 DEF IInv

LEMMA NextKeeps == IInv /\ [Next]_vars => IInv'
<1> SUFFICES ASSUME IInv, [Next]_vars PROVE IInv'
  OBVIOUS
<1>1. ASSUME NEW t \in Threads, ThreadStep(t) PROVE IInv'
  BY <1>1, EnsureKeeps, CompareKeeps, AddUserKeeps, RemoveUserKeeps, NoFederationKeeps,
     ReadRulesKeeps, WriteRulesKeeps DEF ThreadStep
<1>2. ASSUME NEW c \in CRs, JobStep(c) \/ BeginTimer(c) PROVE IInv'
  BY <1>2, StartKeeps, PatchJobKeeps, DropProjectKeeps, ReleaseKeeps DEF JobStep
<1>3. ASSUME NEW u \in Users, TakeNotice(u) PROVE IInv'
  BY <1>3, TakeNoticeKeeps
<1>4. CASE ScanNotice
  BY <1>4, ScanNoticeKeeps
<1>5. CASE Environment
  <2>1. ASSUME NEW c \in CRs, NEW s \in Specs, UserCreates(c, s) \/ UserEdits(c, s)
        PROVE  IInv'
    BY <2>1, UsersKeep
  <2>2. ASSUME NEW c \in CRs, UserDeletes(c) PROVE IInv'
    <3>1. PICK s \in Specs : s = cr[c].spec
      BY <2>2 DEF UserDeletes, Live, IInv, CrInv
    <3> QED BY <2>2, <3>1, UsersKeep
  <2>3. ASSUME NEW u \in Users, UserLogsIn(u) \/ NoticeLost(u) PROVE IInv'
    BY <2>3, LoginsKeep
  <2>4. ASSUME NEW t \in Threads, FailCall(t) PROVE IInv'
    BY <2>4, NoFederationKeeps
  <2> QED BY <1>5, <2>1, <2>2, <2>3, <2>4, RestartKeeps DEF Environment
<1>6. CASE UNCHANGED vars
  BY <1>6, ThreadsSame, CrSame, NoticeSame, KeystoneSame, BudgetSame DEF IInv, vars
<1> QED BY <1>1, <1>2, <1>3, <1>4, <1>5, <1>6 DEF Next

\* The inductive invariant holds in every reachable state: CR objects, threads, the
\* notification in hand, Keystone and the budget stay sound through every step.
THEOREM InvariantHolds == Spec => []IInv
  BY InitInv, NextKeeps, PTL DEF Spec

\* Every variable keeps its type, whatever the CRs, the users, the specs and the
\* budget of the environment.
THEOREM TypeCorrect == Spec => []TypeOK
  BY InvariantHolds, InvImpliesTypeOK, PTL

\* Only update_mapping writes the rules, and what it writes has a rule.
LEMMA RulesStay ==
  ASSUME IInv, Next, rules # NoRules
  PROVE  rules' # NoRules
<1>1. ASSUME NEW t \in Threads, ThreadStep(t) PROVE rules' # NoRules
  <2>1. CASE WriteRules(t)
    BY <2>1, WrittenNotEmpty
  <2>2. CASE ~WriteRules(t)
    <3>1. UNCHANGED rules
      BY <1>1, <2>2 DEF ThreadStep, Ensure, Compare, AddUser, RemoveUser, NoFederation,
                        ReadRules, keystone
    <3> QED BY <3>1 DEF NoRules
  <2> QED BY <2>1, <2>2
<1>2. ASSUME NEW c \in CRs, JobStep(c) \/ BeginTimer(c) PROVE UNCHANGED rules
  BY <1>2 DEF JobStep, BeginCreate, BeginUpdate, BeginDelete, BeginTimer, Start, PatchJob,
              DropProject, Release, keystone
<1>3. ASSUME (\E u \in Users : TakeNotice(u)) \/ ScanNotice PROVE UNCHANGED rules
  BY <1>3 DEF TakeNotice, ScanNotice, keystone
<1>4. ASSUME Environment PROVE UNCHANGED rules
  BY <1>4 DEF Environment, UserCreates, UserEdits, UserDeletes, UserLogsIn, NoticeLost,
              FailCall, OperatorRestart, keystone
<1>5. NoRules' = NoRules
  BY DEF NoRules
<1> QED BY <1>1, <1>2, <1>3, <1>4, <1>5 DEF Next

\* The federation mapping is never emptied once it has a rule, for any number of
\* projects whose threads read, change and write back its rules in any order.
THEOREM MappingNeverEmptied == Spec => NeverEmptied
<1>1. IInv /\ [Next]_vars => [rules # NoRules => rules' # NoRules]_vars
  BY RulesStay
<1> QED BY <1>1, InvariantHolds, PTL DEF Spec, NeverEmptied
=============================================================================
