------------------------ MODULE ManagedResourcesProofs ------------------------
(***************************************************************************)
(* Theorems about ManagedResources: it is well typed, the collector never  *)
(* has on its list what a CR records or a handler provides for it, and a   *)
(* CR that lives records a resource which exists, or is due to get one.    *)
(*                                                                         *)
(* Each action is first reduced to its effect on the fields that matter    *)
(* (the lemmas ...Next); each part of the invariant is then kept by the    *)
(* effects (the lemmas ...Step).                                           *)
(***************************************************************************)
EXTENDS ManagedResources, TLAPS

-----------------------------------------------------------------------------
(* The inductive invariant. *)

\* The orphan at hand is one of the list; a handler that registers a resource knows it.
OrphanInv == gc.pc \in {"unregister", "reload", "store"} => gc.current \in gc.todo
NewInv == \A c \in CRs : job[c].pc \in {"register", "reload", "store"} => job[c].new # None

TInv == TypeOK /\ OrphanInv /\ NewInv

\* Wherever an entry is, in the ConfigMap or in what an actor has read of it, it is
\* of the CR that asks for that name and of a resource that was created for it.  A
\* lost update restores or drops entries; it never makes one up.
Proper(entries) ==
  \A r \in Resources : entries[r] # None => /\ NameOf[entries[r].cr] = r
                                            /\ named[entries[r].id] = r
EntriesInv ==
  /\ Proper(cm.entries)
  /\ \A a \in Actors : Proper(session[a].table) /\ Proper(session[a].data)

\* An id that a CR records, or that one of its threads holds, is of its name.
Fits(c, p) == p # None => named[p] = NameOf[c]
NamesFit(c) == Fits(c, cr[c].id) /\ Fits(c, job[c].id) /\ Fits(c, job[c].new) /\ Fits(c, timer[c].id)
NamedInv == \A c \in CRs : NamesFit(c)

\* Nothing runs for a CR that does not exist; a timer that has not looked knows no id.
Dormant(c) ==
  /\ ~cr[c].exists => cr[c].id = None /\ ~cr[c].deleting /\ job[c].pc = "idle" /\ timer[c].pc = "idle"
  /\ timer[c].pc # "patch" => timer[c].id = None
AbsentInv == \A c \in CRs : Dormant(c)

\* What a pass does not expect has come after its start, and nothing has been done for it,
\* since no handler starts and no patch is applied while the pass holds the event loop.
Untouched(c) == cr[c].id = None /\ job[c].pc = "idle" /\ timer[c].pc = "idle"
PassInv ==
  /\ gc.pc = "idle" => gc.todo = {}
  /\ gc.pc # "idle" => \A c \in CRs \ gc.expected : Untouched(c)
  /\ \A o \in gc.todo : /\ named[o.id] = o.name
                        /\ \E c \in CRs \ gc.expected : NameOf[c] = o.name

\* An update that replaces the resource is due.
Due(c) ==
  /\ Kind(c) # "domains"
  /\ 0 < cr[c].handled /\ cr[c].handled < cr[c].gen /\ cr[c].handled < cr[c].immutable

\* What a CR that lives, and its threads, know of the resource: what they hold exists, or
\* the replacement is due; and a replacement does not delete what the timer has just found.
Recorded(c) == cr[c].id # None /\ cr[c].id \notin alive => Due(c)
Working(c) ==
  LET j == job[c]
      t == timer[c]
  IN j.pc # "idle" =>
       /\ ~j.deletes
       /\ j.id # None /\ j.id \notin alive => Due(c)
       /\ j.pc \in {"register", "reload", "store"} => j.new \in alive
       /\ j.pc = "modify" \/ (j.pc = "patch" /\ j.ok) => j.id \in alive
       /\ j.pc = "drop" => /\ Due(c) /\ j.id # None
                           /\ \/ t.pc # "patch" /\ cr[c].id = j.id
                              \/ t.pc = "patch" /\ t.id # j.id
                              \/ t.pc = "idle" /\ cr[c].phase # "Ready"
Found(c) == timer[c].pc = "patch" => timer[c].id \in alive \cup {None}
Sound(c) == Live(c) => Recorded(c) /\ Working(c) /\ Found(c)
ResourceInv == faults \cap {"admin", "lag"} = {} => \A c \in CRs : Sound(c)

IInv == TInv /\ EntriesInv /\ NamedInv /\ AbsentInv /\ PassInv /\ ResourceInv

-----------------------------------------------------------------------------
(* Types.  What each action leaves alone, and the records it makes. *)

LEMMA TypeSplit == TypeOK <=> /\ env \in Environments /\ inputs \in Nat
                              /\ cr \in [CRs -> CrRecord] /\ job \in [CRs -> JobRecord]
                              /\ timer \in [CRs -> TimerRecord] /\ gc \in GcRecord
                              /\ named \in [Ids -> Resources \cup {None}] /\ built \in [Ids -> Nat]
                              /\ alive \subseteq Ids
                              /\ cm \in [entries : Table, keys : SUBSET Kinds]
                              /\ session \in [Actors -> [table : Table, data : Table, keys : SUBSET Kinds]]
  BY DEF TypeOK

LEMMA TypeSplitNext == TypeOK' <=> /\ env' \in Environments /\ inputs' \in Nat
                              /\ cr' \in [CRs -> CrRecord] /\ job' \in [CRs -> JobRecord]
                              /\ timer' \in [CRs -> TimerRecord] /\ gc' \in GcRecord
                              /\ named' \in [Ids -> Resources \cup {None}] /\ built' \in [Ids -> Nat]
                              /\ alive' \subseteq Ids
                              /\ cm' \in [entries : Table, keys : SUBSET Kinds]
                              /\ session' \in [Actors -> [table : Table, data : Table, keys : SUBSET Kinds]]
  BY DEF TypeOK

LEMMA BlankTyped == AbsentCR \in CrRecord /\ IdleJob \in JobRecord /\ IdleTimer \in TimerRecord
                    /\ IdleGc \in GcRecord /\ NoEntries \in Table
                    /\ Quiet \in [table : Table, data : Table, keys : SUBSET Kinds]
<1>1. AbsentCR \in CrRecord /\ IdleJob \in JobRecord /\ IdleTimer \in TimerRecord
  BY DEF AbsentCR, CrRecord, IdleJob, JobRecord, IdleTimer, TimerRecord, MaybeId
<1>2. IdleGc \in GcRecord
  BY KindsAssumption DEF IdleGc, GcRecord
<1>3. NoEntries \in Table
  BY DEF NoEntries, Table
<1>4. {} \in SUBSET Kinds
  OBVIOUS
<1> QED BY <1>1, <1>2, <1>3, <1>4 DEF Quiet

\* The records that the actions make of the record of a CR, or of a handler.
LEMMA CrTyped ==
  ASSUME NEW y \in CrRecord
  PROVE  /\ \A n, i \in Nat : [y EXCEPT !.gen = n, !.immutable = i] \in CrRecord
         /\ [y EXCEPT !.deleting = TRUE] \in CrRecord
         /\ \A n \in Nat, p \in MaybeId :
              \A f \in {"Ready", "Error"} : [y EXCEPT !.phase = f, !.handled = n, !.id = p] \in CrRecord
         /\ \A p \in MaybeId : [y EXCEPT !.phase = "Pending", !.id = p] \in CrRecord
  BY DEF CrRecord

Pcs == {"idle", "ensure", "modify", "drop", "register", "reload", "store",
        "unregister", "unreload", "unstore", "patch", "release"}
LEMMA JobTyped ==
  ASSUME NEW y \in JobRecord, NEW pc \in Pcs
  PROVE  /\ [y EXCEPT !.pc = pc] \in JobRecord
         /\ \A p \in MaybeId : [y EXCEPT !.pc = pc, !.new = p] \in JobRecord
         /\ \A p \in MaybeId : [y EXCEPT !.pc = pc, !.id = p] \in JobRecord
         /\ [y EXCEPT !.pc = pc, !.ok = FALSE] \in JobRecord
         /\ \A n \in Nat, p \in MaybeId, b \in BOOLEAN :
              [y EXCEPT !.pc = pc, !.gen = n, !.id = p, !.deletes = b] \in JobRecord
  BY DEF JobRecord, Pcs

\* The registry calls keep the types.
LEMMA TablesTyped ==
  ASSUME NEW e \in Table, NEW k
  PROVE  Tables(e, k) \in Table
  BY DEF Tables, Table

LEMMA RegistryTyped ==
  ASSUME TypeOK, NEW a \in Actors,
         \/ \E k : Fetch(a, k)
         \/ \E k : Reload(a, k)
         \/ \E r \in Resources, e \in Entries(CRs, Ids) \cup {None} : Store(a, r, e)
         \/ Leave(a)
  PROVE  /\ cm' \in [entries : Table, keys : SUBSET Kinds]
         /\ session' \in [Actors -> [table : Table, data : Table, keys : SUBSET Kinds]]
<1> DEFINE Session == [table : Table, data : Table, keys : SUBSET Kinds]
<1>1. cm \in [entries : Table, keys : SUBSET Kinds] /\ session \in [Actors -> Session]
      /\ cm.entries \in Table /\ cm.keys \subseteq Kinds
  BY DEF TypeOK
<1>2. CASE \E k : Fetch(a, k)
  <2>1. PICK k : Fetch(a, k)
    BY <1>2
  <2>2. [Quiet EXCEPT !.table = Tables(cm.entries, {k})] \in Session
    BY <1>1, BlankTyped, TablesTyped
  <2> QED BY <1>1, <2>1, <2>2 DEF Fetch
<1>3. CASE \E k : Reload(a, k)
  <2>1. PICK k : Reload(a, k)
    BY <1>3
  <2>2. Tables(cm.entries, cm.keys \ {k}) \in Table
    BY <1>1, TablesTyped
  <2>3. PICK d \in Table : d = Tables(cm.entries, cm.keys \ {k})
    BY <2>2
  <2>4. PICK y \in Session : y = session[a]
    BY <1>1
  <2>5. [y EXCEPT !.keys = cm.keys \ {k}, !.data = d] \in Session
    BY <1>1
  <2>6. session' = [session EXCEPT ![a] = [y EXCEPT !.keys = cm.keys \ {k}, !.data = d]] /\ cm' = cm
    BY <2>1, <2>3, <2>4 DEF Reload
  <2> QED BY <1>1, <2>5, <2>6
<1>4. CASE \E r \in Resources, e \in Entries(CRs, Ids) \cup {None} : Store(a, r, e)
  <2>1. PICK r \in Resources, e \in Entries(CRs, Ids) \cup {None} : Store(a, r, e)
    BY <1>4
  <2>2. session[a].table \in Table /\ session[a].data \in Table /\ session[a].keys \subseteq Kinds
    BY <1>1
  <2>3. cm'.entries \in Table
    BY <1>1, <2>1, <2>2 DEF Store, Table
  <2>4. cm'.keys \subseteq Kinds
    BY <1>1, <2>1, <2>2 DEF Store, Kinds
  <2>5. cm' \in [entries : Table, keys : SUBSET Kinds]
    BY <2>1, <2>3, <2>4 DEF Store
  <2>6. session' = [session EXCEPT ![a] = Quiet]
    BY <2>1 DEF Store
  <2> QED BY <1>1, <2>5, <2>6, BlankTyped
<1>5. CASE Leave(a)
  BY <1>1, <1>5, BlankTyped DEF Leave
<1> QED BY <1>2, <1>3, <1>4, <1>5

-----------------------------------------------------------------------------
(* What the actions do, as the invariants see it.                          *)

\* A step that concerns one CR, its handler and its timer.
Others(c) == \A d \in CRs \ {c} : cr'[d] = cr[d] /\ job'[d] = job[d] /\ timer'[d] = timer[d]
Acts(c) ==
  /\ Others(c)
  /\ cr' \in [CRs -> CrRecord] /\ job' \in [CRs -> JobRecord] /\ timer' \in [CRs -> TimerRecord]
  /\ env' = env /\ inputs' \in Nat

\* The fields that the invariants speak of.
SameCr(c) == cr'[c] = cr[c]
SameJob(c) == job'[c] = job[c]
SameTimer(c) == timer'[c] = timer[c]
Stays(c) == cr'[c].exists = cr[c].exists /\ cr'[c].deleting = cr[c].deleting
Holds(c) == job'[c].id = job[c].id /\ job'[c].new = job[c].new /\ job'[c].deletes = job[c].deletes

LEMMA CrActs ==
  ASSUME TypeOK, NEW c \in CRs, NEW x \in CrRecord, cr' = [cr EXCEPT ![c] = x],
         UNCHANGED <<env, job, timer>>, inputs' \in Nat
  PROVE  Acts(c) /\ cr'[c] = x /\ SameJob(c) /\ SameTimer(c)
  BY DEF TypeOK, Acts, Others, SameJob, SameTimer

LEMMA JobActs ==
  ASSUME TypeOK, NEW c \in CRs, NEW y \in JobRecord, job' = [job EXCEPT ![c] = y],
         UNCHANGED <<env, inputs, cr, timer>>
  PROVE  Acts(c) /\ job'[c] = y /\ SameCr(c) /\ SameTimer(c)
  BY DEF TypeOK, Acts, Others, SameCr, SameTimer

LEMMA TimerActs ==
  ASSUME TypeOK, NEW c \in CRs, NEW z \in TimerRecord, timer' = [timer EXCEPT ![c] = z],
         UNCHANGED <<env, inputs, cr, job>>
  PROVE  Acts(c) /\ timer'[c] = z /\ SameCr(c) /\ SameJob(c)
  BY DEF TypeOK, Acts, Others, SameCr, SameJob

LEMMA Fields ==
  ASSUME TypeOK, NEW c \in CRs
  PROVE  /\ cr[c] \in CrRecord /\ job[c] \in JobRecord /\ timer[c] \in TimerRecord
         /\ cr[c].gen \in Nat /\ cr[c].handled \in Nat /\ cr[c].immutable \in Nat
         /\ cr[c].id \in MaybeId /\ cr[c].exists \in BOOLEAN /\ cr[c].deleting \in BOOLEAN
         /\ job[c].gen \in Nat /\ job[c].id \in MaybeId /\ job[c].new \in MaybeId
         /\ job[c].deletes \in BOOLEAN /\ job[c].ok \in BOOLEAN /\ job[c].pc \in Pcs
         /\ timer[c].id \in MaybeId /\ timer[c].pc \in {"idle", "query", "patch"}
<1>1. cr[c] \in CrRecord /\ job[c] \in JobRecord /\ timer[c] \in TimerRecord
  BY DEF TypeOK
<1> QED BY <1>1 DEF CrRecord, JobRecord, TimerRecord, Pcs

LEMMA UserCreatesNext ==
  ASSUME TypeOK, NEW c \in CRs, UserCreates(c)
  PROVE  /\ Acts(c) /\ ~cr[c].exists /\ cr'[c].id = None /\ ~cr'[c].deleting
         /\ SameJob(c) /\ SameTimer(c) /\ UNCHANGED <<gc, cloud, registry>>
<1> DEFINE x == [AbsentCR EXCEPT !.exists = TRUE, !.gen = 1]
<1>1. x \in CrRecord /\ x.id = None /\ ~x.deleting
  BY DEF AbsentCR, CrRecord, MaybeId
<1>2. /\ cr' = [cr EXCEPT ![c] = x] /\ UNCHANGED <<env, job, timer, gc, cloud, registry>>
      /\ inputs' \in Nat /\ ~cr[c].exists
  BY DEF UserCreates, TypeOK
<1> HIDE DEF x
<1> QED BY <1>1, <1>2, CrActs

LEMMA UserEditsNext ==
  ASSUME TypeOK, NEW c \in CRs, UserEdits(c)
  PROVE  /\ Acts(c) /\ Live(c) /\ Stays(c) /\ cr'[c].id = cr[c].id /\ cr'[c].phase = cr[c].phase
         /\ cr'[c].handled = cr[c].handled /\ cr'[c].gen = cr[c].gen + 1
         /\ cr'[c].immutable \in {cr[c].immutable, cr[c].gen + 1}
         /\ SameJob(c) /\ SameTimer(c) /\ UNCHANGED <<gc, cloud, registry>>
<1>1. PICK y \in CrRecord : y = cr[c]
  BY Fields
<1>2. PICK i \in {y.immutable, y.gen + 1} :
        cr' = [cr EXCEPT ![c] = [y EXCEPT !.gen = y.gen + 1, !.immutable = i]]
  BY <1>1 DEF UserEdits
<1>3. y.gen + 1 \in Nat /\ i \in Nat
  BY DEF CrRecord
<1>4. PICK x : x = [y EXCEPT !.gen = y.gen + 1, !.immutable = i]
  OBVIOUS
<1>5. x \in CrRecord /\ x.id = y.id /\ x.phase = y.phase /\ x.handled = y.handled /\ x.gen = y.gen + 1
      /\ x.immutable = i /\ x.exists = y.exists /\ x.deleting = y.deleting
  BY <1>3, <1>4 DEF CrRecord
<1>6. UNCHANGED <<env, job, timer, gc, cloud, registry>> /\ inputs' \in Nat /\ Live(c)
  BY DEF UserEdits, TypeOK
<1> QED BY <1>1, <1>2, <1>4, <1>5, <1>6, CrActs DEF Stays

LEMMA UserDeletesNext ==
  ASSUME TypeOK, NEW c \in CRs, UserDeletes(c)
  PROVE  /\ Acts(c) /\ Live(c) /\ cr'[c].exists /\ cr'[c].deleting /\ cr'[c].id = cr[c].id
         /\ SameJob(c) /\ SameTimer(c) /\ UNCHANGED <<gc, cloud, registry>>
<1>1. PICK y \in CrRecord : y = cr[c]
  BY Fields
<1>2. PICK x : x = [y EXCEPT !.deleting = TRUE]
  OBVIOUS
<1>3. x \in CrRecord /\ x.id = y.id /\ x.exists = y.exists /\ x.deleting
  BY <1>2 DEF CrRecord
<1>4. UNCHANGED <<env, inputs, job, timer, gc, cloud, registry>> /\ inputs' \in Nat /\ Live(c) /\ cr[c].exists
      /\ cr' = [cr EXCEPT ![c] = x]
  BY <1>1, <1>2 DEF UserDeletes, TypeOK, Live
<1> QED BY <1>1, <1>3, <1>4, CrActs

\* Why a handler begins, and from where.
Starts(c) ==
  \/ job'[c].pc = "ensure" /\ job'[c].id = None /\ ~job'[c].deletes /\ Live(c)
  \/ /\ job'[c].pc = "drop" /\ job'[c].id = cr[c].id /\ cr[c].id # None
     /\ ~job'[c].deletes /\ Live(c) /\ Due(c)
  \/ /\ job'[c].pc = "modify" /\ job'[c].id = cr[c].id /\ cr[c].id # None
     /\ ~job'[c].deletes /\ Live(c) /\ ~Due(c)
  \/ /\ job'[c].pc \in {"release", "drop"} /\ job'[c].id = cr[c].id
     /\ job'[c].deletes /\ cr[c].deleting

LEMMA BeginHandlerNext ==
  ASSUME TypeOK, NEW c \in CRs, BeginHandler(c)
  PROVE  /\ Acts(c) /\ job[c].pc = "idle" /\ EventLoopFree
         /\ timer[c].pc = "patch" => "lag" \in faults
         /\ Starts(c) /\ job'[c].new = None
         /\ SameCr(c) /\ SameTimer(c) /\ UNCHANGED <<gc, cloud, registry>>
<1> DEFINE y(pc, id, b) == [IdleJob EXCEPT !.pc = pc, !.gen = cr[c].gen, !.id = id, !.deletes = b]
           Effect(pc, id, b) == /\ Acts(c) /\ job'[c].pc = pc /\ job'[c].id = id /\ job'[c].deletes = b
                                /\ job'[c].new = None /\ job[c].pc = "idle" /\ EventLoopFree
                                /\ timer[c].pc = "patch" => "lag" \in faults
                                /\ SameCr(c) /\ SameTimer(c) /\ UNCHANGED <<gc, cloud, registry>>
<1>1. ASSUME NEW pc \in Pcs, NEW id \in MaybeId, NEW b \in BOOLEAN, Begin(c, pc, id, b)
      PROVE  Effect(pc, id, b)
  <2>1. cr[c].gen \in Nat
    BY Fields
  <2>2. PICK x : x = y(pc, id, b)
    OBVIOUS
  <2>3. x \in JobRecord
    BY <2>1, <2>2, BlankTyped, JobTyped
  <2>4. x.pc = pc /\ x.id = id /\ x.deletes = b /\ x.new = None
    BY <2>2 DEF IdleJob
  <2>5. job' = [job EXCEPT ![c] = x] /\ UNCHANGED <<env, inputs, cr, timer, gc, cloud, registry>>
        /\ job[c].pc = "idle" /\ EventLoopFree /\ (timer[c].pc = "patch" => "lag" \in faults)
    BY <1>1, <2>2 DEF Begin
  <2> QED BY <2>3, <2>4, <2>5, JobActs
<1> HIDE DEF Effect
<1>2. cr[c].id \in MaybeId /\ None \in MaybeId /\ cr[c].exists \in BOOLEAN /\ cr[c].deleting \in BOOLEAN
      /\ cr[c].handled \in Nat /\ cr[c].gen \in Nat /\ cr[c].immutable \in Nat
  BY Fields DEF MaybeId
<1>3. \/ Live(c) /\ Effect("ensure", None, FALSE)
      \/ Live(c) /\ cr[c].id # None /\ Due(c) /\ Effect("drop", cr[c].id, FALSE)
      \/ Live(c) /\ cr[c].id # None /\ ~Due(c) /\ Effect("modify", cr[c].id, FALSE)
      \/ cr[c].deleting /\ \E pc \in {"release", "drop"} : Effect(pc, cr[c].id, TRUE)
  <2>1. CASE BeginCreate(c)
    BY <1>1, <1>2, <2>1 DEF BeginCreate, Pcs
  <2>2. CASE BeginUpdate(c)
    <3>1. Live(c) /\ 0 < cr[c].handled /\ cr[c].handled < cr[c].gen
      BY <2>2 DEF BeginUpdate
    <3>2. CASE cr[c].id = None
      BY <1>1, <1>2, <2>2, <3>1, <3>2 DEF BeginUpdate, Pcs
    <3>3. CASE cr[c].id # None /\ Kind(c) # "domains" /\ cr[c].immutable > cr[c].handled
      <4>1. Begin(c, "drop", cr[c].id, FALSE)
        BY <2>2, <3>3 DEF BeginUpdate
      <4>2. Due(c)
        BY <1>2, <3>1, <3>3 DEF Due
      <4> QED BY <1>1, <1>2, <3>1, <3>3, <4>1, <4>2 DEF Pcs
    <3>4. CASE cr[c].id # None /\ ~(Kind(c) # "domains" /\ cr[c].immutable > cr[c].handled)
      <4>1. Begin(c, "modify", cr[c].id, FALSE)
        BY <2>2, <3>4 DEF BeginUpdate
      <4>2. ~Due(c)
        BY <1>2, <3>1, <3>4 DEF Due
      <4> QED BY <1>1, <1>2, <3>1, <3>4, <4>1, <4>2 DEF Pcs
    <3> QED BY <3>2, <3>3, <3>4
  <2>3. CASE BeginDelete(c)
    BY <1>1, <1>2, <2>3 DEF BeginDelete, Pcs
  <2> QED BY <2>1, <2>2, <2>3 DEF BeginHandler
<1> QED BY <1>3 DEF Effect, Starts

\* A resource may come, and those that were there keep their names.
Grows == /\ named' \in [Ids -> Resources \cup {None}] /\ built' \in [Ids -> Nat]
         /\ alive \subseteq alive' /\ alive' \subseteq Ids
         /\ \A p \in Ids : named[p] # None => named'[p] = named[p]

LEMMA EnsureNext ==
  ASSUME TypeOK, NEW c \in CRs, Ensure(c)
  PROVE  /\ Acts(c) /\ Grows /\ job[c].pc = "ensure"
         /\ job'[c].id = job[c].id /\ job'[c].deletes = job[c].deletes
         /\ \/ /\ job'[c].pc = "register" /\ job'[c].new \in alive'
               /\ named'[job'[c].new] = NameOf[c]
            \/ job'[c].pc = "patch" /\ ~job'[c].ok /\ job'[c].new = job[c].new
         /\ SameCr(c) /\ SameTimer(c) /\ UNCHANGED <<gc, registry>>
<1>1. PICK y \in JobRecord : y = job[c]
  BY Fields
<1>2. /\ alive \subseteq Ids /\ job[c].pc = "ensure" /\ UNCHANGED <<env, inputs, cr, timer, gc, registry>>
      /\ named \in [Ids -> Resources \cup {None}] /\ built \in [Ids -> Nat]
  BY DEF Ensure, TypeOK
<1>3. CASE \E p \in Same(c) : job' = [job EXCEPT ![c].pc = "register", ![c].new = p] /\ UNCHANGED cloud
  <2>1. PICK p \in Same(c) : /\ job' = [job EXCEPT ![c] = [y EXCEPT !.pc = "register", !.new = p]]
                             /\ UNCHANGED cloud
    BY <1>1, <1>3
  <2>2. p \in alive /\ named[p] = NameOf[c] /\ p \in MaybeId
    BY <1>2, <2>1 DEF Same, MaybeId
  <2>3. PICK x : x = [y EXCEPT !.pc = "register", !.new = p]
    OBVIOUS
  <2>4. x \in JobRecord
    BY <2>2, <2>3, JobTyped DEF Pcs
  <2>5. x.pc = "register" /\ x.new = p /\ x.id = y.id /\ x.deletes = y.deletes
    BY <2>3 DEF JobRecord
  <2>6. Acts(c) /\ job'[c] = x /\ SameCr(c) /\ SameTimer(c)
    BY <1>2, <2>1, <2>3, <2>4, JobActs
  <2>7. Grows /\ named' = named /\ alive' = alive
    BY <1>2, <2>1 DEF Grows, cloud
  <2> QED BY <1>1, <1>2, <2>2, <2>5, <2>6, <2>7
<1>4. CASE Create(c)
  <2>1. PICK p \in Unused :
          /\ named' = [named EXCEPT ![p] = NameOf[c]]
          /\ built' = [built EXCEPT ![p] = job[c].gen]
          /\ alive' = alive \cup {p}
          /\ \/ job' = [job EXCEPT ![c] = [y EXCEPT !.pc = "register", !.new = p]]
             \/ job' = [job EXCEPT ![c] = [y EXCEPT !.pc = "patch", !.ok = FALSE]]
    BY <1>1, <1>4 DEF Create
  <2>2. p \in Ids /\ named[p] = None /\ NameOf[c] \in Resources /\ p \in MaybeId /\ job[c].gen \in Nat
    BY <2>1, NameAssumption, Fields DEF Unused, MaybeId
  <2>3. Grows /\ named'[p] = NameOf[c] /\ p \in alive'
    BY <1>2, <2>1, <2>2 DEF Grows
  <2>4. \E x \in JobRecord : /\ job' = [job EXCEPT ![c] = x]
                             /\ x.id = y.id /\ x.deletes = y.deletes
                             /\ \/ x.pc = "register" /\ x.new = p
                                \/ x.pc = "patch" /\ ~x.ok /\ x.new = y.new
    <3>1. CASE job' = [job EXCEPT ![c] = [y EXCEPT !.pc = "register", !.new = p]]
      <4>1. PICK x : x = [y EXCEPT !.pc = "register", !.new = p]
        OBVIOUS
      <4>2. x \in JobRecord
        BY <2>2, <4>1, JobTyped DEF Pcs
      <4>3. x.pc = "register" /\ x.new = p /\ x.id = y.id /\ x.deletes = y.deletes
        BY <4>1 DEF JobRecord
      <4> QED BY <3>1, <4>1, <4>2, <4>3
    <3>2. CASE job' = [job EXCEPT ![c] = [y EXCEPT !.pc = "patch", !.ok = FALSE]]
      <4>1. PICK x : x = [y EXCEPT !.pc = "patch", !.ok = FALSE]
        OBVIOUS
      <4>2. x \in JobRecord
        BY <4>1, JobTyped DEF Pcs
      <4>3. x.pc = "patch" /\ ~x.ok /\ x.new = y.new /\ x.id = y.id /\ x.deletes = y.deletes
        BY <4>1 DEF JobRecord
      <4> QED BY <3>2, <4>1, <4>2, <4>3
    <3> QED BY <2>1, <3>1, <3>2
  <2>5. PICK x \in JobRecord : /\ job' = [job EXCEPT ![c] = x]
                             /\ x.id = y.id /\ x.deletes = y.deletes
                             /\ \/ x.pc = "register" /\ x.new = p
                                \/ x.pc = "patch" /\ ~x.ok /\ x.new = y.new
    BY <2>4
  <2>6. Acts(c) /\ job'[c] = x /\ SameCr(c) /\ SameTimer(c)
    BY <1>2, <2>5, JobActs
  <2> QED BY <1>1, <1>2, <2>3, <2>5, <2>6
<1> QED BY <1>3, <1>4 DEF Ensure

\* A handler goes to another step and leaves the registry and the CR alone.
Goes(c, pc) == Acts(c) /\ job'[c].pc = pc /\ Holds(c) /\ SameCr(c) /\ SameTimer(c)
               /\ gc' = gc /\ named' = named /\ built' = built

LEMMA GoesNext ==
  ASSUME TypeOK, NEW c \in CRs, NEW pc \in Pcs, UNCHANGED <<env, inputs, cr, timer, gc, named, built>>,
         \/ job' = [job EXCEPT ![c].pc = pc]
         \/ job' = [job EXCEPT ![c].pc = pc, ![c].ok = FALSE]
  PROVE  /\ Goes(c, pc)
         /\ job' = [job EXCEPT ![c].pc = pc] => job'[c].ok = job[c].ok
         /\ job' = [job EXCEPT ![c].pc = pc, ![c].ok = FALSE] => ~job'[c].ok
<1>1. PICK y \in JobRecord : y = job[c]
  BY Fields
<1>2. PICK x, z : x = [y EXCEPT !.pc = pc] /\ z = [y EXCEPT !.pc = pc, !.ok = FALSE]
  OBVIOUS
<1>3. x \in JobRecord /\ z \in JobRecord
  BY <1>2, JobTyped
<1>4. /\ x.pc = pc /\ x.id = y.id /\ x.new = y.new /\ x.deletes = y.deletes /\ x.ok = y.ok
      /\ z.pc = pc /\ z.id = y.id /\ z.new = y.new /\ z.deletes = y.deletes /\ ~z.ok
  BY <1>2 DEF JobRecord
<1>5. /\ job' = [job EXCEPT ![c].pc = pc] => job' = [job EXCEPT ![c] = x]
      /\ job' = [job EXCEPT ![c].pc = pc, ![c].ok = FALSE] => job' = [job EXCEPT ![c] = z]
  BY <1>1, <1>2
<1>6. job' = [job EXCEPT ![c] = x] => Acts(c) /\ job'[c] = x /\ SameCr(c) /\ SameTimer(c)
  BY <1>3, JobActs
<1>7. job' = [job EXCEPT ![c] = z] => Acts(c) /\ job'[c] = z /\ SameCr(c) /\ SameTimer(c)
  BY <1>3, JobActs
<1> QED BY <1>1, <1>4, <1>5, <1>6, <1>7 DEF Goes, Holds

LEMMA ModifyNext ==
  ASSUME TypeOK, NEW c \in CRs, Modify(c)
  PROVE  /\ job[c].pc = "modify" /\ Goes(c, "patch") /\ UNCHANGED <<alive, registry>>
         /\ job'[c].ok => job[c].id \in alive \/ Kind(c) # "domains"
<1>1. "patch" \in Pcs
  BY DEF Pcs
<1>2. UNCHANGED <<env, inputs, cr, timer, gc, named, built, alive, registry>> /\ job[c].pc = "modify"
  BY DEF Modify, cloud
<1> QED BY <1>1, <1>2, GoesNext DEF Modify

LEMMA DropNext ==
  ASSUME TypeOK, NEW c \in CRs, Drop(c)
  PROVE  /\ job[c].pc = "drop" /\ Goes(c, "unregister") /\ UNCHANGED registry
         /\ alive' = alive \ {job[c].id}
<1>1. "unregister" \in Pcs
  BY DEF Pcs
<1> QED BY <1>1, GoesNext DEF Drop

\* The steps of a handler that read and patch the registry.
Registers(c) == FetchRegistry(c) \/ ReloadRegistry(c) \/ StoreRegistry(c) \/ FailCall(c)
Advances(c) ==
  \/ job[c].pc = "register" /\ Goes(c, "reload")
  \/ job[c].pc = "reload" /\ Goes(c, "store")
  \/ job[c].pc = "store" /\ /\ Acts(c) /\ job'[c].pc = "patch" /\ job'[c].deletes = job[c].deletes
                            /\ job'[c].id = job[c].new /\ job'[c].new = job[c].new
                            /\ SameCr(c) /\ SameTimer(c)
  \/ job[c].pc = "unregister" /\ Goes(c, "unreload")
  \/ job[c].pc = "unreload" /\ Goes(c, "unstore")
  \/ job[c].pc \in {"unregister", "unstore"} /\ Goes(c, "release") /\ job[c].deletes
  \/ job[c].pc \in {"unregister", "unstore"} /\ Goes(c, "ensure")
  \/ job[c].pc # "idle" /\ Goes(c, "patch") /\ ~job'[c].ok
  \/ job[c].pc # "idle" /\ /\ Acts(c) /\ job'[c].pc = "idle" /\ job'[c].id = None /\ job'[c].new = None
                           /\ SameCr(c) /\ SameTimer(c)

\* What the call does to the registry.
Calls(a) ==
  \/ \E k : Fetch(a, k)
  \/ \E k : Reload(a, k)
  \/ \E r \in Resources, e \in Entries(CRs, Ids) \cup {None} :
       Store(a, r, e) /\ (e # None => NameOf[e.cr] = r /\ named[e.id] = r)
  \/ Leave(a)

LEMMA RegistersNext ==
  ASSUME TypeOK, NEW c \in CRs, Registers(c)
  PROVE  Advances(c) /\ UNCHANGED <<gc, cloud>>
<1>1. UNCHANGED <<env, inputs, cr, timer, gc, cloud>>
      /\ UNCHANGED <<env, inputs, cr, timer, gc, named, built>>
  BY DEF Registers, FetchRegistry, ReloadRegistry, StoreRegistry, FailCall, cloud
<1>2. ASSUME NEW pc \in Pcs, job' = [job EXCEPT ![c].pc = pc]
      PROVE  Goes(c, pc)
  BY <1>1, <1>2, GoesNext
<1>3. Pcs = {"idle", "ensure", "modify", "drop", "register", "reload", "store",
             "unregister", "unreload", "unstore", "patch", "release"}
  BY DEF Pcs
<1>4. CASE FetchRegistry(c)
  BY <1>2, <1>3, <1>4, Fields DEF FetchRegistry, Advances, AfterUnregister
<1>5. CASE ReloadRegistry(c)
  BY <1>2, <1>3, <1>5 DEF ReloadRegistry, Advances
<1>6. CASE StoreRegistry(c)
  <2>1. CASE job[c].pc = "store" /\ job' = [job EXCEPT ![c].pc = "patch", ![c].id = job[c].new]
    <3>1. PICK y \in JobRecord : y = job[c]
      BY Fields
    <3>2. PICK x : x = [y EXCEPT !.pc = "patch", !.id = y.new]
      OBVIOUS
    <3>3. y.new \in MaybeId
      BY DEF JobRecord
    <3>4. x \in JobRecord
      BY <1>3, <3>2, <3>3, JobTyped
    <3>5. x.pc = "patch" /\ x.id = y.new /\ x.new = y.new /\ x.deletes = y.deletes
      BY <3>2 DEF JobRecord
    <3>6. job' = [job EXCEPT ![c] = x]
      BY <2>1, <3>1, <3>2
    <3>7. Acts(c) /\ job'[c] = x /\ SameCr(c) /\ SameTimer(c)
      BY <1>1, <3>4, <3>6, JobActs
    <3> QED BY <2>1, <3>1, <3>5, <3>7, <1>1 DEF Advances
  <2>2. CASE job[c].pc = "unstore" /\ job' = [job EXCEPT ![c].pc = AfterUnregister(c)]
    BY <1>2, <1>3, <2>2, <1>1, Fields DEF Advances, AfterUnregister
  <2> QED BY <1>6, <2>1, <2>2 DEF StoreRegistry
<1>7. CASE FailCall(c)
  <2>1. CASE job[c].deletes
    <3>1. job' = [job EXCEPT ![c] = IdleJob]
      BY <1>7, <2>1 DEF FailCall
    <3>2. Acts(c) /\ job'[c] = IdleJob /\ SameCr(c) /\ SameTimer(c)
      BY <1>1, <3>1, BlankTyped, JobActs
    <3>3. IdleJob.pc = "idle" /\ IdleJob.id = None /\ IdleJob.new = None
      BY DEF IdleJob
    <3>4. job[c].pc # "idle"
      BY <1>7 DEF FailCall
    <3> QED BY <1>1, <3>2, <3>3, <3>4 DEF Advances
  <2>2. CASE ~job[c].deletes
    <3>1. job' = [job EXCEPT ![c].pc = "patch", ![c].ok = FALSE]
      BY <1>7, <2>2 DEF FailCall
    <3>2. Goes(c, "patch") /\ ~job'[c].ok
      BY <1>1, <1>3, <3>1, GoesNext
    <3> QED BY <1>1, <1>7, <3>2 DEF FailCall, Advances
  <2> QED BY <2>1, <2>2
<1> QED BY <1>1, <1>4, <1>5, <1>6, <1>7 DEF Registers

LEMMA RegistersCalls ==
  ASSUME TInv, NamedInv, NEW c \in CRs, Registers(c)
  PROVE  Calls(c) /\ job[c].pc # "idle"
<1>1. CASE FetchRegistry(c)
  BY <1>1 DEF FetchRegistry, Calls
<1>2. CASE ReloadRegistry(c)
  BY <1>2 DEF ReloadRegistry, Calls
<1>3. CASE StoreRegistry(c)
  <2>1. NameOf[c] \in Resources /\ NameOf[c] # None
    BY NameAssumption, NoneAssumption
  <2>2. CASE job[c].pc = "store" /\ Store(c, NameOf[c], [id |-> job[c].new, cr |-> c])
    <3>1. job[c].new \in Ids /\ named[job[c].new] = NameOf[c]
      BY <2>2, Fields DEF TInv, NewInv, NamedInv, NamesFit, Fits, MaybeId
    <3>2. PICK e : e = [id |-> job[c].new, cr |-> c]
      OBVIOUS
    <3>3. e \in Entries(CRs, Ids) /\ NameOf[e.cr] = NameOf[c] /\ named[e.id] = NameOf[c]
      BY <3>1, <3>2 DEF Entries
    <3> QED BY <2>1, <2>2, <3>2, <3>3 DEF Calls
  <2>3. CASE job[c].pc = "unstore" /\ Store(c, NameOf[c], None)
    BY <2>1, <2>3 DEF Calls
  <2> QED BY <1>3, <2>2, <2>3 DEF StoreRegistry
<1>4. CASE FailCall(c)
  BY <1>4 DEF FailCall, Calls
<1> QED BY <1>1, <1>2, <1>3, <1>4 DEF Registers, FetchRegistry, ReloadRegistry, StoreRegistry, FailCall

LEMMA CallsTyped ==
  ASSUME TypeOK, NEW a \in Actors, Calls(a)
  PROVE  /\ cm' \in [entries : Table, keys : SUBSET Kinds]
         /\ session' \in [Actors -> [table : Table, data : Table, keys : SUBSET Kinds]]
  BY RegistryTyped DEF Calls

LEMMA PatchNext ==
  ASSUME TypeOK, NEW c \in CRs, Patch(c)
  PROVE  /\ Acts(c) /\ job[c].pc = "patch" /\ EventLoopFree /\ Stays(c) /\ job'[c] = IdleJob
         /\ cr'[c].id = (IF job[c].id # None THEN job[c].id ELSE cr[c].id)
         /\ cr'[c].gen = cr[c].gen /\ cr'[c].immutable = cr[c].immutable
         /\ ~job[c].ok => cr'[c].handled = cr[c].handled
         /\ SameTimer(c) /\ UNCHANGED <<gc, cloud, registry>>
<1>1. PICK y \in CrRecord : y = cr[c]
  BY Fields
<1> DEFINE f == IF job[c].ok THEN "Ready" ELSE "Error"
           n == IF job[c].ok THEN job[c].gen ELSE y.handled
           p == IF job[c].id # None THEN job[c].id ELSE y.id
<1>2. f \in {"Ready", "Error"} /\ n \in Nat /\ p \in MaybeId
  BY <1>1, Fields
<1>3. PICK x : x = [y EXCEPT !.phase = f, !.handled = n, !.id = p]
  OBVIOUS
<1>4. cr' = [cr EXCEPT ![c] = x]
  BY <1>1, <1>3 DEF Patch
<1> HIDE DEF f, n, p
<1>5. /\ x.id = p /\ x.handled = n /\ x.gen = y.gen /\ x.immutable = y.immutable
      /\ x.exists = y.exists /\ x.deleting = y.deleting
  BY <1>3 DEF CrRecord
<1>8. x \in CrRecord
  BY <1>2, <1>3, CrTyped
<1>6. /\ job' = [job EXCEPT ![c] = IdleJob] /\ UNCHANGED <<env, inputs, timer, gc, cloud, registry>>
      /\ job[c].pc = "patch" /\ EventLoopFree
  BY DEF Patch
<1>7. Acts(c) /\ cr'[c] = x /\ job'[c] = IdleJob /\ SameTimer(c)
  BY <1>4, <1>6, <1>8, BlankTyped DEF TypeOK, Acts, Others, SameTimer
<1> QED BY <1>1, <1>5, <1>6, <1>7 DEF p, n, Stays

LEMMA ReleaseNext ==
  ASSUME TypeOK, NEW c \in CRs, Release(c)
  PROVE  /\ Acts(c) /\ job[c].pc = "release" /\ EventLoopFree /\ timer[c].pc = "idle"
         /\ cr'[c] = AbsentCR /\ job'[c] = IdleJob /\ SameTimer(c) /\ UNCHANGED <<gc, cloud, registry>>
<1>1. /\ job' = [job EXCEPT ![c] = IdleJob] /\ cr' = [cr EXCEPT ![c] = AbsentCR]
      /\ UNCHANGED <<env, inputs, timer, gc, cloud, registry>>
      /\ job[c].pc = "release" /\ EventLoopFree /\ timer[c].pc = "idle"
  BY DEF Release
<1> QED BY <1>1, BlankTyped DEF TypeOK, Acts, Others, SameTimer

LEMMA StartTimerNext ==
  ASSUME TypeOK, NEW c \in CRs, StartTimer(c)
  PROVE  /\ Acts(c) /\ EventLoopFree /\ timer[c].pc = "idle" /\ Live(c) /\ cr[c].phase = "Ready"
         /\ timer'[c].pc = "query" /\ timer'[c].id = timer[c].id
         /\ SameCr(c) /\ SameJob(c) /\ UNCHANGED <<gc, cloud, registry>>
<1>1. PICK y \in TimerRecord : y = timer[c]
  BY Fields
<1>2. PICK x : x = [y EXCEPT !.pc = "query"]
  OBVIOUS
<1>3. x \in TimerRecord /\ x.pc = "query" /\ x.id = y.id
  BY <1>2 DEF TimerRecord
<1>4. /\ timer' = [timer EXCEPT ![c] = x] /\ UNCHANGED <<env, inputs, cr, job, gc, cloud, registry>>
      /\ EventLoopFree /\ timer[c].pc = "idle" /\ Live(c) /\ cr[c].phase = "Ready"
  BY <1>1, <1>2 DEF StartTimer
<1> QED BY <1>1, <1>3, <1>4, TimerActs

LEMMA QueryNext ==
  ASSUME TypeOK, NEW c \in CRs, Query(c)
  PROVE  /\ Acts(c) /\ timer[c].pc = "query"
         /\ \/ timer'[c].pc = "patch" /\ timer'[c].id = timer[c].id
            \/ /\ timer'[c].pc = "patch" /\ timer'[c].id \in alive
               /\ named[timer'[c].id] = NameOf[c] /\ timer'[c].id # cr[c].id
            \/ timer'[c].pc = "idle" /\ timer'[c].id = None
         /\ SameCr(c) /\ SameJob(c) /\ UNCHANGED <<gc, cloud, registry>>
<1>1. PICK y \in TimerRecord : y = timer[c]
  BY Fields
<1>2. timer[c].pc = "query" /\ UNCHANGED <<env, inputs, cr, job, gc, cloud, registry>> /\ alive \subseteq Ids
  BY DEF Query, TypeOK
<1>3. PICK x : x = [y EXCEPT !.pc = "patch"]
  OBVIOUS
<1>4. x \in TimerRecord /\ x.pc = "patch" /\ x.id = y.id
  BY <1>3 DEF TimerRecord
<1>5. \/ timer' = [timer EXCEPT ![c] = x]
      \/ \E p \in alive : /\ named[p] = NameOf[c] /\ p # cr[c].id
                          /\ timer' = [timer EXCEPT ![c] = [pc |-> "patch", id |-> p]]
      \/ timer' = [timer EXCEPT ![c] = IdleTimer]
  BY <1>1, <1>3 DEF Query, Same
<1>6. CASE timer' = [timer EXCEPT ![c] = x]
  BY <1>1, <1>2, <1>4, <1>6, TimerActs
<1>7. CASE \E p \in alive : /\ named[p] = NameOf[c] /\ p # cr[c].id
                            /\ timer' = [timer EXCEPT ![c] = [pc |-> "patch", id |-> p]]
  <2>1. PICK p \in alive : /\ named[p] = NameOf[c] /\ p # cr[c].id
                           /\ timer' = [timer EXCEPT ![c] = [pc |-> "patch", id |-> p]]
    BY <1>7
  <2>2. PICK z : z = [pc |-> "patch", id |-> p]
    OBVIOUS
  <2>3. z \in TimerRecord /\ z.pc = "patch" /\ z.id = p
    BY <1>2, <2>2 DEF TimerRecord, MaybeId
  <2>4. Acts(c) /\ timer'[c] = z /\ SameCr(c) /\ SameJob(c)
    BY <1>2, <2>1, <2>2, <2>3, TimerActs
  <2> QED BY <1>2, <2>1, <2>3, <2>4
<1>8. CASE timer' = [timer EXCEPT ![c] = IdleTimer]
  <2>1. Acts(c) /\ timer'[c] = IdleTimer /\ SameCr(c) /\ SameJob(c)
    BY <1>2, <1>8, BlankTyped, TimerActs
  <2>2. IdleTimer.pc = "idle" /\ IdleTimer.id = None
    BY DEF IdleTimer
  <2> QED BY <1>2, <2>1, <2>2
<1> QED BY <1>5, <1>6, <1>7, <1>8

LEMMA PatchTimerNext ==
  ASSUME TypeOK, NEW c \in CRs, PatchTimer(c)
  PROVE  /\ Acts(c) /\ timer[c].pc = "patch" /\ EventLoopFree /\ Stays(c)
         /\ cr'[c].id = timer[c].id /\ cr'[c].phase = "Pending" /\ cr'[c].handled = cr[c].handled
         /\ cr'[c].gen = cr[c].gen /\ cr'[c].immutable = cr[c].immutable
         /\ timer'[c] = IdleTimer /\ SameJob(c) /\ UNCHANGED <<gc, cloud, registry>>
<1>1. PICK y \in CrRecord : y = cr[c]
  BY Fields
<1>2. PICK p \in MaybeId : p = timer[c].id
  BY Fields
<1>3. PICK x : x = [y EXCEPT !.phase = "Pending", !.id = p]
  OBVIOUS
<1>4. /\ x.id = p /\ x.handled = y.handled /\ x.gen = y.gen /\ x.immutable = y.immutable
      /\ x.exists = y.exists /\ x.deleting = y.deleting /\ x.phase = "Pending"
  BY <1>3 DEF CrRecord
<1>7. x \in CrRecord
  BY <1>3, CrTyped
<1>5. /\ cr' = [cr EXCEPT ![c] = x] /\ timer' = [timer EXCEPT ![c] = IdleTimer]
      /\ UNCHANGED <<env, inputs, job, gc, cloud, registry>> /\ timer[c].pc = "patch" /\ EventLoopFree
  BY <1>1, <1>2, <1>3 DEF PatchTimer
<1>6. Acts(c) /\ cr'[c] = x /\ timer'[c] = IdleTimer /\ SameJob(c)
  BY <1>5, <1>7, BlankTyped DEF TypeOK, Acts, Others, SameJob
<1> QED BY <1>1, <1>2, <1>4, <1>5, <1>6 DEF Stays

LEMMA GcFields ==
  ASSUME TypeOK
  PROVE  /\ gc \in GcRecord /\ gc.expected \subseteq CRs /\ gc.at \in 0..Len(GcKinds)
         /\ gc.todo \subseteq [name : Resources, id : Ids]
         /\ \A o \in gc.todo : o.name \in Resources /\ o.id \in Ids
  BY DEF TypeOK, GcRecord

LEMMA GcStartNext ==
  ASSUME TypeOK, NEW c \in CRs, GcStart(c)
  PROVE  /\ gc.pc = "idle" /\ gc' \in GcRecord /\ gc'.pc = "read" /\ gc'.todo = {}
         /\ gc'.expected = {d \in CRs : cr[d].exists}
         /\ UNCHANGED <<env, inputs, cr, job, timer, cloud, registry>>
<1>1. PICK e \in SUBSET CRs : e = {d \in CRs : cr[d].exists}
  OBVIOUS
<1>2. /\ gc' = [IdleGc EXCEPT !.pc = "read", !.at = 1, !.expected = e]
      /\ gc.pc = "idle" /\ UNCHANGED <<env, inputs, cr, job, timer, cloud, registry>>
  BY <1>1 DEF GcStart, EventLoopFree
<1>3. 1 \in 0..Len(GcKinds)
  BY KindsAssumption
<1>4. gc' \in GcRecord /\ gc'.pc = "read" /\ gc'.todo = {} /\ gc'.expected = e
  BY <1>2, <1>3 DEF IdleGc, GcRecord
<1> QED BY <1>1, <1>2, <1>4

\* What is on the list of the pass afterwards: what was there, or what the registry has of
\* CRs that the pass does not expect.
Listed(o) ==
  \/ o \in gc.todo
  \/ /\ cm.entries[o.name] # None /\ o.id = cm.entries[o.name].id
     /\ cm.entries[o.name].cr \notin gc.expected
Sweeps ==
  /\ gc.pc # "idle" /\ gc' \in GcRecord
  /\ gc'.pc \in {"unregister", "reload", "store"} => gc'.current \in gc'.todo
  /\ gc'.pc = "idle" => gc'.todo = {}
  /\ gc'.pc # "idle" => gc'.expected = gc.expected
  /\ \A o \in gc'.todo : Listed(o)

LEMMA NextKindSweeps ==
  ASSUME TypeOK, gc.pc # "idle", gc' = NextKind
  PROVE  Sweeps
<1>1. CASE gc.at = Len(GcKinds)
  BY <1>1, BlankTyped DEF NextKind, Sweeps, IdleGc
<1>2. CASE gc.at # Len(GcKinds)
  <2>1. gc' = [gc EXCEPT !.pc = "read", !.at = gc.at + 1, !.todo = {}, !.current = NoOrphan]
    BY <1>2 DEF NextKind
  <2>2. gc.at + 1 \in 0..Len(GcKinds)
    BY <1>2, GcFields, KindsAssumption
  <2>3. gc' \in GcRecord /\ gc'.pc = "read" /\ gc'.todo = {} /\ gc'.expected = gc.expected
    BY <2>1, <2>2, GcFields DEF GcRecord
  <2> QED BY <2>3 DEF Sweeps
<1> QED BY <1>1, <1>2

LEMMA NextOrphanSweeps ==
  ASSUME TypeOK, gc.pc # "idle", NEW o, gc' = NextOrphan(o)
  PROVE  Sweeps
<1>1. CASE gc.todo = {o}
  BY <1>1, NextKindSweeps DEF NextOrphan
<1>2. CASE gc.todo # {o}
  <2>1. gc' = [gc EXCEPT !.pc = "drop", !.todo = gc.todo \ {o}, !.current = NoOrphan]
    BY <1>2 DEF NextOrphan
  <2>2. gc' \in GcRecord /\ gc'.pc = "drop" /\ gc'.todo = gc.todo \ {o} /\ gc'.expected = gc.expected
    BY <2>1, GcFields DEF GcRecord
  <2> QED BY <2>2 DEF Sweeps, Listed
<1> QED BY <1>1, <1>2

\* A pass goes on to its next call with the orphan at hand.
LEMMA SamePassSweeps ==
  ASSUME TypeOK, OrphanInv, NEW pc \in {"reload", "store"},
         gc.pc \in {"unregister", "reload"}, gc' = [gc EXCEPT !.pc = pc]
  PROVE  Sweeps
<1>1. gc' \in GcRecord /\ gc'.pc = pc /\ gc'.todo = gc.todo /\ gc'.expected = gc.expected
      /\ gc'.current = gc.current
  BY GcFields DEF GcRecord
<1> QED BY <1>1 DEF Sweeps, Listed, OrphanInv

LEMMA GcReadNext ==
  ASSUME TypeOK, GcRead
  PROVE  Sweeps /\ UNCHANGED <<env, inputs, cr, job, timer, cloud, registry>>
<1> DEFINE orphans == {r \in Resources : /\ KindOf[r] = GcKinds[gc.at]
                                         /\ cm.entries[r] # None
                                         /\ cm.entries[r].cr \notin gc.expected}
           list == {[name |-> r, id |-> cm.entries[r].id] : r \in orphans}
<1>1. gc.pc = "read" /\ UNCHANGED <<env, inputs, cr, job, timer, cloud, registry>>
  BY DEF GcRead
<1>2. CASE orphans = {}
  BY <1>1, <1>2, NextKindSweeps DEF GcRead
<1>3. CASE orphans # {}
  <2>1. gc' = [gc EXCEPT !.pc = "drop", !.todo = list]
    BY <1>3 DEF GcRead
  <2>2. \A r \in orphans : r \in Resources /\ cm.entries[r] \in Entries(CRs, Ids)
    BY DEF TypeOK, Table
  <2>3. \A o \in list : /\ o \in [name : Resources, id : Ids] /\ cm.entries[o.name] # None
                        /\ o.id = cm.entries[o.name].id /\ cm.entries[o.name].cr \notin gc.expected
    BY <2>2 DEF Entries
  <2> HIDE DEF list
  <2>4. list \subseteq [name : Resources, id : Ids]
    BY <2>3
  <2>5. gc' \in GcRecord /\ gc'.pc = "drop" /\ gc'.todo = list /\ gc'.expected = gc.expected
    BY <2>1, <2>4, GcFields DEF GcRecord
  <2> QED BY <1>1, <2>3, <2>5 DEF Sweeps, Listed
<1> QED BY <1>2, <1>3

LEMMA GcDropNext ==
  ASSUME TypeOK, NEW o \in gc.todo, GcDrop(o)
  PROVE  /\ Sweeps /\ alive' = alive \ {o.id}
         /\ UNCHANGED <<env, inputs, cr, job, timer, named, built, registry>>
<1>1. /\ gc.pc = "drop" /\ gc' = [gc EXCEPT !.pc = "unregister", !.current = o] /\ alive' = alive \ {o.id}
      /\ UNCHANGED <<env, inputs, cr, job, timer, named, built, registry>>
  BY DEF GcDrop
<1>2. gc' \in GcRecord /\ gc'.pc = "unregister" /\ gc'.todo = gc.todo /\ gc'.expected = gc.expected
      /\ gc'.current = o
  BY <1>1, GcFields DEF GcRecord
<1> QED BY <1>1, <1>2 DEF Sweeps, Listed

LEMMA GcCallNext ==
  ASSUME TypeOK, OrphanInv, GcUnregister \/ GcFail
  PROVE  Sweeps /\ Calls(Collector) /\ UNCHANGED <<env, inputs, cr, job, timer, cloud>>
<1>1. UNCHANGED <<env, inputs, cr, job, timer, cloud>>
  BY DEF GcUnregister, GcFail
<1>2. CASE GcUnregister
  <2>1. CASE gc.pc = "unregister" /\ Fetch(Collector, GcKinds[gc.at]) /\ gc' = [gc EXCEPT !.pc = "reload"]
    <3>1. Sweeps
      BY <2>1, SamePassSweeps
    <3>2. Calls(Collector)
      BY <2>1 DEF Calls
    <3> QED BY <1>1, <3>1, <3>2
  <2>2. CASE gc.pc = "unregister" /\ Leave(Collector) /\ gc' = NextOrphan(gc.current)
    <3>1. Sweeps
      BY <2>2, NextOrphanSweeps
    <3>2. Calls(Collector)
      BY <2>2 DEF Calls
    <3> QED BY <1>1, <3>1, <3>2
  <2>3. CASE gc.pc = "reload" /\ Reload(Collector, GcKinds[gc.at]) /\ gc' = [gc EXCEPT !.pc = "store"]
    <3>1. Sweeps
      BY <2>3, SamePassSweeps
    <3>2. Calls(Collector)
      BY <2>3 DEF Calls
    <3> QED BY <1>1, <3>1, <3>2
  <2>4. CASE gc.pc = "store" /\ Store(Collector, gc.current.name, None) /\ gc' = NextOrphan(gc.current)
    <3>1. gc.current.name \in Resources
      BY <2>4, GcFields DEF OrphanInv
    <3>2. Sweeps
      BY <2>4, NextOrphanSweeps
    <3> QED BY <1>1, <2>4, <3>1, <3>2 DEF Calls
  <2> QED BY <1>2, <2>1, <2>2, <2>3, <2>4 DEF GcUnregister
<1>3. CASE GcFail
  <2>1. Calls(Collector)
    BY <1>3 DEF GcFail, Calls
  <2>2. CASE gc.pc = "read" /\ gc' = IdleGc
    BY <1>1, <2>1, <2>2, BlankTyped DEF Sweeps, IdleGc
  <2>3. CASE gc.pc = "drop" /\ \E o \in gc.todo : gc' = NextOrphan(o)
    BY <1>1, <2>1, <2>3, NextOrphanSweeps
  <2>4. CASE gc.pc \in {"unregister", "reload", "store"} /\ gc' = NextOrphan(gc.current)
    BY <1>1, <2>1, <2>4, NextOrphanSweeps
  <2> QED BY <1>3, <2>2, <2>3, <2>4 DEF GcFail
<1> QED BY <1>2, <1>3

-----------------------------------------------------------------------------
(* The initial states, and the steps by case. *)

LEMMA InitHolds == Init => IInv
<1> SUFFICES ASSUME Init PROVE IInv
  OBVIOUS
<1>1. TypeOK
  <2>1. env \in Environments /\ inputs \in Nat /\ alive \subseteq Ids
    BY DEF Init
  <2>2. cr \in [CRs -> CrRecord] /\ job \in [CRs -> JobRecord] /\ timer \in [CRs -> TimerRecord]
        /\ gc \in GcRecord
    BY BlankTyped DEF Init
  <2>3. named \in [Ids -> Resources \cup {None}] /\ built \in [Ids -> Nat]
    BY DEF Init
  <2>4. cm \in [entries : Table, keys : SUBSET Kinds]
        /\ session \in [Actors -> [table : Table, data : Table, keys : SUBSET Kinds]]
    BY BlankTyped DEF Init, RegistryInit
  <2> QED BY <2>1, <2>2, <2>3, <2>4 DEF TypeOK
<1>2. \A c \in CRs : cr[c] = AbsentCR /\ job[c] = IdleJob /\ timer[c] = IdleTimer
  BY DEF Init
<1>3. gc.pc = "idle" /\ gc.todo = {}
  BY DEF Init, IdleGc
<1>4. OrphanInv /\ NewInv /\ NamedInv /\ AbsentInv /\ PassInv
  BY <1>2, <1>3 DEF OrphanInv, NewInv, NamedInv, NamesFit, Fits, AbsentInv, Dormant, PassInv,
                    AbsentCR, IdleJob, IdleTimer
<1>5. EntriesInv
  BY DEF Init, RegistryInit, EntriesInv, Proper, Quiet, NoEntries
<1>6. ResourceInv
  BY <1>2 DEF ResourceInv, Sound, Live, AbsentCR
<1> QED BY <1>1, <1>4, <1>5, <1>6 DEF IInv, TInv

LEMMA StepCases ==
  ASSUME Next
  PROVE  \/ \E c \in CRs : \/ UserCreates(c) \/ UserEdits(c) \/ UserDeletes(c) \/ BeginHandler(c)
                           \/ Ensure(c) \/ Modify(c) \/ Drop(c) \/ Registers(c) \/ Patch(c) \/ Release(c)
                           \/ StartTimer(c) \/ Query(c) \/ PatchTimer(c) \/ GcStart(c)
         \/ GcRead
         \/ \E o \in gc.todo : GcDrop(o)
         \/ GcUnregister \/ GcFail
         \/ OperatorRestart
         \/ \E p \in Ids : AdminDeletes(p)
  BY DEF Next, User, Work, Registers, Timer, GcPass

-----------------------------------------------------------------------------
(* Types are kept. *)

LEMMA ActsTyped ==
  ASSUME TInv, NEW c \in CRs, Acts(c), gc' = gc,
         named' \in [Ids -> Resources \cup {None}], built' \in [Ids -> Nat], alive' \subseteq Ids,
         cm' \in [entries : Table, keys : SUBSET Kinds],
         session' \in [Actors -> [table : Table, data : Table, keys : SUBSET Kinds]],
         job'[c].pc \in {"register", "reload", "store"} => job'[c].new # None
  PROVE  TInv'
<1>1. TypeOK'
  BY TypeSplit, TypeSplitNext DEF TInv, Acts
<1>2. OrphanInv'
  BY DEF TInv, OrphanInv
<1>3. NewInv'
  BY DEF TInv, NewInv, Acts, Others
<1> QED BY <1>1, <1>2, <1>3 DEF TInv

LEMMA StillTyped ==
  ASSUME TInv, NEW c \in CRs, Acts(c), UNCHANGED <<gc, cloud, registry>>,
         job'[c].pc \in {"register", "reload", "store"} => job'[c].new # None
  PROVE  TInv'
<1>1. gc' = gc /\ named' = named /\ built' = built /\ alive' = alive /\ cm' = cm /\ session' = session
  BY DEF cloud, registry
<1> QED BY <1>1, ActsTyped, TypeSplit DEF TInv

LEMMA GcTyped ==
  ASSUME TInv, UNCHANGED <<env, inputs, cr, job, timer, named, built>>, alive' \subseteq Ids,
         cm' \in [entries : Table, keys : SUBSET Kinds],
         session' \in [Actors -> [table : Table, data : Table, keys : SUBSET Kinds]],
         gc' \in GcRecord, gc'.pc \in {"unregister", "reload", "store"} => gc'.current \in gc'.todo
  PROVE  TInv'
<1>1. TypeOK'
  BY TypeSplit, TypeSplitNext DEF TInv
<1> QED BY <1>1 DEF TInv, OrphanInv, NewInv

LEMMA TypesStep ==
  ASSUME IInv, Next
  PROVE  TInv'
<1> USE DEF IInv
<1>1. TypeOK /\ TInv /\ NewInv
  BY DEF TInv
<1>2. /\ named \in [Ids -> Resources \cup {None}] /\ built \in [Ids -> Nat] /\ alive \subseteq Ids
      /\ cm \in [entries : Table, keys : SUBSET Kinds]
      /\ session \in [Actors -> [table : Table, data : Table, keys : SUBSET Kinds]]
  BY <1>1, TypeSplit
<1>3. ASSUME NEW c \in CRs, UserCreates(c) PROVE TInv'
  BY <1>1, <1>3, UserCreatesNext, StillTyped DEF SameJob, NewInv
<1>4. ASSUME NEW c \in CRs, UserEdits(c) PROVE TInv'
  BY <1>1, <1>4, UserEditsNext, StillTyped DEF SameJob, NewInv
<1>5. ASSUME NEW c \in CRs, UserDeletes(c) PROVE TInv'
  BY <1>1, <1>5, UserDeletesNext, StillTyped DEF SameJob, NewInv
<1>6. ASSUME NEW c \in CRs, BeginHandler(c) PROVE TInv'
  BY <1>1, <1>6, BeginHandlerNext, StillTyped DEF Starts
<1>7. ASSUME NEW c \in CRs, Ensure(c) PROVE TInv'
  <2>1. Acts(c) /\ Grows /\ UNCHANGED <<gc, registry>> /\ job'[c].pc \in {"register", "patch"}
        /\ (job'[c].pc = "register" => job'[c].new \in alive')
    BY <1>1, <1>7, EnsureNext
  <2>2. job'[c].pc \in {"register", "reload", "store"} => job'[c].new # None
    BY <2>1, NoneAssumption DEF Grows
  <2> QED BY <1>1, <1>2, <2>1, <2>2, ActsTyped DEF Grows, registry
<1>8. ASSUME NEW c \in CRs, Modify(c) PROVE TInv'
  BY <1>1, <1>8, ModifyNext, StillTyped DEF Goes, cloud
<1>9. ASSUME NEW c \in CRs, Drop(c) PROVE TInv'
  BY <1>1, <1>2, <1>9, DropNext, ActsTyped DEF Goes, registry
<1>10. ASSUME NEW c \in CRs, Registers(c) PROVE TInv'
  <2>1. Advances(c) /\ UNCHANGED <<gc, cloud>> /\ Calls(c)
    BY <1>1, <1>10, RegistersNext, RegistersCalls
  <2>2. Acts(c) /\ (job'[c].pc \in {"register", "reload", "store"} => job'[c].new # None)
    BY <1>1, <2>1 DEF Advances, Goes, Holds, NewInv
  <2>3. cm' \in [entries : Table, keys : SUBSET Kinds]
        /\ session' \in [Actors -> [table : Table, data : Table, keys : SUBSET Kinds]]
    BY <1>1, <2>1, CallsTyped DEF Actors
  <2> QED BY <1>1, <1>2, <2>1, <2>2, <2>3, ActsTyped DEF cloud
<1>11. ASSUME NEW c \in CRs, Patch(c) PROVE TInv'
  BY <1>1, <1>11, PatchNext, StillTyped DEF IdleJob
<1>12. ASSUME NEW c \in CRs, Release(c) PROVE TInv'
  BY <1>1, <1>12, ReleaseNext, StillTyped DEF IdleJob
<1>13. ASSUME NEW c \in CRs, StartTimer(c) \/ Query(c) \/ PatchTimer(c) PROVE TInv'
  BY <1>1, <1>13, StartTimerNext, QueryNext, PatchTimerNext, StillTyped DEF SameJob, NewInv
<1>14. ASSUME NEW c \in CRs, GcStart(c) PROVE TInv'
  BY <1>1, <1>2, <1>14, GcStartNext, GcTyped DEF cloud, registry
<1>15. CASE GcRead
  BY <1>1, <1>2, <1>15, GcReadNext, GcTyped DEF cloud, registry, Sweeps
<1>16. ASSUME NEW o \in gc.todo, GcDrop(o) PROVE TInv'
  BY <1>1, <1>2, <1>16, GcDropNext, GcTyped DEF registry, Sweeps
<1>17. CASE GcUnregister \/ GcFail
  <2>1. Sweeps /\ Calls(Collector) /\ UNCHANGED <<env, inputs, cr, job, timer, cloud>>
    BY <1>1, <1>17, GcCallNext DEF TInv
  <2>2. cm' \in [entries : Table, keys : SUBSET Kinds]
        /\ session' \in [Actors -> [table : Table, data : Table, keys : SUBSET Kinds]]
    BY <1>1, <2>1, CallsTyped DEF Actors
  <2> QED BY <1>1, <1>2, <2>1, <2>2, GcTyped DEF cloud, Sweeps
<1>18. CASE OperatorRestart
  <2>1. /\ job' = [c \in CRs |-> IdleJob] /\ timer' = [c \in CRs |-> IdleTimer] /\ gc' = IdleGc
        /\ session' = [a \in Actors |-> Quiet] /\ UNCHANGED <<env, inputs, cr, cloud, cm>>
    BY <1>18 DEF OperatorRestart
  <2>2. TypeOK'
    BY <1>1, <2>1, BlankTyped, TypeSplit, TypeSplitNext DEF cloud
  <2>3. OrphanInv' /\ NewInv'
    BY <2>1 DEF OrphanInv, NewInv, IdleGc, IdleJob
  <2> QED BY <2>2, <2>3 DEF TInv
<1>19. ASSUME NEW p \in Ids, AdminDeletes(p) PROVE TInv'
  BY <1>1, <1>19, TypeSplit, TypeSplitNext DEF AdminDeletes, registry, TInv, OrphanInv, NewInv
<1> QED BY <1>3, <1>4, <1>5, <1>6, <1>7, <1>8, <1>9, <1>10, <1>11, <1>12, <1>13, <1>14, <1>15, <1>16,
           <1>17, <1>18, <1>19, StepCases

-----------------------------------------------------------------------------
(* Entries stay proper. *)

\* Resources keep the names that they were created with.
Named == \A p \in Ids : named[p] # None => named'[p] = named[p]

LEMMA ProperKept ==
  ASSUME TypeOK, Named, NEW e \in Table, Proper(e)
  PROVE  \A r \in Resources : e[r] # None => NameOf[e[r].cr] = r /\ named'[e[r].id] = r
<1>1. \A r \in Resources : e[r] # None => e[r].id \in Ids
  BY DEF Table, Entries
<1> QED BY <1>1, NoneAssumption DEF Named, Proper

LEMMA TablesProper ==
  ASSUME NEW e, Proper(e), NEW k
  PROVE  Proper(Tables(e, k))
  BY DEF Proper, Tables

LEMMA QuietProper == Proper(Quiet.table) /\ Proper(Quiet.data)
  BY DEF Proper, Quiet, NoEntries

LEMMA Registry ==
  ASSUME TypeOK
  PROVE  /\ cm.entries \in Table /\ session \in [Actors -> [table : Table, data : Table, keys : SUBSET Kinds]]
         /\ \A a \in Actors : session[a].table \in Table /\ session[a].data \in Table
  BY DEF TypeOK

LEMMA EntriesKept ==
  ASSUME TypeOK, EntriesInv, Named, UNCHANGED registry
  PROVE  EntriesInv'
<1>1. cm' = cm /\ session' = session
  BY DEF registry
<1>2. Proper(cm.entries) /\ \A a \in Actors : Proper(session[a].table) /\ Proper(session[a].data)
  BY DEF EntriesInv
<1>3. Proper(cm.entries)'
  BY <1>1, <1>2, Registry, ProperKept DEF Proper
<1>4. ASSUME NEW a \in Actors
      PROVE  Proper(session[a].table)' /\ Proper(session[a].data)'
  <2>1. \A r \in Resources : session[a].table[r] # None
          => NameOf[session[a].table[r].cr] = r /\ named'[session[a].table[r].id] = r
    BY <1>2, Registry, ProperKept
  <2>2. \A r \in Resources : session[a].data[r] # None
          => NameOf[session[a].data[r].cr] = r /\ named'[session[a].data[r].id] = r
    BY <1>2, Registry, ProperKept
  <2> QED BY <1>1, <2>1, <2>2 DEF Proper
<1> QED BY <1>3, <1>4 DEF EntriesInv

LEMMA EntriesCalls ==
  ASSUME TypeOK, EntriesInv, NEW a \in Actors, Calls(a), named' = named
  PROVE  EntriesInv'
<1>1. Proper(cm.entries) /\ \A b \in Actors : Proper(session[b].table) /\ Proper(session[b].data)
  BY DEF EntriesInv
<1> DEFINE Read(b) == Proper(session[b].table)' /\ Proper(session[b].data)'
<1>2. ASSUME NEW k, Fetch(a, k)
      PROVE  EntriesInv'
  <2>1. PICK y : y = Tables(cm.entries, {k})
    OBVIOUS
  <2>2. Proper(y)
    BY <1>1, <2>1, TablesProper
  <2>3. cm' = cm /\ session'[a].table = y /\ session'[a].data = NoEntries
        /\ \A b \in Actors \ {a} : session'[b] = session[b]
    BY <1>2, <2>1, Registry DEF Fetch, Quiet
  <2>4. Proper(cm.entries)' /\ \A b \in Actors : Read(b)
    BY <1>1, <2>2, <2>3, QuietProper DEF Proper, NoEntries
  <2> QED BY <2>4 DEF EntriesInv
<1>3. ASSUME NEW k, Reload(a, k)
      PROVE  EntriesInv'
  <2>1. PICK y : y = Tables(cm.entries, cm.keys \ {k})
    OBVIOUS
  <2>2. Proper(y)
    BY <1>1, <2>1, TablesProper
  <2>3. cm' = cm /\ session'[a].table = session[a].table /\ session'[a].data = y
        /\ \A b \in Actors \ {a} : session'[b] = session[b]
    BY <1>3, <2>1, Registry DEF Reload
  <2>4. Proper(cm.entries)' /\ \A b \in Actors : Read(b)
    BY <1>1, <2>2, <2>3 DEF Proper
  <2> QED BY <2>4 DEF EntriesInv
<1>4. ASSUME NEW r \in Resources, NEW e \in Entries(CRs, Ids) \cup {None},
             Store(a, r, e), e # None => NameOf[e.cr] = r /\ named[e.id] = r
      PROVE  EntriesInv'
  <2>1. /\ session' = [session EXCEPT ![a] = Quiet]
        /\ cm'.entries = [s \in Resources |->
             IF s = r THEN e
             ELSE CASE KindOf[s] = KindOf[r] -> session[a].table[s]
                    [] KindOf[s] \in session[a].keys -> session[a].data[s]
                    [] OTHER -> cm.entries[s]]
    BY <1>4 DEF Store
  <2>2. ASSUME NEW s \in Resources
        PROVE  cm'.entries[s] \in {e, session[a].table[s], session[a].data[s], cm.entries[s]}
               /\ (s # r => cm'.entries[s] \in {session[a].table[s], session[a].data[s], cm.entries[s]})
               /\ (s = r => cm'.entries[s] = e)
    <3>1. CASE KindOf[s] = KindOf[r]
      BY <2>1, <3>1
    <3>2. CASE KindOf[s] # KindOf[r] /\ KindOf[s] \in session[a].keys
      BY <2>1, <3>2
    <3>3. CASE KindOf[s] # KindOf[r] /\ KindOf[s] \notin session[a].keys
      BY <2>1, <3>3
    <3> QED BY <3>1, <3>2, <3>3
  <2>3. Proper(cm.entries)'
    BY <1>1, <1>4, <2>2 DEF Proper
  <2>4. session'[a] = Quiet /\ \A b \in Actors \ {a} : session'[b] = session[b]
    BY <2>1, Registry
  <2>5. \A b \in Actors : Read(b)
    BY <1>1, <2>4, QuietProper DEF Proper
  <2> QED BY <2>3, <2>5 DEF EntriesInv
<1>5. CASE Leave(a)
  <2>1. cm' = cm /\ session'[a] = Quiet /\ \A b \in Actors \ {a} : session'[b] = session[b]
    BY <1>5, Registry DEF Leave
  <2>2. Proper(cm.entries)' /\ \A b \in Actors : Read(b)
    BY <1>1, <2>1, QuietProper DEF Proper
  <2> QED BY <2>2 DEF EntriesInv
<1> QED BY <1>2, <1>3, <1>4, <1>5 DEF Calls

\* No step takes a name from a resource.
LEMMA NamesStay ==
  ASSUME IInv, Next
  PROVE  Named
<1>1. TypeOK
  BY DEF IInv, TInv
<1>2. ASSUME NEW c \in CRs, Ensure(c) PROVE Named
  BY <1>1, <1>2, EnsureNext DEF Grows, Named
<1>3. \/ named' = named
      \/ \E c \in CRs : Ensure(c)
  BY <1>1, StepCases DEF UserCreates, UserEdits, UserDeletes, BeginHandler, BeginCreate, BeginUpdate,
     BeginDelete, Begin, Modify, Drop, Registers, FetchRegistry, ReloadRegistry, StoreRegistry, FailCall,
     Patch, Release, StartTimer, Query, PatchTimer, GcStart, GcRead, GcDrop, GcUnregister, GcFail,
     OperatorRestart, AdminDeletes, cloud
<1> QED BY <1>2, <1>3 DEF Named

LEMMA EntriesStep ==
  ASSUME IInv, Next
  PROVE  EntriesInv'
<1>1. TypeOK /\ TInv /\ NamedInv /\ EntriesInv /\ Named
  BY NamesStay DEF IInv, TInv
<1>2. ASSUME NEW c \in CRs, Registers(c) PROVE EntriesInv'
  BY <1>1, <1>2, RegistersNext, RegistersCalls, EntriesCalls DEF Actors, cloud
<1>3. CASE GcUnregister \/ GcFail
  BY <1>1, <1>3, GcCallNext, EntriesCalls DEF Actors, cloud, TInv
<1>4. CASE OperatorRestart
  <2>1. cm' = cm /\ named' = named /\ \A a \in Actors : session'[a] = Quiet
    BY <1>4 DEF OperatorRestart, cloud
  <2>2. Proper(cm.entries)
    BY <1>1 DEF EntriesInv
  <2>3. Proper(cm.entries)' /\ \A a \in Actors : Proper(session[a].table)' /\ Proper(session[a].data)'
    BY <2>1, <2>2, QuietProper DEF Proper
  <2> QED BY <2>3 DEF EntriesInv
<1>5. \/ UNCHANGED registry
      \/ \E c \in CRs : Registers(c)
      \/ GcUnregister \/ GcFail \/ OperatorRestart
  BY StepCases DEF UserCreates, UserEdits, UserDeletes, BeginHandler, BeginCreate, BeginUpdate,
     BeginDelete, Begin, Ensure, Modify, Drop, Patch, Release, StartTimer, Query, PatchTimer, GcStart,
     GcRead, GcDrop, AdminDeletes
<1> QED BY <1>1, <1>2, <1>3, <1>4, <1>5, EntriesKept

-----------------------------------------------------------------------------
(* Ids stay with the CRs of their names. *)

Known(c) == {cr[c].id, job[c].id, job[c].new, timer[c].id, None}
Inherits(c) ==
  /\ Acts(c)
  /\ cr'[c].id \in Known(c) /\ job'[c].id \in Known(c)
  /\ job'[c].new \in Known(c) /\ timer'[c].id \in Known(c)

LEMMA KnownFits ==
  ASSUME TypeOK, Named, NEW c \in CRs, NamesFit(c), NEW p \in Known(c), p # None
  PROVE  named'[p] = NameOf[c]
<1>1. p \in Ids /\ named[p] = NameOf[c]
  BY Fields DEF Known, NamesFit, Fits, MaybeId
<1> QED BY <1>1, NameAssumption, NoneAssumption DEF Named

LEMMA ActsNamed ==
  ASSUME TypeOK, Named, NamedInv, NEW c \in CRs, Acts(c), NamesFit(c)'
  PROVE  NamedInv'
<1>1. ASSUME NEW d \in CRs \ {c}
      PROVE  NamesFit(d)'
  <2>1. cr'[d] = cr[d] /\ job'[d] = job[d] /\ timer'[d] = timer[d]
    BY DEF Acts, Others
  <2>2. \A p \in Known(d) : p # None => named'[p] = NameOf[d]
    BY KnownFits DEF NamedInv
  <2> QED BY <2>1, <2>2 DEF NamesFit, Fits, Known
<1> QED BY <1>1 DEF NamedInv

LEMMA InheritsNamed ==
  ASSUME TypeOK, Named, NamedInv, NEW c \in CRs, Inherits(c)
  PROVE  NamedInv'
<1>1. \A p \in Known(c) : p # None => named'[p] = NameOf[c]
  BY KnownFits DEF NamedInv
<1>2. NamesFit(c)'
  BY <1>1 DEF Inherits, NamesFit, Fits
<1> QED BY <1>2, ActsNamed DEF Inherits

\* All actions of a CR but those that find or make a resource.
LEMMA InheritsNext ==
  ASSUME TypeOK, NEW c \in CRs,
         \/ UserCreates(c) \/ UserEdits(c) \/ UserDeletes(c) \/ BeginHandler(c)
         \/ Modify(c) \/ Drop(c) \/ Registers(c) \/ Patch(c) \/ Release(c)
         \/ StartTimer(c) \/ PatchTimer(c)
  PROVE  Inherits(c)
<1>1. CASE UserCreates(c)
  BY <1>1, UserCreatesNext DEF Inherits, Known, SameJob, SameTimer
<1>2. CASE UserEdits(c)
  BY <1>2, UserEditsNext DEF Inherits, Known, SameJob, SameTimer
<1>3. CASE UserDeletes(c)
  BY <1>3, UserDeletesNext DEF Inherits, Known, SameJob, SameTimer
<1>4. CASE BeginHandler(c)
  BY <1>4, BeginHandlerNext DEF Inherits, Known, Starts, SameCr, SameTimer
<1>5. CASE Modify(c)
  BY <1>5, ModifyNext DEF Inherits, Known, Goes, Holds, SameCr, SameTimer
<1>6. CASE Drop(c)
  BY <1>6, DropNext DEF Inherits, Known, Goes, Holds, SameCr, SameTimer
<1>7. CASE Registers(c)
  BY <1>7, RegistersNext DEF Inherits, Known, Advances, Goes, Holds, SameCr, SameTimer
<1>8. CASE Patch(c)
  BY <1>8, PatchNext DEF Inherits, Known, SameTimer, IdleJob
<1>9. CASE Release(c)
  BY <1>9, ReleaseNext DEF Inherits, Known, SameTimer, IdleJob, AbsentCR
<1>10. CASE StartTimer(c)
  BY <1>10, StartTimerNext DEF Inherits, Known, SameCr, SameJob
<1>11. CASE PatchTimer(c)
  BY <1>11, PatchTimerNext DEF Inherits, Known, SameJob, IdleTimer
<1> QED BY <1>1, <1>2, <1>3, <1>4, <1>5, <1>6, <1>7, <1>8, <1>9, <1>10, <1>11

\* A step that leaves the CRs and their threads alone.
Aside == cr' = cr /\ job' = job /\ timer' = timer

LEMMA AsideNext ==
  ASSUME TypeOK, OrphanInv,
         \/ \E c \in CRs : GcStart(c)
         \/ GcRead \/ (\E o \in gc.todo : GcDrop(o)) \/ GcUnregister \/ GcFail
         \/ \E p \in Ids : AdminDeletes(p)
  PROVE  Aside /\ env' = env
  BY DEF Aside, GcStart, GcRead, GcDrop, GcUnregister, GcFail, AdminDeletes

LEMMA NamedStep ==
  ASSUME IInv, Next
  PROVE  NamedInv'
<1>1. TypeOK /\ NamedInv /\ Named /\ OrphanInv
  BY NamesStay DEF IInv, TInv
<1>2. ASSUME NEW c \in CRs, Ensure(c) PROVE NamedInv'
  <2>1. \A p \in Known(c) : p # None => named'[p] = NameOf[c]
    BY <1>1, KnownFits DEF NamedInv
  <2>2. NamesFit(c)'
    BY <1>1, <1>2, <2>1, EnsureNext DEF NamesFit, Fits, Known, SameCr, SameTimer
  <2> QED BY <1>1, <1>2, <2>2, EnsureNext, ActsNamed
<1>3. ASSUME NEW c \in CRs, Query(c) PROVE NamedInv'
  <2>1. \A p \in Known(c) : p # None => named'[p] = NameOf[c]
    BY <1>1, KnownFits DEF NamedInv
  <2>2. NamesFit(c)'
    BY <1>1, <1>3, <2>1, QueryNext DEF NamesFit, Fits, Known, SameCr, SameJob, cloud
  <2> QED BY <1>1, <1>3, <2>2, QueryNext, ActsNamed
<1>4. CASE OperatorRestart
  <2>1. \A c \in CRs : cr'[c].id = cr[c].id /\ job'[c] = IdleJob /\ timer'[c] = IdleTimer
    BY <1>4 DEF OperatorRestart
  <2>2. \A c \in CRs : \A p \in Known(c) : p # None => named'[p] = NameOf[c]
    BY <1>1, KnownFits DEF NamedInv
  <2> QED BY <2>1, <2>2 DEF NamedInv, NamesFit, Fits, Known, IdleJob, IdleTimer
<1>5. CASE Aside
  <2>1. \A c \in CRs : \A p \in Known(c) : p # None => named'[p] = NameOf[c]
    BY <1>1, KnownFits DEF NamedInv
  <2> QED BY <1>5, <2>1 DEF NamedInv, NamesFit, Fits, Known, Aside
<1>6. ASSUME NEW c \in CRs, Inherits(c) PROVE NamedInv'
  BY <1>1, <1>6, InheritsNamed
<1> QED BY <1>1, <1>2, <1>3, <1>4, <1>5, <1>6, InheritsNext, AsideNext, StepCases

-----------------------------------------------------------------------------
(* Nothing runs for a CR that does not exist. *)

LEMMA ActsDormant ==
  ASSUME AbsentInv, NEW c \in CRs, Acts(c), Dormant(c)'
  PROVE  AbsentInv'
  BY DEF AbsentInv, Dormant, Acts, Others

LEMMA AbsentStep ==
  ASSUME IInv, Next
  PROVE  AbsentInv'
<1>1. TypeOK /\ AbsentInv /\ OrphanInv /\ \A c \in CRs : Dormant(c)
  BY DEF IInv, TInv, AbsentInv
<1>2. ASSUME NEW c \in CRs, UserCreates(c) \/ UserEdits(c) \/ UserDeletes(c) PROVE Dormant(c)' /\ Acts(c)
  <2>1. CASE UserCreates(c)
    BY <1>1, <2>1, UserCreatesNext DEF Dormant, SameJob, SameTimer
  <2>2. CASE UserEdits(c)
    BY <1>1, <2>2, UserEditsNext DEF Dormant, SameJob, SameTimer, Stays
  <2>3. CASE UserDeletes(c)
    BY <1>1, <2>3, UserDeletesNext DEF Dormant, SameJob, SameTimer
  <2> QED BY <1>2, <2>1, <2>2, <2>3
<1>3. ASSUME NEW c \in CRs, BeginHandler(c) PROVE Dormant(c)' /\ Acts(c)
  BY <1>1, <1>3, BeginHandlerNext DEF Dormant, SameCr, SameTimer, Starts, Live
<1>4. ASSUME NEW c \in CRs, Ensure(c) \/ Modify(c) \/ Drop(c) \/ Registers(c) PROVE Dormant(c)' /\ Acts(c)
  <2>1. Acts(c) /\ SameCr(c) /\ SameTimer(c) /\ job[c].pc # "idle"
    BY <1>1, <1>4, EnsureNext, ModifyNext, DropNext, RegistersNext DEF Goes, Advances
  <2> QED BY <1>1, <2>1 DEF Dormant, SameCr, SameTimer
<1>5. ASSUME NEW c \in CRs, Patch(c) \/ Release(c) PROVE Dormant(c)' /\ Acts(c)
  <2>1. CASE Patch(c)
    BY <1>1, <2>1, PatchNext DEF Dormant, SameTimer, Stays, IdleJob
  <2>2. CASE Release(c)
    BY <1>1, <2>2, ReleaseNext DEF Dormant, SameTimer, IdleJob, AbsentCR
  <2> QED BY <1>5, <2>1, <2>2
<1>6. ASSUME NEW c \in CRs, StartTimer(c) \/ Query(c) \/ PatchTimer(c) PROVE Dormant(c)' /\ Acts(c)
  <2>1. CASE StartTimer(c)
    BY <1>1, <2>1, StartTimerNext DEF Dormant, SameCr, SameJob, Live
  <2>2. CASE Query(c)
    BY <1>1, <2>2, QueryNext DEF Dormant, SameCr, SameJob
  <2>3. CASE PatchTimer(c)
    BY <1>1, <2>3, PatchTimerNext DEF Dormant, SameJob, Stays, IdleTimer
  <2> QED BY <1>6, <2>1, <2>2, <2>3
<1>7. CASE OperatorRestart
  BY <1>1, <1>7 DEF OperatorRestart, AbsentInv, Dormant, IdleJob, IdleTimer
<1>8. CASE Aside
  BY <1>1, <1>8 DEF Aside, AbsentInv, Dormant
<1> QED BY <1>1, <1>2, <1>3, <1>4, <1>5, <1>6, <1>7, <1>8, ActsDormant, AsideNext, StepCases

-----------------------------------------------------------------------------
(* The collector. *)

\* The orphans on the list keep what is said of them.
LEMMA OrphansKept ==
  ASSUME TypeOK, Named, PassInv, NEW o \in gc.todo
  PROVE  named'[o.id] = o.name /\ \E c \in CRs \ gc.expected : NameOf[c] = o.name
<1>1. o.name \in Resources /\ o.id \in Ids
  BY GcFields
<1> QED BY <1>1, NoneAssumption DEF PassInv, Named

\* A step that leaves the pass alone keeps the invariant if it does nothing for the CRs
\* that the pass does not expect.
LEMMA ActsPass ==
  ASSUME TypeOK, Named, PassInv, NEW c \in CRs, Acts(c), gc' = gc,
         gc.pc # "idle" /\ Untouched(c) => Untouched(c)'
  PROVE  PassInv'
<1>1. gc'.pc # "idle" => \A d \in CRs \ gc'.expected : Untouched(d)'
  BY DEF PassInv, Untouched, Acts, Others
<1> QED BY <1>1, OrphansKept DEF PassInv

LEMMA SweepsPass ==
  ASSUME TypeOK, EntriesInv, PassInv, Sweeps, Aside, named' = named
  PROVE  PassInv'
<1>1. gc'.pc # "idle" => \A d \in CRs \ gc'.expected : Untouched(d)'
  BY DEF PassInv, Sweeps, Aside, Untouched
<1>2. ASSUME NEW o \in gc'.todo
      PROVE  named'[o.id] = o.name /\ \E c \in CRs \ gc'.expected : NameOf[c] = o.name
  <2>1. gc'.expected = gc.expected /\ gc'.pc # "idle"
    BY <1>2 DEF Sweeps
  <2>2. CASE o \in gc.todo
    BY <2>1, <2>2 DEF PassInv
  <2>3. CASE /\ cm.entries[o.name] # None /\ o.id = cm.entries[o.name].id
             /\ cm.entries[o.name].cr \notin gc.expected
    <3>1. o.name \in Resources
      BY <1>2 DEF Sweeps, GcRecord
    <3>2. cm.entries[o.name].cr \in CRs
      BY <2>3, <3>1, Registry DEF Table, Entries
    <3>3. NameOf[cm.entries[o.name].cr] = o.name /\ named[o.id] = o.name
      BY <2>3, <3>1 DEF EntriesInv, Proper
    <3> QED BY <2>1, <2>3, <3>2, <3>3
  <2> QED BY <1>2, <2>2, <2>3 DEF Sweeps, Listed
<1> QED BY <1>1, <1>2 DEF PassInv, Sweeps

LEMMA PassStep ==
  ASSUME IInv, Next
  PROVE  PassInv'
<1>1. TypeOK /\ OrphanInv /\ EntriesInv /\ PassInv /\ Named /\ AbsentInv /\ TInv
  BY NamesStay DEF IInv, TInv
<1>2. ASSUME NEW c \in CRs, UserCreates(c) \/ UserEdits(c) \/ UserDeletes(c) PROVE PassInv'
  <2>1. Acts(c) /\ gc' = gc /\ SameJob(c) /\ SameTimer(c) /\ (cr[c].id = None => cr'[c].id = None)
    BY <1>1, <1>2, UserCreatesNext, UserEditsNext, UserDeletesNext
  <2> QED BY <1>1, <2>1, ActsPass DEF Untouched, SameJob, SameTimer
<1>3. ASSUME NEW c \in CRs, BeginHandler(c) PROVE PassInv'
  BY <1>1, <1>3, BeginHandlerNext, ActsPass DEF EventLoopFree
<1>4. ASSUME NEW c \in CRs, Ensure(c) \/ Modify(c) \/ Drop(c) \/ Registers(c) PROVE PassInv'
  <2>1. Acts(c) /\ gc' = gc /\ job[c].pc # "idle"
    BY <1>1, <1>4, EnsureNext, ModifyNext, DropNext, RegistersNext DEF Goes, Advances
  <2> QED BY <1>1, <2>1, ActsPass DEF Untouched
<1>5. ASSUME NEW c \in CRs, Patch(c) \/ Release(c) \/ StartTimer(c) \/ PatchTimer(c) PROVE PassInv'
  <2>1. Acts(c) /\ gc' = gc /\ gc.pc = "idle"
    BY <1>1, <1>5, PatchNext, ReleaseNext, StartTimerNext, PatchTimerNext DEF EventLoopFree
  <2> QED BY <1>1, <2>1, ActsPass
<1>6. ASSUME NEW c \in CRs, Query(c) PROVE PassInv'
  BY <1>1, <1>6, QueryNext, ActsPass DEF Untouched
<1>7. ASSUME NEW c \in CRs, GcStart(c) PROVE PassInv'
  BY <1>1, <1>7, GcStartNext DEF PassInv, Untouched, AbsentInv, Dormant
<1>8. CASE GcRead \/ (\E o \in gc.todo : GcDrop(o)) \/ GcUnregister \/ GcFail
  <2>1. Sweeps /\ named' = named
    BY <1>1, <1>8, GcReadNext, GcDropNext, GcCallNext DEF cloud
  <2> QED BY <1>1, <1>8, <2>1, AsideNext, SweepsPass
<1>9. CASE OperatorRestart
  BY <1>9 DEF OperatorRestart, PassInv, IdleGc
<1>10. ASSUME NEW p \in Ids, AdminDeletes(p) PROVE PassInv'
  BY <1>1, <1>10 DEF AdminDeletes, PassInv, Untouched
<1> QED BY <1>2, <1>3, <1>4, <1>5, <1>6, <1>7, <1>8, <1>9, <1>10, StepCases

\* The collector's list has nothing that belongs to a CR.
LEMMA Spared ==
  ASSUME TypeOK, NamedInv, PassInv, NEW o \in gc.todo, NEW c \in CRs
  PROVE  /\ cr[c].id # o.id
         /\ job[c].pc # "idle" => job[c].id # o.id /\ job[c].new # o.id
         /\ timer[c].pc # "idle" => timer[c].id # o.id
<1>1. PICK d \in CRs \ gc.expected : NameOf[d] = o.name
  BY DEF PassInv
<1>2. gc.pc # "idle" /\ Untouched(d) /\ named[o.id] = o.name /\ o.id # None
  BY <1>1, GcFields, NoneAssumption DEF PassInv
<1>3. CASE c = d
  BY <1>2, <1>3 DEF Untouched
<1>4. CASE c # d
  <2>1. NameOf[c] # NameOf[d]
    BY <1>4, NameAssumption
  <2> QED BY <1>1, <1>2, <2>1 DEF NamedInv, NamesFit, Fits
<1> QED BY <1>3, <1>4

LEMMA ImpliesSpares == IInv => GcSparesClaimed
  BY Spared DEF IInv, TInv, GcSparesClaimed

-----------------------------------------------------------------------------
(* What a CR and its threads hold exists, or the replacement is due. *)

\* The resources of the name of a CR are still there.
Spares(c) == \A p \in alive : named[p] = NameOf[c] => p \in alive'

LEMMA SoundKept ==
  ASSUME TypeOK, NamedInv, NEW c \in CRs, Sound(c), Spares(c),
         cr'[c] = cr[c], job'[c] = job[c], timer'[c] = timer[c]
  PROVE  Sound(c)'
<1>1. \A p \in {cr[c].id, job[c].id, job[c].new, timer[c].id} : p # None /\ p \in alive => p \in alive'
  BY DEF NamedInv, NamesFit, Fits, Spares
<1>2. Live(c)' = Live(c) /\ Due(c)' = Due(c)
  BY DEF Live, Due
<1> HIDE DEF Live, Due
<1>3. ASSUME Live(c) PROVE (Recorded(c) /\ Working(c) /\ Found(c))'
  <2>1. Recorded(c) /\ Working(c) /\ Found(c)
    BY <1>3 DEF Sound
  <2>2. None \notin alive
    BY NoneAssumption DEF TypeOK
  <2> QED BY <1>1, <1>2, <2>1, <2>2 DEF Recorded, Working, Found
<1> QED BY <1>2, <1>3 DEF Sound

LEMMA ActsSound ==
  ASSUME IInv, NEW c \in CRs, Acts(c), \A d \in CRs \ {c} : Spares(d),
         faults \cap {"admin", "lag"} = {} => Sound(c)'
  PROVE  ResourceInv'
<1>1. faults' = faults
  BY DEF Acts, faults
<1>2. ASSUME faults \cap {"admin", "lag"} = {}, NEW d \in CRs \ {c}
      PROVE  Sound(d)'
  BY <1>2, SoundKept DEF IInv, TInv, ResourceInv, Acts, Others
<1> QED BY <1>1, <1>2 DEF ResourceInv

LEMMA StillSound ==
  ASSUME IInv, NEW c \in CRs, Acts(c), UNCHANGED cloud,
         faults \cap {"admin", "lag"} = {} => Sound(c)'
  PROVE  ResourceInv'
<1>1. \A d \in CRs : Spares(d)
  BY DEF Spares, cloud
<1> QED BY <1>1, ActsSound

LEMMA UsersSound ==
  ASSUME TypeOK, AbsentInv, NEW c \in CRs, Sound(c), alive' = alive,
         UserCreates(c) \/ UserEdits(c) \/ UserDeletes(c)
  PROVE  Sound(c)'
<1>1. CASE UserCreates(c)
  <2>1. job'[c].pc = "idle" /\ timer'[c].pc = "idle" /\ cr'[c].id = None
    BY <1>1, UserCreatesNext DEF AbsentInv, Dormant, SameJob, SameTimer
  <2> QED BY <2>1 DEF Sound, Recorded, Working, Found
<1>2. CASE UserEdits(c)
  <2>1. /\ Live(c) /\ cr'[c].id = cr[c].id /\ cr'[c].phase = cr[c].phase
        /\ cr'[c].handled = cr[c].handled /\ cr'[c].gen = cr[c].gen + 1
        /\ cr'[c].immutable \in {cr[c].immutable, cr[c].gen + 1}
        /\ job'[c] = job[c] /\ timer'[c] = timer[c]
    BY <1>2, UserEditsNext DEF SameJob, SameTimer
  <2>2. Due(c) => Due(c)'
    BY <2>1, Fields DEF Due
  <2>3. Recorded(c) /\ Working(c) /\ Found(c)
    BY <2>1 DEF Sound
  <2> QED BY <2>1, <2>2, <2>3 DEF Sound, Recorded, Working, Found
<1>3. CASE UserDeletes(c)
  BY <1>3, UserDeletesNext DEF Sound, Live
<1> QED BY <1>1, <1>2, <1>3

LEMMA BeginSound ==
  ASSUME TypeOK, NEW c \in CRs, Sound(c), alive' = alive, BeginHandler(c), "lag" \notin faults
  PROVE  Sound(c)'
<1>1. /\ Starts(c) /\ cr'[c] = cr[c] /\ timer'[c] = timer[c] /\ timer[c].pc # "patch"
  BY BeginHandlerNext DEF SameCr, SameTimer
<1>2. Live(c)' = Live(c) /\ Due(c)' = Due(c)
  BY <1>1 DEF Live, Due
<1>3. ASSUME Live(c) PROVE (Recorded(c) /\ Working(c) /\ Found(c))'
  <2>1. Recorded(c) /\ Found(c)
    BY <1>3 DEF Sound
  <2>2. (Recorded(c) /\ Found(c))'
    BY <1>1, <1>2, <2>1 DEF Recorded, Found
  <2>3. ~cr[c].deleting
    BY <1>3 DEF Live
  <2>4. CASE job'[c].pc = "ensure" /\ job'[c].id = None /\ ~job'[c].deletes
    BY <2>2, <2>4 DEF Working
  <2>5. CASE /\ job'[c].pc = "drop" /\ job'[c].id = cr[c].id /\ cr[c].id # None
             /\ ~job'[c].deletes /\ Due(c)
    BY <1>1, <1>2, <2>2, <2>5 DEF Working
  <2>6. CASE /\ job'[c].pc = "modify" /\ job'[c].id = cr[c].id /\ cr[c].id # None
             /\ ~job'[c].deletes /\ ~Due(c)
    <3>1. job'[c].id \in alive
      BY <2>1, <2>6 DEF Recorded
    <3> QED BY <1>1, <2>2, <2>6, <3>1 DEF Working
  <2> QED BY <1>1, <2>3, <2>4, <2>5, <2>6 DEF Starts
<1> QED BY <1>2, <1>3 DEF Sound

LEMMA EnsureSound ==
  ASSUME TypeOK, NEW c \in CRs, Sound(c), Ensure(c)
  PROVE  Sound(c)'
<1>1. /\ job[c].pc = "ensure" /\ job'[c].id = job[c].id /\ job'[c].deletes = job[c].deletes
      /\ \/ job'[c].pc = "register" /\ job'[c].new \in alive'
         \/ job'[c].pc = "patch" /\ ~job'[c].ok
      /\ cr'[c] = cr[c] /\ timer'[c] = timer[c] /\ alive \subseteq alive'
  BY EnsureNext DEF SameCr, SameTimer, Grows
<1>2. Live(c)' = Live(c) /\ Due(c)' = Due(c)
  BY <1>1 DEF Live, Due
<1> QED BY <1>1, <1>2 DEF Sound, Recorded, Working, Found

LEMMA ModifySound ==
  ASSUME TypeOK, NEW c \in CRs, Sound(c), Modify(c)
  PROVE  Sound(c)'
<1>1. /\ job[c].pc = "modify" /\ job'[c].pc = "patch" /\ job'[c].id = job[c].id
      /\ job'[c].deletes = job[c].deletes
      /\ cr'[c] = cr[c] /\ timer'[c] = timer[c] /\ alive' = alive
  BY ModifyNext DEF Goes, Holds, SameCr, SameTimer
<1>2. Live(c)' = Live(c) /\ Due(c)' = Due(c)
  BY <1>1 DEF Live, Due
<1> QED BY <1>1, <1>2 DEF Sound, Recorded, Working, Found

\* The old resource goes: the update that replaces it is due, and what the timer has found
\* meanwhile is another.
LEMMA DropSound ==
  ASSUME TypeOK, NEW c \in CRs, Sound(c), Drop(c)
  PROVE  Sound(c)'
<1>1. /\ job[c].pc = "drop" /\ job'[c].pc = "unregister" /\ job'[c].id = job[c].id
      /\ job'[c].deletes = job[c].deletes
      /\ cr'[c] = cr[c] /\ timer'[c] = timer[c] /\ alive' = alive \ {job[c].id}
  BY DropNext DEF Goes, Holds, SameCr, SameTimer
<1>2. Live(c)' = Live(c) /\ Due(c)' = Due(c)
  BY <1>1 DEF Live, Due
<1>3. ASSUME Live(c) PROVE (Recorded(c) /\ Working(c) /\ Found(c))'
  <2>1. Recorded(c) /\ Working(c) /\ Found(c)
    BY <1>3 DEF Sound
  <2>2. Due(c) /\ ~job[c].deletes
    BY <1>1, <2>1 DEF Working
  <2>3. timer[c].pc = "patch" => timer[c].id # job[c].id
    BY <1>1, <2>1 DEF Working
  <2>4. Found(c)'
    BY <1>1, <2>1, <2>3 DEF Found
  <2> QED BY <1>1, <1>2, <2>2, <2>4 DEF Recorded, Working
<1> QED BY <1>2, <1>3 DEF Sound

LEMMA RegistersSound ==
  ASSUME TypeOK, NEW c \in CRs, Sound(c), Registers(c)
  PROVE  Sound(c)'
<1>1. Advances(c) /\ cr'[c] = cr[c] /\ timer'[c] = timer[c] /\ alive' = alive
  BY RegistersNext DEF Advances, Goes, SameCr, SameTimer, cloud
<1>2. Live(c)' = Live(c) /\ Due(c)' = Due(c)
  BY <1>1 DEF Live, Due
<1>3. ASSUME Live(c) PROVE (Recorded(c) /\ Working(c) /\ Found(c))'
  <2>1. Recorded(c) /\ Working(c) /\ Found(c)
    BY <1>3 DEF Sound
  <2>2. (Recorded(c) /\ Found(c))'
    BY <1>1, <1>2, <2>1 DEF Recorded, Found
  <2>3. Working(c)'
    BY <1>1, <1>2, <2>1 DEF Advances, Goes, Holds, Working
  <2> QED BY <2>2, <2>3
<1> QED BY <1>2, <1>3 DEF Sound

LEMMA PatchSound ==
  ASSUME TypeOK, NEW c \in CRs, Sound(c), alive' = alive, Patch(c)
  PROVE  Sound(c)'
<1>1. /\ job[c].pc = "patch" /\ Stays(c) /\ job'[c].pc = "idle" /\ timer'[c] = timer[c]
      /\ cr'[c].id = (IF job[c].id # None THEN job[c].id ELSE cr[c].id)
      /\ cr'[c].gen = cr[c].gen /\ cr'[c].immutable = cr[c].immutable
      /\ ~job[c].ok => cr'[c].handled = cr[c].handled
  BY PatchNext DEF IdleJob, SameTimer
<1>2. Live(c)' = Live(c)
  BY <1>1 DEF Live, Stays
<1>3. ASSUME Live(c) PROVE (Recorded(c) /\ Working(c) /\ Found(c))'
  <2>1. Recorded(c) /\ Working(c) /\ Found(c)
    BY <1>3 DEF Sound
  <2>2. CASE job[c].ok
    <3>1. job[c].id \in alive /\ job[c].id # None
      BY <1>1, <2>1, <2>2, NoneAssumption DEF Working, TypeOK
    <3> QED BY <1>1, <2>1, <3>1 DEF Recorded, Working, Found
  <2>3. CASE ~job[c].ok
    <3>1. Due(c)' = Due(c)
      BY <1>1, <2>3 DEF Due
    <3> QED BY <1>1, <2>1, <3>1 DEF Recorded, Working, Found
  <2> QED BY <2>2, <2>3
<1> QED BY <1>2, <1>3 DEF Sound

LEMMA TimerSound ==
  ASSUME TypeOK, AbsentInv, NEW c \in CRs, Sound(c), alive' = alive,
         StartTimer(c) \/ Query(c) \/ PatchTimer(c)
  PROVE  Sound(c)'
<1>1. CASE StartTimer(c)
  <2>1. /\ timer[c].pc = "idle" /\ cr[c].phase = "Ready" /\ timer'[c].pc = "query"
        /\ cr'[c] = cr[c] /\ job'[c] = job[c]
    BY <1>1, StartTimerNext DEF SameCr, SameJob
  <2>2. Live(c)' = Live(c) /\ Due(c)' = Due(c)
    BY <2>1 DEF Live, Due
  <2> QED BY <2>1, <2>2 DEF Sound, Recorded, Working, Found
<1>2. CASE Query(c)
  <2>1. /\ timer[c].pc = "query" /\ cr'[c] = cr[c] /\ job'[c] = job[c]
        /\ \/ timer'[c].pc = "patch" /\ timer'[c].id = None
           \/ timer'[c].pc = "patch" /\ timer'[c].id \in alive /\ timer'[c].id # cr[c].id
           \/ timer'[c].pc = "idle"
    BY <1>2, QueryNext DEF SameCr, SameJob, AbsentInv, Dormant
  <2>2. Live(c)' = Live(c) /\ Due(c)' = Due(c)
    BY <2>1 DEF Live, Due
  <2> QED BY <2>1, <2>2 DEF Sound, Recorded, Working, Found
<1>3. CASE PatchTimer(c)
  <2>1. /\ timer[c].pc = "patch" /\ Stays(c) /\ cr'[c].id = timer[c].id /\ cr'[c].phase = "Pending"
        /\ timer'[c].pc = "idle" /\ job'[c] = job[c]
    BY <1>3, PatchTimerNext DEF SameJob, IdleTimer
  <2>2. Live(c)' = Live(c)
    BY <2>1 DEF Live, Stays
  <2>3. Due(c)' = Due(c)
    BY <1>3, PatchTimerNext DEF Due
  <2> QED BY <2>1, <2>2, <2>3 DEF Sound, Recorded, Working, Found
<1> QED BY <1>1, <1>2, <1>3

LEMMA ResourceStep ==
  ASSUME IInv, Next
  PROVE  ResourceInv'
<1> DEFINE Calm == faults \cap {"admin", "lag"} = {}
<1>1. TypeOK /\ TInv /\ OrphanInv /\ NamedInv /\ AbsentInv /\ PassInv /\ Named
      /\ (Calm => \A c \in CRs : Sound(c)) /\ (Calm => "lag" \notin faults /\ "admin" \notin faults)
  BY NamesStay DEF IInv, TInv, ResourceInv
<1> HIDE DEF Calm
<1>2. ASSUME NEW c \in CRs, Acts(c), UNCHANGED cloud, Calm => Sound(c)' PROVE ResourceInv'
  BY <1>2, StillSound DEF Calm
<1>3. ASSUME UNCHANGED cloud PROVE alive' = alive
  BY <1>3 DEF cloud
<1>4. ASSUME NEW c \in CRs, UserCreates(c) \/ UserEdits(c) \/ UserDeletes(c) PROVE ResourceInv'
  <2>1. Acts(c) /\ UNCHANGED cloud
    BY <1>1, <1>4, UserCreatesNext, UserEditsNext, UserDeletesNext
  <2> QED BY <1>1, <1>2, <1>3, <1>4, <2>1, UsersSound
<1>5. ASSUME NEW c \in CRs, BeginHandler(c) PROVE ResourceInv'
  <2>1. Acts(c) /\ UNCHANGED cloud
    BY <1>1, <1>5, BeginHandlerNext
  <2> QED BY <1>1, <1>2, <1>3, <1>5, <2>1, BeginSound
<1>6. ASSUME NEW c \in CRs, Ensure(c) PROVE ResourceInv'
  <2>1. Acts(c) /\ \A d \in CRs : Spares(d)
    BY <1>1, <1>6, EnsureNext DEF Grows, Spares
  <2>2. Calm => Sound(c)'
    BY <1>1, <1>6, EnsureSound
  <2> QED BY <2>1, <2>2, ActsSound DEF Calm
<1>7. ASSUME NEW c \in CRs, Modify(c) \/ Registers(c) PROVE ResourceInv'
  <2>1. Acts(c) /\ UNCHANGED cloud
    BY <1>1, <1>7, ModifyNext, RegistersNext DEF Goes, Advances, Modify
  <2> QED BY <1>1, <1>2, <1>7, <2>1, ModifySound, RegistersSound
<1>8. ASSUME NEW c \in CRs, Drop(c) PROVE ResourceInv'
  <2>1. Acts(c) /\ alive' = alive \ {job[c].id}
    BY <1>1, <1>8, DropNext DEF Goes
  <2>2. ASSUME NEW d \in CRs \ {c} PROVE Spares(d)
    <3>1. NameOf[d] # NameOf[c]
      BY NameAssumption
    <3>2. job[c].id \in alive => named[job[c].id] = NameOf[c]
      BY <1>1, NoneAssumption DEF NamedInv, NamesFit, Fits, TypeOK
    <3> QED BY <2>1, <3>1, <3>2 DEF Spares
  <2>3. Calm => Sound(c)'
    BY <1>1, <1>8, DropSound
  <2> QED BY <2>1, <2>2, <2>3, ActsSound DEF Calm
<1>9. ASSUME NEW c \in CRs, Patch(c) PROVE ResourceInv'
  <2>1. Acts(c) /\ UNCHANGED cloud
    BY <1>1, <1>9, PatchNext
  <2> QED BY <1>1, <1>2, <1>3, <1>9, <2>1, PatchSound
<1>10. ASSUME NEW c \in CRs, Release(c) PROVE ResourceInv'
  <2>1. Acts(c) /\ UNCHANGED cloud /\ ~Live(c)'
    BY <1>1, <1>10, ReleaseNext DEF Live, AbsentCR
  <2> QED BY <1>2, <2>1 DEF Sound
<1>11. ASSUME NEW c \in CRs, StartTimer(c) \/ Query(c) \/ PatchTimer(c) PROVE ResourceInv'
  <2>1. Acts(c) /\ UNCHANGED cloud
    BY <1>1, <1>11, StartTimerNext, QueryNext, PatchTimerNext
  <2> QED BY <1>1, <1>2, <1>3, <1>11, <2>1, TimerSound
<1>12. ASSUME Aside, env' = env, \A c \in CRs : Spares(c) PROVE ResourceInv'
  <2>1. Calm' = Calm
    BY <1>12 DEF Calm, faults
  <2>2. ASSUME Calm, NEW c \in CRs PROVE Sound(c)'
    BY <1>1, <1>12, <2>2, SoundKept DEF Aside
  <2> QED BY <2>1, <2>2 DEF ResourceInv, Calm
<1>13. ASSUME NEW c \in CRs, GcStart(c) PROVE ResourceInv'
  BY <1>1, <1>12, <1>13, AsideNext DEF GcStart, cloud, Spares
<1>14. CASE GcRead \/ GcUnregister \/ GcFail
  <2>1. \A c \in CRs : Spares(c)
    BY <1>14 DEF GcRead, GcUnregister, GcFail, cloud, Spares
  <2> QED BY <1>1, <1>12, <1>14, <2>1, AsideNext
<1>15. ASSUME NEW o \in gc.todo, GcDrop(o) PROVE ResourceInv'
  <2>1. alive' = alive \ {o.id} /\ Aside /\ env' = env
    BY <1>1, <1>15, GcDropNext, AsideNext
  <2>2. Calm' = Calm
    BY <2>1 DEF Calm, faults
  <2>3. ASSUME Calm, NEW c \in CRs PROVE Sound(c)'
    <3>1. /\ cr[c].id # o.id
          /\ job[c].pc # "idle" => job[c].id # o.id /\ job[c].new # o.id
          /\ timer[c].pc # "idle" => timer[c].id # o.id
      BY <1>1, Spared
    <3>2. Live(c)' = Live(c) /\ Due(c)' = Due(c)
      BY <2>1 DEF Aside, Live, Due
    <3>3. Sound(c)
      BY <1>1, <2>3
    <3> QED BY <2>1, <3>1, <3>2, <3>3 DEF Aside, Sound, Recorded, Working, Found
  <2> QED BY <2>2, <2>3 DEF ResourceInv, Calm
<1>16. CASE OperatorRestart
  <2>1. /\ cr' = cr /\ alive' = alive /\ env' = env
        /\ \A c \in CRs : job'[c].pc = "idle" /\ timer'[c].pc = "idle"
    BY <1>16 DEF OperatorRestart, cloud, IdleJob, IdleTimer
  <2>2. Calm' = Calm
    BY <2>1 DEF Calm, faults
  <2>3. ASSUME Calm, NEW c \in CRs PROVE Sound(c)'
    <3>1. Live(c)' = Live(c) /\ Due(c)' = Due(c) /\ Sound(c)
      BY <1>1, <2>1, <2>3 DEF Live, Due
    <3> QED BY <2>1, <3>1 DEF Sound, Recorded, Working, Found
  <2> QED BY <2>2, <2>3 DEF ResourceInv, Calm
<1>17. ASSUME NEW p \in Ids, AdminDeletes(p) PROVE ResourceInv'
  <2>1. "admin" \in faults /\ faults' = faults
    BY <1>17 DEF AdminDeletes, faults
  <2> QED BY <2>1 DEF ResourceInv
<1> QED BY <1>4, <1>5, <1>6, <1>7, <1>8, <1>9, <1>10, <1>11, <1>13, <1>14, <1>15, <1>16, <1>17, StepCases

-----------------------------------------------------------------------------
(* The theorems. *)

LEMMA StutterHolds ==
  ASSUME IInv, UNCHANGED vars
  PROVE  IInv'
<1>1. /\ env' = env /\ inputs' = inputs /\ cr' = cr /\ job' = job /\ timer' = timer /\ gc' = gc
      /\ named' = named /\ built' = built /\ alive' = alive /\ cm' = cm /\ session' = session
  BY DEF vars
<1>2. TInv'
  BY <1>1, TypeSplit, TypeSplitNext DEF IInv, TInv, OrphanInv, NewInv
<1>3. EntriesInv'
  BY <1>1, EntriesKept DEF IInv, TInv, Named, registry
<1>4. NamedInv' /\ AbsentInv' /\ PassInv'
  BY <1>1 DEF IInv, NamedInv, NamesFit, Fits, AbsentInv, Dormant, PassInv, Untouched
<1>5. ResourceInv'
  <2>1. \A c \in CRs : Sound(c) => Sound(c)'
    BY <1>1, SoundKept DEF IInv, TInv, Spares
  <2> QED BY <1>1, <2>1 DEF IInv, ResourceInv, faults
<1> QED BY <1>2, <1>3, <1>4, <1>5 DEF IInv

LEMMA StepHolds ==
  ASSUME IInv, [Next]_vars
  PROVE  IInv'
<1>1. CASE Next
  BY <1>1, TypesStep, EntriesStep, NamedStep, AbsentStep, PassStep, ResourceStep DEF IInv
<1> QED BY <1>1, StutterHolds

LEMMA InvariantHolds == Spec => []IInv
<1>1. IInv /\ [Next]_vars => IInv'
  BY StepHolds
<1> QED BY <1>1, InitHolds, PTL DEF Spec

\* Every variable holds a value of its type, whatever calls fail, and whenever the operator
\* restarts or somebody deletes a resource.
THEOREM TypesHold == Spec => []TypeOK
<1>1. IInv => TypeOK
  BY DEF IInv, TInv
<1> QED BY <1>1, InvariantHolds, PTL

\* The collector never has a resource on its list that a CR records or a handler is
\* providing for it, although handlers overwrite each other's entries of the registry.
THEOREM CollectorSparesClaimed == Spec => []GcSparesClaimed
BY InvariantHolds, ImpliesSpares, PTL

\* A CR that is not being deleted records a resource that exists, unless an update that
\* replaces it is due; handlers and timers may fail, be retried and interleave, but nobody
\* deletes from outside and no late patch of a timer meets a new handler.
THEOREM RecordedExist == Spec => []RecordsExist
<1>1. IInv => RecordsExist
  BY DEF IInv, ResourceInv, Sound, Recorded, Due, RecordsExist
<1> QED BY <1>1, InvariantHolds, PTL
=============================================================================
