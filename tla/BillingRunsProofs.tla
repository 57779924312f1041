-------------------------- MODULE BillingRunsProofs --------------------------
(***************************************************************************)
(* Theorems about the two parts of billing, whose specifications have      *)
(* names of their own.                                                     *)
(*                                                                         *)
(* BillingRuns: it is well typed; the CronJob bills no period of a job     *)
(* twice while endpoints do not overlap; a run that says success has       *)
(* delivered what it was to; and a run-due that is done has left no job    *)
(* out.                                                                    *)
(*                                                                         *)
(* ClusterRequests, whose rows a report is made of, at the end: it is well *)
(* typed; each worker group is charged once; a month that is over stays as *)
(* it is; and a backup project is in git when the cluster is linked to it. *)
(***************************************************************************)
EXTENDS BillingRuns, ClusterRequests, FiniteSetTheorems, TLAPS

-----------------------------------------------------------------------------
(* The inductive invariant. *)

\* At most one endpoint works.
AloneInv ==
  ~overlapped => \A e, f \in Endpoints : Busy(e) /\ Busy(f) => e = f

\* The CronJob bills months that have passed.
PastInv == \A r \in DOMAIN runs : runs[r].by = "tick" => runs[r].period <= LastPeriod

\* A run of the CronJob that holds a period of a job.
Holds(r, j, period) ==
  /\ runs[r].by = "tick" /\ runs[r].job = j /\ runs[r].period = period
  /\ runs[r].status \in {"running", "success"}

\* A period that is about to be billed is not held, although the month may have
\* changed since run_due_jobs looked for its runs.
FreshInv ==
  ~overlapped =>
    \A e \in Endpoints :
      At(e, "insert") /\ ep[e].kind = "tick" =>
        \A r \in DOMAIN runs : ~Holds(r, ep[e].job, LastPeriod)

\* A run that an endpoint works on is not decided yet.
OpenInv ==
  ~overlapped =>
    \A e \in Endpoints :
      ep[e].pc \in {"resolve", "make", "deliver"} /\ ep[e].run # NoRun
        => runs[ep[e].run].status = "running"

IInv == TypeOK /\ AloneInv /\ PastInv /\ FreshInv /\ OpenInv /\ BilledOnce

-----------------------------------------------------------------------------
(* Constants. *)

LEMMA Constants ==
  /\ JobIds \subseteq Int
  /\ Jobs \in Seq(JobIds)
  /\ Owned \in [JobIds -> Seq(Contracts)]
  /\ Month \in Nat \ {0}
  /\ LastPeriod = (now \div Month) - 1
<1>1. Jobs \in Seq(Int) /\ Owned \in [JobIds -> Seq(Contracts)]
  BY JobsAssumption DEF JobIds
<1>2. DOMAIN Jobs = 1 .. Len(Jobs) /\ Len(Jobs) \in Nat /\ \A i \in 1 .. Len(Jobs) : Jobs[i] \in Int
  BY <1>1
<1>3. JobIds = {Jobs[i] : i \in 1 .. Len(Jobs)}
  BY <1>2 DEF JobIds, Range
<1> QED BY <1>1, <1>2, <1>3, WindowAssumption DEF LastPeriod

\* The month before this one never goes back.
LEMMA MonthsPass ==
  ASSUME now \in Nat
  PROVE  /\ LastPeriod \in Int
         /\ now' = now + 1 => LastPeriod' >= LastPeriod
<1>1. Month \in Nat /\ Month > 0
  BY WindowAssumption
<1>2. ASSUME NEW a \in Nat, NEW m \in Nat, m > 0
      PROVE  a \div m \in Int /\ (a + 1) \div m >= a \div m
  BY <1>2, SMTT(30)
<1> QED BY <1>1, <1>2 DEF LastPeriod

\* The contracts of a report that is made once, in some order.
LEMMA OnceContracts == SetToSeq(Contracts) \in Seq(Contracts)
<1> DEFINE n == Cardinality(Contracts)
<1>1. n \in Nat /\ ExistsBijection(1 .. n, Contracts)
  BY ContractsAssumption, FS_CardinalityType
<1>2. PICK f \in [1 .. n -> Contracts] : \A a, b \in 1 .. n : f[a] = f[b] => a = b
  BY <1>1 DEF ExistsBijection, Bijection, Injection, IsInjective
<1>3. IsInjective(f)
  BY <1>2 DEF IsInjective
<1>4. SetToSeq(Contracts) \in [1 .. n -> Contracts]
  BY <1>2, <1>3 DEF SetToSeq
<1> QED BY <1>1, <1>4

-----------------------------------------------------------------------------
(* Types: the endpoints. *)

LEMMA SpendTyped ==
  ASSUME TypeOK, NEW act \in Acts, Spend(act)
  PROVE  budget' \in [Acts -> Nat]
  BY DEF TypeOK, Spend

\* An endpoint keeps its type while tables grow.
LEMMA EndpointsGrow ==
  ASSUME TypeOK, DOMAIN runs \subseteq DOMAIN runs', DOMAIN ticks \subseteq DOMAIN ticks'
  PROVE  \A e \in Endpoints : EndpointOK(ep[e], DOMAIN runs', DOMAIN ticks')
<1> TAKE e \in Endpoints
<1>1. EndpointOK(ep[e], DOMAIN runs, DOMAIN ticks)
  BY DEF TypeOK
<1>2. ASSUME NEW x, NEW rs, NEW ts, NEW rs2, NEW ts2, EndpointOK(x, rs, ts),
             rs \subseteq rs2, ts \subseteq ts2
      PROVE  EndpointOK(x, rs2, ts2)
  BY <1>2 DEF EndpointOK
<1> QED BY <1>1, <1>2

\* What is left to prove of a step in which one endpoint goes on.
LEMMA EndpointStep ==
  ASSUME TypeOK, NEW e \in Endpoints, NEW x, Goto(e, x),
         EndpointOK(x, DOMAIN runs', DOMAIN ticks'),
         DOMAIN runs \subseteq DOMAIN runs', DOMAIN ticks \subseteq DOMAIN ticks',
         now' \in Nat, budget' \in [Acts -> Nat], overlapped' \in BOOLEAN, job' \in [JobIds -> Row],
         runs' \in Seq(RunRecord), ticks' \in Seq(TickRecord),
         sent' \subseteq Nat \X (Contracts \cup {All})
  PROVE  TypeOK'
<1>1. x \in EndpointRecord \cup {Idle}
  BY DEF EndpointOK
<1>2. ep \in [Endpoints -> EndpointRecord \cup {Idle}] /\ ep' = [ep EXCEPT ![e] = x]
  BY DEF TypeOK, Goto
<1>3. ep' \in [Endpoints -> EndpointRecord \cup {Idle}]
  BY <1>1, <1>2
<1>4. ASSUME NEW f \in Endpoints
      PROVE  EndpointOK(ep'[f], DOMAIN runs', DOMAIN ticks')
  <2>1. CASE f = e
    BY <1>2, <2>1
  <2>2. CASE f # e
    BY <1>2, <2>2, EndpointsGrow
  <2> QED BY <2>1, <2>2
<1> QED BY <1>3, <1>4 DEF TypeOK

\* One that changes only endpoints and budget.
LEMMA EndpointOnly ==
  ASSUME TypeOK, NEW e \in Endpoints, NEW x, Goto(e, x),
         EndpointOK(x, DOMAIN runs, DOMAIN ticks),
         UNCHANGED <<now, job, runs, ticks, overlapped>>, budget' \in [Acts -> Nat],
         sent' \subseteq Nat \X (Contracts \cup {All})
  PROVE  TypeOK'
<1>1. /\ now \in Nat /\ overlapped \in BOOLEAN /\ job \in [JobIds -> Row]
      /\ runs \in Seq(RunRecord) /\ ticks \in Seq(TickRecord)
  BY DEF TypeOK
<1> QED BY <1>1, EndpointStep

LEMMA BusyEndpoint ==
  ASSUME TypeOK, NEW e \in Endpoints, Busy(e)
  PROVE  /\ ep[e] \in EndpointRecord
         /\ EndpointOK(ep[e], DOMAIN runs, DOMAIN ticks)
         /\ ep[e] # Idle
  BY DEF TypeOK, EndpointOK, Busy, Idle

LEMMA RunUpdate ==
  ASSUME NEW q \in RunRecord, NEW status \in {"success", "error"}, NEW n \in Nat
  PROVE  [q EXCEPT !.status = status, !.files = n] \in RunRecord
  BY DEF RunRecord

LEMMA TickUpdate ==
  ASSUME NEW q \in TickRecord, NEW status \in {"done", "raised", "killed"}
  PROVE  [q EXCEPT !.status = status] \in TickRecord
  BY DEF TickRecord

LEMMA Elements ==
  ASSUME NEW S, NEW s \in Seq(S), NEW i \in DOMAIN s
  PROVE  /\ s[i] \in S
         /\ \A x \in S : [s EXCEPT ![i] = x] \in Seq(S)
                        /\ DOMAIN [s EXCEPT ![i] = x] = DOMAIN s
  OBVIOUS

LEMMA Growth ==
  ASSUME NEW S, NEW s \in Seq(S), NEW x \in S
  PROVE  /\ Append(s, x) \in Seq(S)
         /\ DOMAIN Append(s, x) = DOMAIN s \cup {Len(s) + 1}
         /\ Len(s) + 1 \notin DOMAIN s
         /\ \A i \in DOMAIN s : Append(s, x)[i] = s[i]
         /\ Append(s, x)[Len(s) + 1] = x
         /\ Len(s) \in Nat
  OBVIOUS

\* A request that begins.
LEMMA EndpointTyped ==
  ASSUME TypeOK, NEW kind \in {"tick", "manual", "once"}, NEW pc \in {"scan", "insert", "make"}
  PROVE  /\ Endpoint(kind, pc) \in EndpointRecord
         /\ Endpoint(kind, pc).kind = kind /\ Endpoint(kind, pc).pc = pc
         /\ Endpoint(kind, pc).period = Default /\ Endpoint(kind, pc).run = NoRun
<1>1. job \in [JobIds -> Row]
  BY DEF TypeOK
<1>2. << >> \in Seq(JobIds) /\ << >> \in Seq(Contracts \cup {All}) /\ NoRun \in Nat
      /\ Default \in Int /\ FALSE \in BOOLEAN /\ 0 \in Nat /\ 0 \in JobIds \cup {0}
      /\ pc \in {"scan", "insert", "resolve", "make", "deliver"}
  BY DEF NoRun, Default
<1> QED BY <1>1, <1>2 DEF Endpoint, EndpointRecord

-----------------------------------------------------------------------------
(* Types: the actions. *)

LEMMA BeginTickTyped ==
  ASSUME TypeOK, NEW e \in Endpoints, BeginTick(e)
  PROVE  TypeOK'
<1> DEFINE x == [Endpoint("tick", "scan") EXCEPT !.todo = Jobs, !.tick = Len(ticks) + 1]
           new == [at |-> now, period |-> LastPeriod, status |-> "open",
                   due |-> {j \in JobIds : job[j].enabled /\ Due(job[j], now)}]
<1>1. /\ now \in Nat /\ job \in [JobIds -> Row] /\ runs \in Seq(RunRecord)
      /\ ticks \in Seq(TickRecord) /\ sent \subseteq Nat \X (Contracts \cup {All})
  BY DEF TypeOK
<1>2. Goto(e, x) /\ ticks' = Append(ticks, new) /\ UNCHANGED <<now, job, runs, sent>>
      /\ overlapped' \in BOOLEAN
  BY DEF BeginTick, Start, TypeOK
<1>3. new \in TickRecord
  BY <1>1, MonthsPass DEF TickRecord
<1>4. ticks' \in Seq(TickRecord) /\ DOMAIN ticks' = DOMAIN ticks \cup {Len(ticks) + 1}
      /\ Len(ticks) \in Nat
  BY <1>1, <1>2, <1>3, Growth
<1>5. x \in EndpointRecord /\ x.pc = "scan" /\ x.kind = "tick" /\ x.tick = Len(ticks) + 1
      /\ x.period = Default
  <2>1. PICK y \in EndpointRecord :
          y = Endpoint("tick", "scan") /\ y.pc = "scan" /\ y.kind = "tick" /\ y.period = Default
    BY EndpointTyped
  <2>2. x = [y EXCEPT !.todo = Jobs, !.tick = Len(ticks) + 1]
    BY <2>1
  <2>3. Jobs \in Seq(JobIds) /\ Len(ticks) + 1 \in Nat
    BY <1>4, Constants
  <2> QED BY <2>1, <2>2, <2>3 DEF EndpointRecord
<1>6. EndpointOK(x, DOMAIN runs', DOMAIN ticks')
  BY <1>4, <1>5 DEF EndpointOK
<1>7. budget' \in [Acts -> Nat]
  BY SpendTyped DEF BeginTick, Acts
<1> QED
  <2> HIDE DEF x, new
  <2> QED BY <1>1, <1>2, <1>4, <1>6, <1>7, EndpointStep

LEMMA BeginManualTyped ==
  ASSUME TypeOK, NEW e \in Endpoints, NEW j \in JobIds, NEW period \in Int,
         BeginManual(e, j, period)
  PROVE  TypeOK'
<1> DEFINE x == [Endpoint("manual", "insert") EXCEPT !.job = j, !.period = period]
<1>1. Goto(e, x) /\ UNCHANGED <<now, job, runs, sent, ticks>> /\ overlapped' \in BOOLEAN
  BY DEF BeginManual, Start, TypeOK
<1>2. x \in EndpointRecord /\ x.pc = "insert" /\ x.kind = "manual" /\ x.job = j
  BY EndpointTyped DEF EndpointRecord
<1>3. EndpointOK(x, DOMAIN runs, DOMAIN ticks)
  BY <1>2 DEF EndpointOK
<1>4. budget' \in [Acts -> Nat]
  BY SpendTyped DEF BeginManual, Acts
<1>5. /\ now \in Nat /\ job \in [JobIds -> Row] /\ runs \in Seq(RunRecord)
      /\ ticks \in Seq(TickRecord) /\ sent \subseteq Nat \X (Contracts \cup {All})
  BY DEF TypeOK
<1> QED
  <2> HIDE DEF x
  <2> QED BY <1>1, <1>3, <1>4, <1>5, EndpointStep

LEMMA FilesTyped ==
  ASSUME NEW contracts \in Seq(Contracts), NEW perContract \in BOOLEAN
  PROVE  Files(contracts, perContract) \in Seq(Contracts \cup {All})
<1>1. contracts \in Seq(Contracts \cup {All}) /\ <<All>> \in Seq(Contracts \cup {All})
  OBVIOUS
<1> QED BY <1>1 DEF Files

LEMMA BeginOnceTyped ==
  ASSUME TypeOK, NEW e \in Endpoints, NEW perContract \in BOOLEAN,
         BeginOnce(e, SetToSeq(Contracts), perContract)
  PROVE  TypeOK'
<1> DEFINE files == Files(SetToSeq(Contracts), perContract)
           x == [Endpoint("once", "make") EXCEPT !.queue = files, !.single = ~perContract]
<1>1. Goto(e, x) /\ UNCHANGED <<now, job, runs, sent, ticks>> /\ overlapped' \in BOOLEAN
  BY DEF BeginOnce, Start, TypeOK
<1>2. files \in Seq(Contracts \cup {All})
  BY OnceContracts, FilesTyped
<1> HIDE DEF files
<1>3. x \in EndpointRecord /\ x.pc = "make" /\ x.kind = "once" /\ x.run = NoRun
  BY <1>2, EndpointTyped DEF EndpointRecord
<1>4. EndpointOK(x, DOMAIN runs, DOMAIN ticks)
  BY <1>3 DEF EndpointOK
<1>5. budget' \in [Acts -> Nat]
  BY SpendTyped DEF BeginOnce, Acts
<1>6. /\ now \in Nat /\ job \in [JobIds -> Row] /\ runs \in Seq(RunRecord)
      /\ ticks \in Seq(TickRecord) /\ sent \subseteq Nat \X (Contracts \cup {All})
  BY DEF TypeOK
<1> QED
  <2> HIDE DEF x
  <2> QED BY <1>1, <1>4, <1>5, <1>6, EndpointStep

LEMMA EndTickTyped ==
  ASSUME TypeOK, NEW e \in Endpoints, Busy(e), ep[e].kind = "tick",
         NEW status \in {"done", "raised"}, EndTick(e, status)
  PROVE  /\ Goto(e, Idle)
         /\ ticks' \in Seq(TickRecord) /\ DOMAIN ticks' = DOMAIN ticks
<1>1. ep[e].tick \in DOMAIN ticks /\ ticks \in Seq(TickRecord)
  BY BusyEndpoint DEF EndpointOK, TypeOK
<1>2. PICK i \in DOMAIN ticks : i = ep[e].tick
  BY <1>1
<1>3. [ticks[i] EXCEPT !.status = status] \in TickRecord
  BY <1>1, Elements, TickUpdate
<1>4. ticks' = [ticks EXCEPT ![i] = [ticks[i] EXCEPT !.status = status]]
  BY <1>2 DEF EndTick
<1> QED BY <1>1, <1>3, <1>4, Elements DEF EndTick

LEMMA ScanTyped ==
  ASSUME TypeOK, NEW e \in Endpoints, Scan(e)
  PROVE  TypeOK'
<1> DEFINE j == Head(ep[e].todo)
           rest == [ep[e] EXCEPT !.todo = Tail(@)]
<1>1. Busy(e) /\ ep[e].pc = "scan" /\ ep[e].todo # << >>
      /\ UNCHANGED <<now, budget, job, runs, sent, overlapped>>
  BY DEF Scan, At, Busy
<1>2. ep[e] \in EndpointRecord /\ ep[e].kind = "tick" /\ ep[e].tick \in DOMAIN ticks
      /\ ep[e].period = Default
  BY <1>1, BusyEndpoint DEF EndpointOK
<1>3. j \in JobIds /\ Tail(ep[e].todo) \in Seq(JobIds)
  BY <1>1, <1>2 DEF EndpointRecord
<1>4. /\ rest \in EndpointRecord /\ rest.pc = "scan" /\ rest.kind = "tick"
      /\ rest.tick = ep[e].tick /\ rest.period = Default
  BY <1>1, <1>2, <1>3 DEF EndpointRecord
<1>5. EndpointOK(rest, DOMAIN runs, DOMAIN ticks)
  BY <1>2, <1>4 DEF EndpointOK
<1>6. EndpointOK([rest EXCEPT !.pc = "insert", !.job = j], DOMAIN runs, DOMAIN ticks)
  <2> DEFINE y == [rest EXCEPT !.pc = "insert", !.job = j]
  <2> HIDE DEF rest, j
  <2>1. y \in EndpointRecord /\ y.pc = "insert" /\ y.kind = "tick" /\ y.job = j
        /\ y.tick = ep[e].tick /\ y.period = Default
    BY <1>3, <1>4 DEF EndpointRecord
  <2> QED BY <1>2, <1>3, <2>1 DEF EndpointOK
<1>7. \/ Goto(e, rest) /\ UNCHANGED ticks
      \/ Goto(e, [rest EXCEPT !.pc = "insert", !.job = j]) /\ UNCHANGED ticks
      \/ EndTick(e, "raised")
  BY DEF Scan
<1>8. /\ now \in Nat /\ budget \in [Acts -> Nat] /\ sent \subseteq Nat \X (Contracts \cup {All})
      /\ job \in [JobIds -> Row] /\ overlapped \in BOOLEAN /\ runs \in Seq(RunRecord)
  BY DEF TypeOK
<1> HIDE DEF rest, j
<1>9. CASE EndTick(e, "raised")
  <2>1. Goto(e, Idle) /\ ticks' \in Seq(TickRecord) /\ DOMAIN ticks' = DOMAIN ticks
    BY <1>1, <1>2, <1>9, EndTickTyped
  <2>2. EndpointOK(Idle, DOMAIN runs', DOMAIN ticks')
    BY DEF EndpointOK
  <2> QED BY <1>1, <1>8, <2>1, <2>2, EndpointStep
<1> QED BY <1>1, <1>5, <1>6, <1>7, <1>8, <1>9, EndpointOnly

LEMMA ScanEndTyped ==
  ASSUME TypeOK, NEW e \in Endpoints, ScanEnd(e)
  PROVE  TypeOK'
<1>1. Busy(e) /\ ep[e].pc = "scan" /\ UNCHANGED <<now, budget, job, runs, sent, overlapped>>
      /\ EndTick(e, "done")
  BY DEF ScanEnd, At, Busy
<1>2. ep[e].kind = "tick"
  BY <1>1, BusyEndpoint DEF EndpointOK
<1>3. Goto(e, Idle) /\ ticks' \in Seq(TickRecord) /\ DOMAIN ticks' = DOMAIN ticks
  BY <1>1, <1>2, EndTickTyped
<1>4. EndpointOK(Idle, DOMAIN runs', DOMAIN ticks')
  BY DEF EndpointOK
<1>5. /\ now \in Nat /\ budget \in [Acts -> Nat] /\ sent \subseteq Nat \X (Contracts \cup {All})
      /\ job \in [JobIds -> Row] /\ overlapped \in BOOLEAN /\ runs \in Seq(RunRecord)
  BY DEF TypeOK
<1> QED BY <1>1, <1>3, <1>4, <1>5, EndpointStep

LEMMA InsertTyped ==
  ASSUME TypeOK, NEW e \in Endpoints, Insert(e)
  PROVE  TypeOK'
<1> DEFINE new == [job |-> ep[e].job, status |-> "running", files |-> 0,
                   by |-> ep[e].kind, wanted |-> {}, single |-> FALSE,
                   period |-> IF ep[e].period = Default THEN LastPeriod ELSE ep[e].period]
           x == [ep[e] EXCEPT !.pc = "resolve", !.run = Len(runs) + 1, !.files = 0]
<1>1. /\ Busy(e) /\ ep[e].pc = "insert" /\ UNCHANGED <<now, budget, job, sent, ticks, overlapped>>
      /\ runs' = Append(runs, new) /\ Goto(e, x)
  BY DEF Insert, At, Busy
<1>2. /\ ep[e] \in EndpointRecord /\ ep[e].job \in JobIds /\ ep[e].kind # "once"
      /\ ep[e].kind = "tick" => ep[e].tick \in DOMAIN ticks /\ ep[e].period = Default
  BY <1>1, BusyEndpoint DEF EndpointOK
<1>3. /\ now \in Nat /\ budget \in [Acts -> Nat] /\ sent \subseteq Nat \X (Contracts \cup {All})
      /\ job \in [JobIds -> Row] /\ overlapped \in BOOLEAN /\ runs \in Seq(RunRecord)
      /\ ticks \in Seq(TickRecord)
  BY DEF TypeOK
<1>4. new \in RunRecord
  <2>1. ep[e].kind \in {"tick", "manual"} /\ ep[e].period \in Int /\ LastPeriod \in Int
    BY <1>2, <1>3, MonthsPass DEF EndpointRecord
  <2> QED BY <1>2, <2>1 DEF RunRecord
<1> HIDE DEF new
<1>5. /\ runs' \in Seq(RunRecord) /\ DOMAIN runs' = DOMAIN runs \cup {Len(runs) + 1}
      /\ Len(runs) \in Nat
  BY <1>1, <1>3, <1>4, Growth
<1>6. /\ x \in EndpointRecord /\ x.pc = "resolve" /\ x.run = Len(runs) + 1 /\ x.job = ep[e].job
      /\ x.kind = ep[e].kind /\ x.tick = ep[e].tick /\ x.period = ep[e].period
  <2>1. PICK n \in Nat : n = Len(runs) + 1
    BY <1>5
  <2>2. PICK y \in EndpointRecord : y = ep[e]
    BY <1>2
  <2>3. x = [y EXCEPT !.pc = "resolve", !.run = n, !.files = 0]
    BY <2>1, <2>2
  <2> QED BY <2>1, <2>2, <2>3 DEF EndpointRecord
<1>7. EndpointOK(x, DOMAIN runs', DOMAIN ticks')
  <2> HIDE DEF x
  <2> QED BY <1>1, <1>2, <1>5, <1>6 DEF EndpointOK
<1> HIDE DEF x
<1> QED BY <1>1, <1>3, <1>5, <1>7, EndpointStep

LEMMA AfterTyped ==
  ASSUME TypeOK, NEW e \in Endpoints, Busy(e)
  PROVE  EndpointOK(After(e), DOMAIN runs, DOMAIN ticks)
<1>1. /\ ep[e] \in EndpointRecord
      /\ ep[e].kind = "tick" => ep[e].tick \in DOMAIN ticks /\ ep[e].period = Default
  BY BusyEndpoint DEF EndpointOK
<1>2. CASE ep[e].kind = "tick"
  <2> DEFINE x == [ep[e] EXCEPT !.pc = "scan", !.run = NoRun, !.queue = << >>, !.job = 0]
  <2>1. << >> \in Seq(Contracts \cup {All}) /\ NoRun \in Nat
    BY DEF NoRun
  <2>2. /\ x \in EndpointRecord /\ x.pc = "scan" /\ x.kind = ep[e].kind
        /\ x.tick = ep[e].tick /\ x.period = ep[e].period
    BY <1>1, <2>1 DEF EndpointRecord
  <2>3. After(e) = x
    BY <1>2 DEF After
  <2> HIDE DEF x
  <2> QED BY <1>1, <1>2, <2>2, <2>3 DEF EndpointOK
<1>3. CASE ep[e].kind # "tick"
  BY <1>3 DEF After, EndpointOK
<1> QED BY <1>2, <1>3

\* A run that is decided.
LEMMA DecideTyped ==
  ASSUME TypeOK, NEW e \in Endpoints, ep[e].pc \in {"resolve", "make", "deliver"},
         NEW status \in {"success", "error"}, Decide(e, status),
         UNCHANGED <<now, job, ticks, overlapped>>, budget' \in [Acts -> Nat],
         sent' \subseteq Nat \X (Contracts \cup {All})
  PROVE  TypeOK' /\ DOMAIN runs' = DOMAIN runs
<1>1. Busy(e)
  BY DEF Busy
<1>2. ep[e] \in EndpointRecord /\ ep[e].run \in {NoRun} \cup DOMAIN runs
  BY <1>1, BusyEndpoint DEF EndpointOK
<1>3. /\ now \in Nat /\ job \in [JobIds -> Row] /\ overlapped \in BOOLEAN
      /\ runs \in Seq(RunRecord) /\ ticks \in Seq(TickRecord)
  BY DEF TypeOK
<1>4. runs' \in Seq(RunRecord) /\ DOMAIN runs' = DOMAIN runs
  <2>1. CASE ep[e].run = NoRun
    BY <1>3, <2>1 DEF Decide
  <2>2. CASE ep[e].run # NoRun
    <3>1. PICK r \in DOMAIN runs : r = ep[e].run
      BY <1>2, <2>2
    <3>2. PICK n \in Nat : n = (IF status = "success" THEN ep[e].files ELSE 0)
      BY <1>2 DEF EndpointRecord
    <3>3. [runs[r] EXCEPT !.status = status, !.files = n] \in RunRecord
      BY <1>3, Elements, RunUpdate
    <3>4. runs' = [runs EXCEPT ![r] = [runs[r] EXCEPT !.status = status, !.files = n]]
      BY <1>3, <2>2, <3>1, <3>2 DEF Decide
    <3> QED BY <1>3, <3>3, <3>4, Elements
  <2> QED BY <2>1, <2>2
<1>5. Goto(e, After(e))
  BY DEF Decide
<1>6. EndpointOK(After(e), DOMAIN runs', DOMAIN ticks')
  BY <1>1, <1>4, AfterTyped
<1> QED BY <1>3, <1>4, <1>5, <1>6, EndpointStep

LEMMA ResolvedTyped ==
  ASSUME TypeOK, NEW j \in JobIds, NEW row \in Row
  PROVE  /\ Resolved(j, row) \in Seq(Contracts)
         /\ Range(Resolved(j, row)) \subseteq Contracts
<1>1. job[j] \in Row /\ Owned[j] \in Seq(Contracts)
  BY Constants DEF TypeOK
<1>2. Resolved(j, row) \in Seq(Contracts)
  BY <1>1 DEF Resolved, Row
<1>3. ASSUME NEW s \in Seq(Contracts) PROVE Range(s) \subseteq Contracts
  BY DEF Range
<1> QED BY <1>2, <1>3

LEMMA ResolveTyped ==
  ASSUME TypeOK, NEW e \in Endpoints, Resolve(e)
  PROVE  TypeOK' /\ DOMAIN runs' = DOMAIN runs
<1> DEFINE j == ep[e].job
           row == ep[e].seen[j]
           contracts == Resolved(j, row)
           files == Files(contracts, row.perContract)
           x == [ep[e] EXCEPT !.pc = "make", !.queue = files, !.single = ~row.perContract]
<1>1. Busy(e) /\ ep[e].pc = "resolve" /\ UNCHANGED <<now, budget, job, sent, ticks, overlapped>>
  BY DEF Resolve, At, Busy
<1>2. /\ ep[e] \in EndpointRecord /\ j \in JobIds /\ ep[e].run \in DOMAIN runs
      /\ ep[e].kind = "tick" => ep[e].tick \in DOMAIN ticks /\ ep[e].period = Default
  BY <1>1, BusyEndpoint DEF EndpointOK
<1>3. /\ now \in Nat /\ budget \in [Acts -> Nat] /\ sent \subseteq Nat \X (Contracts \cup {All})
      /\ job \in [JobIds -> Row] /\ overlapped \in BOOLEAN /\ runs \in Seq(RunRecord)
      /\ ticks \in Seq(TickRecord)
  BY DEF TypeOK
<1>4. CASE contracts = << >>
  <2>1. Decide(e, "success")
    BY <1>4 DEF Resolve
  <2>2. UNCHANGED <<now, job, ticks, overlapped>> /\ budget' \in [Acts -> Nat]
        /\ sent' \subseteq Nat \X (Contracts \cup {All})
    BY <1>1, <1>3
  <2> QED BY <1>1, <2>1, <2>2, DecideTyped
<1>5. CASE contracts # << >>
  <2>1. /\ Goto(e, x)
        /\ runs' = [runs EXCEPT ![ep[e].run].wanted = Range(contracts),
                                ![ep[e].run].single = ~row.perContract]
    BY <1>5 DEF Resolve
  <2>2. row \in Row
    BY <1>2 DEF EndpointRecord
  <2>3. PICK b \in BOOLEAN : b = ~row.perContract
    BY <2>2 DEF Row
  <2>4. PICK w \in SUBSET Contracts : w = Range(contracts)
    BY <1>2, <2>2, ResolvedTyped
  <2>5. PICK r \in DOMAIN runs : r = ep[e].run
    BY <1>2
  <2>6. PICK q \in RunRecord : q = runs[r]
    BY <1>3, Elements
  <2>7. [q EXCEPT !.wanted = w, !.single = b] \in RunRecord
    BY DEF RunRecord
  <2>8. runs' = [runs EXCEPT ![r] = [q EXCEPT !.wanted = w, !.single = b]]
    BY <1>3, <2>1, <2>3, <2>4, <2>5, <2>6
  <2>9. runs' \in Seq(RunRecord) /\ DOMAIN runs' = DOMAIN runs
    BY <1>3, <2>7, <2>8, Elements
  <2>10. PICK f \in Seq(Contracts \cup {All}) : f = files
    <3>1. contracts \in Seq(Contracts) /\ row.perContract \in BOOLEAN
      BY <1>2, <2>2, ResolvedTyped DEF Row
    <3> QED BY <3>1, FilesTyped
  <2>11. PICK y \in EndpointRecord : y = ep[e]
    BY <1>2
  <2>12. x = [y EXCEPT !.pc = "make", !.queue = f, !.single = b]
    BY <2>3, <2>10, <2>11
  <2>13. /\ x \in EndpointRecord /\ x.pc = "make" /\ x.kind = y.kind /\ x.tick = y.tick
         /\ x.period = y.period /\ x.run = y.run
    BY <2>12 DEF EndpointRecord
  <2>14. EndpointOK(x, DOMAIN runs', DOMAIN ticks')
    <3> HIDE DEF x
    <3> QED BY <1>1, <1>2, <2>9, <2>11, <2>13 DEF EndpointOK
  <2> HIDE DEF x
  <2> QED BY <1>1, <1>3, <2>1, <2>9, <2>14, EndpointStep
<1> QED BY <1>4, <1>5

\* An endpoint that works on a report: it takes the next file, or has made it.
LEMMA ReportTyped ==
  ASSUME TypeOK, NEW e \in Endpoints, NEW x \in EndpointRecord,
         ep[e].pc \in {"make", "deliver"}, x.pc \in {"make", "deliver"},
         x.kind = ep[e].kind, x.tick = ep[e].tick, x.period = ep[e].period, x.run = ep[e].run,
         x.pc = "deliver" => x.queue # << >>
  PROVE  EndpointOK(x, DOMAIN runs, DOMAIN ticks)
<1>1. Busy(e)
  BY DEF Busy
<1>2. EndpointOK(ep[e], DOMAIN runs, DOMAIN ticks) /\ ep[e] # Idle
  BY <1>1, BusyEndpoint
<1> QED BY <1>2 DEF EndpointOK

LEMMA MakeTyped ==
  ASSUME TypeOK, NEW e \in Endpoints, Make(e)
  PROVE  TypeOK'
<1>1. /\ ep[e].pc = "make" /\ ep[e].queue # << >> /\ Busy(e)
      /\ UNCHANGED <<now, budget, job, runs, sent, ticks, overlapped>>
  BY DEF Make, At, Busy
<1>2. PICK y \in EndpointRecord : y = ep[e]
  BY <1>1, BusyEndpoint
<1> DEFINE ready == [y EXCEPT !.pc = "deliver"]
           rest == [y EXCEPT !.queue = Tail(y.queue)]
<1>3. Goto(e, ready) \/ Goto(e, rest)
  BY <1>2 DEF Make
<1>4. Tail(y.queue) \in Seq(Contracts \cup {All})
  BY <1>1, <1>2 DEF EndpointRecord
<1>5. /\ ready \in EndpointRecord /\ ready.pc = "deliver" /\ ready.kind = y.kind
      /\ ready.tick = y.tick /\ ready.period = y.period /\ ready.run = y.run
      /\ ready.queue = y.queue
  BY DEF EndpointRecord
<1>6. /\ rest \in EndpointRecord /\ rest.pc = y.pc /\ rest.kind = y.kind
      /\ rest.tick = y.tick /\ rest.period = y.period /\ rest.run = y.run
  BY <1>4 DEF EndpointRecord
<1> HIDE DEF ready, rest
<1>7. EndpointOK(ready, DOMAIN runs, DOMAIN ticks) /\ EndpointOK(rest, DOMAIN runs, DOMAIN ticks)
  BY <1>1, <1>2, <1>5, <1>6, ReportTyped
<1>8. budget' \in [Acts -> Nat] /\ sent' \subseteq Nat \X (Contracts \cup {All})
  BY <1>1 DEF TypeOK
<1> QED BY <1>1, <1>3, <1>7, <1>8, EndpointOnly

LEMMA DeliverTyped ==
  ASSUME TypeOK, NEW e \in Endpoints, Deliver(e)
  PROVE  TypeOK'
<1>1. /\ ep[e].pc = "deliver" /\ Busy(e)
      /\ UNCHANGED <<now, budget, job, runs, ticks, overlapped>>
      /\ sent' = sent \cup {<<ep[e].run, Head(ep[e].queue)>>}
  BY DEF Deliver, At, Busy
<1>2. PICK y \in EndpointRecord : y = ep[e] /\ y.queue # << >>
  BY <1>1, BusyEndpoint DEF EndpointOK
<1>3. /\ Tail(y.queue) \in Seq(Contracts \cup {All}) /\ Head(y.queue) \in Contracts \cup {All}
      /\ y.run \in Nat
  BY <1>2 DEF EndpointRecord
<1> DEFINE x == [y EXCEPT !.pc = "make", !.queue = Tail(y.queue), !.files = y.files + 1]
<1>4. Goto(e, x)
  BY <1>2 DEF Deliver
<1>5. /\ x \in EndpointRecord /\ x.pc = "make" /\ x.kind = y.kind /\ x.tick = y.tick
      /\ x.period = y.period /\ x.run = y.run
  <2>1. y.files + 1 \in Nat
    BY DEF EndpointRecord
  <2> QED BY <1>3, <2>1 DEF EndpointRecord
<1> HIDE DEF x
<1>6. EndpointOK(x, DOMAIN runs, DOMAIN ticks)
  BY <1>1, <1>2, <1>5, ReportTyped
<1>7. budget' \in [Acts -> Nat] /\ sent' \subseteq Nat \X (Contracts \cup {All})
  BY <1>1, <1>2, <1>3 DEF TypeOK
<1> QED BY <1>1, <1>4, <1>6, <1>7, EndpointOnly

LEMMA FailTyped ==
  ASSUME TypeOK, NEW e \in Endpoints, Fail(e)
  PROVE  TypeOK' /\ DOMAIN runs' = DOMAIN runs
<1>1. /\ ep[e].pc \in {"make", "deliver"} /\ ep[e].queue # << >> /\ Busy(e)
      /\ Decide(e, "error") /\ UNCHANGED <<now, job, ticks, overlapped>>
  BY DEF Fail, At, Busy
<1>2. budget' \in [Acts -> Nat]
  BY SpendTyped DEF Fail, Acts
<1>3. PICK y \in EndpointRecord : y = ep[e]
  BY <1>1, BusyEndpoint
<1>4. Head(y.queue) \in Contracts \cup {All} /\ y.run \in Nat
  BY <1>1, <1>3 DEF EndpointRecord
<1>5. sent' \subseteq sent \cup {<<y.run, Head(y.queue)>>}
  BY <1>3 DEF Fail
<1>6. sent' \subseteq Nat \X (Contracts \cup {All})
  BY <1>4, <1>5 DEF TypeOK
<1> QED BY <1>1, <1>2, <1>6, DecideTyped

LEMMA FinishTyped ==
  ASSUME TypeOK, NEW e \in Endpoints, Finish(e)
  PROVE  TypeOK' /\ DOMAIN runs' = DOMAIN runs
<1>1. /\ ep[e].pc = "make" /\ UNCHANGED <<now, budget, job, sent, ticks, overlapped>>
      /\ Decide(e, "error") \/ Decide(e, "success")
  BY DEF Finish, At
<1>2. budget' \in [Acts -> Nat] /\ sent' \subseteq Nat \X (Contracts \cup {All})
  BY <1>1 DEF TypeOK
<1> QED BY <1>1, <1>2, DecideTyped

LEMMA EditJobTyped ==
  ASSUME TypeOK, NEW j \in JobIds, NEW new \in Changed(j), EditJob(j, new)
  PROVE  TypeOK'
<1>1. job \in [JobIds -> Row] /\ job[j] \in Row
  BY DEF TypeOK
<1>2. new \in Row
  <2>1. ASSUME NEW q \in Row
        PROVE  /\ [q EXCEPT !.enabled = ~q.enabled] \in Row
               /\ [q EXCEPT !.perContract = ~q.perContract] \in Row
               /\ [q EXCEPT !.all = ~q.all] \in Row
               /\ [q EXCEPT !.all = FALSE, !.contracts = << >>] \in Row
    <3>1. << >> \in Seq(Contracts)
      OBVIOUS
    <3>2. /\ [q EXCEPT !.enabled = ~q.enabled] \in Row
          /\ [q EXCEPT !.perContract = ~q.perContract] \in Row
          /\ [q EXCEPT !.all = ~q.all] \in Row
      BY DEF Row
    <3>3. [q EXCEPT !.all = FALSE, !.contracts = << >>] \in Row
      BY <3>1 DEF Row
    <3> QED BY <3>2, <3>3
  <2> QED BY <1>1, <2>1 DEF Changed
<1>3. job' \in [JobIds -> Row] /\ UNCHANGED <<now, runs, sent, ep, ticks, overlapped>>
  BY <1>1, <1>2 DEF EditJob
<1>4. budget' \in [Acts -> Nat]
  BY SpendTyped DEF EditJob, Acts
<1> QED BY <1>3, <1>4 DEF TypeOK

LEMMA KillTyped ==
  ASSUME TypeOK, Kill
  PROVE  TypeOK'
<1>1. /\ ep' = [e \in Endpoints |-> Idle] /\ UNCHANGED <<now, job, runs, sent, overlapped>>
      /\ ticks' = [i \in DOMAIN ticks |-> IF ticks[i].status = "open"
                                         THEN [ticks[i] EXCEPT !.status = "killed"] ELSE ticks[i]]
  BY DEF Kill
<1>2. ticks \in Seq(TickRecord)
  BY DEF TypeOK
<1>3. \A i \in DOMAIN ticks :
        /\ ticks[i] \in TickRecord
        /\ [ticks[i] EXCEPT !.status = "killed"] \in TickRecord
  BY <1>2, Elements, TickUpdate
<1>4. ticks' \in [1 .. Len(ticks) -> TickRecord] /\ Len(ticks) \in Nat
  BY <1>1, <1>2, <1>3
<1>5. ticks' \in Seq(TickRecord)
  BY <1>4
<1>6. \A e \in Endpoints : EndpointOK(ep'[e], DOMAIN runs', DOMAIN ticks')
  BY <1>1 DEF EndpointOK
<1>7. budget' \in [Acts -> Nat]
  BY SpendTyped DEF Kill, Acts
<1> QED BY <1>1, <1>5, <1>6, <1>7 DEF TypeOK

LEMMA TimePassesTyped ==
  ASSUME TypeOK, TimePasses
  PROVE  TypeOK'
  BY DEF TypeOK, TimePasses

LEMMA InitTyped == Init => TypeOK
<1> SUFFICES ASSUME Init PROVE TypeOK
  OBVIOUS
<1>1. now \in Nat
  BY Constants DEF Init
<1>2. job \in [JobIds -> Row] /\ budget \in [Acts -> Nat]
  BY StartsAssumption DEF Init, JobIds
<1>3. /\ runs = << >> /\ sent = {} /\ ep = [e \in Endpoints |-> Idle] /\ ticks = << >>
      /\ overlapped = FALSE
  BY DEF Init
<1>4. \A e \in Endpoints : EndpointOK(ep[e], DOMAIN runs, DOMAIN ticks)
  BY <1>3 DEF EndpointOK
<1>5. runs \in Seq(RunRecord) /\ ticks \in Seq(TickRecord)
  BY <1>3
<1>6. ep \in [Endpoints -> EndpointRecord \cup {Idle}]
  BY <1>3
<1> QED BY <1>1, <1>2, <1>3, <1>4, <1>5, <1>6 DEF TypeOK

LEMMA NextTyped ==
  ASSUME TypeOK, [Next]_vars
  PROVE  TypeOK'
<1>1. ASSUME NEW e \in Endpoints, NEW j \in JobIds,
             NEW period \in {Default, LastPeriod, LastPeriod + 1}, BeginManual(e, j, period)
      PROVE  TypeOK'
  <2>1. period \in Int
    BY MonthsPass DEF Default, TypeOK
  <2> QED BY <1>1, <2>1, BeginManualTyped
<1>2. CASE UNCHANGED vars
  BY <1>2 DEF vars, TypeOK
<1> QED BY <1>1, <1>2, BeginTickTyped, BeginOnceTyped, ScanTyped, ScanEndTyped, InsertTyped,
           ResolveTyped, MakeTyped, DeliverTyped, FailTyped, FinishTyped, EditJobTyped,
           KillTyped, TimePassesTyped DEF Next

\* Every variable keeps its type, for any jobs, contracts and budgets; an endpoint
\* at work has a run of the table.
THEOREM TypeCorrect == Spec => []TypeOK
  BY InitTyped, NextTyped, PTL DEF Spec

-----------------------------------------------------------------------------
(* One run for each period. *)

\* No other endpoint works, unless two do at the same time anyway.
Single(e) == ~overlapped' => ~overlapped /\ \A f \in Endpoints \ {e} : ~Busy(f)

\* No run comes to hold a period.
RunsKept ==
  /\ DOMAIN runs' = DOMAIN runs
  /\ \A r \in DOMAIN runs : /\ runs'[r].by = runs[r].by /\ runs'[r].job = runs[r].job
                            /\ runs'[r].period = runs[r].period
  /\ ~overlapped' =>
       \A r \in DOMAIN runs : runs'[r].status \in {"running", "success"}
                               => runs[r].status \in {"running", "success"}

Rest == AloneInv /\ PastInv /\ FreshInv /\ OpenInv /\ BilledOnce

LEMMA BusySingle ==
  ASSUME IInv, NEW e \in Endpoints, Busy(e), overlapped' = overlapped
  PROVE  Single(e)
  BY DEF IInv, AloneInv, Single

LEMMA StartSingle ==
  ASSUME IInv, NEW e \in Endpoints, NEW x, Start(e, x)
  PROVE  Single(e) /\ Goto(e, x) /\ UNCHANGED <<now, runs>>
  BY DEF IInv, TypeOK, Single, Start

\* An endpoint step by which no run comes to hold a period.
LEMMA StepKeeps ==
  ASSUME IInv, NEW e \in Endpoints, NEW x, Goto(e, x), Single(e), RunsKept, UNCHANGED now,
         ~overlapped' /\ x.pc \in {"resolve", "make", "deliver"} /\ x.run # NoRun
           => runs'[x.run].status = "running",
         ~overlapped' /\ x.pc = "insert" /\ x.kind = "tick"
           => \A r \in DOMAIN runs : ~Holds(r, x.job, LastPeriod)
  PROVE  Rest'
<1>1. /\ ep' = [ep EXCEPT ![e] = x] /\ ep'[e] = x
      /\ \A f \in Endpoints \ {e} : ep'[f] = ep[f]
  BY DEF Goto, IInv, TypeOK
<1>2. ~overlapped' => \A f \in Endpoints \ {e} : ep'[f].pc = "idle"
  BY <1>1 DEF Single, Busy
<1>3. AloneInv'
  BY <1>2 DEF AloneInv, Busy
<1>4. LastPeriod' = LastPeriod
  BY DEF LastPeriod
<1>5. PastInv'
  BY <1>4 DEF IInv, PastInv, RunsKept
<1>6. BilledOnce'
  BY DEF IInv, BilledOnce, RunsKept, Single
<1>7. OpenInv'
  <2>1. ASSUME ~overlapped', NEW f \in Endpoints, ep'[f].pc \in {"resolve", "make", "deliver"},
               ep'[f].run # NoRun
        PROVE  runs'[ep'[f].run].status = "running"
    BY <1>1, <1>2, <2>1
  <2> QED BY <2>1 DEF OpenInv
<1>8. FreshInv'
  <2>1. ASSUME ~overlapped', NEW f \in Endpoints, ep'[f].pc = "insert", ep'[f].kind = "tick",
               NEW r \in DOMAIN runs'
        PROVE  ~Holds(r, ep[f].job, LastPeriod)'
    <3>1. f = e /\ x.pc = "insert" /\ x.kind = "tick" /\ ep'[f].job = x.job
      BY <1>1, <1>2, <2>1
    <3>2. ~Holds(r, x.job, LastPeriod) /\ r \in DOMAIN runs
      BY <2>1, <3>1 DEF RunsKept
    <3>3. runs'[r].by = runs[r].by /\ runs'[r].job = runs[r].job
          /\ runs'[r].period = runs[r].period
          /\ (runs'[r].status \in {"running", "success"}
                => runs[r].status \in {"running", "success"})
      BY <2>1, <3>2 DEF RunsKept
    <3> QED BY <1>4, <3>1, <3>2, <3>3 DEF Holds
  <2> QED BY <2>1 DEF FreshInv, At
<1> QED BY <1>3, <1>5, <1>6, <1>7, <1>8 DEF Rest

\* One that leaves the runs alone, and begins neither a run nor work on another.
LEMMA QuietKeeps ==
  ASSUME IInv, NEW e \in Endpoints, NEW x, Goto(e, x), Single(e), UNCHANGED <<now, runs>>,
         \/ x.pc \in {"idle", "scan"}
         \/ x.pc = "insert" /\ x.kind # "tick"
         \/ x.pc = "make" /\ x.run = NoRun
         \/ /\ x.pc \in {"make", "deliver"} /\ ep[e].pc \in {"make", "deliver"}
            /\ x.run = ep[e].run
  PROVE  Rest'
<1>1. RunsKept
  BY DEF RunsKept
<1>2. ~overlapped' /\ x.pc \in {"resolve", "make", "deliver"} /\ x.run # NoRun
        => runs'[x.run].status = "running"
  BY DEF IInv, OpenInv, Single
<1> QED BY <1>1, <1>2, StepKeeps

LEMMA StartKeeps ==
  ASSUME IInv, NEW e \in Endpoints,
         \/ BeginTick(e)
         \/ \E j \in JobIds, period \in Int : BeginManual(e, j, period)
         \/ \E p \in BOOLEAN : BeginOnce(e, SetToSeq(Contracts), p)
  PROVE  Rest'
<1>1. CASE BeginTick(e)
  <2> DEFINE x == [Endpoint("tick", "scan") EXCEPT !.todo = Jobs, !.tick = Len(ticks) + 1]
  <2>1. Start(e, x)
    BY <1>1 DEF BeginTick
  <2>2. x.pc = "scan"
    BY DEF Endpoint
  <2> HIDE DEF x
  <2> QED BY <2>1, <2>2, StartSingle, QuietKeeps
<1>2. ASSUME NEW j \in JobIds, NEW period \in Int, BeginManual(e, j, period) PROVE Rest'
  <2> DEFINE x == [Endpoint("manual", "insert") EXCEPT !.job = j, !.period = period]
  <2>1. Start(e, x)
    BY <1>2 DEF BeginManual
  <2>2. x.pc = "insert" /\ x.kind = "manual"
    BY DEF Endpoint
  <2> HIDE DEF x
  <2> QED BY <2>1, <2>2, StartSingle, QuietKeeps
<1>3. ASSUME NEW p \in BOOLEAN, BeginOnce(e, SetToSeq(Contracts), p) PROVE Rest'
  <2> DEFINE x == [Endpoint("once", "make") EXCEPT !.queue = Files(SetToSeq(Contracts), p),
                                                   !.single = ~p]
  <2>1. Start(e, x)
    BY <1>3 DEF BeginOnce
  <2>2. x.pc = "make" /\ x.run = NoRun
    BY DEF Endpoint
  <2> HIDE DEF x
  <2> QED BY <2>1, <2>2, StartSingle, QuietKeeps
<1> QED BY <1>1, <1>2, <1>3

LEMMA ScanKeeps ==
  ASSUME IInv, NEW e \in Endpoints, Scan(e)
  PROVE  Rest'
<1> DEFINE j == Head(ep[e].todo)
           rest == [ep[e] EXCEPT !.todo = Tail(@)]
           next == [rest EXCEPT !.pc = "insert", !.job = j]
<1>1. Busy(e) /\ ep[e].pc = "scan" /\ UNCHANGED <<now, runs, overlapped>>
  BY DEF Scan, At, Busy
<1>2. Single(e)
  BY <1>1, BusySingle
<1>3. ep[e] \in EndpointRecord
  BY <1>1, BusyEndpoint DEF IInv
<1>4. rest.pc = "scan"
  BY <1>1, <1>3 DEF EndpointRecord
<1>5. next.pc = "insert" /\ next.job = j
  BY <1>3 DEF EndpointRecord
<1>6. Idle.pc = "idle"
  BY DEF Idle
<1>7. \/ Goto(e, rest)
      \/ Goto(e, next) /\ Held(j, LastPeriod) = {}
      \/ Goto(e, Idle)
  BY DEF Scan, EndTick
<1> HIDE DEF rest, next
<1>8. CASE Goto(e, next) /\ Held(j, LastPeriod) = {}
  <2>1. \A r \in DOMAIN runs : ~Holds(r, next.job, LastPeriod)
    BY <1>5, <1>8 DEF Held, Holds
  <2>2. RunsKept
    BY <1>1 DEF RunsKept
  <2> QED BY <1>1, <1>2, <1>5, <1>8, <2>1, <2>2, StepKeeps
<1> QED BY <1>1, <1>2, <1>4, <1>6, <1>7, <1>8, QuietKeeps

LEMMA ReportKeeps ==
  ASSUME IInv, NEW e \in Endpoints, ScanEnd(e) \/ Make(e) \/ Deliver(e)
  PROVE  Rest'
<1>1. Busy(e) /\ UNCHANGED <<now, runs, overlapped>>
  BY DEF ScanEnd, Make, Deliver, At, Busy
<1>2. Single(e) /\ ep[e] \in EndpointRecord
  BY <1>1, BusySingle, BusyEndpoint DEF IInv
<1>3. PICK x : /\ Goto(e, x)
               /\ \/ x.pc = "idle"
                  \/ /\ x.pc \in {"make", "deliver"} /\ ep[e].pc \in {"make", "deliver"}
                     /\ x.run = ep[e].run
  <2>1. CASE ScanEnd(e)
    BY <2>1 DEF ScanEnd, EndTick, Idle
  <2>2. CASE Make(e)
    BY <1>2, <2>2 DEF Make, At, EndpointRecord
  <2>3. CASE Deliver(e)
    <3>1. PICK y \in EndpointRecord : y = ep[e]
      BY <1>2
    <3>2. Goto(e, [y EXCEPT !.pc = "make", !.queue = Tail(y.queue), !.files = y.files + 1])
          /\ y.pc = "deliver"
      BY <2>3, <3>1 DEF Deliver, At
    <3>3. [y EXCEPT !.pc = "make", !.queue = Tail(y.queue), !.files = y.files + 1].pc = "make"
          /\ [y EXCEPT !.pc = "make", !.queue = Tail(y.queue), !.files = y.files + 1].run = y.run
      BY DEF EndpointRecord
    <3> QED BY <3>1, <3>2, <3>3
  <2> QED BY <2>1, <2>2, <2>3
<1> QED BY <1>1, <1>2, <1>3, QuietKeeps

\* The row of a new run: the month may have changed since the endpoint looked
\* for runs, but then no run is of that month yet.
LEMMA InsertKeeps ==
  ASSUME IInv, NEW e \in Endpoints, Insert(e)
  PROVE  Rest'
<1> DEFINE period == IF ep[e].period = Default THEN LastPeriod ELSE ep[e].period
           new == [job |-> ep[e].job, status |-> "running", files |-> 0, by |-> ep[e].kind,
                   wanted |-> {}, single |-> FALSE, period |-> period]
           x == [ep[e] EXCEPT !.pc = "resolve", !.run = Len(runs) + 1, !.files = 0]
           n == Len(runs) + 1
<1>1. /\ Busy(e) /\ ep[e].pc = "insert" /\ UNCHANGED <<now, overlapped>>
      /\ runs' = Append(runs, new) /\ Goto(e, x)
  BY DEF Insert, At, Busy
<1>2. /\ ep[e] \in EndpointRecord /\ ep[e].job \in JobIds /\ ep[e].kind # "once"
      /\ ep[e].kind = "tick" => ep[e].period = Default
  BY <1>1, BusyEndpoint DEF EndpointOK, IInv
<1>3. runs \in Seq(RunRecord) /\ now \in Nat /\ ep \in [Endpoints -> EndpointRecord \cup {Idle}]
  BY DEF IInv, TypeOK
<1>4. LastPeriod \in Int /\ LastPeriod' = LastPeriod
  BY <1>1, <1>3, MonthsPass DEF LastPeriod
<1>5. period \in Int /\ (ep[e].kind = "tick" => period = LastPeriod)
  BY <1>2, <1>4 DEF EndpointRecord
<1> HIDE DEF period
<1>6. new \in RunRecord
  BY <1>2, <1>5 DEF RunRecord, EndpointRecord
<1>7. /\ new.job = ep[e].job /\ new.status = "running" /\ new.by = ep[e].kind
      /\ new.period = period
  OBVIOUS
<1> HIDE DEF new
<1>8. /\ DOMAIN runs' = DOMAIN runs \cup {n} /\ n \notin DOMAIN runs /\ n \in Nat
      /\ \A r \in DOMAIN runs : runs'[r] = runs[r]
      /\ runs'[n] = new
  BY <1>1, <1>3, <1>6, Growth
<1>9. x.pc = "resolve" /\ x.run = n
  BY <1>2 DEF EndpointRecord
<1> HIDE DEF x, n
<1>10. /\ ep' = [ep EXCEPT ![e] = x] /\ ep'[e] = x
       /\ \A f \in Endpoints \ {e} : ep'[f] = ep[f]
  BY <1>1, <1>3 DEF Goto
<1>11. ~overlapped' => ~overlapped /\ \A f \in Endpoints \ {e} : ep'[f].pc = "idle"
  BY <1>1, <1>10, BusySingle DEF Single, Busy
<1>12. AloneInv'
  BY <1>11 DEF AloneInv, Busy
<1>13. PastInv'
  <2>1. ASSUME NEW r \in DOMAIN runs', runs'[r].by = "tick"
        PROVE  runs'[r].period <= LastPeriod
    <3>1. CASE r = n
      BY <1>4, <1>5, <1>7, <1>8, <2>1, <3>1
    <3>2. CASE r # n
      BY <1>8, <2>1, <3>2 DEF IInv, PastInv
    <3> QED BY <3>1, <3>2
  <2> QED BY <1>4, <2>1 DEF PastInv
<1>14. FreshInv'
  BY <1>9, <1>10, <1>11 DEF FreshInv, At
<1>15. OpenInv'
  <2>1. ASSUME ~overlapped', NEW f \in Endpoints, ep'[f].pc \in {"resolve", "make", "deliver"}
        PROVE  runs'[ep'[f].run].status = "running"
    BY <1>7, <1>8, <1>9, <1>10, <1>11, <2>1
  <2> QED BY <2>1 DEF OpenInv
<1>16. BilledOnce'
  <2>1. ASSUME ~overlapped', NEW r \in DOMAIN runs, runs[r].by = "tick", new.by = "tick",
               runs[r].job = new.job, runs[r].period = new.period,
               runs[r].status \in {"running", "success"}
        PROVE  FALSE
    <3>1. Holds(r, ep[e].job, LastPeriod)
      BY <1>5, <1>7, <2>1 DEF Holds
    <3> QED BY <1>1, <1>7, <1>11, <2>1, <3>1 DEF IInv, FreshInv, At
  <2>2. ASSUME ~overlapped', NEW r \in DOMAIN runs', NEW q \in DOMAIN runs',
               runs'[r].by = "tick", runs'[q].by = "tick", runs'[r].job = runs'[q].job,
               runs'[r].period = runs'[q].period,
               {runs'[r].status, runs'[q].status} \subseteq {"running", "success"}
        PROVE  r = q
    <3>1. CASE r = n \/ q = n
      BY <1>8, <2>1, <2>2, <3>1
    <3>2. CASE r # n /\ q # n
      <4>1. r \in DOMAIN runs /\ q \in DOMAIN runs /\ runs'[r] = runs[r] /\ runs'[q] = runs[q]
        BY <1>8, <2>2, <3>2
      <4> QED BY <1>11, <2>2, <4>1 DEF IInv, BilledOnce
    <3> QED BY <3>1, <3>2
  <2> QED BY <2>2 DEF BilledOnce
<1> QED BY <1>12, <1>13, <1>14, <1>15, <1>16 DEF Rest

\* A run that is decided was open, so that no other run holds its period.
LEMMA DecideKeeps ==
  ASSUME IInv, NEW e \in Endpoints, ep[e].pc \in {"resolve", "make", "deliver"},
         NEW status \in {"success", "error"}, Decide(e, status), UNCHANGED <<now, overlapped>>
  PROVE  Rest'
<1>1. Busy(e)
  BY DEF Busy
<1>2. ep[e] \in EndpointRecord /\ ep[e].run \in {NoRun} \cup DOMAIN runs /\ Single(e)
  BY <1>1, BusyEndpoint, BusySingle DEF EndpointOK, IInv
<1>3. runs \in Seq(RunRecord)
  BY DEF IInv, TypeOK
<1>4. RunsKept
  <2>1. CASE ep[e].run = NoRun
    BY <2>1 DEF Decide, RunsKept
  <2>2. CASE ep[e].run # NoRun
    <3>1. PICK r \in DOMAIN runs : r = ep[e].run
      BY <1>2, <2>2
    <3>2. PICK n : n = (IF status = "success" THEN ep[e].files ELSE 0)
      OBVIOUS
    <3>3. PICK q \in RunRecord : q = runs[r]
      BY <1>3, Elements
    <3>4. PICK p : p = [q EXCEPT !.status = status, !.files = n]
      OBVIOUS
    <3>5. p.by = q.by /\ p.job = q.job /\ p.period = q.period
      BY <3>4 DEF RunRecord
    <3>6. runs' = [runs EXCEPT ![r] = p]
      BY <1>3, <2>2, <3>1, <3>2, <3>3, <3>4 DEF Decide
    <3>7. /\ DOMAIN runs' = DOMAIN runs /\ runs'[r] = p
          /\ \A i \in DOMAIN runs \ {r} : runs'[i] = runs[i]
      BY <1>3, <3>6
    <3>8. ~overlapped => q.status = "running"
      BY <2>2, <3>1, <3>3 DEF IInv, OpenInv
    <3> QED BY <3>3, <3>5, <3>7, <3>8 DEF RunsKept
  <2> QED BY <2>1, <2>2
<1>5. Goto(e, After(e))
  BY DEF Decide
<1>6. After(e).pc \in {"scan", "idle"}
  BY <1>2 DEF After, Idle, EndpointRecord
<1> QED BY <1>2, <1>4, <1>5, <1>6, StepKeeps

LEMMA ResolveKeeps ==
  ASSUME IInv, NEW e \in Endpoints, Resolve(e)
  PROVE  Rest'
<1> DEFINE row == ep[e].seen[ep[e].job]
           contracts == Resolved(ep[e].job, row)
           x == [ep[e] EXCEPT !.pc = "make", !.queue = Files(contracts, row.perContract),
                              !.single = ~row.perContract]
<1>1. Busy(e) /\ ep[e].pc = "resolve" /\ UNCHANGED <<now, overlapped>>
  BY DEF Resolve, At, Busy
<1>2. ep[e] \in EndpointRecord /\ ep[e].run \in DOMAIN runs /\ Single(e)
  BY <1>1, BusyEndpoint, BusySingle DEF EndpointOK, IInv
<1>3. runs \in Seq(RunRecord)
  BY DEF IInv, TypeOK
<1>4. CASE contracts = << >>
  <2>1. Decide(e, "success")
    BY <1>4 DEF Resolve
  <2> QED BY <1>1, <2>1, DecideKeeps
<1>5. CASE contracts # << >>
  <2>1. /\ Goto(e, x)
        /\ runs' = [runs EXCEPT ![ep[e].run].wanted = Range(contracts),
                                ![ep[e].run].single = ~row.perContract]
    BY <1>5 DEF Resolve
  <2>2. x.pc = "make" /\ x.run = ep[e].run
    BY <1>2 DEF EndpointRecord
  <2>3. PICK r \in DOMAIN runs : r = ep[e].run
    BY <1>2
  <2>4. PICK q \in RunRecord : q = runs[r]
    BY <1>3, Elements
  <2>5. PICK p : p = [q EXCEPT !.wanted = Range(contracts), !.single = ~row.perContract]
    OBVIOUS
  <2>6. p.by = q.by /\ p.job = q.job /\ p.period = q.period /\ p.status = q.status
    BY <2>5 DEF RunRecord
  <2>7. runs' = [runs EXCEPT ![r] = p]
    BY <1>3, <2>1, <2>3, <2>4, <2>5
  <2>8. /\ DOMAIN runs' = DOMAIN runs /\ runs'[r] = p
        /\ \A i \in DOMAIN runs \ {r} : runs'[i] = runs[i]
    BY <1>3, <2>7
  <2>9. RunsKept
    BY <2>4, <2>6, <2>8 DEF RunsKept
  <2>10. ~overlapped' /\ x.run # NoRun => runs'[x.run].status = "running"
    BY <1>1, <2>2, <2>3, <2>4, <2>6, <2>8 DEF IInv, OpenInv
  <2> HIDE DEF x
  <2> QED BY <1>1, <1>2, <2>1, <2>2, <2>9, <2>10, StepKeeps
<1> QED BY <1>4, <1>5

LEMMA VerdictKeeps ==
  ASSUME IInv, NEW e \in Endpoints, Fail(e) \/ Finish(e)
  PROVE  Rest'
<1>1. /\ ep[e].pc \in {"make", "deliver"} /\ UNCHANGED <<now, overlapped>>
      /\ Decide(e, "error") \/ Decide(e, "success")
  BY DEF Fail, Finish, At
<1> QED BY <1>1, DecideKeeps

LEMMA PeriodTyped ==
  ASSUME TypeOK, NEW r \in DOMAIN runs
  PROVE  runs[r].period \in Int
<1>1. runs[r] \in RunRecord
  BY Elements DEF TypeOK
<1> QED BY <1>1 DEF RunRecord

LEMMA EnvironmentKeeps ==
  ASSUME IInv,
         (\E j \in JobIds : \E new \in Changed(j) : EditJob(j, new)) \/ Kill \/ TimePasses
         \/ UNCHANGED vars
  PROVE  Rest'
<1>1. UNCHANGED <<runs, overlapped>>
  BY DEF EditJob, Kill, TimePasses, vars
<1>2. \/ UNCHANGED <<ep, now>>
      \/ UNCHANGED now /\ ep' = [e \in Endpoints |-> Idle]
      \/ UNCHANGED ep /\ now' = now + 1
  BY DEF EditJob, Kill, TimePasses, vars
<1>3. LastPeriod \in Int /\ LastPeriod' \in Int /\ LastPeriod' >= LastPeriod
  <2>1. now \in Nat /\ now' \in Nat
    BY <1>2 DEF IInv, TypeOK
  <2>2. CASE now' = now + 1
    BY <2>1, <2>2, MonthsPass, WindowAssumption DEF LastPeriod
  <2>3. CASE now' = now
    BY <2>1, <2>3, MonthsPass DEF LastPeriod
  <2> QED BY <1>2, <2>2, <2>3
<1>4. BilledOnce'
  BY <1>1 DEF IInv, BilledOnce
<1>5. PastInv'
  <2>1. \A r \in DOMAIN runs : runs[r].period \in Int
    BY PeriodTyped DEF IInv
  <2> QED BY <1>1, <1>3, <2>1 DEF IInv, PastInv
<1>6. AloneInv' /\ OpenInv'
  BY <1>1, <1>2 DEF IInv, AloneInv, OpenInv, Busy, Idle
<1>7. FreshInv'
  <2>1. ASSUME ~overlapped', NEW e \in Endpoints, ep'[e].pc = "insert", ep'[e].kind = "tick",
               NEW r \in DOMAIN runs'
        PROVE  ~Holds(r, ep[e].job, LastPeriod)'
    <3>1. ep' = ep
      BY <1>2, <2>1 DEF Idle
    <3>2. CASE LastPeriod' = LastPeriod
      BY <1>1, <2>1, <3>1, <3>2 DEF IInv, FreshInv, At, Holds
    <3>3. CASE LastPeriod' > LastPeriod
      <4>1. r \in DOMAIN runs /\ runs[r].period \in Int
        BY <1>1, <2>1, PeriodTyped DEF IInv
      <4>2. runs[r].by = "tick" => runs[r].period <= LastPeriod
        BY <4>1 DEF IInv, PastInv
      <4> QED BY <1>1, <1>3, <3>3, <4>1, <4>2 DEF Holds
    <3> QED BY <1>3, <3>2, <3>3
  <2> QED BY <2>1 DEF FreshInv, At
<1> QED BY <1>4, <1>5, <1>6, <1>7 DEF Rest

LEMMA InitInv == Init => IInv
  BY InitTyped DEF Init, IInv, AloneInv, PastInv, FreshInv, OpenInv, BilledOnce, At, Busy, Idle

LEMMA NextKeeps ==
  ASSUME IInv, [Next]_vars
  PROVE  IInv'
<1>1. TypeOK'
  BY NextTyped DEF IInv
<1>2. Rest'
  <2>1. ASSUME NEW e \in Endpoints, NEW j \in JobIds,
               NEW period \in {Default, LastPeriod, LastPeriod + 1}, BeginManual(e, j, period)
        PROVE  Rest'
    <3>1. period \in Int
      BY MonthsPass DEF Default, IInv, TypeOK
    <3> QED BY <2>1, <3>1, StartKeeps
  <2> QED BY <2>1, StartKeeps, ScanKeeps, ReportKeeps, InsertKeeps, ResolveKeeps, VerdictKeeps,
             EnvironmentKeeps DEF Next
<1> QED BY <1>1, <1>2 DEF IInv, Rest

\* The CronJob never has two runs of a job for one period under way or successful,
\* for any number of jobs and contracts, through failures, restarts, edits and the
\* change of the month, as long as no two endpoints have run at the same time.
THEOREM PeriodsAreBilledOnce == Spec => []BilledOnce
<1>1. IInv => BilledOnce
  BY DEF IInv
<1> QED BY <1>1, InitInv, NextKeeps, PTL DEF Spec

-----------------------------------------------------------------------------
(* What a run has delivered. *)

\* Works on a run that has a row.
Works(x) == x.pc \in {"resolve", "make", "deliver"} /\ x.run # NoRun

\* The contracts of a job are distinct.
UniqueInv == \A j \in JobIds : IsInjective(job[j].contracts)

\* What has arrived is of a run the table has, or of none.
KnownInv == \A p \in sent : p[1] \in DOMAIN runs \cup {NoRun}

\* No two endpoints work on one run.
ApartInv ==
  \A e, f \in Endpoints : Works(ep[e]) /\ Works(ep[f]) /\ ep[e].run = ep[f].run => e = f

\* What arrived for a run, of the history s.
Arrived(s, r) == {c \in Contracts \cup {All} : <<r, c>> \in s}

\* A row q, and an endpoint x that works on it, when the files a have arrived.
RowOK(q, a) ==
  q.status = "success" =>
    /\ q.files = Cardinality(a)
    /\ IF q.single THEN All \in a ELSE a = q.wanted \cap Billable
WorkOK(x, q, a) ==
  /\ q.status = "running" /\ x.files = Cardinality(a)
  /\ x.pc = "resolve" => a = {} /\ q.wanted = {} /\ ~q.single
  /\ x.pc # "resolve" =>
       /\ IsInjective(x.queue) /\ x.single = q.single
       /\ q.single => Range(x.queue) \cup a \subseteq {All} /\ Range(x.queue) \cap a = {}
       /\ ~q.single => /\ Range(x.queue) \subseteq q.wanted
                       /\ a = (q.wanted \cap Billable) \ Range(x.queue)
                       /\ x.pc = "deliver" => Head(x.queue) \in Billable
WorkInv ==
  \A e \in Endpoints : Works(ep[e]) => WorkOK(ep[e], runs[ep[e].run], Arrived(sent, ep[e].run))

CInv == TypeOK /\ UniqueInv /\ KnownInv /\ ApartInv /\ WorkInv /\ SuccessIsComplete
CRest == UniqueInv /\ KnownInv /\ ApartInv /\ WorkInv /\ SuccessIsComplete

LEMMA HeadAndTail ==
  ASSUME NEW S, NEW s \in Seq(S), s # << >>
  PROVE  /\ Head(s) \in Range(s) /\ Head(s) \in S /\ Tail(s) \in Seq(S)
         /\ Range(s) = {Head(s)} \cup Range(Tail(s)) /\ Range(s) \subseteq S
         /\ IsInjective(s) => IsInjective(Tail(s)) /\ Head(s) \notin Range(Tail(s))
<1>1. /\ Len(s) \in Nat /\ Len(s) > 0 /\ DOMAIN s = 1 .. Len(s) /\ Head(s) = s[1]
      /\ Tail(s) \in Seq(S) /\ Len(Tail(s)) = Len(s) - 1
      /\ DOMAIN Tail(s) = 1 .. Len(s) - 1
      /\ \A i \in 1 .. Len(s) - 1 : Tail(s)[i] = s[i + 1]
      /\ \A i \in DOMAIN s : s[i] \in S
  OBVIOUS
<1>2. /\ Range(s) = {s[i] : i \in 1 .. Len(s)}
      /\ Range(Tail(s)) = {s[i + 1] : i \in 1 .. Len(s) - 1}
  BY <1>1 DEF Range
<1>3. Range(s) = {Head(s)} \cup Range(Tail(s))
  <2>1. ASSUME NEW i \in 1 .. Len(s), i # 1 PROVE s[i] \in Range(Tail(s))
    <3>1. i - 1 \in 1 .. Len(s) - 1 /\ (i - 1) + 1 = i
      BY <1>1, <2>1
    <3> QED BY <1>2, <3>1
  <2>2. ASSUME NEW i \in 1 .. Len(s) - 1 PROVE s[i + 1] \in Range(s)
    <3>1. i + 1 \in 1 .. Len(s)
      BY <1>1
    <3> QED BY <1>2, <3>1
  <2>3. 1 \in 1 .. Len(s)
    BY <1>1
  <2> QED BY <1>1, <1>2, <2>1, <2>2, <2>3
<1>4. ASSUME IsInjective(s)
      PROVE  IsInjective(Tail(s)) /\ Head(s) \notin Range(Tail(s))
  <2>1. \A i, k \in 1 .. Len(s) : s[i] = s[k] => i = k
    BY <1>1, <1>4 DEF IsInjective
  <2>2. \A i \in 1 .. Len(s) - 1 : i + 1 \in 1 .. Len(s) /\ i + 1 # 1
    BY <1>1
  <2>3. 1 \in 1 .. Len(s)
    BY <1>1
  <2>4. ASSUME NEW i \in DOMAIN Tail(s), NEW k \in DOMAIN Tail(s), Tail(s)[i] = Tail(s)[k]
        PROVE  i = k
    <3>1. i + 1 = k + 1
      BY <1>1, <2>1, <2>2, <2>4
    <3> QED BY <1>1, <3>1
  <2> QED BY <1>1, <1>2, <2>1, <2>2, <2>3, <2>4 DEF IsInjective
<1> QED BY <1>1, <1>2, <1>3, <1>4

LEMMA SentFinite ==
  ASSUME NEW s, NEW r
  PROVE  IsFiniteSet(Arrived(s, r))
<1>1. IsFiniteSet(Contracts \cup {All})
  BY ContractsAssumption, FS_AddElement
<1> QED BY <1>1, FS_Subset DEF Arrived

LEMMA Counting ==
  /\ Cardinality({}) = 0
  /\ \A T : IsFiniteSet(T) => Cardinality(T) \in Nat /\ (Cardinality(T) = 0 <=> T = {})
  /\ \A T, y : IsFiniteSet(T) /\ y \notin T => Cardinality(T \cup {y}) = Cardinality(T) + 1
BY FS_EmptySet, FS_CardinalityType, FS_AddElement

\* The contracts of a run, and the files it makes for them.
LEMMA ResolvedDistinct ==
  ASSUME TypeOK, UniqueInv, NEW j \in JobIds, NEW row \in Row
  PROVE  IsInjective(Resolved(j, row))
BY DistinctAssumption DEF Resolved, UniqueInv, JobIds

LEMMA FilesDistinct ==
  ASSUME NEW contracts, IsInjective(contracts), NEW perContract \in BOOLEAN
  PROVE  /\ IsInjective(Files(contracts, perContract))
         /\ Range(Files(contracts, perContract)) = IF perContract THEN Range(contracts) ELSE {All}
<1>1. IsInjective(<<All>>) /\ Range(<<All>>) = {All}
  BY DEF IsInjective, Range
<1> QED BY <1>1 DEF Files

\* What is left to prove of a step of one endpoint.
LEMMA WorkStep ==
  ASSUME CInv, NEW e \in Endpoints, NEW x, Goto(e, x), UNCHANGED job,
         DOMAIN runs \subseteq DOMAIN runs',
         \A p \in sent' : p \in sent \/ p[1] = ep[e].run,
         \A r \in DOMAIN runs :
           (Works(ep[e]) => r # ep[e].run) => runs'[r] = runs[r] /\ Arrived(sent', r) = Arrived(sent, r),
         \A r \in DOMAIN runs' : r \notin DOMAIN runs \/ (Works(ep[e]) /\ r = ep[e].run)
                                 => RowOK(runs'[r], Arrived(sent', r)),
         Works(x) => /\ WorkOK(x, runs'[x.run], Arrived(sent', x.run))
                     /\ x.run \notin DOMAIN runs \/ (Works(ep[e]) /\ x.run = ep[e].run),
         ep[e].pc \in {"make", "deliver"} \/ UNCHANGED sent
  PROVE  CRest'
<1>1. /\ ep' = [ep EXCEPT ![e] = x] /\ ep'[e] = x /\ \A f \in Endpoints \ {e} : ep'[f] = ep[f]
  BY DEF Goto, CInv, TypeOK
<1>2. ASSUME NEW f \in Endpoints, Works(ep[f]) PROVE ep[f].run \in DOMAIN runs
  <2>1. Busy(f)
    BY <1>2 DEF Works, Busy
  <2> QED BY <1>2, <2>1, BusyEndpoint DEF Works, CInv, EndpointOK
<1>3. UniqueInv'
  BY DEF UniqueInv, CInv
<1>4. KnownInv'
  <2>1. CASE UNCHANGED sent
    BY <2>1 DEF KnownInv, CInv
  <2>2. CASE ep[e].pc \in {"make", "deliver"}
    <3>1. Busy(e)
      BY <2>2 DEF Busy
    <3>2. ep[e].run \in DOMAIN runs \cup {NoRun}
      BY <2>2, <3>1, BusyEndpoint DEF CInv, EndpointOK
    <3> QED BY <3>2 DEF KnownInv, CInv
  <2> QED BY <2>1, <2>2
<1>5. ApartInv'
  <2>1. ASSUME NEW f \in Endpoints, f # e, Works(ep'[f]), Works(x), x.run = ep'[f].run
        PROVE  FALSE
    <3>1. ep'[f] = ep[f] /\ ep[f].run \in DOMAIN runs
      BY <1>1, <1>2, <2>1
    <3>2. Works(ep[e]) /\ ep[f].run = ep[e].run
      BY <2>1, <3>1
    <3> QED BY <2>1, <3>1, <3>2 DEF CInv, ApartInv
  <2>2. ASSUME NEW f \in Endpoints, NEW g \in Endpoints, Works(ep'[f]), Works(ep'[g]),
               ep'[f].run = ep'[g].run
        PROVE  f = g
    <3>1. CASE f # e /\ g # e
      BY <1>1, <2>2, <3>1 DEF CInv, ApartInv
    <3>2. CASE f = e \/ g = e
      BY <1>1, <2>1, <2>2, <3>2
    <3> QED BY <3>1, <3>2
  <2> QED BY <2>2 DEF ApartInv
<1>6. WorkInv'
  <2>1. ASSUME NEW f \in Endpoints, f # e, Works(ep[f])
        PROVE  WorkOK(ep[f], runs'[ep[f].run], Arrived(sent', ep[f].run))
    <3>1. ep[f].run \in DOMAIN runs /\ (Works(ep[e]) => ep[f].run # ep[e].run)
      BY <1>2, <2>1 DEF CInv, ApartInv
    <3>2. runs'[ep[f].run] = runs[ep[f].run] /\ Arrived(sent', ep[f].run) = Arrived(sent, ep[f].run)
      <4>1. PICK r \in DOMAIN runs : r = ep[f].run
        BY <3>1
      <4>2. runs'[r] = runs[r] /\ Arrived(sent', r) = Arrived(sent, r)
        BY <3>1, <4>1
      <4> QED BY <4>1, <4>2
    <3> QED BY <2>1, <3>2 DEF CInv, WorkInv
  <2>2. ASSUME NEW f \in Endpoints, Works(ep'[f])
        PROVE  WorkOK(ep'[f], runs'[ep'[f].run], Arrived(sent', ep'[f].run))
    <3>1. CASE f = e
      BY <1>1, <2>2, <3>1
    <3>2. CASE f # e
      BY <1>1, <2>1, <2>2, <3>2
    <3> QED BY <3>1, <3>2
  <2> QED BY <2>2 DEF WorkInv
<1>7. SuccessIsComplete'
  <2>1. ASSUME NEW r \in DOMAIN runs' PROVE RowOK(runs'[r], Arrived(sent', r))
    <3>1. CASE r \notin DOMAIN runs \/ (Works(ep[e]) /\ r = ep[e].run)
      BY <3>1
    <3>2. CASE r \in DOMAIN runs /\ (Works(ep[e]) => r # ep[e].run)
      BY <3>2 DEF CInv, SuccessIsComplete, RowOK, Arrived, Sent
    <3> QED BY <3>1, <3>2
  <2> QED BY <2>1 DEF SuccessIsComplete, RowOK, Arrived, Sent
<1> QED BY <1>3, <1>4, <1>5, <1>6, <1>7 DEF CRest

\* An endpoint that works on no run, before the step or after it.
LEMMA QuietWork ==
  ASSUME CInv, NEW e \in Endpoints, NEW x, Goto(e, x), ~Works(ep[e]), ~Works(x),
         UNCHANGED <<job, runs>>, sent \subseteq sent',
         \A p \in sent' : p \in sent \/ p[1] = ep[e].run,
         UNCHANGED sent \/ ep[e].pc \in {"make", "deliver"}
  PROVE  CRest'
<1>1. ASSUME NEW r \in DOMAIN runs PROVE Arrived(sent', r) = Arrived(sent, r)
  <2>1. CASE UNCHANGED sent
    BY <2>1
  <2>2. CASE ep[e].pc \in {"make", "deliver"}
    <3>1. ep[e].run = NoRun
      BY <2>2 DEF Works
    <3>2. r # NoRun
      BY DEF CInv, TypeOK, NoRun
    <3>3. ASSUME NEW c PROVE <<r, c>> \in sent' <=> <<r, c>> \in sent
      BY <3>1, <3>2
    <3> QED BY <3>3 DEF Arrived
  <2> QED BY <2>1, <2>2
<1>2. \A r \in DOMAIN runs' : r \in DOMAIN runs
  OBVIOUS
<1> QED BY <1>1, <1>2, WorkStep

LEMMA BeginWorks ==
  ASSUME CInv, NEW e \in Endpoints,
         \/ BeginTick(e) \/ Scan(e) \/ ScanEnd(e)
         \/ \E j \in JobIds : \E period \in Int : BeginManual(e, j, period)
         \/ \E perContract \in BOOLEAN : BeginOnce(e, SetToSeq(Contracts), perContract)
  PROVE  CRest'
<1>1. UNCHANGED <<job, runs, sent>> /\ ep[e].pc \in {"idle", "scan"}
  BY DEF BeginTick, BeginManual, BeginOnce, Start, Scan, ScanEnd, Busy, At
<1>2. PICK x : Goto(e, x) /\ ~Works(x)
  <2>1. CASE BeginTick(e)
    <3>1. PICK y \in EndpointRecord : y = Endpoint("tick", "scan") /\ y.pc = "scan"
      BY EndpointTyped DEF CInv
    <3>2. [y EXCEPT !.todo = Jobs, !.tick = Len(ticks) + 1].pc = "scan"
      BY <3>1 DEF EndpointRecord
    <3> QED BY <2>1, <3>1, <3>2 DEF BeginTick, Start, Works
  <2>2. ASSUME NEW j \in JobIds, NEW period \in Int, BeginManual(e, j, period)
        PROVE  \E x : Goto(e, x) /\ ~Works(x)
    <3>1. PICK y \in EndpointRecord : y = Endpoint("manual", "insert") /\ y.pc = "insert"
      BY EndpointTyped DEF CInv
    <3>2. [y EXCEPT !.job = j, !.period = period].pc = "insert"
      BY <3>1 DEF EndpointRecord
    <3> QED BY <2>2, <3>1, <3>2 DEF BeginManual, Start, Works
  <2>3. ASSUME NEW b \in BOOLEAN, BeginOnce(e, SetToSeq(Contracts), b)
        PROVE  \E x : Goto(e, x) /\ ~Works(x)
    <3>1. PICK y \in EndpointRecord : y = Endpoint("once", "make") /\ y.run = NoRun
      BY EndpointTyped DEF CInv
    <3>2. PICK f : f = Files(SetToSeq(Contracts), b)
      OBVIOUS
    <3>3. [y EXCEPT !.queue = f, !.single = ~b].run = NoRun
      BY <3>1 DEF EndpointRecord
    <3> QED BY <2>3, <3>1, <3>2, <3>3 DEF BeginOnce, Start, Works
  <2>4. CASE Scan(e)
    <3>1. PICK y \in EndpointRecord : y = ep[e] /\ y.pc = "scan"
      BY <2>4, BusyEndpoint DEF Scan, At, Busy, CInv
    <3>2. PICK j : j = Head(ep[e].todo)
      OBVIOUS
    <3> DEFINE rest == [y EXCEPT !.todo = Tail(y.todo)]
    <3>3. rest.pc = "scan" /\ [rest EXCEPT !.pc = "insert", !.job = j].pc = "insert"
      BY <3>1 DEF EndpointRecord
    <3>4. \/ Goto(e, rest)
          \/ Goto(e, [rest EXCEPT !.pc = "insert", !.job = j])
          \/ Goto(e, Idle)
      BY <2>4, <3>1, <3>2 DEF Scan, EndTick
    <3> HIDE DEF rest
    <3> QED BY <3>3, <3>4 DEF Works, Idle
  <2>5. CASE ScanEnd(e)
    BY <2>5 DEF ScanEnd, EndTick, Works, Idle
  <2> QED BY <2>1, <2>2, <2>3, <2>4, <2>5
<1> QED BY <1>1, <1>2, QuietWork DEF Works

\* The run of a worker.
LEMMA Worker ==
  ASSUME CInv, NEW e \in Endpoints, Works(ep[e])
  PROVE  /\ ep[e] \in EndpointRecord /\ ep[e].run \in DOMAIN runs
         /\ runs[ep[e].run] \in RunRecord
         /\ WorkOK(ep[e], runs[ep[e].run], Arrived(sent, ep[e].run))
<1>1. Busy(e)
  BY DEF Works, Busy
<1>2. ep[e] \in EndpointRecord /\ ep[e].run \in DOMAIN runs
  BY <1>1, BusyEndpoint DEF Works, CInv, EndpointOK
<1> QED BY <1>2, Elements DEF CInv, TypeOK, WorkInv

LEMMA InsertWorks ==
  ASSUME CInv, NEW e \in Endpoints, Insert(e)
  PROVE  CRest'
<1> DEFINE new == [job |-> ep[e].job, status |-> "running", files |-> 0,
                   by |-> ep[e].kind, wanted |-> {}, single |-> FALSE,
                   period |-> IF ep[e].period = Default THEN LastPeriod ELSE ep[e].period]
           n == Len(runs) + 1
<1>1. /\ ep[e].pc = "insert" /\ UNCHANGED <<job, sent>> /\ runs' = Append(runs, new)
      /\ Goto(e, [ep[e] EXCEPT !.pc = "resolve", !.run = n, !.files = 0])
  BY DEF Insert, At
<1>2. PICK y \in EndpointRecord : y = ep[e]
  BY <1>1, BusyEndpoint DEF Busy, CInv
<1>3. new.status = "running" /\ new.wanted = {} /\ ~new.single
  OBVIOUS
<1>4. runs \in Seq(RunRecord) /\ now \in Nat
  BY DEF CInv, TypeOK
<1>5. /\ ep[e].job \in JobIds /\ ep[e].kind # "once"
  BY <1>1, BusyEndpoint DEF Busy, CInv, EndpointOK
<1>6. new \in RunRecord
  <2>1. ep[e].kind \in {"tick", "manual"} /\ ep[e].period \in Int /\ LastPeriod \in Int
    BY <1>2, <1>4, <1>5, MonthsPass DEF EndpointRecord
  <2> QED BY <1>5, <2>1 DEF RunRecord
<1> HIDE DEF new
<1>7. /\ DOMAIN runs' = DOMAIN runs \cup {n} /\ n \notin DOMAIN runs /\ n \in Nat /\ n # NoRun
      /\ \A r \in DOMAIN runs : runs'[r] = runs[r]
      /\ runs'[n] = new
  BY <1>1, <1>4, <1>6, Growth DEF NoRun
<1> HIDE DEF n
<1> DEFINE x == [y EXCEPT !.pc = "resolve", !.run = n, !.files = 0]
<1>8. x.pc = "resolve" /\ x.run = n /\ x.files = 0 /\ Goto(e, x)
  BY <1>1, <1>2 DEF EndpointRecord
<1> HIDE DEF x
<1>9. Arrived(sent', n) = {}
  BY <1>1, <1>7 DEF CInv, KnownInv, Arrived
<1>10. WorkOK(x, runs'[x.run], Arrived(sent', x.run))
  BY <1>3, <1>7, <1>8, <1>9, Counting DEF WorkOK
<1>11. \A r \in DOMAIN runs' : r \notin DOMAIN runs => RowOK(runs'[r], Arrived(sent', r))
  BY <1>3, <1>7 DEF RowOK
<1> QED BY <1>1, <1>7, <1>8, <1>10, <1>11, WorkStep DEF Works

\* A run that is decided, the files of which may have grown by the last.
LEMMA DecideWorks ==
  ASSUME CInv, NEW e \in Endpoints, ep[e].pc \in {"resolve", "make", "deliver"},
         NEW status \in {"success", "error"}, Decide(e, status), UNCHANGED job,
         sent \subseteq sent', \A p \in sent' : p \in sent \/ p[1] = ep[e].run,
         UNCHANGED sent \/ ep[e].pc \in {"make", "deliver"},
         Works(ep[e]) /\ status = "success" =>
           LET q == runs[ep[e].run]
               a == Arrived(sent, ep[e].run)
           IN /\ UNCHANGED sent
              /\ ep[e].files = Cardinality(a)
              /\ IF q.single THEN All \in a ELSE a = q.wanted \cap Billable
  PROVE  CRest'
<1>1. Goto(e, After(e)) /\ ~Works(After(e))
  <2>1. PICK y \in EndpointRecord : y = ep[e]
    BY BusyEndpoint DEF Busy, CInv
  <2>2. [y EXCEPT !.pc = "scan", !.run = NoRun, !.queue = << >>, !.job = 0].pc = "scan"
    BY DEF EndpointRecord
  <2> QED BY <2>1, <2>2 DEF Decide, After, Works, Idle
<1>2. CASE ~Works(ep[e])
  <2>1. UNCHANGED runs
    BY <1>2 DEF Works, Decide
  <2> QED BY <1>1, <1>2, <2>1, QuietWork
<1>3. CASE Works(ep[e])
  <2>1. PICK r \in DOMAIN runs : r = ep[e].run
    BY <1>3, Worker
  <2>2. PICK q \in RunRecord : q = runs[r]
    BY <1>3, <2>1, Worker
  <2>3. PICK n : n = (IF status = "success" THEN ep[e].files ELSE 0)
    OBVIOUS
  <2>4. PICK p : p = [q EXCEPT !.status = status, !.files = n]
    OBVIOUS
  <2>5. p.status = status /\ p.files = n /\ p.single = q.single /\ p.wanted = q.wanted
    BY <2>4 DEF RunRecord
  <2>6. runs \in Seq(RunRecord)
    BY DEF CInv, TypeOK
  <2>7. runs' = [runs EXCEPT ![r] = p]
    BY <1>3, <2>1, <2>2, <2>3, <2>4, <2>6 DEF Decide, Works
  <2>8. /\ DOMAIN runs' = DOMAIN runs /\ runs'[r] = p
        /\ \A i \in DOMAIN runs \ {r} : runs'[i] = runs[i]
    BY <2>6, <2>7
  <2>9. RowOK(p, Arrived(sent', r))
    BY <1>3, <2>1, <2>2, <2>3, <2>5 DEF RowOK
  <2>10. ASSUME NEW i \in DOMAIN runs, i # r PROVE Arrived(sent', i) = Arrived(sent, i)
    <3>1. ASSUME NEW c PROVE <<i, c>> \in sent' <=> <<i, c>> \in sent
      BY <2>1, <2>10
    <3> QED BY <3>1 DEF Arrived
  <2> QED BY <1>1, <1>3, <2>1, <2>8, <2>9, <2>10, WorkStep
<1> QED BY <1>2, <1>3

LEMMA ResolveWorks ==
  ASSUME CInv, NEW e \in Endpoints, Resolve(e)
  PROVE  CRest'
<1> DEFINE j == ep[e].job
           row == ep[e].seen[j]
           contracts == Resolved(j, row)
<1>1. ep[e].pc = "resolve" /\ UNCHANGED <<job, sent>>
  BY DEF Resolve, At
<1>2. /\ ep[e] \in EndpointRecord /\ j \in JobIds /\ row \in Row /\ ep[e].run \in DOMAIN runs
      /\ ep[e].run # NoRun
  <2>1. ep[e] \in EndpointRecord /\ j \in JobIds /\ ep[e].run \in DOMAIN runs
    BY <1>1, BusyEndpoint DEF Busy, CInv, EndpointOK
  <2> QED BY <2>1 DEF EndpointRecord, CInv, TypeOK, NoRun
<1>3. Works(ep[e])
  BY <1>1, <1>2 DEF Works
<1>4. WorkOK(ep[e], runs[ep[e].run], Arrived(sent, ep[e].run))
  BY <1>3, Worker
<1>5. CASE contracts = << >>
  <2>1. Decide(e, "success")
    BY <1>5 DEF Resolve
  <2> QED BY <1>1, <1>4, <2>1, DecideWorks DEF WorkOK
<1>6. CASE contracts # << >>
  <2>1. PICK y \in EndpointRecord : y = ep[e]
    BY <1>2
  <2>2. PICK b \in BOOLEAN : b = row.perContract
    BY <1>2 DEF Row
  <2>3. PICK c \in Seq(Contracts) : c = contracts /\ IsInjective(c) /\ Range(c) \subseteq Contracts
    BY <1>2, ResolvedTyped, ResolvedDistinct DEF CInv
  <2>4. PICK f : f = Files(c, b)
    OBVIOUS
  <2>5. IsInjective(f) /\ Range(f) = IF b THEN Range(c) ELSE {All}
    BY <2>3, <2>4, FilesDistinct
  <2>6. PICK r \in DOMAIN runs : r = ep[e].run
    BY <1>2
  <2>7. PICK q \in RunRecord : q = runs[r]
    BY <1>3, <2>6, Worker
  <2> DEFINE x == [y EXCEPT !.pc = "make", !.queue = f, !.single = ~b]
             p == [q EXCEPT !.wanted = Range(c), !.single = ~b]
  <2>8. runs \in Seq(RunRecord)
    BY DEF CInv, TypeOK
  <2>9. Goto(e, x) /\ runs' = [runs EXCEPT ![r] = p]
    <3>1. /\ Goto(e, [ep[e] EXCEPT !.pc = "make", !.queue = Files(contracts, row.perContract),
                                   !.single = ~row.perContract])
          /\ runs' = [runs EXCEPT ![ep[e].run].wanted = Range(contracts),
                                  ![ep[e].run].single = ~row.perContract]
      BY <1>6 DEF Resolve
    <3> QED BY <2>1, <2>2, <2>3, <2>4, <2>6, <2>7, <2>8, <3>1
  <2>10. /\ x.pc = "make" /\ x.run = y.run /\ x.queue = f /\ x.single = ~b /\ x.files = y.files
    BY DEF EndpointRecord
  <2>11. p.wanted = Range(c) /\ p.single = ~b /\ p.status = q.status
    BY DEF RunRecord
  <2> HIDE DEF x, p
  <2>12. /\ DOMAIN runs' = DOMAIN runs /\ runs'[r] = p
         /\ \A i \in DOMAIN runs \ {r} : runs'[i] = runs[i]
    BY <2>8, <2>9
  <2>13. Arrived(sent, r) = {} /\ q.status = "running" /\ y.files = Cardinality({})
    BY <1>1, <1>4, <2>1, <2>6, <2>7 DEF WorkOK
  <2>14. WorkOK(x, p, {})
    BY <2>5, <2>10, <2>11, <2>13 DEF WorkOK
  <2>15. RowOK(p, {})
    BY <2>11, <2>13 DEF RowOK
  <2>16. Arrived(sent', r) = {} /\ \A i \in DOMAIN runs : Arrived(sent', i) = Arrived(sent, i)
    BY <1>1, <2>13
  <2>17. /\ WorkOK(x, runs'[x.run], Arrived(sent', x.run)) /\ x.run = ep[e].run
         /\ Goto(e, x) /\ UNCHANGED job /\ UNCHANGED sent
    BY <1>1, <2>1, <2>6, <2>9, <2>10, <2>12, <2>14, <2>16
  <2>18. \A i \in DOMAIN runs :
           (Works(ep[e]) => i # ep[e].run)
             => runs'[i] = runs[i] /\ Arrived(sent', i) = Arrived(sent, i)
    BY <1>3, <2>6, <2>12, <2>16
  <2>19. \A i \in DOMAIN runs' : i \notin DOMAIN runs \/ (Works(ep[e]) /\ i = ep[e].run)
                                 => RowOK(runs'[i], Arrived(sent', i))
    BY <2>6, <2>12, <2>15, <2>16
  <2> QED BY <1>3, <2>12, <2>17, <2>18, <2>19, WorkStep
<1> QED BY <1>5, <1>6

\* A worker goes on with its run, for which one file may have arrived.
LEMMA GoesOn ==
  ASSUME CInv, NEW e \in Endpoints, NEW x \in EndpointRecord, Goto(e, x), UNCHANGED <<job, runs>>,
         ep[e].pc \in {"make", "deliver"}, x.pc \in {"make", "deliver"}, x.run = ep[e].run,
         sent \subseteq sent', \A p \in sent' : p \in sent \/ p[1] = ep[e].run,
         Works(ep[e]) => WorkOK(x, runs[ep[e].run], Arrived(sent', ep[e].run))
  PROVE  CRest'
<1>1. CASE ~Works(ep[e])
  BY <1>1, QuietWork DEF Works
<1>2. CASE Works(ep[e])
  <2>1. PICK r \in DOMAIN runs : r = ep[e].run
    BY <1>2, Worker
  <2>2. ASSUME NEW i \in DOMAIN runs, i # r PROVE Arrived(sent', i) = Arrived(sent, i)
    <3>1. ASSUME NEW c PROVE <<i, c>> \in sent' <=> <<i, c>> \in sent
      BY <2>1, <2>2
    <3> QED BY <3>1 DEF Arrived
  <2>3. RowOK(runs[r], Arrived(sent', r))
    BY <1>2, <2>1, Worker DEF WorkOK, RowOK
  <2> QED BY <1>2, <2>1, <2>2, <2>3, WorkStep
<1> QED BY <1>1, <1>2

LEMMA MakeWorks ==
  ASSUME CInv, NEW e \in Endpoints, Make(e)
  PROVE  CRest'
<1>1. ep[e].pc = "make" /\ ep[e].queue # << >> /\ UNCHANGED <<job, runs, sent>>
  BY DEF Make, At
<1>2. PICK y \in EndpointRecord : y = ep[e]
  BY <1>1, BusyEndpoint DEF Busy, CInv
<1>3. PICK t : t = Tail(y.queue)
  OBVIOUS
<1>4. /\ Head(y.queue) \in Range(y.queue) /\ t \in Seq(Contracts \cup {All})
      /\ Range(y.queue) = {Head(y.queue)} \cup Range(t)
      /\ IsInjective(y.queue) => IsInjective(t) /\ Head(y.queue) \notin Range(t)
  BY <1>1, <1>2, <1>3, HeadAndTail DEF EndpointRecord
<1> DEFINE ready == [y EXCEPT !.pc = "deliver"]
           rest == [y EXCEPT !.queue = t]
<1>5. /\ ready \in EndpointRecord /\ ready.pc = "deliver" /\ ready.run = y.run
      /\ ready.queue = y.queue /\ ready.files = y.files /\ ready.single = y.single
  BY DEF EndpointRecord
<1>6. /\ rest \in EndpointRecord /\ rest.pc = y.pc /\ rest.run = y.run
      /\ rest.queue = t /\ rest.files = y.files /\ rest.single = y.single
  BY <1>4 DEF EndpointRecord
<1>7. \/ Goto(e, ready) /\ HasContent(e, Head(y.queue))
      \/ Goto(e, rest) /\ ~HasContent(e, Head(y.queue))
  BY <1>2, <1>3 DEF Make
<1> HIDE DEF ready, rest
<1>8. ASSUME Works(ep[e])
      PROVE  LET q == runs[y.run]
                 a == Arrived(sent, y.run)
             IN /\ WorkOK(y, q, a) /\ q.wanted \subseteq Contracts
                /\ ~q.single => (HasContent(e, Head(y.queue)) <=> Head(y.queue) \in Billable)
  <2>1. WorkOK(y, runs[y.run], Arrived(sent, y.run)) /\ runs[y.run] \in RunRecord
    BY <1>2, <1>8, Worker
  <2>2. runs[y.run].wanted \subseteq Contracts
    BY <2>1 DEF RunRecord
  <2>3. ~runs[y.run].single => Head(y.queue) # All
    BY <1>1, <1>2, <1>4, <2>1, <2>2, AllAssumption DEF WorkOK
  <2> QED BY <2>1, <2>2, <2>3 DEF HasContent
<1>9. CASE Goto(e, ready) /\ HasContent(e, Head(y.queue))
  <2>1. Works(ep[e]) => WorkOK(ready, runs[ep[e].run], Arrived(sent, ep[e].run))
    BY <1>1, <1>2, <1>5, <1>8, <1>9 DEF WorkOK
  <2> QED BY <1>1, <1>2, <1>5, <1>9, <2>1, GoesOn
<1>10. CASE Goto(e, rest) /\ ~HasContent(e, Head(y.queue))
  <2>1. Works(ep[e]) => WorkOK(rest, runs[ep[e].run], Arrived(sent, ep[e].run))
    BY <1>1, <1>2, <1>4, <1>6, <1>8, <1>10 DEF WorkOK
  <2> QED BY <1>1, <1>2, <1>6, <1>10, <2>1, GoesOn
<1> QED BY <1>7, <1>9, <1>10

LEMMA DeliverWorks ==
  ASSUME CInv, NEW e \in Endpoints, Deliver(e)
  PROVE  CRest'
<1>1. /\ ep[e].pc = "deliver" /\ UNCHANGED <<job, runs>>
      /\ sent' = sent \cup {<<ep[e].run, Head(ep[e].queue)>>}
  BY DEF Deliver, At
<1>2. PICK y \in EndpointRecord : y = ep[e] /\ y.queue # << >>
  BY <1>1, BusyEndpoint DEF Busy, CInv, EndpointOK
<1>3. PICK h, t : h = Head(y.queue) /\ t = Tail(y.queue)
  OBVIOUS
<1>4. /\ h \in Range(y.queue) /\ h \in Contracts \cup {All} /\ t \in Seq(Contracts \cup {All})
      /\ Range(y.queue) = {h} \cup Range(t)
      /\ IsInjective(y.queue) => IsInjective(t) /\ h \notin Range(t)
  BY <1>2, <1>3, HeadAndTail DEF EndpointRecord
<1> DEFINE x == [y EXCEPT !.pc = "make", !.queue = t, !.files = y.files + 1]
<1>5. Goto(e, x)
  BY <1>2, <1>3 DEF Deliver
<1>6. /\ x \in EndpointRecord /\ x.pc = "make" /\ x.run = y.run /\ x.queue = t
      /\ x.files = y.files + 1 /\ x.single = y.single
  <2>1. PICK n \in Nat : n = y.files + 1
    BY DEF EndpointRecord
  <2>2. t \in Seq(Contracts \cup {All}) /\ x = [y EXCEPT !.pc = "make", !.queue = t, !.files = n]
    BY <1>4, <2>1
  <2> QED BY <2>1, <2>2 DEF EndpointRecord
<1> HIDE DEF x
<1>7. ASSUME Works(ep[e])
      PROVE  WorkOK(x, runs[y.run], Arrived(sent', y.run))
  <2>1. PICK q, a : q = runs[y.run] /\ a = Arrived(sent, y.run)
    OBVIOUS
  <2>2. WorkOK(y, q, a) /\ IsFiniteSet(a)
    BY <1>2, <1>7, <2>1, Worker, SentFinite
  <2>3. Arrived(sent', y.run) = a \cup {h}
    BY <1>1, <1>2, <1>3, <1>4, <2>1 DEF Arrived
  <2>4. h \notin a
    BY <1>1, <1>2, <1>4, <2>2 DEF WorkOK
  <2>5. x.files = Cardinality(a \cup {h})
    BY <1>6, <2>2, <2>4, Counting DEF WorkOK
  <2>6. h \in Billable \/ q.single
    BY <1>1, <1>2, <1>3, <2>2 DEF WorkOK
  <2>7. ~q.single => /\ Range(t) \subseteq q.wanted
                     /\ a \cup {h} = (q.wanted \cap Billable) \ Range(t)
    BY <1>1, <1>2, <1>4, <2>2, <2>6 DEF WorkOK
  <2>8. q.single => Range(t) \cup (a \cup {h}) \subseteq {All} /\ Range(t) \cap (a \cup {h}) = {}
    BY <1>1, <1>2, <1>4, <2>2 DEF WorkOK
  <2>9. IsInjective(t) /\ x.single = q.single /\ q.status = "running"
    BY <1>1, <1>2, <1>4, <1>6, <2>2 DEF WorkOK
  <2>10. WorkOK(x, q, a \cup {h})
    BY <1>6, <2>5, <2>7, <2>8, <2>9 DEF WorkOK
  <2> QED BY <2>1, <2>3, <2>10
<1>8. sent \subseteq sent' /\ \A p \in sent' : p \in sent \/ p[1] = ep[e].run
  BY <1>1
<1> QED BY <1>1, <1>2, <1>5, <1>6, <1>7, <1>8, GoesOn

LEMMA FailWorks ==
  ASSUME CInv, NEW e \in Endpoints, Fail(e)
  PROVE  CRest'
<1>1. /\ ep[e].pc \in {"make", "deliver"} /\ UNCHANGED job /\ Decide(e, "error")
      /\ sent \subseteq sent' /\ \A p \in sent' : p \in sent \/ p[1] = ep[e].run
  BY DEF Fail, At
<1> QED BY <1>1, DecideWorks

LEMMA FinishWorks ==
  ASSUME CInv, NEW e \in Endpoints, Finish(e)
  PROVE  CRest'
<1>1. /\ ep[e].pc = "make" /\ ep[e].queue = << >> /\ UNCHANGED <<job, sent>>
  BY DEF Finish, At
<1>2. CASE Decide(e, "error")
  BY <1>1, <1>2, DecideWorks
<1>3. CASE ~(ep[e].single /\ ep[e].files = 0) /\ Decide(e, "success")
  <2>1. ASSUME Works(ep[e])
        PROVE  LET q == runs[ep[e].run]
                   a == Arrived(sent, ep[e].run)
               IN /\ ep[e].files = Cardinality(a)
                  /\ IF q.single THEN All \in a ELSE a = q.wanted \cap Billable
    <3>1. PICK q, a : q = runs[ep[e].run] /\ a = Arrived(sent, ep[e].run)
      OBVIOUS
    <3>2. WorkOK(ep[e], q, a) /\ IsFiniteSet(a)
      BY <2>1, <3>1, Worker, SentFinite
    <3>3. Range(ep[e].queue) = {}
      BY <1>1 DEF Range
    <3>4. ~q.single => a = q.wanted \cap Billable
      BY <1>1, <3>2, <3>3 DEF WorkOK
    <3>5. q.single => a # {} /\ a \subseteq {All}
      BY <1>1, <1>3, <3>2, <3>3, Counting DEF WorkOK
    <3>6. ep[e].files = Cardinality(a)
      BY <3>2 DEF WorkOK
    <3> QED BY <3>1, <3>4, <3>5, <3>6
  <2> QED BY <1>1, <1>3, <2>1, DecideWorks
<1> QED BY <1>2, <1>3 DEF Finish

LEMMA EnvironmentWorks ==
  ASSUME CInv,
         (\E j \in JobIds : \E new \in Changed(j) : EditJob(j, new)) \/ Kill \/ TimePasses
         \/ UNCHANGED vars
  PROVE  CRest'
<1>1. UNCHANGED <<runs, sent>>
  BY DEF EditJob, Kill, TimePasses, vars
<1>2. UNCHANGED ep \/ ep' = [e \in Endpoints |-> Idle]
  BY DEF EditJob, Kill, TimePasses, vars
<1>3. KnownInv' /\ SuccessIsComplete'
  BY <1>1 DEF CInv, KnownInv, SuccessIsComplete, Sent
<1>4. ApartInv'
  BY <1>1, <1>2 DEF CInv, ApartInv, Works, Idle
<1>5. WorkInv'
  <2>1. CASE UNCHANGED ep
    BY <1>1, <2>1 DEF CInv, WorkInv
  <2>2. CASE ep' = [e \in Endpoints |-> Idle]
    BY <2>2 DEF WorkInv, Works, Idle
  <2> QED BY <1>2, <2>1, <2>2
<1>6. UniqueInv'
  <2>1. ASSUME NEW j \in JobIds, NEW new \in Changed(j), EditJob(j, new)
        PROVE  UniqueInv'
    <3>1. job \in [JobIds -> Row] /\ job' = [job EXCEPT ![j] = new]
      BY <2>1 DEF CInv, TypeOK, EditJob
    <3>2. PICK q \in Row : q = job[j]
      BY <3>1
    <3>3. new.contracts = q.contracts \/ new.contracts = << >>
      BY <3>2 DEF Changed, Row
    <3>4. IsInjective(<< >>) /\ IsInjective(q.contracts)
      BY <3>2 DEF IsInjective, CInv, UniqueInv
    <3>5. \A i \in JobIds : IsInjective(job'[i].contracts)
      BY <3>1, <3>3, <3>4 DEF CInv, UniqueInv
    <3> QED BY <3>5 DEF UniqueInv
  <2>2. CASE UNCHANGED job
    BY <2>2 DEF CInv, UniqueInv
  <2> QED BY <2>1, <2>2 DEF Kill, TimePasses, vars
<1> QED BY <1>3, <1>4, <1>5, <1>6 DEF CRest

LEMMA InitWorks == Init => CInv
<1> SUFFICES ASSUME Init PROVE CInv
  OBVIOUS
<1>1. TypeOK
  BY InitTyped
<1>2. UniqueInv
  BY DistinctAssumption DEF Init, UniqueInv, JobIds
<1>3. KnownInv /\ ApartInv /\ WorkInv /\ SuccessIsComplete
  BY DEF Init, KnownInv, ApartInv, WorkInv, SuccessIsComplete, Works, Idle
<1> QED BY <1>1, <1>2, <1>3 DEF CInv

LEMMA NextWorks ==
  ASSUME CInv, [Next]_vars
  PROVE  CInv'
<1>1. TypeOK'
  BY NextTyped DEF CInv
<1>2. CRest'
  <2>1. ASSUME NEW e \in Endpoints, NEW j \in JobIds,
               NEW period \in {Default, LastPeriod, LastPeriod + 1}, BeginManual(e, j, period)
        PROVE  CRest'
    <3>1. period \in Int
      BY MonthsPass DEF Default, CInv, TypeOK
    <3> QED BY <2>1, <3>1, BeginWorks
  <2> QED BY <2>1, BeginWorks, InsertWorks, ResolveWorks, MakeWorks, DeliverWorks, FailWorks,
             FinishWorks, EnvironmentWorks DEF Next
<1> QED BY <1>1, <1>2 DEF CInv, CRest

\* A run that says success has delivered each file it was to deliver and no other, and
\* states their number, for any number of endpoints, jobs and contracts, through
\* failures, restarts and edits of its job while it runs.
THEOREM SuccessfulRunsAreComplete == Spec => []SuccessIsComplete
<1>1. CInv => SuccessIsComplete
  BY DEF CInv
<1> QED BY <1>1, InitWorks, NextWorks, PTL DEF Spec

-----------------------------------------------------------------------------
(* The jobs a run-due has found. *)

\* A job has been executed for a period, or for a later one.
Served(j, period, rs) == \E r \in DOMAIN rs : rs[r].job = j /\ rs[r].period >= period

\* Each job that was due when it began is ahead of a run-due, is the one it is at,
\* or has its run; p is the month before this one, and rs are the rows.
TickOK(x, t, p, rs) ==
  /\ t.period <= p
  /\ t.due = {j \in JobIds : x.seen[j].enabled /\ Due(x.seen[j], t.at)}
  /\ \A j \in t.due : \/ j \in Range(x.todo)
                      \/ x.pc = "insert" /\ x.job = j
                      \/ Served(j, t.period, rs)
TickInv ==
  \A e \in Endpoints :
    Busy(e) /\ ep[e].kind = "tick" => TickOK(ep[e], ticks[ep[e].tick], LastPeriod, runs)

SInv == TypeOK /\ TickInv /\ TickServes

\* Rows are never removed, and stay those of their job and period.
RowsStay ==
  \A r \in DOMAIN runs :
    r \in DOMAIN runs' /\ runs'[r].job = runs[r].job /\ runs'[r].period = runs[r].period

\* What a run-due has looked for stays as it was; one that is done by this step has
\* left no job out.
TicksStay ==
  /\ \A i \in DOMAIN ticks :
       /\ i \in DOMAIN ticks'
       /\ ticks'[i].period = ticks[i].period /\ ticks'[i].at = ticks[i].at
       /\ ticks'[i].due = ticks[i].due
  /\ \A i \in DOMAIN ticks' :
       ticks'[i].status = "done" =>
         /\ i \in DOMAIN ticks
         /\ ticks[i].status = "done" \/ \A j \in ticks[i].due : Served(j, ticks[i].period, runs)

LEMMA ServedStays ==
  ASSUME RowsStay, NEW j, NEW period, Served(j, period, runs)
  PROVE  Served(j, period, runs')
BY DEF RowsStay, Served

LEMMA PeriodsPass ==
  ASSUME TypeOK, now' \in {now, now + 1}
  PROVE  LastPeriod \in Int /\ LastPeriod' \in Int /\ LastPeriod' >= LastPeriod
<1>1. now \in Nat /\ now' \in Nat
  BY DEF TypeOK
<1>2. CASE now' = now + 1
  BY <1>1, <1>2, MonthsPass, WindowAssumption DEF LastPeriod
<1>3. CASE now' = now
  BY <1>1, <1>3, MonthsPass DEF LastPeriod
<1> QED BY <1>2, <1>3

LEMMA TickTyped ==
  ASSUME TypeOK, NEW i \in DOMAIN ticks
  PROVE  ticks[i].period \in Int /\ ticks[i] \in TickRecord
<1>1. ticks[i] \in TickRecord
  BY Elements DEF TypeOK
<1> QED BY <1>1 DEF TickRecord

\* The entry of a run-due that is under way.
LEMMA TickOf ==
  ASSUME TypeOK, NEW e \in Endpoints, Busy(e), ep[e].kind = "tick"
  PROVE  ep[e].tick \in DOMAIN ticks
BY BusyEndpoint DEF EndpointOK

LEMMA DoneStays ==
  ASSUME SInv, RowsStay, TicksStay
  PROVE  TickServes'
<1> SUFFICES ASSUME NEW i \in DOMAIN ticks', ticks'[i].status = "done", NEW j \in ticks'[i].due
             PROVE  \E r \in DOMAIN runs' :
                      runs'[r].job = j /\ runs'[r].period >= ticks'[i].period
  BY DEF TickServes
<1>1. /\ i \in DOMAIN ticks /\ j \in ticks[i].due /\ ticks'[i].period = ticks[i].period
      /\ ticks[i].status = "done" \/ \A k \in ticks[i].due : Served(k, ticks[i].period, runs)
  BY DEF TicksStay
<1>2. Served(j, ticks[i].period, runs)
  BY <1>1 DEF SInv, TickServes, Served
<1> QED BY <1>1, <1>2 DEF Served, RowsStay

\* The entry and the rows an endpoint x depends on.
LEMMA TickGoesOn ==
  ASSUME SInv, RowsStay, TicksStay, now' \in {now, now + 1},
         NEW i \in DOMAIN ticks, NEW x, TickOK(x, ticks[i], LastPeriod, runs)
  PROVE  TickOK(x, ticks'[i], LastPeriod', runs')
<1>1. PICK t \in TickRecord : t = ticks[i]
  BY TickTyped DEF SInv
<1>2. t.period <= LastPeriod'
  <2>1. t.period \in Int
    BY DEF TickRecord
  <2> QED BY <1>1, <2>1, PeriodsPass DEF SInv, TickOK
<1>3. /\ ticks'[i].period = t.period /\ ticks'[i].at = t.at /\ ticks'[i].due = t.due
  BY <1>1 DEF TicksStay
<1>4. \A j : Served(j, t.period, runs) => Served(j, t.period, runs')
  BY ServedStays
<1> QED BY <1>1, <1>2, <1>3, <1>4 DEF TickOK

\* What is left to prove of a step of one endpoint.
LEMMA TickStep ==
  ASSUME SInv, RowsStay, TicksStay, now' \in {now, now + 1},
         NEW e \in Endpoints, NEW x, Goto(e, x),
         x.pc # "idle" /\ x.kind = "tick" => TickOK(x, ticks'[x.tick], LastPeriod', runs')
  PROVE  TickInv' /\ TickServes'
<1>1. /\ ep' = [ep EXCEPT ![e] = x] /\ ep'[e] = x /\ \A f \in Endpoints \ {e} : ep'[f] = ep[f]
  BY DEF Goto, SInv, TypeOK
<1>2. ASSUME NEW f \in Endpoints, ep'[f].pc # "idle", ep'[f].kind = "tick"
      PROVE  TickOK(ep'[f], ticks'[ep'[f].tick], LastPeriod', runs')
  <2>1. CASE f = e
    BY <1>1, <1>2, <2>1
  <2>2. CASE f # e
    <3>1. ep'[f] = ep[f] /\ Busy(f) /\ ep[f].kind = "tick"
      BY <1>1, <1>2, <2>2 DEF Busy
    <3>2. ep[f].tick \in DOMAIN ticks /\ TickOK(ep[f], ticks[ep[f].tick], LastPeriod, runs)
      BY <3>1, TickOf DEF SInv, TickInv
    <3> QED BY <3>1, <3>2, TickGoesOn
  <2> QED BY <2>1, <2>2
<1> QED BY <1>2, DoneStays DEF TickInv, Busy

\* A step that only moves the queue of an endpoint or the table, of a request that is
\* no run-due or of one whose jobs ahead stay as they are.
LEMMA SameJobs ==
  ASSUME SInv, RowsStay, UNCHANGED <<ticks, now>>, NEW e \in Endpoints, Busy(e), NEW x, Goto(e, x),
         ep[e].pc # "insert" \/ Served(ep[e].job, ticks[ep[e].tick].period, runs')
           \/ ep[e].kind # "tick",
         x.pc # "idle" => /\ x.kind = ep[e].kind /\ x.tick = ep[e].tick
                          /\ x.todo = ep[e].todo /\ x.seen = ep[e].seen
  PROVE  TickInv' /\ TickServes'
<1>1. TicksStay
  BY DEF TicksStay
<1>2. ASSUME x.pc # "idle", x.kind = "tick"
      PROVE  TickOK(x, ticks'[x.tick], LastPeriod', runs')
  <2>1. ep[e].tick \in DOMAIN ticks /\ TickOK(ep[e], ticks[ep[e].tick], LastPeriod, runs)
    BY <1>2, TickOf DEF SInv, TickInv
  <2>2. TickOK(ep[e], ticks'[x.tick], LastPeriod', runs')
    BY <1>1, <1>2, <2>1, TickGoesOn
  <2> QED BY <1>2, <2>2 DEF TickOK
<1> QED BY <1>1, <1>2, TickStep

LEMMA BeginTickServes ==
  ASSUME SInv, NEW e \in Endpoints, BeginTick(e)
  PROVE  TickInv' /\ TickServes'
<1> DEFINE new == [at |-> now, period |-> LastPeriod, status |-> "open",
                   due |-> {j \in JobIds : job[j].enabled /\ Due(job[j], now)}]
           n == Len(ticks) + 1
<1>1. /\ Goto(e, [Endpoint("tick", "scan") EXCEPT !.todo = Jobs, !.tick = n])
      /\ ticks' = Append(ticks, new) /\ UNCHANGED <<now, runs>>
  BY DEF BeginTick, Start
<1>2. ticks \in Seq(TickRecord) /\ now \in Nat
  BY DEF SInv, TypeOK
<1>3. LastPeriod \in Int /\ LastPeriod' = LastPeriod
  BY <1>1, <1>2, MonthsPass DEF LastPeriod
<1>4. new \in TickRecord
  BY <1>2, <1>3 DEF TickRecord
<1>5. /\ new.at = now /\ new.period = LastPeriod /\ new.status = "open"
      /\ new.due = {j \in JobIds : job[j].enabled /\ Due(job[j], now)}
  OBVIOUS
<1> HIDE DEF new
<1>6. /\ DOMAIN ticks' = DOMAIN ticks \cup {n} /\ n \notin DOMAIN ticks /\ n \in Nat
      /\ \A i \in DOMAIN ticks : ticks'[i] = ticks[i]
      /\ ticks'[n] = new
  BY <1>1, <1>2, <1>4, Growth
<1> HIDE DEF n
<1>7. PICK y \in EndpointRecord : y = Endpoint("tick", "scan") /\ y.seen = job
  BY EndpointTyped DEF SInv, Endpoint
<1> DEFINE x == [y EXCEPT !.todo = Jobs, !.tick = n]
<1>8. x.todo = Jobs /\ x.tick = n /\ x.seen = job /\ Goto(e, x)
  BY <1>1, <1>7 DEF EndpointRecord
<1> HIDE DEF x
<1>9. TicksStay /\ RowsStay
  BY <1>1, <1>5, <1>6 DEF TicksStay, RowsStay
<1>10. TickOK(x, ticks'[x.tick], LastPeriod', runs')
  BY <1>3, <1>5, <1>6, <1>8 DEF TickOK, JobIds
<1> QED BY <1>1, <1>8, <1>9, <1>10, TickStep

LEMMA BeginOthersServe ==
  ASSUME SInv, NEW e \in Endpoints,
         \/ \E j \in JobIds : \E period \in Int : BeginManual(e, j, period)
         \/ \E perContract \in BOOLEAN : BeginOnce(e, SetToSeq(Contracts), perContract)
  PROVE  TickInv' /\ TickServes'
<1>1. UNCHANGED <<now, runs, ticks>>
  BY DEF BeginManual, BeginOnce, Start
<1>2. RowsStay /\ TicksStay
  BY <1>1 DEF RowsStay, TicksStay
<1>3. PICK x : Goto(e, x) /\ x.kind # "tick"
  <2>1. ASSUME NEW j \in JobIds, NEW period \in Int, BeginManual(e, j, period)
        PROVE  \E x : Goto(e, x) /\ x.kind # "tick"
    <3>1. PICK y \in EndpointRecord : y = Endpoint("manual", "insert") /\ y.kind = "manual"
      BY EndpointTyped DEF SInv
    <3>2. [y EXCEPT !.job = j, !.period = period].kind = "manual"
      BY <3>1 DEF EndpointRecord
    <3> QED BY <2>1, <3>1, <3>2 DEF BeginManual, Start
  <2>2. ASSUME NEW b \in BOOLEAN, BeginOnce(e, SetToSeq(Contracts), b)
        PROVE  \E x : Goto(e, x) /\ x.kind # "tick"
    <3>1. PICK y \in EndpointRecord : y = Endpoint("once", "make") /\ y.kind = "once"
      BY EndpointTyped DEF SInv
    <3>2. PICK f : f = Files(SetToSeq(Contracts), b)
      OBVIOUS
    <3>3. [y EXCEPT !.queue = f, !.single = ~b].kind = "once"
      BY <3>1 DEF EndpointRecord
    <3> QED BY <2>2, <3>1, <3>2, <3>3 DEF BeginOnce, Start
  <2> QED BY <2>1, <2>2
<1> QED BY <1>1, <1>2, <1>3, TickStep

\* A run-due ends: none of its jobs is ahead, or it has not ended in good order.
LEMMA EndTickServes ==
  ASSUME SInv, NEW e \in Endpoints, At(e, "scan"), NEW status \in {"done", "raised"},
         EndTick(e, status), UNCHANGED <<now, runs>>, status = "done" => ep[e].todo = << >>
  PROVE  TickInv' /\ TickServes'
<1>1. Busy(e) /\ ep[e].kind = "tick" /\ ep[e].pc = "scan"
  BY BusyEndpoint DEF At, Busy, SInv, EndpointOK
<1>2. PICK i \in DOMAIN ticks : i = ep[e].tick
  BY <1>1, TickOf DEF SInv
<1>3. PICK t \in TickRecord : t = ticks[i]
  BY TickTyped DEF SInv
<1>4. ticks \in Seq(TickRecord)
  BY DEF SInv, TypeOK
<1>5. PICK u : u = [t EXCEPT !.status = status]
  OBVIOUS
<1>6. u.status = status /\ u.period = t.period /\ u.at = t.at /\ u.due = t.due
  BY <1>5 DEF TickRecord
<1>7. Goto(e, Idle) /\ ticks' = [ticks EXCEPT ![i] = u]
  BY <1>2, <1>3, <1>4, <1>5 DEF EndTick
<1>8. /\ DOMAIN ticks' = DOMAIN ticks /\ ticks'[i] = u
      /\ \A k \in DOMAIN ticks \ {i} : ticks'[k] = ticks[k]
  BY <1>4, <1>7
<1>9. status = "done" => \A j \in t.due : Served(j, t.period, runs)
  <2>1. TickOK(ep[e], t, LastPeriod, runs)
    BY <1>1, <1>2, <1>3 DEF SInv, TickInv
  <2>2. status = "done" => Range(ep[e].todo) = {}
    BY DEF Range
  <2> QED BY <1>1, <2>1, <2>2 DEF TickOK
<1>10. TicksStay
  BY <1>3, <1>6, <1>8, <1>9 DEF TicksStay
<1>11. RowsStay
  BY DEF RowsStay
<1> QED BY <1>7, <1>10, <1>11, TickStep DEF Idle

LEMMA ScanServes ==
  ASSUME SInv, NEW e \in Endpoints, Scan(e)
  PROVE  TickInv' /\ TickServes'
<1>1. At(e, "scan") /\ Busy(e) /\ ep[e].todo # << >> /\ UNCHANGED <<now, runs>>
  BY DEF Scan, At, Busy
<1>2. ep[e].kind = "tick" /\ ep[e] \in EndpointRecord
  BY <1>1, BusyEndpoint DEF At, SInv, EndpointOK
<1>3. PICK y \in EndpointRecord : y = ep[e]
  BY <1>2
<1>4. PICK i \in DOMAIN ticks : i = y.tick
  BY <1>1, <1>2, <1>3, TickOf DEF SInv
<1>5. PICK t \in TickRecord : t = ticks[i]
  BY TickTyped DEF SInv
<1>6. PICK j, s : j = Head(y.todo) /\ s = Tail(y.todo)
  OBVIOUS
<1>7. j \in JobIds /\ s \in Seq(JobIds) /\ Range(y.todo) = {j} \cup Range(s)
  BY <1>1, <1>3, <1>6, HeadAndTail DEF EndpointRecord
<1> DEFINE rest == [y EXCEPT !.todo = s]
           next == [rest EXCEPT !.pc = "insert", !.job = j]
           due == y.seen[j].enabled /\ Due(y.seen[j], t.at)
           held == Held(j, LastPeriod)
<1>8. /\ rest.pc = y.pc /\ rest.kind = y.kind /\ rest.tick = y.tick /\ rest.seen = y.seen
      /\ rest.todo = s
  BY <1>7 DEF EndpointRecord
<1>9. /\ next.pc = "insert" /\ next.kind = y.kind /\ next.tick = y.tick /\ next.seen = y.seen
      /\ next.todo = s /\ next.job = j
  BY <1>7 DEF EndpointRecord
<1>10. \/ Goto(e, rest) /\ UNCHANGED ticks /\ (~due \/ Cardinality(held) = 1)
       \/ Goto(e, next) /\ UNCHANGED ticks
       \/ EndTick(e, "raised")
  BY <1>3, <1>4, <1>5, <1>6 DEF Scan
<1>11. TickOK(y, t, LastPeriod, runs) /\ y.pc = "scan"
  BY <1>1, <1>2, <1>3, <1>4, <1>5 DEF SInv, TickInv, At
<1>12. LastPeriod' = LastPeriod /\ RowsStay /\ (UNCHANGED ticks => TicksStay)
  BY <1>1 DEF LastPeriod, RowsStay, TicksStay
<1>13. ~due => j \notin t.due
  BY <1>11 DEF TickOK
<1>14. Cardinality(held) = 1 => Served(j, t.period, runs)
  <2>1. Cardinality(held) = 1 => held # {}
    BY Counting
  <2>2. \A r \in held : r \in DOMAIN runs /\ runs[r].job = j /\ runs[r].period = LastPeriod
    BY DEF Held
  <2>3. t.period <= LastPeriod
    BY <1>11 DEF TickOK
  <2> HIDE DEF held
  <2> QED BY <2>1, <2>2, <2>3 DEF Served
<1> HIDE DEF due, held
<1>15. CASE Goto(e, rest) /\ UNCHANGED ticks /\ (~due \/ Cardinality(held) = 1)
  <2> HIDE DEF rest
  <2>1. TickOK(rest, t, LastPeriod, runs)
    BY <1>7, <1>8, <1>11, <1>13, <1>14, <1>15 DEF TickOK
  <2> QED BY <1>1, <1>4, <1>5, <1>8, <1>12, <1>15, <2>1, TickStep
<1>16. CASE Goto(e, next) /\ UNCHANGED ticks
  <2> HIDE DEF next
  <2>1. TickOK(next, t, LastPeriod, runs)
    BY <1>7, <1>9, <1>11 DEF TickOK
  <2> QED BY <1>1, <1>4, <1>5, <1>9, <1>12, <1>16, <2>1, TickStep
<1>17. CASE EndTick(e, "raised")
  BY <1>1, <1>17, EndTickServes
<1> QED BY <1>10, <1>15, <1>16, <1>17

LEMMA ScanEndServes ==
  ASSUME SInv, NEW e \in Endpoints, ScanEnd(e)
  PROVE  TickInv' /\ TickServes'
BY EndTickServes DEF ScanEnd

LEMMA InsertServes ==
  ASSUME SInv, NEW e \in Endpoints, Insert(e)
  PROVE  TickInv' /\ TickServes'
<1> DEFINE period == IF ep[e].period = Default THEN LastPeriod ELSE ep[e].period
           new == [job |-> ep[e].job, status |-> "running", files |-> 0, by |-> ep[e].kind,
                   wanted |-> {}, single |-> FALSE, period |-> period]
           n == Len(runs) + 1
<1>1. /\ Busy(e) /\ UNCHANGED <<now, ticks>> /\ runs' = Append(runs, new) /\ ep[e].pc = "insert"
      /\ Goto(e, [ep[e] EXCEPT !.pc = "resolve", !.run = n, !.files = 0])
  BY DEF Insert, At, Busy
<1>2. PICK y \in EndpointRecord : y = ep[e]
  BY <1>1, BusyEndpoint DEF SInv
<1>3. y.job \in JobIds /\ y.kind # "once" /\ (y.kind = "tick" => y.period = Default)
  BY <1>1, <1>2, BusyEndpoint DEF SInv, EndpointOK
<1>4. runs \in Seq(RunRecord) /\ LastPeriod \in Int
  BY MonthsPass DEF SInv, TypeOK
<1>5. period \in Int /\ (y.kind = "tick" => period = LastPeriod)
  BY <1>2, <1>3, <1>4 DEF EndpointRecord
<1> HIDE DEF period
<1>6. new \in RunRecord /\ new.job = y.job /\ new.period = period
  BY <1>2, <1>3, <1>5 DEF RunRecord, EndpointRecord
<1> HIDE DEF new
<1>7. /\ DOMAIN runs' = DOMAIN runs \cup {n} /\ n \in Nat
      /\ \A r \in DOMAIN runs : runs'[r] = runs[r]
      /\ runs'[n] = new
  BY <1>1, <1>4, <1>6, Growth
<1> HIDE DEF n
<1> DEFINE x == [y EXCEPT !.pc = "resolve", !.run = n, !.files = 0]
<1>8. Goto(e, x) /\ x.kind = y.kind /\ x.tick = y.tick /\ x.todo = y.todo /\ x.seen = y.seen
  BY <1>1, <1>2 DEF EndpointRecord
<1> HIDE DEF x
<1>9. RowsStay
  BY <1>7 DEF RowsStay
<1>10. y.kind = "tick" => Served(y.job, ticks[y.tick].period, runs')
  <2>1. y.kind = "tick" => ticks[y.tick].period <= LastPeriod
    BY <1>1, <1>2 DEF SInv, TickInv, TickOK
  <2> QED BY <1>5, <1>6, <1>7, <2>1 DEF Served
<1> QED BY <1>1, <1>2, <1>8, <1>9, <1>10, SameJobs

LEMMA DecideServes ==
  ASSUME SInv, NEW e \in Endpoints, ep[e].pc \in {"resolve", "make", "deliver"},
         NEW status, Decide(e, status), UNCHANGED <<now, ticks>>
  PROVE  TickInv' /\ TickServes'
<1>1. Busy(e)
  BY DEF Busy
<1>2. PICK y \in EndpointRecord : y = ep[e] /\ y.run \in DOMAIN runs \cup {NoRun}
  BY <1>1, BusyEndpoint DEF SInv, EndpointOK
<1>3. PICK x : x = After(e)
  OBVIOUS
<1>4. x.pc # "idle" => /\ x.kind = y.kind /\ x.tick = y.tick
                       /\ x.todo = y.todo /\ x.seen = y.seen
  <2>1. PICK z : z = [y EXCEPT !.pc = "scan", !.run = NoRun, !.queue = << >>, !.job = 0]
    OBVIOUS
  <2>2. z.kind = y.kind /\ z.tick = y.tick /\ z.todo = y.todo /\ z.seen = y.seen
    BY <2>1 DEF EndpointRecord
  <2>3. x = z \/ x.pc = "idle"
    BY <1>2, <1>3, <2>1 DEF After, Idle
  <2> QED BY <2>2, <2>3
<1>5. RowsStay
  <2>1. CASE y.run = NoRun
    BY <1>2, <2>1 DEF Decide, RowsStay
  <2>2. CASE y.run # NoRun
    <3>1. PICK r \in DOMAIN runs : r = y.run
      BY <1>2, <2>2
    <3>2. runs \in Seq(RunRecord)
      BY DEF SInv, TypeOK
    <3>3. PICK q \in RunRecord : q = runs[r]
      BY <3>2, Elements
    <3>4. PICK m : m = (IF status = "success" THEN y.files ELSE 0)
      OBVIOUS
    <3>5. PICK p : p = [q EXCEPT !.status = status, !.files = m]
      OBVIOUS
    <3>6. p.job = q.job /\ p.period = q.period
      BY <3>5 DEF RunRecord
    <3>7. runs' = [runs EXCEPT ![r] = p]
      BY <1>2, <2>2, <3>1, <3>2, <3>3, <3>4, <3>5 DEF Decide
    <3>8. /\ DOMAIN runs' = DOMAIN runs /\ runs'[r] = p
          /\ \A i \in DOMAIN runs \ {r} : runs'[i] = runs[i]
      BY <3>2, <3>7
    <3> QED BY <3>3, <3>6, <3>8 DEF RowsStay
  <2> QED BY <2>1, <2>2
<1>6. Goto(e, x)
  BY <1>3 DEF Decide
<1> QED BY <1>1, <1>2, <1>4, <1>5, <1>6, SameJobs

LEMMA ResolveServes ==
  ASSUME SInv, NEW e \in Endpoints, Resolve(e)
  PROVE  TickInv' /\ TickServes'
<1> DEFINE row == ep[e].seen[ep[e].job]
           contracts == Resolved(ep[e].job, row)
<1>1. Busy(e) /\ ep[e].pc = "resolve" /\ UNCHANGED <<now, ticks>>
  BY DEF Resolve, At, Busy
<1>2. CASE contracts = << >>
  <2>1. Decide(e, "success")
    BY <1>2 DEF Resolve
  <2> QED BY <1>1, <2>1, DecideServes
<1>3. CASE contracts # << >>
  <2>1. PICK f, w, b : f = Files(contracts, row.perContract) /\ w = Range(contracts)
                       /\ b = ~row.perContract
    OBVIOUS
  <2>2. /\ Goto(e, [ep[e] EXCEPT !.pc = "make", !.queue = f, !.single = b])
        /\ runs' = [runs EXCEPT ![ep[e].run].wanted = w, ![ep[e].run].single = b]
    BY <1>3, <2>1 DEF Resolve
  <2>3. PICK y \in EndpointRecord : y = ep[e] /\ y.run \in DOMAIN runs
    BY <1>1, BusyEndpoint DEF SInv, EndpointOK
  <2>4. PICK x : x = [y EXCEPT !.pc = "make", !.queue = f, !.single = b]
    OBVIOUS
  <2>5. x.kind = y.kind /\ x.tick = y.tick /\ x.todo = y.todo /\ x.seen = y.seen
    BY <2>4 DEF EndpointRecord
  <2>6. RowsStay
    <3>1. runs \in Seq(RunRecord)
      BY DEF SInv, TypeOK
    <3>2. PICK q \in RunRecord : q = runs[y.run]
      BY <2>3, <3>1, Elements
    <3>3. PICK p : p = [q EXCEPT !.wanted = w, !.single = b]
      OBVIOUS
    <3>4. p.job = q.job /\ p.period = q.period
      BY <3>3 DEF RunRecord
    <3>5. runs' = [runs EXCEPT ![y.run] = p]
      BY <2>2, <2>3, <3>1, <3>2, <3>3
    <3>6. /\ DOMAIN runs' = DOMAIN runs /\ runs'[y.run] = p
          /\ \A i \in DOMAIN runs \ {y.run} : runs'[i] = runs[i]
      BY <2>3, <3>1, <3>5
    <3> QED BY <3>2, <3>4, <3>6 DEF RowsStay
  <2> QED BY <1>1, <2>2, <2>3, <2>4, <2>5, <2>6, SameJobs
<1> QED BY <1>2, <1>3

LEMMA ReportServes ==
  ASSUME SInv, NEW e \in Endpoints, Make(e) \/ Deliver(e)
  PROVE  TickInv' /\ TickServes'
<1>1. Busy(e) /\ ep[e].pc # "insert" /\ UNCHANGED <<now, runs, ticks>>
  BY DEF Make, Deliver, At, Busy
<1>2. PICK y \in EndpointRecord : y = ep[e]
  BY <1>1, BusyEndpoint DEF SInv
<1>3. PICK t, n : t = Tail(y.queue) /\ n = y.files + 1
  OBVIOUS
<1> DEFINE ready == [y EXCEPT !.pc = "deliver"]
           rest == [y EXCEPT !.queue = t]
           more == [y EXCEPT !.pc = "make", !.queue = t, !.files = n]
<1>4. /\ ready.kind = y.kind /\ ready.tick = y.tick /\ ready.todo = y.todo /\ ready.seen = y.seen
      /\ rest.kind = y.kind /\ rest.tick = y.tick /\ rest.todo = y.todo /\ rest.seen = y.seen
      /\ more.kind = y.kind /\ more.tick = y.tick /\ more.todo = y.todo /\ more.seen = y.seen
  BY DEF EndpointRecord
<1>5. Goto(e, ready) \/ Goto(e, rest) \/ Goto(e, more)
  BY <1>2, <1>3 DEF Make, Deliver
<1> HIDE DEF ready, rest, more
<1>6. RowsStay
  BY <1>1 DEF RowsStay
<1> QED BY <1>1, <1>2, <1>4, <1>5, <1>6, SameJobs

LEMMA VerdictServes ==
  ASSUME SInv, NEW e \in Endpoints, Fail(e) \/ Finish(e)
  PROVE  TickInv' /\ TickServes'
<1>1. /\ ep[e].pc \in {"make", "deliver"} /\ UNCHANGED <<now, ticks>>
      /\ Decide(e, "error") \/ Decide(e, "success")
  BY DEF Fail, Finish, At
<1> QED BY <1>1, DecideServes

LEMMA KillServes ==
  ASSUME SInv, Kill
  PROVE  TickInv' /\ TickServes'
<1>1. /\ ep' = [e \in Endpoints |-> Idle] /\ UNCHANGED <<now, runs>>
      /\ ticks' = [i \in DOMAIN ticks |->
                     IF ticks[i].status = "open" THEN [ticks[i] EXCEPT !.status = "killed"]
                     ELSE ticks[i]]
  BY DEF Kill
<1>2. ASSUME NEW i \in DOMAIN ticks
      PROVE  /\ i \in DOMAIN ticks'
             /\ ticks'[i].period = ticks[i].period /\ ticks'[i].at = ticks[i].at
             /\ ticks'[i].due = ticks[i].due
             /\ ticks'[i].status = "done" => ticks[i].status = "done"
  <2>1. PICK t \in TickRecord : t = ticks[i]
    BY TickTyped DEF SInv
  <2>2. PICK u : u = [t EXCEPT !.status = "killed"]
    OBVIOUS
  <2>3. u.status = "killed" /\ u.period = t.period /\ u.at = t.at /\ u.due = t.due
    BY <2>2 DEF TickRecord
  <2>4. ticks'[i] \in {t, u} /\ i \in DOMAIN ticks'
    BY <1>1, <2>1, <2>2
  <2> QED BY <2>1, <2>3, <2>4
<1>3. DOMAIN ticks' = DOMAIN ticks
  BY <1>1
<1>4. TicksStay /\ RowsStay
  BY <1>1, <1>2, <1>3 DEF TicksStay, RowsStay
<1>5. TickInv'
  BY <1>1 DEF TickInv, Busy, Idle
<1> QED BY <1>4, <1>5, DoneStays

LEMMA EnvironmentServes ==
  ASSUME SInv,
         (\E j \in JobIds : \E new \in Changed(j) : EditJob(j, new)) \/ TimePasses
         \/ UNCHANGED vars
  PROVE  TickInv' /\ TickServes'
<1>1. UNCHANGED <<runs, ticks, ep>> /\ now' \in {now, now + 1}
  BY DEF EditJob, TimePasses, vars
<1>2. TicksStay /\ RowsStay
  BY <1>1 DEF TicksStay, RowsStay
<1>3. ASSUME NEW e \in Endpoints, Busy(e), ep[e].kind = "tick"
      PROVE  TickOK(ep[e], ticks[ep[e].tick], LastPeriod', runs)
  <2>1. ep[e].tick \in DOMAIN ticks /\ TickOK(ep[e], ticks[ep[e].tick], LastPeriod, runs)
    BY <1>3, TickOf DEF SInv, TickInv
  <2>2. TickOK(ep[e], ticks'[ep[e].tick], LastPeriod', runs')
    BY <1>1, <1>2, <2>1, TickGoesOn
  <2> QED BY <1>1, <2>2
<1> QED BY <1>1, <1>2, <1>3, DoneStays DEF TickInv, Busy

LEMMA InitServes == Init => SInv
  BY InitTyped DEF Init, SInv, TickInv, TickServes, Busy, Idle

LEMMA NextServes ==
  ASSUME SInv, [Next]_vars
  PROVE  SInv'
<1>1. TypeOK'
  BY NextTyped DEF SInv
<1>2. TickInv' /\ TickServes'
  <2>1. ASSUME NEW e \in Endpoints, NEW j \in JobIds,
               NEW period \in {Default, LastPeriod, LastPeriod + 1}, BeginManual(e, j, period)
        PROVE  TickInv' /\ TickServes'
    <3>1. period \in Int
      BY MonthsPass DEF Default, SInv, TypeOK
    <3> QED BY <2>1, <3>1, BeginOthersServe
  <2> QED BY <2>1, BeginTickServes, BeginOthersServe, ScanServes, ScanEndServes, InsertServes,
             ResolveServes, ReportServes, VerdictServes, KillServes, EnvironmentServes DEF Next
<1> QED BY <1>1, <1>2 DEF SInv

\* A run-due that ends in good order has left out no job that was due when it began,
\* whatever the month, the jobs and the other endpoints have done meanwhile.
THEOREM RunDueLeavesNoneOut == Spec => []TickServes
<1>1. SInv => TickServes
  BY DEF SInv
<1> QED BY <1>1, InitServes, NextServes, PTL DEF Spec

-----------------------------------------------------------------------------
(* ClusterRequests: the inductive invariant. *)

\* Two endpoints on one cluster are on record.
SoleInv ==
  \A a, b \in Admins :
    a # b /\ InProgress(a) /\ InProgress(b) /\ Target(a) = Target(b) => Target(a) \in crossed

\* An endpoint that ends an addon has found one of its cluster.
Ends(a, type) == tx[a].pc = "decided" /\ tx[a].verb = "apply" /\ Asked(a).type = type
FoundInv ==
  \A a \in Admins :
    Ends(a, "addon") /\ Asked(a).action = "disable" =>
      tx[a].found \in DOMAIN addons /\ addons[tx[a].found].cluster = Target(a)

\* What an endpoint has read of its cluster and of its request still holds.
Known(a) ==
  LET c == Target(a)
      enable == Asked(a).action = "enable"
  IN /\ IF tx[a].verb = "provision" THEN tx[a].pc = "decided" /\ cluster[c].provisioned = Never
        ELSE requests[tx[a].id].status = "pending"
     /\ tx[a].pc = "loaded" => tx[a].verb = "apply"
     /\ Ends(a, "resize") => tx[a].found = cluster[c].groups /\ tx[a].found < Asked(a).target
     /\ Ends(a, "addon") /\ Asked(a).action = "disable" => addons[tx[a].found].disabled = Never
     /\ Ends(a, "backup") /\ ~failed => cluster[c].backup = ~enable /\ (c \in git) = enable
ReadsInv == \A a \in Admins : InProgress(a) => Target(a) \in crossed \/ Known(a)

\* The resizes of a cluster that were applied lead, one after the other, from the size
\* it was created with to the size it has.
Resizes(c) ==
  {r \in DOMAIN requests : /\ requests[r].cluster = c
                           /\ requests[r].payload.type = "resize"
                           /\ requests[r].status = "applied"}
Added(r) == requests[r].before + 1 .. requests[r].payload.target
Chain(c) ==
  /\ cluster[c].initial <= cluster[c].groups
  /\ \A r \in Resizes(c) : /\ requests[r].applied \in 0 .. clock
                           /\ cluster[c].initial <= requests[r].before
                           /\ requests[r].before < requests[r].payload.target
                           /\ requests[r].payload.target <= cluster[c].groups
  /\ \A r, s \in Resizes(c) : r # s => Added(r) \cap Added(s) = {}
  /\ \A g \in cluster[c].initial + 1 .. cluster[c].groups : \E r \in Resizes(c) : g \in Added(r)
ChainInv == \A c \in Clusters \ crossed : Chain(c)

RequestsInv == RequestsTypeOK /\ SoleInv /\ FoundInv /\ ReadsInv /\ ChainInv /\ BackupTracked

-----------------------------------------------------------------------------
(* How a step changes the transactions. *)

Others(a) == \A b \in Admins \ {a} : tx'[b] = tx[b]
Alone(a) == tx' \in [Admins -> Transaction \cup {NoRequest}] /\ Others(a)

LEMMA BusyTyped ==
  ASSUME RequestsTypeOK, NEW a \in Admins, InProgress(a)
  PROVE  /\ tx[a] \in Transaction /\ Target(a) \in Clusters
         /\ tx[a].verb # "provision" => tx[a].id \in DOMAIN requests /\ Asked(a) \in Payload
                                        /\ Target(a) = requests[tx[a].id].cluster
         /\ tx[a].verb = "provision" => Target(a) = tx[a].id
         /\ tx[a].begun <= tx[a].stamp /\ tx[a].stamp <= clock /\ clock \in 0 .. LastTick
<1>1. tx[a] \in Transaction
  BY DEF RequestsTypeOK, InProgress, NoRequest
<1>2. /\ tx[a].begun <= tx[a].stamp /\ tx[a].stamp <= clock /\ clock \in 0 .. LastTick
      /\ IF tx[a].verb = "provision" THEN tx[a].id \in Clusters ELSE tx[a].id \in DOMAIN requests
  BY DEF RequestsTypeOK
<1>3. CASE tx[a].verb = "provision"
  BY <1>1, <1>2, <1>3 DEF Target
<1>4. CASE tx[a].verb # "provision"
  <2>1. requests[tx[a].id] \in RequestRow
    BY <1>2, <1>4 DEF RequestsTypeOK
  <2> QED BY <1>1, <1>2, <1>4, <2>1 DEF Target, Asked, RequestRow
<1> QED BY <1>3, <1>4

LEMMA IdleNotBusy == NoRequest.pc = "idle"
BY DEF NoRequest

LEMMA Assigned ==
  ASSUME RequestsTypeOK, NEW a \in Admins, NEW x \in Transaction \cup {NoRequest}, tx' = [tx EXCEPT ![a] = x]
  PROVE  Alone(a) /\ tx'[a] = x
BY DEF RequestsTypeOK, Alone, Others

\* It begins, decides, or ends.
Begun(a, pc, verb, id) ==
  /\ ~InProgress(a) /\ Alone(a)
  /\ tx'[a] \in Transaction /\ tx'[a].pc = pc /\ tx'[a].verb = verb /\ tx'[a].id = id
  /\ tx'[a].begun = clock /\ tx'[a].stamp = clock
Decided(a, found) ==
  /\ InProgress(a) /\ Alone(a)
  /\ tx'[a] \in Transaction /\ tx'[a].pc = "decided" /\ tx'[a].verb = tx[a].verb
  /\ tx'[a].id = tx[a].id /\ tx'[a].begun = tx[a].begun /\ tx'[a].stamp = clock
  /\ tx'[a].found = found
Ended(a) == InProgress(a) /\ Alone(a) /\ tx'[a] = NoRequest

LEMMA BeginBegun ==
  ASSUME RequestsTypeOK, NEW a \in Admins, NEW pc \in {"loaded", "decided"},
         NEW verb \in {"apply", "deny", "provision"}, NEW id \in Nat \cup Clusters, NEW on,
         BeginAs(a, pc, verb, id, on)
  PROVE  Begun(a, pc, verb, id)
<1>1. PICK x : x = [Step(pc, verb, id, clock) EXCEPT !.stamp = clock]
  OBVIOUS
<1>2. clock \in Nat
  BY DEF RequestsTypeOK
<1>3. /\ x \in Transaction /\ x.pc = pc /\ x.verb = verb /\ x.id = id
      /\ x.begun = clock /\ x.stamp = clock
  BY <1>1, <1>2 DEF Step, Transaction
<1> QED BY <1>1, <1>3, Assigned DEF BeginAs, Begun

LEMMA DecideDecided ==
  ASSUME RequestsTypeOK, NEW a \in Admins, InProgress(a), NEW found \in Nat, Conclude(a, found)
  PROVE  Decided(a, found)
<1>1. PICK y \in Transaction : y = tx[a]
  BY BusyTyped
<1>2. PICK x : x = [y EXCEPT !.pc = "decided", !.stamp = clock, !.found = found]
  OBVIOUS
<1>3. clock \in Nat /\ tx \in [Admins -> Transaction \cup {NoRequest}]
  BY DEF RequestsTypeOK
<1>4. /\ x \in Transaction /\ x.pc = "decided" /\ x.verb = y.verb /\ x.id = y.id
      /\ x.begun = y.begun /\ x.stamp = clock /\ x.found = found
  BY <1>2, <1>3 DEF Transaction
<1>5. tx' = [tx EXCEPT ![a] = x]
  BY <1>1, <1>2, <1>3 DEF Conclude
<1> QED BY <1>1, <1>4, <1>5, Assigned DEF Decided

LEMMA IdleEnded ==
  ASSUME RequestsTypeOK, NEW a \in Admins, InProgress(a), tx' = [tx EXCEPT ![a] = NoRequest]
  PROVE  Ended(a)
BY Assigned DEF Ended

-----------------------------------------------------------------------------
(* How a step changes the tables. *)

\* Nothing but rows of the clusters S, and of nobody else's git project; a new request
\* is pending.
Local(S) ==
  /\ \A c \in Clusters \ S : cluster'[c] = cluster[c] /\ (c \in git' <=> c \in git)
  /\ \A r \in DOMAIN requests :
       /\ r \in DOMAIN requests'
       /\ requests'[r].cluster = requests[r].cluster
       /\ requests'[r].payload = requests[r].payload
       /\ requests[r].cluster \notin S => requests'[r] = requests[r]
  /\ \A r \in DOMAIN requests' \ DOMAIN requests : requests'[r].status = "pending"
  /\ \A i \in DOMAIN addons :
       /\ i \in DOMAIN addons' /\ addons'[i].cluster = addons[i].cluster
       /\ addons[i].cluster \notin S => addons'[i] = addons[i]
  /\ \A i \in DOMAIN addons' \ DOMAIN addons : addons'[i].cluster \in S
  /\ clock <= clock' /\ (failed => failed') /\ crossed \subseteq crossed'

Tables == <<cluster, requests, addons>>

LEMMA QuietLocal ==
  ASSUME RequestsTypeOK, NEW S, UNCHANGED Tables, \A c \in Clusters \ S : c \in git' <=> c \in git,
         clock' \in {clock, clock + 1}, failed => failed', crossed \subseteq crossed'
  PROVE  Local(S)
<1>1. clock \in Nat
  BY DEF RequestsTypeOK
<1> QED BY <1>1 DEF Local, Tables

\* The row of a request is closed.
Closed(r, status, stamp) ==
  /\ requests' \in Seq(RequestRow) /\ DOMAIN requests' = DOMAIN requests
  /\ \A s \in DOMAIN requests \ {r} : requests'[s] = requests[s]
  /\ requests'[r].cluster = requests[r].cluster /\ requests'[r].payload = requests[r].payload
  /\ requests'[r].status = status /\ requests'[r].applied = stamp

LEMMA RequestAssigned ==
  ASSUME RequestsTypeOK, NEW r \in DOMAIN requests, NEW x \in RequestRow,
         x.cluster = requests[r].cluster, x.payload = requests[r].payload,
         requests' = [requests EXCEPT ![r] = x]
  PROVE  Closed(r, x.status, x.applied) /\ requests'[r] = x
<1>1. requests \in Seq(RequestRow)
  BY DEF RequestsTypeOK
<1>2. /\ DOMAIN requests' = DOMAIN requests /\ requests'[r] = x
      /\ \A s \in DOMAIN requests \ {r} : requests'[s] = requests[s]
  BY <1>1
<1>3. requests' \in Seq(RequestRow)
  BY <1>1
<1> QED BY <1>2, <1>3 DEF Closed

LEMMA CloseClosed ==
  ASSUME RequestsTypeOK, NEW a \in Admins, InProgress(a), tx[a].verb # "provision",
         NEW status \in {"applied", "denied"}, Close(a, status)
  PROVE  Closed(tx[a].id, status, tx[a].stamp)
         /\ requests'[tx[a].id].before = requests[tx[a].id].before
<1>1. PICK r \in DOMAIN requests : r = tx[a].id
  BY BusyTyped
<1>2. PICK y \in RequestRow : y = requests[r]
  BY DEF RequestsTypeOK
<1>3. tx[a].stamp \in Times
  BY BusyTyped, BoundAssumption DEF Times, Transaction
<1>4. PICK x : x = [y EXCEPT !.status = status, !.applied = tx[a].stamp]
  OBVIOUS
<1>5. /\ x \in RequestRow /\ x.cluster = y.cluster /\ x.payload = y.payload /\ x.before = y.before
      /\ x.status = status /\ x.applied = tx[a].stamp
  BY <1>3, <1>4 DEF RequestRow
<1>6. requests' = [requests EXCEPT ![r] = x]
  BY <1>1, <1>2, <1>4 DEF Close, RequestsTypeOK
<1> QED BY <1>1, <1>2, <1>5, <1>6, RequestAssigned

\* The row of the cluster c is replaced.
Set(c, x) == cluster' \in [Clusters -> ClusterRow] /\ cluster'[c] = x
             /\ \A d \in Clusters \ {c} : cluster'[d] = cluster[d]

LEMMA ClusterAssigned ==
  ASSUME RequestsTypeOK, NEW c \in Clusters, NEW x \in ClusterRow, cluster' = [cluster EXCEPT ![c] = x]
  PROVE  Set(c, x)
BY DEF RequestsTypeOK, Set

-----------------------------------------------------------------------------
(* What each action does. *)

LEMMA CreateNext ==
  ASSUME RequestsTypeOK, NEW c \in Clusters, NEW p, CreateRequest(c, p)
  PROVE  /\ UNCHANGED <<clock, cluster, addons, git, tx, crossed, failed>>
         /\ wishes' \in Seq(Payload)
         /\ \/ UNCHANGED requests
            \/ /\ requests' \in Seq(RequestRow) /\ DOMAIN requests \subseteq DOMAIN requests'
               /\ \A r \in DOMAIN requests : requests'[r] = requests[r]
               /\ \A r \in DOMAIN requests' \ DOMAIN requests : requests'[r].status = "pending"
<1>1. wishes \in Seq(Payload) /\ wishes # << >> /\ p = Head(wishes)
  BY DEF CreateRequest, RequestsTypeOK
<1>2. p \in Payload /\ wishes' \in Seq(Payload)
  BY <1>1 DEF CreateRequest
<1>3. PICK x : x = [cluster |-> c, payload |-> p, status |-> "pending", before |-> 0, applied |-> Never]
  OBVIOUS
<1>4. x \in RequestRow /\ x.status = "pending"
  <2>1. Never \in Times
    BY BoundAssumption DEF Times, Never
  <2> QED BY <1>2, <1>3, <2>1 DEF RequestRow
<1>5. requests \in Seq(RequestRow)
  BY DEF RequestsTypeOK
<1>6. CASE requests' = Append(requests, x)
  <2>1. /\ requests' \in Seq(RequestRow) /\ DOMAIN requests' = 1 .. Len(requests) + 1
        /\ DOMAIN requests = 1 .. Len(requests) /\ Len(requests) \in Nat
        /\ \A r \in 1 .. Len(requests) : requests'[r] = requests[r]
        /\ requests'[Len(requests) + 1] = x
    BY <1>4, <1>5, <1>6
  <2>2. /\ \A r \in DOMAIN requests' \ DOMAIN requests : requests'[r] = x
        /\ DOMAIN requests \subseteq DOMAIN requests'
        /\ \A r \in DOMAIN requests : requests'[r] = requests[r]
    BY <2>1
  <2>3. UNCHANGED <<clock, cluster, addons, git, tx, crossed, failed>>
    BY DEF CreateRequest
  <2> QED BY <1>2, <1>4, <2>1, <2>2, <2>3
<1>7. CASE UNCHANGED requests
  BY <1>2, <1>7 DEF CreateRequest
<1> QED BY <1>3, <1>6, <1>7 DEF CreateRequest

LEMMA BeginNext ==
  ASSUME RequestsTypeOK, NEW a \in Admins,
         \/ \E r \in DOMAIN requests : BeginApply(a, r) \/ BeginDeny(a, r)
         \/ \E c \in Clusters : BeginProvision(a, c)
  PROVE  \E pc \in {"loaded", "decided"}, verb \in {"apply", "deny", "provision"},
            id \in Nat \cup Clusters, c \in Clusters :
           /\ Begun(a, pc, verb, id)
           /\ IF verb = "provision"
              THEN pc = "decided" /\ id = c /\ cluster[c].provisioned = Never
              ELSE /\ id \in DOMAIN requests /\ requests[id].status = "pending"
                   /\ requests[id].cluster = c /\ pc = IF verb = "apply" THEN "loaded" ELSE "decided"
           /\ crossed' = crossed \cup {d \in {c} : \E b \in Admins : InProgress(b) /\ Target(b) = d}
           /\ UNCHANGED <<wishes, clock, cluster, requests, addons, git, failed>>
<1>1. ASSUME NEW r \in DOMAIN requests, BeginApply(a, r) \/ BeginDeny(a, r)
      PROVE  requests[r].cluster \in Clusters /\ r \in Nat
  <2>1. requests \in Seq(RequestRow)
    BY DEF RequestsTypeOK
  <2>2. requests[r] \in RequestRow /\ r \in Nat
    BY <2>1
  <2> QED BY <2>2 DEF RequestRow
<1>2. ASSUME NEW r \in DOMAIN requests, BeginApply(a, r)
      PROVE  Begun(a, "loaded", "apply", r)
  BY <1>1, <1>2, BeginBegun DEF BeginApply
<1>3. ASSUME NEW r \in DOMAIN requests, BeginDeny(a, r)
      PROVE  Begun(a, "decided", "deny", r)
  BY <1>1, <1>3, BeginBegun DEF BeginDeny
<1>4. ASSUME NEW c \in Clusters, BeginProvision(a, c)
      PROVE  Begun(a, "decided", "provision", c)
  BY <1>4, BeginBegun DEF BeginProvision
<1>5. ASSUME NEW r \in DOMAIN requests, BeginApply(a, r)
      PROVE  /\ crossed' = crossed \cup {d \in {requests[r].cluster} :
                                               \E b \in Admins : InProgress(b) /\ Target(b) = d}
             /\ UNCHANGED <<wishes, clock, cluster, requests, addons, git, failed>>
             /\ requests[r].status = "pending"
  BY <1>5 DEF BeginApply, BeginAs
<1>6. ASSUME NEW r \in DOMAIN requests, BeginDeny(a, r)
      PROVE  /\ crossed' = crossed \cup {d \in {requests[r].cluster} :
                                               \E b \in Admins : InProgress(b) /\ Target(b) = d}
             /\ UNCHANGED <<wishes, clock, cluster, requests, addons, git, failed>>
             /\ requests[r].status = "pending"
  BY <1>6 DEF BeginDeny, BeginAs
<1>7. ASSUME NEW c \in Clusters, BeginProvision(a, c)
      PROVE  /\ crossed' = crossed \cup {d \in {c} : \E b \in Admins : InProgress(b) /\ Target(b) = d}
             /\ UNCHANGED <<wishes, clock, cluster, requests, addons, git, failed>>
             /\ cluster[c].provisioned = Never
  BY <1>7 DEF BeginProvision, BeginAs
<1> QED BY <1>1, <1>2, <1>3, <1>4, <1>5, <1>6, <1>7

\* The second read.
LEMMA ExamineNext ==
  ASSUME RequestsTypeOK, NEW a \in Admins, Examine(a)
  PROVE  /\ InProgress(a) /\ tx[a].pc = "loaded"
         /\ UNCHANGED <<wishes, clock, cluster, requests, addons, crossed, failed>>
         /\ \/ Ended(a) /\ UNCHANGED git
            \/ \E found \in Nat :
                 /\ Decided(a, found)
                 /\ Asked(a).type = "resize" => found = cluster[Target(a)].groups
                                                /\ found < Asked(a).target /\ UNCHANGED git
                 /\ Asked(a).type = "addon" =>
                      /\ UNCHANGED git
                      /\ Asked(a).action = "disable" =>
                           found \in Active(Target(a), Asked(a).addon)
                 /\ Asked(a).type = "backup" =>
                      /\ cluster[Target(a)].backup = (Asked(a).action # "enable")
                      /\ Asked(a).action = "enable" =>
                           Target(a) \notin git /\ git' = git \cup {Target(a)}
                      /\ Asked(a).action # "enable" => git' = git \ {Target(a)}
<1>1. InProgress(a) /\ tx[a].pc = "loaded"
  BY DEF Examine, ExamineResize, ExamineAddon, ExamineBackup, InProgress
<1>2. Target(a) \in Clusters /\ cluster[Target(a)] \in ClusterRow
  BY <1>1, BusyTyped DEF RequestsTypeOK
<1>3. Conflict(a) => Ended(a)
  BY <1>1, IdleEnded DEF Conflict
<1>4. CASE ExamineResize(a)
  <2>1. cluster[Target(a)].groups \in Nat
    BY <1>2 DEF ClusterRow
  <2>2. CASE Asked(a).target > cluster[Target(a)].groups
    <3>1. Decided(a, cluster[Target(a)].groups)
      BY <1>1, <1>4, <2>1, <2>2, DecideDecided DEF ExamineResize
    <3> QED BY <1>1, <1>4, <2>1, <2>2, <3>1 DEF ExamineResize
  <2>3. CASE ~(Asked(a).target > cluster[Target(a)].groups)
    BY <1>1, <1>3, <1>4, <2>3 DEF ExamineResize
  <2> QED BY <2>2, <2>3
<1>5. CASE ExamineAddon(a)
  <2>1. \A i \in Active(Target(a), Asked(a).addon) : i \in Nat
    BY DEF Active, RequestsTypeOK
  <2>2. CASE Asked(a).action = "enable" /\ Active(Target(a), Asked(a).addon) = {}
    <3>1. Decided(a, 0)
      BY <1>1, <1>5, <2>2, DecideDecided DEF ExamineAddon
    <3> QED BY <1>1, <1>5, <2>2, <3>1 DEF ExamineAddon
  <2>3. CASE Asked(a).action = "disable" /\ Active(Target(a), Asked(a).addon) # {}
    <3>1. PICK i : i = CHOOSE j \in Active(Target(a), Asked(a).addon) : TRUE
      OBVIOUS
    <3>2. i \in Active(Target(a), Asked(a).addon)
      BY <2>3, <3>1
    <3>3. Conclude(a, i)
      BY <1>5, <2>3, <3>1 DEF ExamineAddon
    <3>4. Decided(a, i) /\ i \in Nat
      BY <1>1, <2>1, <3>2, <3>3, DecideDecided
    <3> QED BY <1>1, <1>5, <2>3, <3>2, <3>4 DEF ExamineAddon
  <2>4. CASE /\ ~(Asked(a).action = "enable" /\ Active(Target(a), Asked(a).addon) = {})
             /\ ~(Asked(a).action = "disable" /\ Active(Target(a), Asked(a).addon) # {})
    <3>1. Conflict(a)
      BY <1>5, <2>4, Zenon DEF ExamineAddon
    <3> QED BY <1>1, <1>3, <1>5, <3>1 DEF ExamineAddon
  <2> QED BY <2>2, <2>3, <2>4
<1>6. CASE ExamineBackup(a)
  <2>1. cluster[Target(a)].backup \in BOOLEAN
    BY <1>2 DEF ClusterRow
  <2>2. CASE \/ (Asked(a).action = "enable") = cluster[Target(a)].backup
             \/ Asked(a).action = "enable" /\ Target(a) \in git
    BY <1>1, <1>3, <1>6, <2>2 DEF ExamineBackup
  <2>3. CASE ~(\/ (Asked(a).action = "enable") = cluster[Target(a)].backup
               \/ Asked(a).action = "enable" /\ Target(a) \in git)
    <3>1. Conclude(a, 0) /\ Asked(a).type = "backup"
          /\ git' = IF Asked(a).action = "enable" THEN git \cup {Target(a)} ELSE git \ {Target(a)}
      BY <1>6, <2>3 DEF ExamineBackup
    <3>2. Decided(a, 0)
      BY <1>1, <3>1, DecideDecided
    <3>3. cluster[Target(a)].backup = (Asked(a).action # "enable")
      BY <2>1, <2>3
    <3>4. UNCHANGED <<wishes, clock, cluster, requests, addons, crossed, failed>>
      BY <1>6 DEF ExamineBackup
    <3> QED BY <1>1, <2>3, <3>1, <3>2, <3>3, <3>4
  <2> QED BY <2>2, <2>3
<1> QED BY <1>4, <1>5, <1>6 DEF Examine

\* The commit of a decision.
Committing(a) == InProgress(a) /\ tx[a].pc = "decided" /\ Ended(a)

LEMMA CommitDenyNext ==
  ASSUME RequestsTypeOK, NEW a \in Admins, CommitDeny(a)
  PROVE  /\ Committing(a) /\ tx[a].verb = "deny"
         /\ Closed(tx[a].id, "denied", tx[a].stamp)
         /\ UNCHANGED <<wishes, clock, cluster, addons, git, crossed, failed>>
<1>1. InProgress(a) /\ tx[a].pc = "decided" /\ tx[a].verb = "deny"
  BY DEF CommitDeny, InProgress
<1>2. Closed(tx[a].id, "denied", tx[a].stamp)
  BY <1>1, CloseClosed DEF CommitDeny
<1> QED BY <1>1, <1>2, IdleEnded DEF CommitDeny, Committing

LEMMA CommitProvisionNext ==
  ASSUME RequestsTypeOK, NEW a \in Admins, CommitProvision(a)
  PROVE  /\ Committing(a) /\ tx[a].verb = "provision"
         /\ \E x \in ClusterRow :
              /\ Set(Target(a), x) /\ x.provisioned = tx[a].stamp
              /\ x.groups = cluster[Target(a)].groups /\ x.initial = cluster[Target(a)].initial
              /\ x.backup = cluster[Target(a)].backup
         /\ UNCHANGED <<wishes, clock, requests, addons, git, crossed, failed>>
<1>1. InProgress(a) /\ tx[a].pc = "decided" /\ tx[a].verb = "provision"
  BY DEF CommitProvision, InProgress
<1>2. PICK c \in Clusters : c = Target(a)
  BY <1>1, BusyTyped
<1>3. PICK y \in ClusterRow : y = cluster[c]
  BY DEF RequestsTypeOK
<1>4. PICK x : x = [y EXCEPT !.provisioned = tx[a].stamp]
  OBVIOUS
<1>5. tx[a].stamp \in Times
  BY <1>1, BusyTyped, BoundAssumption DEF Times, Transaction
<1>6. /\ x \in ClusterRow /\ x.provisioned = tx[a].stamp
      /\ x.groups = y.groups /\ x.initial = y.initial /\ x.backup = y.backup
  BY <1>4, <1>5 DEF ClusterRow
<1>7. cluster' = [cluster EXCEPT ![c] = x]
  BY <1>2, <1>3, <1>4 DEF CommitProvision, RequestsTypeOK
<1>8. Set(c, x)
  BY <1>6, <1>7, ClusterAssigned
<1> QED BY <1>1, <1>2, <1>3, <1>6, <1>8, IdleEnded DEF CommitProvision, Committing

LEMMA CommitResizeNext ==
  ASSUME RequestsTypeOK, NEW a \in Admins, CommitResize(a)
  PROVE  /\ Committing(a) /\ Ends(a, "resize")
         /\ Closed(tx[a].id, "applied", tx[a].stamp) /\ requests'[tx[a].id].before = tx[a].found
         /\ \E x \in ClusterRow :
              /\ Set(Target(a), x) /\ x.groups = Asked(a).target
              /\ x.initial = cluster[Target(a)].initial /\ x.backup = cluster[Target(a)].backup
              /\ x.provisioned = cluster[Target(a)].provisioned
         /\ UNCHANGED <<wishes, clock, addons, git, crossed, failed>>
<1>1. InProgress(a) /\ Ends(a, "resize")
  BY DEF CommitResize, Applying, Ends, InProgress
<1>2. PICK c \in Clusters : c = Target(a)
  BY <1>1, BusyTyped
<1>3. PICK y \in ClusterRow : y = cluster[c]
  BY DEF RequestsTypeOK
<1>4. PICK x : x = [y EXCEPT !.groups = Asked(a).target]
  OBVIOUS
<1>5. Asked(a).target \in Nat /\ tx[a].id \in DOMAIN requests
  BY <1>1, BusyTyped DEF Payload, Ends
<1>6. /\ x \in ClusterRow /\ x.groups = Asked(a).target
      /\ x.provisioned = y.provisioned /\ x.initial = y.initial /\ x.backup = y.backup
  BY <1>4, <1>5 DEF ClusterRow
<1>7. cluster' = [cluster EXCEPT ![c] = x]
  BY <1>2, <1>3, <1>4 DEF CommitResize, RequestsTypeOK
<1>8. Set(c, x)
  BY <1>6, <1>7, ClusterAssigned
<1>9. Closed(tx[a].id, "applied", tx[a].stamp) /\ requests'[tx[a].id].before = tx[a].found
  <2>1. PICK z \in RequestRow : z = requests[tx[a].id]
    BY <1>5 DEF RequestsTypeOK
  <2>2. tx[a].stamp \in Times /\ tx[a].found \in Nat
    BY <1>1, BusyTyped, BoundAssumption DEF Times, Transaction
  <2>3. PICK w : w = [z EXCEPT !.status = "applied", !.applied = tx[a].stamp, !.before = tx[a].found]
    OBVIOUS
  <2>4. /\ w \in RequestRow /\ w.cluster = z.cluster /\ w.payload = z.payload
        /\ w.before = tx[a].found /\ w.status = "applied" /\ w.applied = tx[a].stamp
    BY <2>2, <2>3 DEF RequestRow
  <2>5. requests' = [requests EXCEPT ![tx[a].id] = w]
    BY <1>5, <2>1, <2>3 DEF CommitResize, RequestsTypeOK
  <2>6. Closed(tx[a].id, w.status, w.applied) /\ requests'[tx[a].id] = w
    BY <1>5, <2>1, <2>4, <2>5, RequestAssigned
  <2> QED BY <2>4, <2>6
<1> QED BY <1>1, <1>2, <1>3, <1>6, <1>8, <1>9, IdleEnded DEF CommitResize, Applying, Committing

LEMMA CommitEnableNext ==
  ASSUME RequestsTypeOK, NEW a \in Admins, CommitEnable(a)
  PROVE  /\ Committing(a) /\ Ends(a, "addon")
         /\ \/ UNCHANGED <<requests, addons>>
            \/ /\ Closed(tx[a].id, "applied", tx[a].stamp)
               /\ addons' \in Seq(AddonRow) /\ DOMAIN addons \subseteq DOMAIN addons'
               /\ \A i \in DOMAIN addons : addons'[i] = addons[i]
               /\ \A i \in DOMAIN addons' \ DOMAIN addons :
                    addons'[i].cluster = Target(a) /\ addons'[i].enabled = tx[a].begun
         /\ UNCHANGED <<wishes, clock, cluster, git, crossed, failed>>
<1>1. InProgress(a) /\ Ends(a, "addon")
  BY DEF CommitEnable, Applying, Ends, InProgress
<1>2. CASE Active(Target(a), Asked(a).addon) = {}
  <2>1. PICK x : x = [cluster |-> Target(a), addon |-> Asked(a).addon,
                      enabled |-> tx[a].begun, disabled |-> Never]
    OBVIOUS
  <2>2. addons' = Append(addons, x)
    BY <1>2, <2>1 DEF CommitEnable
  <2>3. tx[a].begun \in 0 .. LastTick /\ Never \in Times
    BY <1>1, BusyTyped, BoundAssumption DEF Times, Never, Transaction
  <2>4. Target(a) \in Clusters /\ Asked(a).addon \in STRING
    BY <1>1, BusyTyped DEF Ends, Payload
  <2>5. x \in AddonRow /\ x.cluster = Target(a) /\ x.enabled = tx[a].begun
    BY <2>1, <2>3, <2>4 DEF AddonRow
  <2>6. addons \in Seq(AddonRow)
    BY DEF RequestsTypeOK
  <2>7. /\ addons' \in Seq(AddonRow) /\ DOMAIN addons' = 1 .. Len(addons) + 1
        /\ DOMAIN addons = 1 .. Len(addons) /\ Len(addons) \in Nat
        /\ \A r \in 1 .. Len(addons) : addons'[r] = addons[r]
        /\ addons'[Len(addons) + 1] = x
    BY <2>2, <2>5, <2>6
  <2>8. /\ \A i \in DOMAIN addons' \ DOMAIN addons : addons'[i] = x
        /\ DOMAIN addons \subseteq DOMAIN addons'
        /\ \A i \in DOMAIN addons : addons'[i] = addons[i]
    BY <2>7
  <2>10. Committing(a) /\ UNCHANGED <<wishes, clock, cluster, git, crossed, failed>>
    BY <1>1, IdleEnded DEF CommitEnable, Applying, Committing, Ends
  <2>9. Closed(tx[a].id, "applied", tx[a].stamp)
    BY <1>1, <1>2, CloseClosed DEF CommitEnable, Ends
  <2> QED BY <1>1, <2>5, <2>7, <2>8, <2>9, <2>10
<1>3. CASE Active(Target(a), Asked(a).addon) # {}
  BY <1>1, <1>3, IdleEnded DEF CommitEnable, Applying, Committing
<1> QED BY <1>2, <1>3

LEMMA CommitDisableNext ==
  ASSUME RequestsTypeOK, FoundInv, NEW a \in Admins, CommitDisable(a)
  PROVE  /\ Committing(a) /\ Ends(a, "addon") /\ Asked(a).action = "disable"
         /\ Closed(tx[a].id, "applied", tx[a].stamp)
         /\ addons' \in Seq(AddonRow) /\ DOMAIN addons' = DOMAIN addons
         /\ \A i \in DOMAIN addons \ {tx[a].found} : addons'[i] = addons[i]
         /\ LET i == tx[a].found
            IN /\ i \in DOMAIN addons /\ addons[i].cluster = Target(a)
               /\ addons'[i].cluster = addons[i].cluster /\ addons'[i].addon = addons[i].addon
               /\ addons'[i].enabled = addons[i].enabled /\ addons'[i].disabled = tx[a].stamp
         /\ UNCHANGED <<wishes, clock, cluster, git, crossed, failed>>
<1>1. InProgress(a) /\ Ends(a, "addon") /\ Asked(a).action = "disable"
  BY DEF CommitDisable, Applying, Ends, InProgress
<1>2. PICK i \in DOMAIN addons : i = tx[a].found /\ addons[i].cluster = Target(a)
  BY <1>1 DEF FoundInv
<1>3. PICK y \in AddonRow : y = addons[i]
  BY DEF RequestsTypeOK
<1>4. PICK x : x = [y EXCEPT !.disabled = tx[a].stamp]
  OBVIOUS
<1>5. tx[a].stamp \in Times
  BY <1>1, BusyTyped, BoundAssumption DEF Times, Transaction
<1>6. /\ x \in AddonRow /\ x.cluster = y.cluster /\ x.addon = y.addon /\ x.enabled = y.enabled
      /\ x.disabled = tx[a].stamp
  BY <1>4, <1>5 DEF AddonRow
<1>7. addons \in Seq(AddonRow)
  BY DEF RequestsTypeOK
<1>8. addons' = [addons EXCEPT ![i] = x]
  BY <1>2, <1>3, <1>4, <1>7 DEF CommitDisable
<1>9. /\ addons' \in Seq(AddonRow) /\ DOMAIN addons' = DOMAIN addons /\ addons'[i] = x
      /\ \A j \in DOMAIN addons \ {i} : addons'[j] = addons[j]
  BY <1>6, <1>7, <1>8
<1>10. Closed(tx[a].id, "applied", tx[a].stamp)
  BY <1>1, CloseClosed DEF CommitDisable, Ends
<1> QED BY <1>1, <1>2, <1>3, <1>6, <1>9, <1>10, IdleEnded DEF CommitDisable, Applying, Committing

LEMMA CommitBackupNext ==
  ASSUME RequestsTypeOK, NEW a \in Admins, CommitBackup(a)
  PROVE  /\ Committing(a) /\ Ends(a, "backup")
         /\ Closed(tx[a].id, "applied", tx[a].stamp)
         /\ \E x \in ClusterRow :
              /\ Set(Target(a), x) /\ x.backup = (Asked(a).action = "enable")
              /\ x.groups = cluster[Target(a)].groups /\ x.initial = cluster[Target(a)].initial
              /\ x.provisioned = cluster[Target(a)].provisioned
         /\ UNCHANGED <<wishes, clock, addons, git, crossed, failed>>
<1>1. InProgress(a) /\ Ends(a, "backup")
  BY DEF CommitBackup, Applying, Ends, InProgress
<1>2. PICK c \in Clusters : c = Target(a)
  BY <1>1, BusyTyped
<1>3. PICK y \in ClusterRow : y = cluster[c]
  BY DEF RequestsTypeOK
<1>4. PICK v \in BOOLEAN : v = (Asked(a).action = "enable")
  OBVIOUS
<1>5. PICK x : x = [y EXCEPT !.backup = v]
  OBVIOUS
<1>6. /\ x \in ClusterRow /\ x.backup = v
      /\ x.provisioned = y.provisioned /\ x.initial = y.initial /\ x.groups = y.groups
  BY <1>5 DEF ClusterRow
<1>7. cluster' = [cluster EXCEPT ![c] = x]
  BY <1>2, <1>3, <1>4, <1>5 DEF CommitBackup, RequestsTypeOK
<1>8. Set(c, x)
  BY <1>6, <1>7, ClusterAssigned
<1>9. Closed(tx[a].id, "applied", tx[a].stamp)
  BY <1>1, CloseClosed DEF CommitBackup, Ends
<1>10. Committing(a) /\ UNCHANGED <<wishes, clock, addons, git, crossed, failed>>
  BY <1>1, IdleEnded DEF CommitBackup, Applying, Committing, Ends
<1> QED BY <1>1, <1>2, <1>3, <1>4, <1>6, <1>8, <1>9, <1>10

LEMMA AbortNext ==
  ASSUME RequestsTypeOK, NEW a \in Admins, Abort(a)
  PROVE  /\ Ended(a) /\ UNCHANGED <<wishes, clock, cluster, requests, addons, git, crossed>>
         /\ failed' \in BOOLEAN /\ (failed => failed') /\ (Ends(a, "backup") => failed')
<1>1. failed \in BOOLEAN
  BY DEF RequestsTypeOK
<1> QED BY <1>1, IdleEnded DEF Abort, Ends

-----------------------------------------------------------------------------
(* Types, and how far a step reaches. *)

LEMMA TypeLeft ==
  ASSUME RequestsTypeOK, wishes' \in Seq(Payload), clock' \in 0 .. LastTick, clock <= clock',
         git' \subseteq Clusters, crossed' \subseteq Clusters, failed' \in BOOLEAN,
         cluster' \in [Clusters -> ClusterRow],
         requests' \in Seq(RequestRow), DOMAIN requests \subseteq DOMAIN requests',
         addons' \in Seq(AddonRow), tx' \in [Admins -> Transaction \cup {NoRequest}],
         \A a \in Admins :
           \/ tx'[a] = tx[a] \/ tx'[a] = NoRequest
           \/ /\ IF tx'[a].verb = "provision" THEN tx'[a].id \in Clusters
                 ELSE tx'[a].id \in DOMAIN requests
              /\ tx'[a].begun <= tx'[a].stamp /\ tx'[a].stamp <= clock
  PROVE  RequestsTypeOK'
<1>1. clock \in 0 .. LastTick
  BY DEF RequestsTypeOK
<1>2. ASSUME NEW a \in Admins, tx'[a].pc # "idle"
      PROVE  /\ IF tx'[a].verb = "provision" THEN tx'[a].id \in Clusters
                ELSE tx'[a].id \in DOMAIN requests'
             /\ tx'[a].begun <= tx'[a].stamp /\ tx'[a].stamp <= clock'
  <2>1. tx'[a] \in Transaction
    BY <1>2 DEF NoRequest
  <2>2. /\ IF tx'[a].verb = "provision" THEN tx'[a].id \in Clusters ELSE tx'[a].id \in DOMAIN requests
        /\ tx'[a].begun <= tx'[a].stamp /\ tx'[a].stamp <= clock
    <3>1. CASE tx'[a] = tx[a]
      BY <1>2, <3>1, BusyTyped DEF InProgress, RequestsTypeOK
    <3>2. CASE tx'[a] = NoRequest
      BY <1>2, <3>2 DEF NoRequest
    <3> QED BY <3>1, <3>2
  <2> QED BY <1>1, <2>1, <2>2 DEF Transaction
<1> QED BY <1>2 DEF RequestsTypeOK, InProgress

LEMMA RequestsEmpty == RequestsInit => RequestsTypeOK
<1> SUFFICES ASSUME RequestsInit
             PROVE  RequestsTypeOK
  OBVIOUS
<1>1. wishes \in Seq(Payload) /\ clock \in 0 .. LastTick
  BY WishesAssumption, BoundAssumption DEF RequestsInit
<1>2. cluster \in [Clusters -> ClusterRow]
  <2>1. ASSUME NEW g \in Groups
        PROVE  [groups |-> g, initial |-> g, provisioned |-> Never, backup |-> FALSE] \in ClusterRow
    <3>1. g \in Nat /\ Never \in Times
      BY GroupsAssumption, BoundAssumption DEF Times, Never
    <3> QED BY <3>1 DEF ClusterRow
  <2> QED BY <2>1 DEF RequestsInit
<1>3. requests \in Seq(RequestRow) /\ addons \in Seq(AddonRow)
  BY DEF RequestsInit
<1>4. /\ tx \in [Admins -> Transaction \cup {NoRequest}]
      /\ \A a \in Admins : ~InProgress(a)
  BY DEF RequestsInit, InProgress, NoRequest
<1> QED BY <1>1, <1>2, <1>3, <1>4 DEF RequestsInit, RequestsTypeOK

Working(a) == Examine(a) \/ Commit(a) \/ Abort(a)

\* An endpoint that works: how it changes, and that it changes its own cluster only.
LEMMA WorkingNext ==
  ASSUME RequestsTypeOK, FoundInv, NEW a \in Admins, Working(a)
  PROVE  /\ InProgress(a) /\ Alone(a) /\ Local({Target(a)})
         /\ UNCHANGED <<wishes, clock, crossed>>
         /\ RequestsTypeOK'
<1>1. Target(a) \in Clusters \/ ~InProgress(a)
  BY BusyTyped
<1>2. clock \in 0 .. LastTick /\ cluster \in [Clusters -> ClusterRow] /\ requests \in Seq(RequestRow)
      /\ addons \in Seq(AddonRow) /\ wishes \in Seq(Payload) /\ git \subseteq Clusters
      /\ crossed \subseteq Clusters /\ failed \in BOOLEAN
  BY DEF RequestsTypeOK
<1>3. CASE Examine(a)
  <2>1. /\ InProgress(a) /\ Alone(a) /\ \A c \in Clusters \ {Target(a)} : c \in git' <=> c \in git
        /\ git' \subseteq Clusters
        /\ UNCHANGED <<wishes, clock, cluster, requests, addons, crossed, failed>>
    <3>1. Asked(a).type \in {"addon", "resize", "backup"}
      BY <1>3 DEF Examine, ExamineResize, ExamineAddon, ExamineBackup
    <3> QED BY <1>1, <1>2, <1>3, <3>1, ExamineNext DEF Ended, Decided
  <2>2. Local({Target(a)})
    BY <2>1, QuietLocal DEF Tables
  <2>3. \/ tx'[a] = NoRequest
        \/ /\ tx'[a].id = tx[a].id /\ tx'[a].verb = tx[a].verb
           /\ tx'[a].begun <= tx'[a].stamp /\ tx'[a].stamp <= clock
    <3>1. ASSUME NEW found \in Nat, Decided(a, found)
          PROVE  /\ tx'[a].id = tx[a].id /\ tx'[a].verb = tx[a].verb
                 /\ tx'[a].begun <= tx'[a].stamp /\ tx'[a].stamp <= clock
      BY <1>2, <2>1, <3>1, BusyTyped DEF Decided, Transaction
    <3> QED BY <1>3, <3>1, ExamineNext DEF Ended
  <2>4. /\ IF tx[a].verb = "provision" THEN tx[a].id \in Clusters ELSE tx[a].id \in DOMAIN requests
    BY <2>1 DEF RequestsTypeOK
  <2>5. RequestsTypeOK'
    BY <1>2, <2>1, <2>3, <2>4, TypeLeft DEF Alone, Others
  <2> QED BY <2>1, <2>2, <2>5
<1>4. CASE Abort(a)
  <2>1. Local({Target(a)})
    BY <1>4, AbortNext, QuietLocal DEF Tables
  <2>2. RequestsTypeOK'
    BY <1>2, <1>4, AbortNext, TypeLeft DEF Ended, Alone, Others
  <2> QED BY <1>4, <2>1, <2>2, AbortNext DEF Ended
<1>5. CASE Commit(a)
  <2>1. Committing(a) /\ UNCHANGED <<wishes, clock, git, crossed, failed>>
    BY <1>5, CommitDenyNext, CommitProvisionNext, CommitResizeNext, CommitEnableNext,
       CommitDisableNext, CommitBackupNext DEF Commit
  <2>2. \/ UNCHANGED cluster
        \/ \E x \in ClusterRow : Set(Target(a), x)
    BY <1>5, CommitDenyNext, CommitProvisionNext, CommitResizeNext, CommitEnableNext,
       CommitDisableNext, CommitBackupNext DEF Commit
  <2>3. \/ UNCHANGED requests
        \/ tx[a].verb # "provision" /\ \E status : Closed(tx[a].id, status, tx[a].stamp)
    BY <1>5, CommitDenyNext, CommitProvisionNext, CommitResizeNext, CommitEnableNext,
       CommitDisableNext, CommitBackupNext DEF Commit, Ends
  <2>4. /\ addons' \in Seq(AddonRow) /\ DOMAIN addons \subseteq DOMAIN addons'
        /\ \A i \in DOMAIN addons : /\ addons'[i].cluster = addons[i].cluster
                                    /\ addons[i].cluster # Target(a) => addons'[i] = addons[i]
        /\ \A i \in DOMAIN addons' \ DOMAIN addons : addons'[i].cluster = Target(a)
    <3>1. CASE CommitDeny(a) \/ CommitProvision(a) \/ CommitResize(a) \/ CommitBackup(a)
      BY <1>2, <3>1, CommitDenyNext, CommitProvisionNext, CommitResizeNext, CommitBackupNext
    <3>2. CASE CommitEnable(a)
      BY <1>2, <3>2, CommitEnableNext
    <3>3. CASE CommitDisable(a)
      BY <1>2, <3>3, CommitDisableNext
    <3> QED BY <1>5, <3>1, <3>2, <3>3 DEF Commit
  <2>5. /\ requests' \in Seq(RequestRow) /\ DOMAIN requests' = DOMAIN requests
        /\ \A r \in DOMAIN requests :
             /\ requests'[r].cluster = requests[r].cluster
             /\ requests'[r].payload = requests[r].payload
             /\ requests[r].cluster # Target(a) => requests'[r] = requests[r]
    BY <1>2, <2>1, <2>3, BusyTyped DEF Closed, Committing
  <2>6. /\ cluster' \in [Clusters -> ClusterRow]
        /\ \A c \in Clusters \ {Target(a)} : cluster'[c] = cluster[c]
    BY <1>2, <2>2 DEF Set
  <2>7. Local({Target(a)})
    <3>1. clock <= clock' /\ (failed => failed') /\ crossed \subseteq crossed'
      BY <1>2, <2>1
    <3> QED BY <2>1, <2>4, <2>5, <2>6, <3>1 DEF Local
  <2>8. RequestsTypeOK'
    <3>1. clock' \in 0 .. LastTick /\ clock <= clock'
      BY <1>2, <2>1
    <3> QED BY <1>2, <2>1, <2>4, <2>5, <2>6, <3>1, TypeLeft DEF Committing, Ended, Alone, Others
  <2> QED BY <2>1, <2>7, <2>8 DEF Committing, Ended
<1> QED BY <1>3, <1>4, <1>5 DEF Working


\* A step in which no administrator has a part.
Quiet ==
  /\ UNCHANGED <<cluster, addons, git, tx, crossed, failed>> /\ Local({}) /\ RequestsTypeOK'
  /\ DOMAIN requests \subseteq DOMAIN requests'

\* An administrator begins.
Beginning(a, pc, verb, id, c) ==
  /\ Begun(a, pc, verb, id)
  /\ IF verb = "provision"
     THEN pc = "decided" /\ id = c /\ cluster[c].provisioned = Never
     ELSE /\ id \in DOMAIN requests /\ requests[id].status = "pending"
          /\ requests[id].cluster = c /\ pc = IF verb = "apply" THEN "loaded" ELSE "decided"
  /\ crossed' = crossed \cup {d \in {c} : \E b \in Admins : InProgress(b) /\ Target(b) = d}
  /\ UNCHANGED <<wishes, clock, cluster, requests, addons, git, failed>>
  /\ Local({}) /\ RequestsTypeOK'

Enters(a) ==
  \E pc \in {"loaded", "decided"}, verb \in {"apply", "deny", "provision"},
     id \in Nat \cup Clusters, c \in Clusters : Beginning(a, pc, verb, id, c)

\* Every step is one of these three.
LEMMA StepKinds ==
  ASSUME RequestsTypeOK, FoundInv, [RequestsNext]_requestsVars
  PROVE  \/ Quiet
         \/ \E a \in Admins : Enters(a)
         \/ \E a \in Admins : Working(a) /\ InProgress(a) /\ Alone(a) /\ Local({Target(a)}) /\ RequestsTypeOK'
                              /\ UNCHANGED <<wishes, clock, crossed>>
<1>1. clock \in 0 .. LastTick /\ cluster \in [Clusters -> ClusterRow] /\ requests \in Seq(RequestRow)
      /\ addons \in Seq(AddonRow) /\ wishes \in Seq(Payload) /\ git \subseteq Clusters
      /\ crossed \subseteq Clusters /\ failed \in BOOLEAN
      /\ tx \in [Admins -> Transaction \cup {NoRequest}]
  BY DEF RequestsTypeOK
<1>2. ASSUME NEW c \in Clusters, NEW p, CreateRequest(c, p)
      PROVE  Quiet
  <2>1. /\ requests' \in Seq(RequestRow) /\ DOMAIN requests \subseteq DOMAIN requests'
        /\ \A r \in DOMAIN requests : requests'[r] = requests[r]
        /\ \A r \in DOMAIN requests' \ DOMAIN requests : requests'[r].status = "pending"
    BY <1>1, <1>2, CreateNext
  <2>2. /\ UNCHANGED <<clock, cluster, addons, git, tx, crossed, failed>>
        /\ wishes' \in Seq(Payload)
    BY <1>2, CreateNext
  <2>3. RequestsTypeOK'
    BY <1>1, <2>1, <2>2, TypeLeft
  <2> QED BY <1>1, <2>1, <2>2, <2>3 DEF Quiet, Local
<1>3. ASSUME Tick \/ UNCHANGED requestsVars
      PROVE  Quiet
  <2>1. /\ UNCHANGED <<wishes, cluster, requests, addons, git, tx, crossed, failed>>
        /\ clock' \in 0 .. LastTick /\ clock' \in {clock, clock + 1} /\ clock <= clock'
    BY <1>1, <1>3, BoundAssumption DEF Tick, requestsVars
  <2>2. Local({})
    BY <2>1, QuietLocal DEF Tables
  <2>3. RequestsTypeOK'
    BY <1>1, <2>1, TypeLeft
  <2> QED BY <2>1, <2>2, <2>3 DEF Quiet
<1>4. ASSUME NEW a \in Admins,
             \/ \E r \in DOMAIN requests : BeginApply(a, r) \/ BeginDeny(a, r)
             \/ \E c \in Clusters : BeginProvision(a, c)
      PROVE  Enters(a)
  <2>1. PICK pc \in {"loaded", "decided"}, verb \in {"apply", "deny", "provision"},
             id \in Nat \cup Clusters, c \in Clusters :
          /\ Begun(a, pc, verb, id)
          /\ IF verb = "provision"
             THEN pc = "decided" /\ id = c /\ cluster[c].provisioned = Never
             ELSE /\ id \in DOMAIN requests /\ requests[id].status = "pending"
                  /\ requests[id].cluster = c /\ pc = IF verb = "apply" THEN "loaded" ELSE "decided"
          /\ crossed' = crossed \cup {d \in {c} : \E b \in Admins : InProgress(b) /\ Target(b) = d}
          /\ UNCHANGED <<wishes, clock, cluster, requests, addons, git, failed>>
    BY <1>4, BeginNext
  <2>2. Local({})
    BY <1>1, <2>1, QuietLocal DEF Tables
  <2>3. clock' \in 0 .. LastTick /\ clock <= clock' /\ crossed' \subseteq Clusters
    BY <1>1, <2>1
  <2>4. \A b \in Admins :
          \/ tx'[b] = tx[b]
          \/ /\ IF tx'[b].verb = "provision" THEN tx'[b].id \in Clusters
                ELSE tx'[b].id \in DOMAIN requests
             /\ tx'[b].begun <= tx'[b].stamp /\ tx'[b].stamp <= clock
    BY <1>1, <2>1 DEF Begun, Alone, Others
  <2>5. RequestsTypeOK'
    BY <1>1, <2>1, <2>3, <2>4, TypeLeft DEF Begun, Alone
  <2> QED BY <2>1, <2>2, <2>5 DEF Enters, Beginning
<1>5. ASSUME NEW a \in Admins, Working(a)
      PROVE  /\ InProgress(a) /\ Alone(a) /\ Local({Target(a)}) /\ RequestsTypeOK'
             /\ UNCHANGED <<wishes, clock, crossed>>
  BY <1>5, WorkingNext
<1> QED BY <1>2, <1>3, <1>4, <1>5 DEF RequestsNext, Working

-----------------------------------------------------------------------------
(* What an endpoint knows stays as it was while others work elsewhere. *)

LEMMA Kept ==
  ASSUME RequestsTypeOK, NEW S, Local(S), NEW b \in Admins, InProgress(b), tx'[b] = tx[b]
  PROVE  /\ InProgress(b)' /\ Target(b)' = Target(b)
         /\ tx[b].verb # "provision" => Asked(b)' = Asked(b)
         /\ \A type : Ends(b, type)' <=> Ends(b, type)
BY BusyTyped DEF Local, InProgress, Target, Asked, Ends

LEMMA KnownKept ==
  ASSUME RequestsTypeOK, FoundInv, NEW S, Local(S), NEW b \in Admins, InProgress(b), tx'[b] = tx[b],
         Target(b) \notin S, Known(b)
  PROVE  Known(b)'
<1>1. /\ Target(b) \in Clusters /\ Target(b)' = Target(b)
      /\ tx[b].verb # "provision" => /\ Asked(b)' = Asked(b) /\ tx[b].id \in DOMAIN requests
                                     /\ requests[tx[b].id].cluster = Target(b)
      /\ \A type : Ends(b, type)' <=> Ends(b, type)
  BY Kept, BusyTyped
<1>2. /\ cluster'[Target(b)] = cluster[Target(b)]
      /\ Target(b) \in git' <=> Target(b) \in git
      /\ tx[b].verb # "provision" => requests'[tx[b].id] = requests[tx[b].id]
      /\ Ends(b, "addon") /\ Asked(b).action = "disable" => addons'[tx[b].found] = addons[tx[b].found]
      /\ failed => failed'
  BY <1>1 DEF Local, FoundInv
<1> QED BY <1>1, <1>2 DEF Known, Ends

\* An endpoint that goes on after a step of its own has read what it needed.
LEMMA OwnKept ==
  ASSUME RequestsTypeOK, FoundInv, NEW a \in Admins, Working(a), InProgress(a)'
  PROVE  /\ Examine(a) /\ InProgress(a) /\ tx[a].pc = "loaded" /\ Target(a)' = Target(a)
         /\ UNCHANGED <<wishes, clock, cluster, requests, addons, crossed, failed>>
         /\ \E found \in Nat : Decided(a, found)
<1>1. ~Ended(a)
  BY DEF Ended, InProgress, NoRequest
<1>2. Examine(a)
  <2>1. CASE Abort(a)
    BY <1>1, <2>1, AbortNext
  <2>2. CASE Commit(a)
    BY <1>1, <2>2, CommitDenyNext, CommitProvisionNext, CommitResizeNext, CommitEnableNext,
       CommitDisableNext, CommitBackupNext DEF Commit, Committing
  <2> QED BY <2>1, <2>2 DEF Working
<1>3. /\ InProgress(a) /\ tx[a].pc = "loaded" /\ \E found \in Nat : Decided(a, found)
      /\ UNCHANGED <<wishes, clock, cluster, requests, addons, crossed, failed>>
  BY <1>1, <1>2, ExamineNext
<1>4. Target(a)' = Target(a)
  BY <1>3 DEF Decided, Target
<1> QED BY <1>2, <1>3, <1>4

LEMMA SoleStep == RequestsInv /\ [RequestsNext]_requestsVars => SoleInv'
<1> SUFFICES ASSUME RequestsInv, [RequestsNext]_requestsVars, NEW a \in Admins, NEW b \in Admins,
                    a # b, InProgress(a)', InProgress(b)', Target(a)' = Target(b)'
             PROVE  Target(a)' \in crossed'
  BY DEF SoleInv
<1>1. RequestsTypeOK /\ FoundInv /\ SoleInv
  BY DEF RequestsInv
<1>2. CASE Quiet
  <2>1. InProgress(a) /\ InProgress(b) /\ Target(a)' = Target(a) /\ Target(b)' = Target(b)
    BY <1>1, <1>2, Kept DEF Quiet, InProgress
  <2> QED BY <1>1, <1>2, <2>1 DEF Quiet, SoleInv
<1>3. ASSUME NEW e \in Admins, Enters(e)
      PROVE  Target(a)' \in crossed'
  <2>1. PICK pc \in {"loaded", "decided"}, verb \in {"apply", "deny", "provision"},
             id \in Nat \cup Clusters, c \in Clusters : Beginning(e, pc, verb, id, c)
    BY <1>3 DEF Enters
  <2>2. Target(e)' = c
    BY <2>1 DEF Beginning, Begun, Target
  <2>3. ASSUME NEW f \in Admins \ {e}, InProgress(f)'
        PROVE  InProgress(f) /\ Target(f)' = Target(f)
    BY <1>1, <2>1, <2>3, Kept DEF Beginning, Begun, Alone, Others, InProgress
  <2>4. CASE a = e \/ b = e
    BY <2>1, <2>2, <2>3, <2>4 DEF Beginning
  <2>5. CASE a # e /\ b # e
    BY <1>1, <2>1, <2>3, <2>5 DEF SoleInv, Beginning
  <2> QED BY <2>4, <2>5
<1>4. ASSUME NEW e \in Admins, Working(e), InProgress(e), Alone(e), Local({Target(e)}),
             UNCHANGED crossed
      PROVE  Target(a)' \in crossed'
  <2>1. ASSUME NEW f \in Admins, InProgress(f)'
        PROVE  InProgress(f) /\ Target(f)' = Target(f)
    <3>1. CASE f # e
      BY <1>1, <1>4, <2>1, <3>1, Kept DEF Alone, Others, InProgress
    <3>2. CASE f = e
      BY <1>1, <1>4, <2>1, <3>2, OwnKept
    <3> QED BY <3>1, <3>2
  <2> QED BY <1>1, <1>4, <2>1 DEF SoleInv
<1> QED BY <1>1, <1>2, <1>3, <1>4, StepKinds


LEMMA FoundStep == RequestsInv /\ [RequestsNext]_requestsVars => FoundInv'
<1> SUFFICES ASSUME RequestsInv, [RequestsNext]_requestsVars, NEW a \in Admins,
                    Ends(a, "addon")', Asked(a)'.action = "disable"
             PROVE  tx'[a].found \in DOMAIN addons' /\ addons'[tx'[a].found].cluster = Target(a)'
  BY DEF FoundInv
<1>1. RequestsTypeOK /\ FoundInv /\ InProgress(a)'
  BY DEF RequestsInv, Ends, InProgress
<1>2. ASSUME NEW S, Local(S), tx'[a] = tx[a]
      PROVE  tx'[a].found \in DOMAIN addons' /\ addons'[tx'[a].found].cluster = Target(a)'
  <2>1. InProgress(a) /\ Ends(a, "addon") /\ Asked(a).action = "disable" /\ Target(a)' = Target(a)
    <3>1. InProgress(a)
      BY <1>1, <1>2 DEF InProgress
    <3> QED BY <1>1, <1>2, <3>1, Kept DEF Ends
  <2> QED BY <1>1, <1>2, <2>1 DEF FoundInv, Local
<1>3. CASE Quiet
  BY <1>2, <1>3 DEF Quiet
<1>4. ASSUME NEW e \in Admins, Enters(e)
      PROVE  tx'[a].found \in DOMAIN addons' /\ addons'[tx'[a].found].cluster = Target(a)'
  <2>1. PICK pc \in {"loaded", "decided"}, verb \in {"apply", "deny", "provision"},
             id \in Nat \cup Clusters, c \in Clusters : Beginning(e, pc, verb, id, c)
    BY <1>4 DEF Enters
  <2>2. a # e
    BY <2>1 DEF Beginning, Begun, Ends
  <2> QED BY <1>2, <2>1, <2>2 DEF Beginning, Begun, Alone, Others
<1>5. ASSUME NEW e \in Admins, Working(e), Alone(e), Local({Target(e)})
      PROVE  tx'[a].found \in DOMAIN addons' /\ addons'[tx'[a].found].cluster = Target(a)'
  <2>1. CASE a # e
    BY <1>2, <1>5, <2>1 DEF Alone, Others
  <2>2. CASE a = e
    <3>1. /\ Examine(a) /\ InProgress(a) /\ tx[a].pc = "loaded" /\ Target(a)' = Target(a)
          /\ UNCHANGED <<wishes, clock, cluster, requests, addons, crossed, failed>>
      BY <1>1, <1>5, <2>2, OwnKept
    <3>2. PICK found \in Nat :
            /\ Decided(a, found)
            /\ Asked(a).type = "addon" =>
                 (Asked(a).action = "disable" => found \in Active(Target(a), Asked(a).addon))
      BY <1>1, <3>1, ExamineNext DEF Ended, InProgress, NoRequest
    <3>3. Asked(a)' = Asked(a)
      BY <3>1, <3>2 DEF Decided, Asked
    <3> QED BY <3>1, <3>2, <3>3 DEF Decided, Ends, Active
  <2> QED BY <2>1, <2>2
<1> QED BY <1>1, <1>3, <1>4, <1>5, StepKinds

\* A decision is made on what the second read found.
LEMMA OwnKnown ==
  ASSUME RequestsInv, NEW a \in Admins, Working(a), InProgress(a)'
  PROVE  Target(a)' \in crossed' \/ Known(a)'
<1>1. RequestsTypeOK /\ FoundInv /\ ReadsInv
  BY DEF RequestsInv
<1>2. /\ Examine(a) /\ InProgress(a) /\ tx[a].pc = "loaded" /\ Target(a)' = Target(a)
      /\ UNCHANGED <<wishes, clock, cluster, requests, addons, crossed, failed>>
  BY <1>1, OwnKept
<1>3. PICK found \in Nat :
        /\ Decided(a, found)
        /\ Asked(a).type = "resize" => found = cluster[Target(a)].groups
                                       /\ found < Asked(a).target /\ UNCHANGED git
        /\ Asked(a).type = "addon" =>
             /\ UNCHANGED git
             /\ Asked(a).action = "disable" => found \in Active(Target(a), Asked(a).addon)
        /\ Asked(a).type = "backup" =>
             /\ cluster[Target(a)].backup = (Asked(a).action # "enable")
             /\ Asked(a).action = "enable" =>
                  Target(a) \notin git /\ git' = git \cup {Target(a)}
             /\ Asked(a).action # "enable" => git' = git \ {Target(a)}
  BY <1>1, <1>2, ExamineNext DEF Ended, InProgress, NoRequest
<1>4. /\ Asked(a)' = Asked(a) /\ tx'[a].found = found /\ tx'[a].verb = tx[a].verb
      /\ tx'[a].id = tx[a].id
  BY <1>2, <1>3 DEF Decided, Asked
<1>5. CASE Target(a) \in crossed
  BY <1>2, <1>5
<1>6. CASE Known(a)
  <2>1. tx[a].verb # "provision" /\ requests[tx[a].id].status = "pending"
    BY <1>2, <1>6 DEF Known
  <2>2. Ends(a, "resize")' => found = cluster[Target(a)].groups /\ found < Asked(a).target
    BY <1>3, <1>4 DEF Ends
  <2>3. Ends(a, "addon")' /\ Asked(a).action = "disable" => addons[found].disabled = Never
    BY <1>3, <1>4 DEF Ends, Active
  <2>4. Ends(a, "backup")' => /\ cluster[Target(a)].backup = ~(Asked(a).action = "enable")
                              /\ (Target(a) \in git') = (Asked(a).action = "enable")
    BY <1>3, <1>4 DEF Ends
  <2>5. tx'[a].pc = "decided"
    BY <1>3 DEF Decided
  <2> QED BY <1>2, <1>4, <2>1, <2>2, <2>3, <2>4, <2>5 DEF Known
<1> QED BY <1>1, <1>2, <1>5, <1>6 DEF ReadsInv

LEMMA KnownStep == RequestsInv /\ [RequestsNext]_requestsVars => ReadsInv'
<1> SUFFICES ASSUME RequestsInv, [RequestsNext]_requestsVars, NEW a \in Admins, InProgress(a)'
             PROVE  Target(a)' \in crossed' \/ Known(a)'
  BY DEF ReadsInv
<1>1. RequestsTypeOK /\ SoleInv /\ FoundInv /\ ReadsInv
  BY DEF RequestsInv
<1>2. ASSUME NEW S, Local(S), tx'[a] = tx[a], Target(a) \notin S \/ Target(a) \in crossed
      PROVE  Target(a)' \in crossed' \/ Known(a)'
  <2>1. InProgress(a)
    BY <1>2 DEF InProgress
  <2>2. Target(a)' = Target(a) /\ crossed \subseteq crossed'
    BY <1>1, <1>2, <2>1, Kept DEF Local
  <2> QED BY <1>1, <1>2, <2>1, <2>2, KnownKept DEF ReadsInv
<1>3. CASE Quiet
  BY <1>2, <1>3 DEF Quiet
<1>4. ASSUME NEW e \in Admins, Enters(e)
      PROVE  Target(a)' \in crossed' \/ Known(a)'
  <2>1. PICK pc \in {"loaded", "decided"}, verb \in {"apply", "deny", "provision"},
             id \in Nat \cup Clusters, c \in Clusters : Beginning(e, pc, verb, id, c)
    BY <1>4 DEF Enters
  <2>2. CASE a # e
    BY <1>2, <2>1, <2>2 DEF Beginning, Begun, Alone, Others
  <2>3. CASE a = e
    <3>1. /\ tx'[a].pc = pc /\ tx'[a].verb = verb /\ tx'[a].id = id /\ Target(a)' = c
          /\ UNCHANGED <<cluster, requests>>
      BY <2>1, <2>3 DEF Beginning, Begun, Target
    <3>2. (\A type : ~Ends(a, type)') /\ (pc = "loaded" => verb = "apply")
      BY <2>1, <3>1 DEF Beginning, Ends
    <3> QED BY <2>1, <3>1, <3>2 DEF Known, Beginning
  <2> QED BY <2>2, <2>3
<1>5. ASSUME NEW e \in Admins, Working(e), InProgress(e), Alone(e), Local({Target(e)})
      PROVE  Target(a)' \in crossed' \/ Known(a)'
  <2>1. CASE a # e
    <3>1. tx'[a] = tx[a] /\ InProgress(a)
      BY <1>5, <2>1 DEF Alone, Others, InProgress
    <3>2. Target(a) \notin {Target(e)} \/ Target(a) \in crossed
      BY <1>1, <1>5, <2>1, <3>1 DEF SoleInv
    <3> QED BY <1>2, <1>5, <3>1, <3>2
  <2>2. CASE a = e
    BY <1>5, <2>2, OwnKnown
  <2> QED BY <2>1, <2>2
<1> QED BY <1>1, <1>3, <1>4, <1>5, StepKinds

-----------------------------------------------------------------------------
(* The chain of resizes. *)

LEMMA ChainKept ==
  ASSUME RequestsTypeOK, clock <= clock', clock' \in Nat, NEW c \in Clusters, Chain(c),
         cluster'[c].groups = cluster[c].groups, cluster'[c].initial = cluster[c].initial,
         Resizes(c)' = Resizes(c), \A r \in Resizes(c) : requests'[r] = requests[r]
  PROVE  Chain(c)'
<1>1. clock \in Nat
  BY DEF RequestsTypeOK
<1>2. \A r \in Resizes(c) : Added(r)' = Added(r)
  BY DEF Added
<1>3. \A r \in Resizes(c) :
        requests'[r].applied = requests[r].applied /\ requests'[r].applied \in 0 .. clock'
  BY <1>1 DEF Chain
<1> QED BY <1>2, <1>3 DEF Chain

\* A step elsewhere changes no resize of a cluster.
LEMMA ResizesElsewhere ==
  ASSUME RequestsTypeOK, RequestsTypeOK', NEW S, Local(S), NEW c \in Clusters \ S
  PROVE  Resizes(c)' = Resizes(c) /\ \A r \in Resizes(c) : requests'[r] = requests[r]
<1>1. \A r \in Resizes(c) : r \in DOMAIN requests' /\ requests'[r] = requests[r]
  BY DEF Local, Resizes
<1>2. \A r \in Resizes(c)' : r \in Resizes(c)
  <2> SUFFICES ASSUME NEW r \in DOMAIN requests', requests'[r].cluster = c,
                      requests'[r].payload.type = "resize", requests'[r].status = "applied"
               PROVE  r \in Resizes(c)
    BY DEF Resizes
  <2>1. r \in DOMAIN requests
    BY DEF Local
  <2>2. requests[r].cluster = c /\ requests'[r] = requests[r]
    BY <2>1 DEF Local
  <2> QED BY <2>1, <2>2 DEF Resizes
<1>3. \A r \in Resizes(c) : r \in Resizes(c)'
  BY <1>1 DEF Resizes
<1> QED BY <1>1, <1>2, <1>3

\* One that closes a request that was pending, and is no resize or is denied, changes none.
LEMMA ResizesClosed ==
  ASSUME RequestsTypeOK, NEW r \in DOMAIN requests, NEW status, NEW stamp, Closed(r, status, stamp),
         requests[r].payload.type # "resize" \/ status = "denied",
         requests[r].status = "pending", NEW c \in Clusters
  PROVE  Resizes(c)' = Resizes(c) /\ \A s \in Resizes(c) : requests'[s] = requests[s]
<1>1. r \notin Resizes(c) /\ r \notin Resizes(c)'
  BY DEF Resizes, Closed
<1>2. \A s \in DOMAIN requests \ {r} : s \in DOMAIN requests' /\ requests'[s] = requests[s]
  BY DEF Closed
<1>3. DOMAIN requests' = DOMAIN requests
  BY DEF Closed
<1>4. \A s \in DOMAIN requests \ {r} : s \in Resizes(c) <=> s \in Resizes(c)'
  BY <1>2 DEF Resizes
<1>5. Resizes(c) \subseteq DOMAIN requests \ {r} /\ Resizes(c)' \subseteq DOMAIN requests \ {r}
  BY <1>1, <1>3 DEF Resizes
<1> QED BY <1>2, <1>4, <1>5

\* The one that is applied continues the chain.
LEMMA ChainGrows ==
  ASSUME RequestsTypeOK, RequestsTypeOK', NEW a \in Admins, CommitResize(a), Known(a),
         NEW c \in Clusters, c = Target(a), Chain(c)
  PROVE  Chain(c)'
<1>0. PICK r, t, s0 : r = tx[a].id /\ t = Asked(a).target /\ s0 = tx[a].stamp
  OBVIOUS
<1>1. /\ InProgress(a) /\ Ends(a, "resize") /\ clock' = clock
      /\ Closed(r, "applied", s0) /\ requests'[r].before = tx[a].found
      /\ cluster'[c].groups = t /\ cluster'[c].initial = cluster[c].initial
  BY <1>0, CommitResizeNext DEF Committing, Set
<1>2. /\ r \in DOMAIN requests /\ t \in Nat /\ Asked(a) = requests[r].payload
      /\ requests[r].cluster = c /\ s0 \in 0 .. clock /\ clock \in Nat
  BY <1>0, <1>1, BusyTyped DEF Ends, Payload, Transaction, Asked
<1>3. requests[r].status = "pending" /\ tx[a].found = cluster[c].groups /\ tx[a].found < t
  BY <1>0, <1>1 DEF Known, Ends
<1>4. cluster[c].groups \in Nat /\ cluster[c].initial \in Nat
  BY DEF RequestsTypeOK, ClusterRow
<1>5. /\ requests'[r].cluster = c /\ requests'[r].payload = requests[r].payload
      /\ requests'[r].status = "applied" /\ requests'[r].applied = s0
      /\ DOMAIN requests' = DOMAIN requests
      /\ \A s \in DOMAIN requests \ {r} : requests'[s] = requests[s]
  BY <1>1, <1>2 DEF Closed
<1>6. /\ r \notin Resizes(c) /\ Resizes(c)' = Resizes(c) \cup {r}
      /\ \A s \in Resizes(c) : requests'[s] = requests[s]
  <2>1. r \notin Resizes(c)
    BY <1>3 DEF Resizes
  <2>2. requests[r].payload.type = "resize"
    BY <1>1, <1>2 DEF Ends
  <2>3. r \in Resizes(c)'
    BY <1>2, <1>5, <2>2 DEF Resizes
  <2>4. \A s \in DOMAIN requests \ {r} : s \in Resizes(c)' <=> s \in Resizes(c)
    BY <1>5 DEF Resizes
  <2>5. Resizes(c) \subseteq DOMAIN requests /\ Resizes(c)' \subseteq DOMAIN requests
    BY <1>5 DEF Resizes
  <2> QED BY <1>5, <2>1, <2>3, <2>4, <2>5
<1>7. Added(r)' = cluster[c].groups + 1 .. t /\ \A s \in Resizes(c) : Added(s)' = Added(s)
  BY <1>0, <1>1, <1>2, <1>3, <1>5, <1>6 DEF Added
<1>8. \A s \in Resizes(c) :
        /\ Added(s) \subseteq cluster[c].initial + 1 .. cluster[c].groups
        /\ requests[s].applied \in 0 .. clock /\ cluster[c].initial <= requests[s].before
        /\ requests[s].before < requests[s].payload.target
        /\ requests[s].payload.target <= cluster[c].groups
        /\ requests[s].before \in Nat /\ requests[s].payload.target \in Nat
  <2>1. ASSUME NEW s \in Resizes(c)
        PROVE  requests[s] \in RequestRow
    BY DEF Resizes, RequestsTypeOK
  <2>2. ASSUME NEW s \in Resizes(c)
        PROVE  requests[s].before \in Nat /\ requests[s].payload.target \in Nat
    BY <2>1, <2>2 DEF RequestRow, Payload
  <2> QED BY <1>4, <2>2 DEF Chain, Added
<1>9. cluster'[c].initial <= cluster'[c].groups
  BY <1>1, <1>2, <1>3, <1>4 DEF Chain
<1>10. \A s \in Resizes(c)' : /\ requests'[s].applied \in 0 .. clock'
                             /\ cluster'[c].initial <= requests'[s].before
                             /\ requests'[s].before < requests'[s].payload.target
                             /\ requests'[s].payload.target <= cluster'[c].groups
  <2>1. ASSUME NEW s \in Resizes(c)
        PROVE  /\ requests'[s].applied \in 0 .. clock'
               /\ cluster'[c].initial <= requests'[s].before
               /\ requests'[s].before < requests'[s].payload.target
               /\ requests'[s].payload.target <= cluster'[c].groups
    <3>1. requests'[s] = requests[s]
      BY <1>6
    <3>2. requests[s].payload.target <= t
      BY <1>2, <1>3, <1>4, <1>8
    <3> QED BY <1>1, <1>8, <3>1, <3>2
  <2>2. /\ requests'[r].applied \in 0 .. clock' /\ cluster'[c].initial <= requests'[r].before
        /\ requests'[r].before < requests'[r].payload.target
        /\ requests'[r].payload.target <= cluster'[c].groups
    BY <1>0, <1>1, <1>2, <1>3, <1>4, <1>5 DEF Chain
  <2> QED BY <1>6, <2>1, <2>2
<1>11. \A s, q \in Resizes(c)' : s # q => Added(s)' \cap Added(q)' = {}
  <2>1. \A s \in Resizes(c) : Added(s) \cap (cluster[c].groups + 1 .. t) = {}
    BY <1>2, <1>4, <1>8
  <2>2. ASSUME NEW s \in Resizes(c)', NEW q \in Resizes(c)', s # q
        PROVE  Added(s)' \cap Added(q)' = {}
    <3>1. CASE s = r
      BY <1>6, <1>7, <2>1, <2>2, <3>1
    <3>2. CASE q = r
      BY <1>6, <1>7, <2>1, <2>2, <3>2
    <3>3. CASE s # r /\ q # r
      <4>1. s \in Resizes(c) /\ q \in Resizes(c)
        BY <1>6, <3>3
      <4>2. Added(s) \cap Added(q) = {}
        BY <2>2, <4>1 DEF Chain
      <4> QED BY <1>7, <4>1, <4>2
    <3> QED BY <3>1, <3>2, <3>3
  <2> QED BY <2>2
<1>12. \A g \in cluster'[c].initial + 1 .. cluster'[c].groups : \E s \in Resizes(c)' : g \in Added(s)'
  <2> SUFFICES ASSUME NEW g \in cluster[c].initial + 1 .. t
               PROVE  \E s \in Resizes(c)' : g \in Added(s)'
    BY <1>1
  <2>1. CASE g <= cluster[c].groups
    BY <1>2, <1>4, <1>6, <1>7, <2>1 DEF Chain
  <2>2. CASE ~(g <= cluster[c].groups)
    BY <1>2, <1>4, <1>6, <1>7, <2>2
  <2> QED BY <2>1, <2>2
<1> QED BY <1>9, <1>10, <1>11, <1>12 DEF Chain


LEMMA ChainStep == RequestsInv /\ [RequestsNext]_requestsVars => ChainInv'
<1> SUFFICES ASSUME RequestsInv, [RequestsNext]_requestsVars, NEW c \in Clusters, c \notin crossed'
             PROVE  Chain(c)'
  BY DEF ChainInv
<1>1. RequestsTypeOK /\ FoundInv /\ ReadsInv /\ ChainInv
  BY DEF RequestsInv
<1>2. ASSUME NEW S, Local(S), c \notin S, RequestsTypeOK'
      PROVE  Chain(c)'
  <2>1. /\ Chain(c) /\ clock <= clock' /\ clock' \in Nat
        /\ cluster'[c].groups = cluster[c].groups /\ cluster'[c].initial = cluster[c].initial
    BY <1>1, <1>2 DEF ChainInv, Local, RequestsTypeOK
  <2>2. Resizes(c)' = Resizes(c) /\ \A r \in Resizes(c) : requests'[r] = requests[r]
    BY <1>1, <1>2, ResizesElsewhere
  <2> QED BY <1>1, <2>1, <2>2, ChainKept
<1>3. CASE Quiet
  BY <1>2, <1>3 DEF Quiet
<1>4. ASSUME NEW e \in Admins, Enters(e)
      PROVE  Chain(c)'
  BY <1>2, <1>4 DEF Enters, Beginning
<1>5. ASSUME NEW e \in Admins, Working(e), InProgress(e), Local({Target(e)}), RequestsTypeOK',
             UNCHANGED <<wishes, clock, crossed>>
      PROVE  Chain(c)'
  <2>1. CASE c # Target(e)
    BY <1>2, <1>5, <2>1
  <2>2. CASE c = Target(e)
    <3>1. Known(e) /\ Chain(c) /\ clock <= clock' /\ clock' \in Nat
      BY <1>1, <1>5, <2>2 DEF ReadsInv, ChainInv, RequestsTypeOK
    <3>2. tx[e].verb # "provision" =>
            tx[e].id \in DOMAIN requests /\ Asked(e) = requests[tx[e].id].payload
      BY <1>1, <1>5, BusyTyped DEF Asked
    <3>3. CASE CommitResize(e)
      BY <1>1, <1>5, <2>2, <3>1, <3>3, ChainGrows
    <3>4. ASSUME UNCHANGED requests, cluster'[c].groups = cluster[c].groups,
                 cluster'[c].initial = cluster[c].initial
          PROVE  Chain(c)'
      <4>1. Resizes(c)' = Resizes(c) /\ \A r \in Resizes(c) : requests'[r] = requests[r]
        BY <3>4 DEF Resizes
      <4> QED BY <1>1, <3>1, <3>4, <4>1, ChainKept
    <3>5. CASE Examine(e) \/ Abort(e)
      BY <1>1, <3>4, <3>5, ExamineNext, AbortNext
    <3>6. CASE CommitProvision(e)
      BY <1>1, <2>2, <3>4, <3>6, CommitProvisionNext DEF Set
    <3>7. ASSUME NEW status, Closed(tx[e].id, status, tx[e].stamp), tx[e].verb # "provision",
                 Asked(e).type # "resize" \/ status = "denied",
                 cluster'[c].groups = cluster[c].groups, cluster'[c].initial = cluster[c].initial
          PROVE  Chain(c)'
      <4>1. requests[tx[e].id].status = "pending"
        BY <3>1, <3>7 DEF Known
      <4>2. Resizes(c)' = Resizes(c) /\ \A r \in Resizes(c) : requests'[r] = requests[r]
        BY <1>1, <3>2, <3>7, <4>1, ResizesClosed
      <4> QED BY <1>1, <3>1, <3>7, <4>2, ChainKept
    <3>8. CASE CommitDeny(e)
      BY <1>1, <3>7, <3>8, CommitDenyNext
    <3>9. CASE CommitEnable(e)
      <4>1. CASE UNCHANGED requests
        BY <1>1, <3>4, <3>9, <4>1, CommitEnableNext
      <4>2. CASE Closed(tx[e].id, "applied", tx[e].stamp)
        BY <1>1, <3>7, <3>9, <4>2, CommitEnableNext DEF Ends
      <4> QED BY <1>1, <3>9, <4>1, <4>2, CommitEnableNext
    <3>10. CASE CommitDisable(e)
      BY <1>1, <3>7, <3>10, CommitDisableNext DEF Ends
    <3>11. CASE CommitBackup(e)
      BY <1>1, <2>2, <3>7, <3>11, CommitBackupNext DEF Ends, Set
    <3> QED BY <1>5, <3>3, <3>5, <3>6, <3>8, <3>9, <3>10, <3>11 DEF Working, Commit
  <2> QED BY <2>1, <2>2
<1> QED BY <1>1, <1>3, <1>4, <1>5, StepKinds

-----------------------------------------------------------------------------
(* The backup project. *)

\* An endpoint between git and the commit.
Between(c) == \E a \in Admins : InProgress(a) /\ Ends(a, "backup") /\ Target(a) = c
Linked(c) == failed \/ cluster[c].backup = (c \in git) \/ Between(c)

LEMMA BackupIsLinked == BackupTracked <=> \A c \in Clusters \ crossed : Linked(c)
BY DEF BackupTracked, Linked, Between, Ends

LEMMA LinkedKept ==
  ASSUME RequestsTypeOK, NEW S, Local(S), NEW c \in Clusters \ S, Linked(c),
         \A b \in Admins : InProgress(b) /\ Target(b) = c => tx'[b] = tx[b]
  PROVE  Linked(c)'
<1>1. cluster'[c] = cluster[c] /\ (c \in git' <=> c \in git) /\ (failed => failed')
  BY DEF Local
<1>2. Between(c) => Between(c)'
  <2> SUFFICES ASSUME NEW b \in Admins, InProgress(b), Ends(b, "backup"), Target(b) = c
               PROVE  InProgress(b)' /\ Ends(b, "backup")' /\ Target(b)' = c
    BY DEF Between
  <2> QED BY Kept
<1> QED BY <1>1, <1>2 DEF Linked

LEMMA LinkedWorking ==
  ASSUME RequestsInv, NEW e \in Admins, Working(e), NEW c \in Clusters, c = Target(e),
         c \notin crossed, InProgress(e)
  PROVE  Linked(c)'
<1>1. RequestsTypeOK /\ FoundInv /\ ReadsInv /\ SoleInv /\ Linked(c)
  BY BackupIsLinked DEF RequestsInv
<1>2. Known(e) /\ \A b \in Admins : InProgress(b) /\ Target(b) = c => b = e
  BY <1>1 DEF ReadsInv, SoleInv
<1>3. ASSUME ~Ends(e, "backup"), failed => failed', cluster'[c].backup = cluster[c].backup,
             c \in git' <=> c \in git
      PROVE  Linked(c)'
  <2>1. ~Between(c)
    BY <1>2, <1>3 DEF Between
  <2> QED BY <1>1, <1>3, <2>1 DEF Linked
<1>4. CASE Examine(e)
  <2>1. /\ tx[e].pc = "loaded" /\ ~Ends(e, "backup")
        /\ UNCHANGED <<cluster, failed, requests>>
    BY <1>1, <1>4, ExamineNext DEF Ends
  <2>2. CASE UNCHANGED git
    BY <1>3, <2>1, <2>2
  <2>3. CASE ~UNCHANGED git
    <3>1. Asked(e).type \in {"addon", "resize", "backup"}
      BY <1>4 DEF Examine, ExamineResize, ExamineAddon, ExamineBackup
    <3>2. PICK found \in Nat : Decided(e, found) /\ Asked(e).type = "backup"
      BY <1>1, <1>4, <2>3, <3>1, ExamineNext
    <3>3. tx[e].verb = "apply"
      BY <1>2, <2>1 DEF Known
    <3>4. Asked(e)' = Asked(e) /\ Target(e)' = c
      BY <2>1, <3>2 DEF Decided, Asked, Target
    <3>5. Ends(e, "backup")' /\ InProgress(e)'
      BY <3>2, <3>3, <3>4 DEF Ends, Decided, InProgress
    <3> QED BY <3>4, <3>5 DEF Linked, Between
  <2> QED BY <2>2, <2>3
<1>5. CASE Abort(e)
  <2>1. CASE Ends(e, "backup")
    BY <1>1, <1>5, <2>1, AbortNext DEF Linked
  <2>2. CASE ~Ends(e, "backup")
    BY <1>1, <1>3, <1>5, <2>2, AbortNext
  <2> QED BY <2>1, <2>2
<1>6. CASE CommitDeny(e)
  BY <1>1, <1>3, <1>6, CommitDenyNext DEF Ends
<1>7. CASE CommitProvision(e)
  BY <1>1, <1>3, <1>7, CommitProvisionNext DEF Ends, Set
<1>8. CASE CommitResize(e)
  BY <1>1, <1>3, <1>8, CommitResizeNext DEF Ends, Set
<1>9. CASE CommitEnable(e)
  BY <1>1, <1>3, <1>9, CommitEnableNext DEF Ends
<1>10. CASE CommitDisable(e)
  BY <1>1, <1>3, <1>10, CommitDisableNext DEF Ends
<1>11. CASE CommitBackup(e)
  <2>1. /\ Ends(e, "backup") /\ UNCHANGED <<git, failed>>
        /\ cluster'[c].backup = (Asked(e).action = "enable")
    BY <1>1, <1>11, CommitBackupNext DEF Set
  <2>2. failed \/ (c \in git) = (Asked(e).action = "enable")
    BY <1>2, <2>1 DEF Known
  <2> QED BY <2>1, <2>2 DEF Linked
<1> QED BY <1>4, <1>5, <1>6, <1>7, <1>8, <1>9, <1>10, <1>11 DEF Working, Commit

LEMMA BackupStep == RequestsInv /\ [RequestsNext]_requestsVars => BackupTracked'
<1> SUFFICES ASSUME RequestsInv, [RequestsNext]_requestsVars, NEW c \in Clusters, c \notin crossed'
             PROVE  Linked(c)'
  BY BackupIsLinked DEF BackupTracked, Linked, Between, Ends
<1>1. RequestsTypeOK /\ FoundInv /\ \A d \in Clusters \ crossed : Linked(d)
  BY BackupIsLinked DEF RequestsInv
<1>2. CASE Quiet
  BY <1>1, <1>2, LinkedKept DEF Quiet
<1>3. ASSUME NEW e \in Admins, Enters(e)
      PROVE  Linked(c)'
  <2>1. Local({}) /\ ~InProgress(e) /\ Others(e)
    BY <1>3 DEF Enters, Beginning, Begun, Alone
  <2>2. c \notin crossed
    BY <2>1 DEF Local
  <2>3. \A b \in Admins : InProgress(b) /\ Target(b) = c => tx'[b] = tx[b]
    BY <2>1 DEF Others
  <2> QED BY <1>1, <2>1, <2>2, <2>3, LinkedKept
<1>4. ASSUME NEW e \in Admins, Working(e), InProgress(e), Alone(e), Local({Target(e)}),
             UNCHANGED crossed
      PROVE  Linked(c)'
  <2>1. CASE c = Target(e)
    BY <1>4, <2>1, LinkedWorking
  <2>2. CASE c # Target(e)
    <3>1. \A b \in Admins : InProgress(b) /\ Target(b) = c => tx'[b] = tx[b]
      BY <1>4, <2>2 DEF Alone, Others
    <3> QED BY <1>1, <1>4, <2>2, <3>1, LinkedKept
  <2> QED BY <2>1, <2>2
<1> QED BY <1>1, <1>2, <1>3, <1>4, StepKinds

-----------------------------------------------------------------------------
(* The invariant holds. *)

LEMMA InitHolds == RequestsInit => RequestsInv
<1> SUFFICES ASSUME RequestsInit
             PROVE  RequestsInv
  OBVIOUS
<1>1. RequestsTypeOK /\ \A a \in Admins : ~InProgress(a)
  BY RequestsEmpty DEF RequestsInit, InProgress, NoRequest
<1>2. \A c \in Clusters : cluster[c].groups = cluster[c].initial /\ cluster[c].backup = FALSE
                          /\ cluster[c].groups \in Nat
  <2>1. \A g \in Groups : g \in Nat
    BY GroupsAssumption
  <2>2. PICK R : /\ R = {[groups |-> g, initial |-> g, provisioned |-> Never,
                         backup |-> FALSE] : g \in Groups}
                 /\ cluster \in [Clusters -> R]
    BY DEF RequestsInit
  <2>3. \A x \in R : x.groups = x.initial /\ x.backup = FALSE /\ x.groups \in Nat
    BY <2>1, <2>2
  <2> QED BY <2>2, <2>3
<1>3. ChainInv
  <2> SUFFICES ASSUME NEW c \in Clusters
               PROVE  Chain(c)
    BY DEF ChainInv
  <2>1. Resizes(c) = {}
    BY DEF RequestsInit, Resizes
  <2> QED BY <1>2, <2>1 DEF Chain
<1>4. BackupTracked
  <2>1. \A c \in Clusters : (c \in git) = FALSE
    BY DEF RequestsInit
  <2> QED BY <1>2, <2>1 DEF BackupTracked
<1> QED BY <1>1, <1>3, <1>4 DEF RequestsInv, SoleInv, FoundInv, ReadsInv, Ends, InProgress

LEMMA TypeStep == RequestsInv /\ [RequestsNext]_requestsVars => RequestsTypeOK'
BY StepKinds DEF RequestsInv, Quiet, Enters, Beginning

\* Every variable keeps its type, whatever customers ask for and administrators do with it,
\* and what an endpoint has read of a cluster holds until it commits, unless another one
\* has worked on the cluster meanwhile.
THEOREM RequestsInvariant == RequestsSpec => []RequestsInv
<1>1. RequestsInit => RequestsInv
  BY InitHolds
<1>2. RequestsInv /\ [RequestsNext]_requestsVars => RequestsInv'
  BY TypeStep, SoleStep, FoundStep, KnownStep, ChainStep, BackupStep DEF RequestsInv
<1> QED BY <1>1, <1>2, PTL DEF RequestsSpec

THEOREM RequestsTypeCorrect == RequestsSpec => []RequestsTypeOK
<1>1. RequestsInv => RequestsTypeOK
  BY DEF RequestsInv
<1> QED BY <1>1, RequestsInvariant, PTL

\* The backup project of a cluster is in git if and only if the cluster is linked to it,
\* but for an endpoint between the two, for every number of clusters and administrators:
\* no transaction failed after its push, and no two worked on the cluster at once.
THEOREM BackupsAreTracked == RequestsSpec => []BackupTracked
<1>1. RequestsInv => BackupTracked
  BY DEF RequestsInv
<1> QED BY <1>1, RequestsInvariant, PTL

-----------------------------------------------------------------------------
(* Each worker group is charged once. *)

LEMMA MonthOfTime ==
  ASSUME NEW t \in 0 .. LastTick
  PROVE  /\ \E m \in Months : In(t, m)
         /\ \A m, n \in Nat : In(t, m) /\ In(t, n) => m = n
<1>1. MonthTicks \in Nat \ {0} /\ LastTick \in Nat /\ t \in Nat /\ t <= LastTick /\ t # Never
  BY MonthAssumption, BoundAssumption DEF Never
<1>2. PICK m \in Nat : m = t \div MonthTicks /\ m * MonthTicks <= t /\ t < (m + 1) * MonthTicks
  BY <1>1
<1>3. m <= LastTick \div MonthTicks /\ LastTick \div MonthTicks \in Nat
  BY <1>1, <1>2
<1>4. m \in Months /\ In(t, m)
  BY <1>1, <1>2, <1>3 DEF Months, In, MonthStart, MonthEnd, MonthOf
<1>5. ASSUME NEW i \in Nat, NEW j \in Nat, In(t, i), In(t, j)
      PROVE  i = j
  BY <1>1, <1>5 DEF In, MonthStart, MonthEnd
<1> QED BY <1>4, <1>5

SetupLine(c) ==
  Line(c, "workers", 0, cluster[c].initial, SetupPrice("workers").price, "cluster_setup_fee")
ResizeLine(r) ==
  Line(requests[r].cluster, "workers", r, requests[r].payload.target - requests[r].before,
       SetupPrice("workers").price, "cluster_setup_fee")

\* The lines of the workers of a cluster: one for the groups it was created with, in the
\* month it was provisioned in, and one for each resize, in the month that was applied in.
LEMMA LinesOfWorkers ==
  ASSUME RequestsTypeOK, NEW c \in Clusters, NEW x \in OfWorkers(c)
  PROVE  /\ x = << x[1], x[2] >> /\ x[1] \in Months
         /\ \/ x[2] = SetupLine(c) /\ In(cluster[c].provisioned, x[1]) /\ cluster[c].initial > 0
            \/ \E r \in Resizes(c) : x[2] = ResizeLine(r) /\ In(requests[r].applied, x[1])
<1>1. PICK m \in Months :
        /\ x \in {m} \X (SetupLines(m, AllContracts) \cup ExpansionLines(m, AllContracts))
        /\ x[2].cluster = c /\ x[2].label = "workers"
  BY DEF OfWorkers
<1>2. /\ x = << x[1], x[2] >> /\ x[1] = m
      /\ x[2] \in SetupLines(m, AllContracts) \cup ExpansionLines(m, AllContracts)
  BY <1>1
<1>3. ASSUME x[2] \in SetupLines(m, AllContracts)
      PROVE  x[2] = SetupLine(c) /\ In(cluster[c].provisioned, m) /\ cluster[c].initial > 0
  <2>1. ASSUME NEW d,
               x[2] = Line(d, "controllers", 0, 1, SetupPrice("controllers").price,
                           "cluster_setup_fee")
        PROVE  FALSE
    BY <1>1, <2>1 DEF Line
  <2>2. PICK d \in Live(m, AllContracts) :
          /\ In(cluster[d].provisioned, m) /\ cluster[d].initial > 0
          /\ x[2] = Line(d, "workers", 0, cluster[d].initial, SetupPrice("workers").price,
                         "cluster_setup_fee")
    BY <1>3, <2>1 DEF SetupLines
  <2>3. d = c
    BY <1>1, <2>2 DEF Line
  <2> QED BY <2>2, <2>3 DEF SetupLine
<1>4. ASSUME x[2] \in ExpansionLines(m, AllContracts)
      PROVE  \E r \in Resizes(c) : x[2] = ResizeLine(r) /\ In(requests[r].applied, m)
  <2>1. PICK r \in Expansions(m, AllContracts) : x[2] = ResizeLine(r)
    BY <1>4 DEF ExpansionLines, ResizeLine
  <2>2. requests[r].cluster = c
    BY <1>1, <2>1 DEF Line, ResizeLine
  <2> QED BY <2>1, <2>2 DEF Expansions, Resizes
<1> QED BY <1>1, <1>2, <1>3, <1>4

LEMMA WorkersHaveLines ==
  ASSUME RequestsTypeOK, NEW c \in Clusters, SetupPrice("workers") # NoPrice,
         NEW m \in Months
  PROVE  /\ In(cluster[c].provisioned, m) /\ cluster[c].initial > 0 =>
              << m, SetupLine(c) >> \in OfWorkers(c)
         /\ \A r \in Resizes(c) : In(requests[r].applied, m)
                                  /\ requests[r].payload.target > requests[r].before =>
              << m, ResizeLine(r) >> \in OfWorkers(c)
<1>1. c \in Reported(AllContracts)
  BY DEF Reported, AllContracts
<1>2. ASSUME NEW l \in SetupLines(m, AllContracts) \cup ExpansionLines(m, AllContracts),
             l.cluster = c, l.label = "workers"
      PROVE  << m, l >> \in OfWorkers(c)
  <2>1. PICK x : x = << m, l >>
    OBVIOUS
  <2>2. /\ x[2] = l
        /\ x \in {m} \X (SetupLines(m, AllContracts) \cup ExpansionLines(m, AllContracts))
    BY <2>1
  <2> QED BY <1>2, <2>1, <2>2 DEF OfWorkers
<1>3. ASSUME In(cluster[c].provisioned, m), cluster[c].initial > 0
      PROVE  << m, SetupLine(c) >> \in OfWorkers(c)
  <2>1. c \in Live(m, AllContracts)
    BY <1>1, <1>3 DEF Live, In
  <2>2. SetupLine(c) \in SetupLines(m, AllContracts)
    BY <1>3, <2>1 DEF SetupLines, SetupLine
  <2>3. SetupLine(c).cluster = c /\ SetupLine(c).label = "workers"
    BY DEF SetupLine, Line
  <2> QED BY <1>2, <2>2, <2>3
<1>4. ASSUME NEW r \in Resizes(c), In(requests[r].applied, m),
             requests[r].payload.target > requests[r].before
      PROVE  << m, ResizeLine(r) >> \in OfWorkers(c)
  <2>1. r \in Expansions(m, AllContracts)
    BY <1>1, <1>4 DEF Expansions, Resizes
  <2>2. ResizeLine(r) \in ExpansionLines(m, AllContracts)
    BY <2>1 DEF ExpansionLines, ResizeLine
  <2>3. ResizeLine(r).cluster = c /\ ResizeLine(r).label = "workers"
    BY <1>4 DEF ResizeLine, Line, Resizes
  <2> QED BY <1>2, <2>2, <2>3
<1> QED BY <1>3, <1>4

\* What the lines are the fee of.
LEMMA GroupsOfLines ==
  ASSUME RequestsTypeOK, NEW c \in Clusters
  PROVE  /\ GroupsOf(SetupLine(c)) = 1 .. cluster[c].initial
         /\ SetupLine(c).cost = cluster[c].initial * WorkerFee(c)
         /\ \A r \in Resizes(c) :
              /\ GroupsOf(ResizeLine(r)) = Added(r)
              /\ ResizeLine(r).cost = (requests[r].payload.target - requests[r].before) * WorkerFee(c)
<1>1. /\ SetupLine(c).cluster = c /\ SetupLine(c).from = 0
      /\ SetupLine(c).cost = cluster[c].initial * WorkerFee(c)
  BY DEF SetupLine, Line, WorkerFee
<1>2. \A r \in Resizes(c) :
        /\ ResizeLine(r).from = r /\ r # 0
        /\ ResizeLine(r).cost = (requests[r].payload.target - requests[r].before) * WorkerFee(c)
  BY DEF ResizeLine, Line, Resizes, RequestsTypeOK, WorkerFee
<1> QED BY <1>1, <1>2 DEF GroupsOf, Added

LEMMA SpanSize ==
  ASSUME NEW n \in Nat, NEW m \in Nat, n <= m
  PROVE  Cardinality(n + 1 .. m) = m - n /\ Cardinality(1 .. m) = m
<1>1. /\ Cardinality(n + 1 .. m) = IF n + 1 > m THEN 0 ELSE m - (n + 1) + 1
      /\ Cardinality(1 .. m) = IF 1 > m THEN 0 ELSE m - 1 + 1
  <2>1. n + 1 \in Int /\ m \in Int /\ 1 \in Int
    OBVIOUS
  <2> QED BY <2>1, FS_Interval
<1> QED BY <1>1

LEMMA ChainIsCharged ==
  ASSUME RequestsTypeOK, NEW c \in Clusters, Chain(c), Charged(c)
  PROVE  EachGroupOnce(c)
<1>1. /\ SetupPrice("workers") # NoPrice /\ cluster[c].groups \in Nat /\ cluster[c].initial \in Nat
      /\ cluster[c].provisioned \in 0 .. LastTick
  BY BoundAssumption DEF Charged, RequestsTypeOK, ClusterRow, Times, Never
<1>2. \A r \in Resizes(c) :
        /\ requests[r].applied \in 0 .. LastTick
        /\ requests[r].before \in Nat /\ requests[r].payload.target \in Nat
        /\ cluster[c].initial <= requests[r].before
        /\ requests[r].before < requests[r].payload.target
        /\ requests[r].payload.target <= cluster[c].groups
  <2>1. \A r \in Resizes(c) : requests[r] \in RequestRow
    BY DEF Resizes, RequestsTypeOK
  <2>2. \A r \in Resizes(c) : requests[r].before \in Nat /\ requests[r].payload.target \in Nat
    BY <2>1 DEF RequestRow, Payload
  <2>3. clock \in 0 .. LastTick
    BY DEF RequestsTypeOK
  <2> QED BY <2>2, <2>3, BoundAssumption DEF Chain
<1>3. \A g \in 1 .. cluster[c].groups : \E x \in OfWorkers(c) : g \in GroupsOf(x[2])
  <2> SUFFICES ASSUME NEW g \in 1 .. cluster[c].groups
               PROVE  \E x \in OfWorkers(c) : g \in GroupsOf(x[2])
    OBVIOUS
  <2>1. CASE g <= cluster[c].initial
    <3>1. PICK m \in Months : In(cluster[c].provisioned, m)
      BY <1>1, MonthOfTime
    <3>2. << m, SetupLine(c) >> \in OfWorkers(c)
      BY <1>1, <2>1, <3>1, WorkersHaveLines
    <3>3. g \in GroupsOf(SetupLine(c))
      BY <1>1, <2>1, GroupsOfLines
    <3> QED BY <3>2, <3>3
  <2>2. CASE ~(g <= cluster[c].initial)
    <3>1. PICK r \in Resizes(c) : g \in Added(r)
      BY <1>1, <2>2 DEF Chain
    <3>2. PICK m \in Months : In(requests[r].applied, m)
      BY <1>2, MonthOfTime
    <3>3. << m, ResizeLine(r) >> \in OfWorkers(c)
      BY <1>1, <1>2, <3>2, WorkersHaveLines
    <3>4. g \in GroupsOf(ResizeLine(r))
      BY <3>1, GroupsOfLines
    <3> QED BY <3>3, <3>4
  <2> QED BY <2>1, <2>2
<1>4. ASSUME NEW x \in OfWorkers(c), NEW y \in OfWorkers(c), x # y
      PROVE  GroupsOf(x[2]) \cap GroupsOf(y[2]) = {}
  <2>1. /\ x = << x[1], x[2] >> /\ y = << y[1], y[2] >> /\ x[1] \in Nat /\ y[1] \in Nat
    <3>1. Months \subseteq Nat
      BY DEF Months
    <3> QED BY <3>1, LinesOfWorkers
  <2>2. \A r \in Resizes(c) : Added(r) \cap (1 .. cluster[c].initial) = {}
    BY <1>1, <1>2 DEF Added
  <2>3. CASE x[2] = SetupLine(c) /\ In(cluster[c].provisioned, x[1])
    <3>1. CASE y[2] = SetupLine(c) /\ In(cluster[c].provisioned, y[1])
      <4>1. x[1] = y[1]
        BY <1>1, <2>1, <2>3, <3>1, MonthOfTime
      <4> QED BY <1>4, <2>1, <2>3, <3>1, <4>1
    <3>2. CASE \E r \in Resizes(c) : y[2] = ResizeLine(r)
      <4>1. PICK r \in Resizes(c) : y[2] = ResizeLine(r)
        BY <3>2
      <4>2. GroupsOf(x[2]) = 1 .. cluster[c].initial /\ GroupsOf(y[2]) = Added(r)
        BY <2>3, <4>1, GroupsOfLines
      <4> QED BY <2>2, <4>2
    <3> QED BY <3>1, <3>2, LinesOfWorkers
  <2>4. ASSUME NEW r \in Resizes(c), x[2] = ResizeLine(r), In(requests[r].applied, x[1])
        PROVE  GroupsOf(x[2]) \cap GroupsOf(y[2]) = {}
    <3>1. CASE y[2] = SetupLine(c)
      BY <2>2, <2>4, <3>1, GroupsOfLines
    <3>2. ASSUME NEW s \in Resizes(c), y[2] = ResizeLine(s), In(requests[s].applied, y[1])
          PROVE  GroupsOf(x[2]) \cap GroupsOf(y[2]) = {}
      <4>1. CASE r = s
        <5>1. x[1] = y[1]
          BY <1>2, <2>1, <2>4, <3>2, <4>1, MonthOfTime
        <5> QED BY <1>4, <2>1, <2>4, <3>2, <4>1, <5>1
      <4>2. CASE r # s
        <5>1. Added(r) \cap Added(s) = {}
          BY <4>2 DEF Chain
        <5> QED BY <2>4, <3>2, <5>1, GroupsOfLines
      <4> QED BY <4>1, <4>2
    <3> QED BY <3>1, <3>2, LinesOfWorkers
  <2> QED BY <2>3, <2>4, LinesOfWorkers
<1>5. ASSUME NEW x \in OfWorkers(c)
      PROVE  /\ GroupsOf(x[2]) \subseteq 1 .. cluster[c].groups
             /\ x[2].cost = Cardinality(GroupsOf(x[2])) * WorkerFee(c)
  <2>1. CASE x[2] = SetupLine(c)
    <3>1. Cardinality(1 .. cluster[c].initial) = cluster[c].initial
      BY <1>1, SpanSize
    <3>2. 1 .. cluster[c].initial \subseteq 1 .. cluster[c].groups
      BY <1>1 DEF Chain
    <3> QED BY <2>1, <3>1, <3>2, GroupsOfLines
  <2>2. ASSUME NEW r \in Resizes(c), x[2] = ResizeLine(r)
        PROVE  /\ GroupsOf(x[2]) \subseteq 1 .. cluster[c].groups
               /\ x[2].cost = Cardinality(GroupsOf(x[2])) * WorkerFee(c)
    <3>1. Cardinality(Added(r)) = requests[r].payload.target - requests[r].before
      BY <1>2, SpanSize DEF Added
    <3>2. Added(r) \subseteq 1 .. cluster[c].groups
      BY <1>1, <1>2 DEF Added
    <3> QED BY <2>2, <3>1, <3>2, GroupsOfLines
  <2> QED BY <2>1, <2>2, LinesOfWorkers
<1> QED BY <1>3, <1>4, <1>5 DEF EachGroupOnce

\* Over all months the customer is charged for setting up each worker group once, for
\* every sequence of resizes, length of the month and list of prices.
THEOREM GroupsAreChargedOnce == RequestsSpec => []GroupsChargedOnce
<1>1. RequestsInv => GroupsChargedOnce
  <2> SUFFICES ASSUME RequestsInv, NEW c \in Clusters \ crossed, Charged(c)
               PROVE  EachGroupOnce(c)
    BY DEF GroupsChargedOnce
  <2> QED BY ChainIsCharged DEF RequestsInv, ChainInv
<1> QED BY <1>1, RequestsInvariant, PTL

-----------------------------------------------------------------------------
(* A month that is over is settled. *)

\* What a step may do to the rows when the month m is settled: whatever it adds or closes
\* has a time after the month.
Provisions(c, m) ==
  /\ cluster'[c].initial = cluster[c].initial
  /\ \/ cluster'[c].provisioned = cluster[c].provisioned
     \/ cluster[c].provisioned = Never /\ cluster'[c].provisioned >= MonthEnd(m)
Applies(r, m) ==
  \/ requests'[r] = requests[r]
  \/ requests[r].status = "pending" /\ requests'[r].applied >= MonthEnd(m)
EndsAddon(i, m) ==
  \/ addons'[i] = addons[i]
  \/ /\ addons'[i].cluster = addons[i].cluster /\ addons'[i].addon = addons[i].addon
     /\ addons'[i].enabled = addons[i].enabled
     /\ addons[i].disabled = Never /\ addons'[i].disabled >= MonthEnd(m)
MonthStays(m) ==
  /\ \A c \in Clusters \ crossed' : Provisions(c, m)
  /\ \A r \in DOMAIN requests :
       /\ r \in DOMAIN requests' /\ requests'[r].cluster = requests[r].cluster
       /\ requests[r].cluster \notin crossed' => Applies(r, m)
  /\ \A r \in DOMAIN requests' \ DOMAIN requests : requests'[r].status = "pending"
  /\ \A i \in DOMAIN addons :
       /\ i \in DOMAIN addons' /\ addons'[i].cluster = addons[i].cluster
       /\ addons[i].cluster \notin crossed' => EndsAddon(i, m)
  /\ \A i \in DOMAIN addons' \ DOMAIN addons : addons'[i].enabled >= MonthEnd(m)

LEMMA QuietStays ==
  ASSUME RequestsTypeOK, Local({}), UNCHANGED <<cluster, addons>>, NEW m
  PROVE  MonthStays(m)
<1>1. \A r \in DOMAIN requests : requests[r].cluster \notin {}
  OBVIOUS
<1> QED BY <1>1 DEF Local, MonthStays, Provisions, Applies, EndsAddon

LEMMA WorkingStays ==
  ASSUME RequestsInv, NEW e \in Admins, Working(e), NEW m \in Nat, Settled(m)
  PROVE  MonthStays(m)
<1>1. /\ RequestsTypeOK /\ FoundInv /\ ReadsInv
      /\ InProgress(e) /\ Local({Target(e)}) /\ crossed' = crossed
  BY WorkingNext DEF RequestsInv
<1>2. /\ Target(e) \in crossed \/ Known(e)
      /\ tx[e].verb # "provision" => tx[e].id \in DOMAIN requests
                                     /\ requests[tx[e].id].cluster = Target(e)
  BY <1>1, BusyTyped DEF ReadsInv
<1>3. tx[e].begun >= MonthEnd(m) /\ tx[e].stamp >= MonthEnd(m)
  <2>1. /\ tx[e].begun \in Nat /\ tx[e].stamp \in Nat /\ tx[e].begun <= tx[e].stamp
        /\ tx[e].begun >= MonthEnd(m) /\ MonthEnd(m) \in Nat
    BY <1>1, BusyTyped, MonthAssumption DEF Transaction, Settled, MonthEnd
  <2> QED BY <2>1
<1>4. ASSUME NEW c \in Clusters \ crossed'
      PROVE  Provisions(c, m)
  <2>1. CASE c # Target(e)
    BY <1>1, <2>1 DEF Local, Provisions
  <2>2. CASE c = Target(e)
    <3>1. Known(e)
      BY <1>1, <1>2, <2>2, <1>4
    <3>2. CASE CommitProvision(e)
      BY <1>1, <1>3, <2>2, <3>1, <3>2, CommitProvisionNext DEF Known, Provisions, Set
    <3>3. CASE ~CommitProvision(e)
      BY <1>1, <2>2, <3>3, ExamineNext, AbortNext, CommitDenyNext, CommitResizeNext, CommitEnableNext,
         CommitDisableNext, CommitBackupNext DEF Working, Commit, Provisions, Set
    <3> QED BY <3>2, <3>3
  <2> QED BY <2>1, <2>2
<1>5. ASSUME NEW r \in DOMAIN requests, requests[r].cluster \notin crossed'
      PROVE  Applies(r, m)
  <2>1. CASE requests[r].cluster # Target(e)
    BY <1>1, <2>1 DEF Local, Applies
  <2>2. CASE requests[r].cluster = Target(e)
    <3>1. Known(e)
      BY <1>1, <1>2, <1>5, <2>2
    <3>2. \/ UNCHANGED requests
          \/ tx[e].verb # "provision" /\ \E status : Closed(tx[e].id, status, tx[e].stamp)
      BY <1>1, ExamineNext, AbortNext, CommitDenyNext, CommitProvisionNext, CommitResizeNext,
         CommitEnableNext, CommitDisableNext, CommitBackupNext DEF Working, Commit, Ends
    <3> QED BY <1>3, <3>1, <3>2 DEF Known, Closed, Applies
  <2> QED BY <2>1, <2>2
<1>6. ASSUME NEW i \in DOMAIN addons, addons[i].cluster \notin crossed'
      PROVE  EndsAddon(i, m)
  <2>1. CASE CommitDisable(e) /\ i = tx[e].found
    <3>1. Known(e)
      BY <1>1, <1>2, <1>6, <2>1, CommitDisableNext
    <3>2. addons[i].disabled = Never
      BY <1>1, <2>1, <3>1, CommitDisableNext DEF Known
    <3> QED BY <1>1, <1>3, <2>1, <3>2, CommitDisableNext DEF EndsAddon
  <2>2. CASE ~(CommitDisable(e) /\ i = tx[e].found)
    BY <1>1, <2>2, ExamineNext, AbortNext, CommitDenyNext, CommitProvisionNext, CommitResizeNext,
       CommitEnableNext, CommitDisableNext, CommitBackupNext DEF Working, Commit, EndsAddon
  <2> QED BY <2>1, <2>2
<1>7. \A i \in DOMAIN addons' \ DOMAIN addons : addons'[i].enabled >= MonthEnd(m)
  <2>1. CASE CommitEnable(e)
    BY <1>1, <1>3, <2>1, CommitEnableNext
  <2>2. CASE ~CommitEnable(e)
    BY <1>1, <2>2, ExamineNext, AbortNext, CommitDenyNext, CommitProvisionNext, CommitResizeNext,
       CommitDisableNext, CommitBackupNext DEF Working, Commit
  <2> QED BY <2>1, <2>2
<1> QED BY <1>1, <1>4, <1>5, <1>6, <1>7 DEF MonthStays, Local

LEMMA SettledStays ==
  ASSUME RequestsInv, [RequestsNext]_requestsVars, NEW m \in Nat, Settled(m)
  PROVE  MonthStays(m)
<1>1. RequestsTypeOK /\ FoundInv
  BY DEF RequestsInv
<1>2. CASE Quiet
  BY <1>1, <1>2, QuietStays DEF Quiet
<1>3. CASE \E a \in Admins : Enters(a)
  BY <1>1, <1>3, QuietStays DEF Enters, Beginning
<1> QED BY <1>1, <1>2, <1>3, StepKinds, WorkingStays

\* A line of a cluster that was provisioned in a month.
SetupFee(l, c, initial) ==
  \/ /\ SetupPrice("controllers") # NoPrice
     /\ l = Line(c, "controllers", 0, 1, SetupPrice("controllers").price, "cluster_setup_fee")
  \/ /\ SetupPrice("workers") # NoPrice /\ initial > 0
     /\ l = Line(c, "workers", 0, initial, SetupPrice("workers").price, "cluster_setup_fee")

LEMMA SetupMembers ==
  ASSUME NEW l, NEW m
  PROVE  /\ l \in SetupLines(m, AllContracts) <=>
              \E c \in Clusters : In(cluster[c].provisioned, m) /\ SetupFee(l, c, cluster[c].initial)
         /\ l \in SetupLines(m, AllContracts)' <=>
              \E c \in Clusters : In(cluster'[c].provisioned, m) /\ SetupFee(l, c, cluster'[c].initial)
<1>1. \A c \in Clusters : c \in Reported(AllContracts)
  BY DEF Reported, AllContracts
<1>2. \A t : In(t, m) => t # Never /\ t < MonthEnd(m)
  BY DEF In
<1>3. Reported(AllContracts) \subseteq Clusters
  BY DEF Reported
<1>4. l \in SetupLines(m, AllContracts) <=>
        \E c \in Clusters : In(cluster[c].provisioned, m) /\ SetupFee(l, c, cluster[c].initial)
  BY <1>1, <1>2, <1>3 DEF SetupLines, SetupFee, Live
<1>5. l \in SetupLines(m, AllContracts)' <=>
        \E c \in Clusters : In(cluster'[c].provisioned, m) /\ SetupFee(l, c, cluster'[c].initial)
  BY <1>1, <1>2, <1>3 DEF SetupLines, SetupFee, Live
<1> QED BY <1>4, <1>5

LEMMA SetupStays ==
  ASSUME RequestsTypeOK', NEW m \in Nat, MonthStays(m), NEW l, l.cluster \notin crossed'
  PROVE  l \in SetupLines(m, AllContracts) <=> l \in SetupLines(m, AllContracts)'
<1>1. \A c, n : SetupFee(l, c, n) => l.cluster = c
  BY DEF SetupFee, Line
<1>2. ASSUME NEW c \in Clusters, c \notin crossed'
      PROVE  /\ In(cluster[c].provisioned, m) <=> In(cluster'[c].provisioned, m)
             /\ cluster'[c].initial = cluster[c].initial
  <2>1. cluster'[c].provisioned \in Int /\ MonthEnd(m) \in Nat
    BY BoundAssumption, MonthAssumption DEF RequestsTypeOK, ClusterRow, Times, MonthEnd
  <2>2. cluster'[c].provisioned >= MonthEnd(m) => ~In(cluster'[c].provisioned, m)
    BY <2>1 DEF In
  <2>3. ~In(Never, m)
    BY DEF In
  <2> QED BY <1>2, <2>2, <2>3 DEF MonthStays, Provisions
<1> QED BY <1>1, <1>2, SetupMembers

ExpansionFee(l, r, row) ==
  /\ row.payload.type = "resize" /\ row.status = "applied" /\ row.cluster \in Clusters
  /\ row.payload.target > row.before
  /\ SetupPrice("workers") # NoPrice
  /\ l = Line(row.cluster, "workers", r, row.payload.target - row.before,
              SetupPrice("workers").price, "cluster_setup_fee")

LEMMA ExpansionMembers ==
  ASSUME NEW l, NEW m
  PROVE  /\ l \in ExpansionLines(m, AllContracts) <=>
              \E r \in DOMAIN requests : In(requests[r].applied, m) /\ ExpansionFee(l, r, requests[r])
         /\ l \in ExpansionLines(m, AllContracts)' <=>
              \E r \in DOMAIN requests' : In(requests'[r].applied, m) /\ ExpansionFee(l, r, requests'[r])
<1>1. Reported(AllContracts) = Clusters
  BY DEF Reported, AllContracts
<1>2. l \in ExpansionLines(m, AllContracts) <=>
        \E r \in DOMAIN requests : In(requests[r].applied, m) /\ ExpansionFee(l, r, requests[r])
  BY <1>1 DEF ExpansionLines, ExpansionFee, Expansions
<1>3. l \in ExpansionLines(m, AllContracts)' <=>
        \E r \in DOMAIN requests' : In(requests'[r].applied, m) /\ ExpansionFee(l, r, requests'[r])
  BY <1>1 DEF ExpansionLines, ExpansionFee, Expansions
<1> QED BY <1>2, <1>3

LEMMA ExpansionStays ==
  ASSUME RequestsTypeOK', NEW m \in Nat, MonthStays(m), NEW l, l.cluster \notin crossed'
  PROVE  l \in ExpansionLines(m, AllContracts) <=> l \in ExpansionLines(m, AllContracts)'
<1>1. \A r, row : ExpansionFee(l, r, row) => l.cluster = row.cluster /\ row.status # "pending"
  BY DEF ExpansionFee, Line
<1>2. ASSUME NEW r \in DOMAIN requests, requests[r].cluster \notin crossed'
      PROVE  In(requests[r].applied, m) /\ ExpansionFee(l, r, requests[r])
             <=> In(requests'[r].applied, m) /\ ExpansionFee(l, r, requests'[r])
  <2>1. r \in DOMAIN requests' /\ requests'[r] \in RequestRow
    BY DEF MonthStays, RequestsTypeOK
  <2>2. requests'[r].applied \in Int /\ MonthEnd(m) \in Nat
    BY <2>1, BoundAssumption, MonthAssumption DEF RequestRow, Times, MonthEnd
  <2>3. requests'[r].applied >= MonthEnd(m) => ~In(requests'[r].applied, m)
    BY <2>2 DEF In
  <2> QED BY <1>1, <1>2, <2>3 DEF MonthStays, Applies
<1> QED BY <1>1, <1>2, ExpansionMembers DEF MonthStays

AddonFee(l, i, row) ==
  /\ AddonPrice(row.addon) # NoPrice /\ row.cluster \in Clusters
  /\ l = Line(row.cluster, row.addon, i, 1, AddonPrice(row.addon).price, "cluster_addon_fee")
ActiveIn(row, m) == row.enabled < MonthEnd(m) /\ (row.disabled = Never \/ row.disabled > MonthStart(m))

LEMMA AddonMembers ==
  ASSUME NEW l, NEW m
  PROVE  /\ l \in AddonLines(m, AllContracts) <=>
              \E i \in DOMAIN addons : ActiveIn(addons[i], m) /\ AddonFee(l, i, addons[i])
         /\ l \in AddonLines(m, AllContracts)' <=>
              \E i \in DOMAIN addons' : ActiveIn(addons'[i], m) /\ AddonFee(l, i, addons'[i])
<1>1. Reported(AllContracts) = Clusters
  BY DEF Reported, AllContracts
<1>2. l \in AddonLines(m, AllContracts) <=>
        \E i \in DOMAIN addons : ActiveIn(addons[i], m) /\ AddonFee(l, i, addons[i])
  BY <1>1 DEF AddonLines, AddonFee, ActiveIn
<1>3. l \in AddonLines(m, AllContracts)' <=>
        \E i \in DOMAIN addons' : ActiveIn(addons'[i], m) /\ AddonFee(l, i, addons'[i])
  BY <1>1 DEF AddonLines, AddonFee, ActiveIn
<1> QED BY <1>2, <1>3

LEMMA AddonsStay ==
  ASSUME RequestsTypeOK', NEW m \in Nat, MonthStays(m), NEW l, l.cluster \notin crossed'
  PROVE  l \in AddonLines(m, AllContracts) <=> l \in AddonLines(m, AllContracts)'
<1>1. \A i, row : AddonFee(l, i, row) => l.cluster = row.cluster
  BY DEF AddonFee, Line
<1>2. MonthStart(m) \in Nat /\ MonthEnd(m) \in Nat /\ MonthStart(m) < MonthEnd(m)
  BY MonthAssumption DEF MonthStart, MonthEnd
<1>3. ASSUME NEW i \in DOMAIN addons, addons[i].cluster \notin crossed'
      PROVE  /\ ActiveIn(addons[i], m) <=> ActiveIn(addons'[i], m)
             /\ AddonFee(l, i, addons[i]) <=> AddonFee(l, i, addons'[i])
  <2>1. CASE addons'[i] = addons[i]
    BY <2>1
  <2>2. CASE /\ addons'[i].cluster = addons[i].cluster /\ addons'[i].addon = addons[i].addon
             /\ addons'[i].enabled = addons[i].enabled
             /\ addons[i].disabled = Never /\ addons'[i].disabled >= MonthEnd(m)
    <3>1. i \in DOMAIN addons' /\ addons'[i] \in AddonRow
      BY DEF MonthStays, RequestsTypeOK
    <3>2. addons'[i].disabled \in Int
      BY <3>1, BoundAssumption DEF AddonRow, Times
    <3>3. addons'[i].disabled > MonthStart(m)
      BY <1>2, <2>2, <3>2
    <3> QED BY <2>2, <3>3 DEF ActiveIn, AddonFee
  <2> QED BY <1>3, <2>1, <2>2 DEF MonthStays, EndsAddon
<1>4. \A i \in DOMAIN addons' \ DOMAIN addons : ~ActiveIn(addons'[i], m)
  <2> SUFFICES ASSUME NEW i \in DOMAIN addons' \ DOMAIN addons
               PROVE  ~(addons'[i].enabled < MonthEnd(m))
    BY DEF ActiveIn
  <2>1. addons'[i] \in AddonRow /\ addons'[i].enabled >= MonthEnd(m)
    BY DEF RequestsTypeOK, MonthStays
  <2>2. addons'[i].enabled \in Nat
    BY <2>1 DEF AddonRow
  <2> QED BY <1>2, <2>1, <2>2
<1> QED BY <1>1, <1>3, <1>4, AddonMembers DEF MonthStays

\* What a month that is over is charged for stays as it is, once the endpoints that began in
\* it are through, for every list of prices and number of administrators.
THEOREM ClosedMonthsAreSettled == RequestsSpec => ClosedMonthsStay
<1>1. ASSUME RequestsInv, [RequestsNext]_requestsVars
      PROVE  \A m \in Months :
               Settled(m) =>
                 Serial(Charges(m, AllContracts))' \subseteq Charges(m, AllContracts)
                 /\ {l \in Charges(m, AllContracts) : l.cluster \notin crossed'}
                    \subseteq Charges(m, AllContracts)'
  <2> SUFFICES ASSUME NEW m \in Months, Settled(m), NEW l, l.cluster \notin crossed'
               PROVE  l \in Charges(m, AllContracts) <=> l \in Charges(m, AllContracts)'
    BY DEF Serial
  <2>1. m \in Nat /\ RequestsTypeOK'
    BY <1>1, TypeStep DEF Months
  <2>2. MonthStays(m)
    BY <1>1, <2>1, SettledStays
  <2>3. /\ l \in SetupLines(m, AllContracts) <=> l \in SetupLines(m, AllContracts)'
        /\ l \in ExpansionLines(m, AllContracts) <=> l \in ExpansionLines(m, AllContracts)'
        /\ l \in AddonLines(m, AllContracts) <=> l \in AddonLines(m, AllContracts)'
    BY <2>1, <2>2, SetupStays, ExpansionStays, AddonsStay
  <2> QED BY <2>3 DEF Charges
<1>2. RequestsInv /\ [RequestsNext]_requestsVars =>
        [\A m \in Months :
           Settled(m) =>
             Serial(Charges(m, AllContracts))' \subseteq Charges(m, AllContracts)
             /\ {l \in Charges(m, AllContracts) : l.cluster \notin crossed'}
                \subseteq Charges(m, AllContracts)']_requestsVars
  BY <1>1
<1>3. RequestsSpec => []RequestsInv
  BY RequestsInvariant
<1> QED BY <1>2, <1>3, PTL DEF ClosedMonthsStay, RequestsSpec
=============================================================================
