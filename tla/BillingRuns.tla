----------------------------- MODULE BillingRuns -----------------------------
(***************************************************************************)
(* Billing jobs of the customer portal.  A CronJob posts run-due now and   *)
(* then; the endpoint goes through the enabled jobs and executes those     *)
(* that are due and have no run for the period yet.  Owners start runs by  *)
(* hand, for any period, or make a report once without a job.              *)
(*                                                                         *)
(* An execution commits a row "running", makes and delivers one file for   *)
(* all its contracts or one for each, and commits "success" or "error".    *)
(* Endpoints run concurrently and give way at every await.                 *)
(***************************************************************************)
EXTENDS Integers, Sequences, SequencesExt, FiniteSets, FiniteSetsExt

CONSTANTS
  Endpoints,      \* requests the portal may be serving at once
  Jobs,           \* BillingJob ids, in the order the query returns them
  Contracts,      \* contract numbers
  Owned,          \* the contracts each job's owner may bill (all_contracts)
  Billable,       \* contracts whose report is not empty
  Window, Month,  \* ticks of the window of a due job, and of a month
  MaxTime,        \* bound
  Starts          \* jobs and budgets to start from (bounds)

Acts == {"ticks",    \* the CronJob fires
         "manual",   \* an owner starts a run or makes a report once
         "edits",    \* an owner changes a job
         "failures", \* a generation or a delivery fails
         "kills"}    \* the portal goes down

ASSUME JobsAssumption ==
  /\ Jobs \in Seq(Int) /\ IsInjective(Jobs)
  /\ Owned \in [Range(Jobs) -> Seq(Contracts)]
ASSUME ContractsAssumption == IsFiniteSet(Contracts)
ASSUME WindowAssumption == Window \in Nat /\ Month \in Nat \ {0} /\ MaxTime \in Nat
Row == [enabled : BOOLEAN, perContract : BOOLEAN, all : BOOLEAN, contracts : Seq(Contracts),
        schedule : SUBSET Nat]
ASSUME StartsAssumption ==
  \A s \in Starts : s.budget \in [Acts -> Nat] /\ s.job \in [Range(Jobs) -> Row]
\* The tables keep each contract of a user and of a job once (uq_contract_user,
\* uq_billing_job_contract).
ASSUME DistinctAssumption ==
  \A j \in Range(Jobs) :
    IsInjective(Owned[j]) /\ \A s \in Starts : IsInjective(s.job[j].contracts)

VARIABLES
  now, budget,
  job,        \* BillingJob: enabled, schedule, contracts, one file or one per contract
  runs,       \* BillingJobRun rows
  sent,       \* history: what arrived, as <<run, contract>>
  ep,         \* the endpoints
  ticks,      \* history: how each run-due went
  overlapped  \* history: two endpoints have run at the same time

vars == <<now, budget, job, runs, sent, ep, ticks, overlapped>>

JobIds == Range(Jobs)
All == "all"          \* the contract of a file for all contracts
ASSUME AllAssumption == All \notin Contracts
NoRun == 0            \* of a report that is made once
Default == -1         \* no period given

\* What a request knows: of the jobs, what it has read when it began (the
\* session keeps its objects over a commit).
Idle == [pc |-> "idle"]
Endpoint(kind, pc) ==
  [kind |-> kind, pc |-> pc, seen |-> job, tick |-> 0, todo |-> << >>, job |-> 0, period |-> Default,
   run |-> NoRun, queue |-> << >>, files |-> 0, single |-> FALSE]
Busy(e) == ep[e].pc # "idle"

Init ==
  /\ now = Month
  /\ \E s \in Starts : job = s.job /\ budget = s.budget
  /\ runs = << >>
  /\ sent = {}
  /\ ep = [e \in Endpoints |-> Idle]
  /\ ticks = << >>
  /\ overlapped = FALSE

Spend(act) == budget[act] > 0 /\ budget' = [budget EXCEPT ![act] = @ - 1]

------------------------------------------------------------------------------
\* get_billing_period: the month before this one.
LastPeriod == (now \div Month) - 1

\* should_run_now.
Due(row, at) == \E t \in row.schedule : at - Window <= t /\ t <= at

\* resolve_contract_numbers: the chosen contracts are read anew.
Resolved(j, row) == IF row.all THEN Owned[j] ELSE job[j].contracts

\* A mistake the code does not make: a run under way does not count.
HeldDone(j, period) ==
  {r \in DOMAIN runs : runs[r].job = j /\ runs[r].period = period /\ runs[r].status = "success"}

\* The runs for which a period is not billed again by the CronJob.
Held(j, period) ==
  {r \in DOMAIN runs : /\ runs[r].job = j /\ runs[r].period = period
                       /\ runs[r].status \in {"running", "success"}}

Goto(e, rec) == ep' = [ep EXCEPT ![e] = rec]
At(e, pc) == ep[e].pc = pc

Start(e, rec) ==
  /\ ~Busy(e)
  /\ Goto(e, rec)
  /\ overlapped' = (overlapped \/ \E f \in Endpoints : Busy(f))
  /\ UNCHANGED <<now, job, runs, sent>>

\* trigger_run_due, run_due_jobs: the jobs as they are, and one time for all.
BeginTick(e) ==
  /\ Spend("ticks")
  /\ Start(e, [Endpoint("tick", "scan") EXCEPT
                 !.todo = Jobs, !.tick = Len(ticks) + 1])
  /\ ticks' = Append(ticks, [at |-> now, period |-> LastPeriod, status |-> "open",
                             due |-> {j \in JobIds : job[j].enabled /\ Due(job[j], now)}])

\* manual_run: any period, or none for the last.
BeginManual(e, j, period) ==
  /\ Spend("manual")
  /\ Start(e, [Endpoint("manual", "insert") EXCEPT !.job = j, !.period = period])
  /\ UNCHANGED ticks

\* run_once: the same files, and no row; without a contract there is no file.
Files(contracts, perContract) == IF perContract THEN contracts ELSE <<All>>
BeginOnce(e, contracts, perContract) ==
  /\ Spend("manual")
  /\ contracts # << >>
  /\ Start(e, [Endpoint("once", "make") EXCEPT
                 !.queue = Files(contracts, perContract), !.single = ~perContract])
  /\ UNCHANGED ticks

EndTick(e, status) ==
  /\ Goto(e, Idle)
  /\ ticks' = [ticks EXCEPT ![ep[e].tick].status = status]

\* A mistake the code does not make: a job that has its run ends the loop.
ScanStops(e) ==
  /\ At(e, "scan") /\ ep[e].todo # << >>
  /\ LET j == Head(ep[e].todo)
         due == ep[e].seen[j].enabled /\ Due(ep[e].seen[j], ticks[ep[e].tick].at)
         held == Held(j, LastPeriod)
         rest == [ep[e] EXCEPT !.todo = Tail(@)]
     IN CASE ~due -> Goto(e, rest) /\ UNCHANGED ticks
          [] due /\ Cardinality(held) = 1 -> EndTick(e, "done")
          [] due /\ held = {} ->
               Goto(e, [rest EXCEPT !.pc = "insert", !.job = j]) /\ UNCHANGED ticks
          [] OTHER -> EndTick(e, "raised")
  /\ UNCHANGED <<now, budget, job, runs, sent, overlapped>>

\* The loop of run_due_jobs.  Two rows that hold the period make
\* scalar_one_or_none raise, and the whole endpoint ends.
Scan(e) ==
  /\ At(e, "scan") /\ ep[e].todo # << >>
  /\ LET j == Head(ep[e].todo)
         due == ep[e].seen[j].enabled /\ Due(ep[e].seen[j], ticks[ep[e].tick].at)
         held == Held(j, LastPeriod)
         rest == [ep[e] EXCEPT !.todo = Tail(@)]
     IN CASE ~due \/ Cardinality(held) = 1 -> Goto(e, rest) /\ UNCHANGED ticks
          [] due /\ held = {} ->
               Goto(e, [rest EXCEPT !.pc = "insert", !.job = j]) /\ UNCHANGED ticks
          [] OTHER -> EndTick(e, "raised")
  /\ UNCHANGED <<now, budget, job, runs, sent, overlapped>>

ScanEnd(e) ==
  /\ At(e, "scan") /\ ep[e].todo = << >>
  /\ EndTick(e, "done")
  /\ UNCHANGED <<now, budget, job, runs, sent, overlapped>>

------------------------------------------------------------------------------
\* execute_job.

\* The row is committed as "running" before anything else is done.  The period
\* is computed anew, after the one that run_due_jobs has looked for.
Insert(e) ==
  /\ At(e, "insert")
  /\ runs' = Append(runs, [job |-> ep[e].job, status |-> "running", files |-> 0,
                           by |-> ep[e].kind, wanted |-> {}, single |-> FALSE,
                           period |-> IF ep[e].period = Default THEN LastPeriod ELSE ep[e].period])
  /\ Goto(e, [ep[e] EXCEPT !.pc = "resolve", !.run = Len(runs) + 1, !.files = 0])
  /\ UNCHANGED <<now, budget, job, sent, ticks, overlapped>>

\* The run is decided; the endpoint goes on with the next job or ends.
After(e) == IF ep[e].kind = "tick"
            THEN [ep[e] EXCEPT !.pc = "scan", !.run = NoRun, !.queue = << >>, !.job = 0]
            ELSE Idle
Decide(e, status) ==
  /\ Goto(e, After(e))
  /\ runs' = IF ep[e].run = NoRun THEN runs
             ELSE [runs EXCEPT ![ep[e].run].status = status,
                               ![ep[e].run].files = IF status = "success" THEN ep[e].files ELSE 0]

\* Without a contract the run has succeeded.
Resolve(e) ==
  /\ At(e, "resolve")
  /\ LET j == ep[e].job
         row == ep[e].seen[j]
         contracts == Resolved(j, row)
     IN IF contracts = << >>
        THEN Decide(e, "success")
        ELSE /\ Goto(e, [ep[e] EXCEPT !.pc = "make", !.queue = Files(contracts, row.perContract),
                                      !.single = ~row.perContract])
             /\ runs' = [runs EXCEPT ![ep[e].run].wanted = Range(contracts),
                                     ![ep[e].run].single = ~row.perContract]
  /\ UNCHANGED <<now, budget, job, sent, ticks, overlapped>>

\* iter_billing_files: one report; an empty one is passed over.
HasContent(e, c) ==
  IF c = All THEN (IF ep[e].run = NoRun THEN Contracts ELSE runs[ep[e].run].wanted) \cap Billable # {}
  ELSE c \in Billable
Make(e) ==
  /\ At(e, "make") /\ ep[e].queue # << >>
  /\ Goto(e, IF HasContent(e, Head(ep[e].queue)) THEN [ep[e] EXCEPT !.pc = "deliver"]
             ELSE [ep[e] EXCEPT !.queue = Tail(@)])
  /\ UNCHANGED <<now, budget, job, runs, sent, ticks, overlapped>>

\* _deliver: WebDAV or mail.
Deliver(e) ==
  /\ At(e, "deliver")
  /\ sent' = sent \cup {<<ep[e].run, Head(ep[e].queue)>>}
  /\ Goto(e, [ep[e] EXCEPT !.pc = "make", !.queue = Tail(@), !.files = @ + 1])
  /\ UNCHANGED <<now, budget, job, runs, ticks, overlapped>>

\* A mistake the code does not make: one contract's failure does not end the run.
FailPassedOver(e) ==
  /\ At(e, "make") \/ At(e, "deliver")
  /\ ep[e].queue # << >>
  /\ Spend("failures")
  /\ Goto(e, [ep[e] EXCEPT !.pc = "make", !.queue = Tail(@)])
  /\ UNCHANGED <<now, job, runs, sent, ticks, overlapped>>

\* A generation or a delivery raises; a delivery may have arrived all the same.
Fail(e) ==
  /\ At(e, "make") \/ At(e, "deliver")
  /\ ep[e].queue # << >>
  /\ Spend("failures")
  /\ Decide(e, "error")
  /\ sent' \in {sent} \cup {sent \cup {<<ep[e].run, c>>} :
                              c \in {d \in {Head(ep[e].queue)} : At(e, "deliver")}}
  /\ UNCHANGED <<now, job, ticks, overlapped>>

\* generate_and_deliver, execute_job: a combined report must not be empty.
Finish(e) ==
  /\ At(e, "make") /\ ep[e].queue = << >>
  /\ Decide(e, IF ep[e].single /\ ep[e].files = 0 THEN "error" ELSE "success")
  /\ UNCHANGED <<now, budget, job, sent, ticks, overlapped>>

------------------------------------------------------------------------------
\* update_job.
EditJob(j, new) ==
  /\ Spend("edits")
  /\ new # job[j]
  /\ job' = [job EXCEPT ![j] = new]
  /\ UNCHANGED <<now, runs, sent, ep, ticks, overlapped>>

\* The portal restarts: the rows of the runs it was at stay as they are.
Kill ==
  /\ Spend("kills")
  /\ \E e \in Endpoints : Busy(e)
  /\ ep' = [e \in Endpoints |-> Idle]
  /\ ticks' = [i \in DOMAIN ticks |->
                 IF ticks[i].status = "open" THEN [ticks[i] EXCEPT !.status = "killed"] ELSE ticks[i]]
  /\ UNCHANGED <<now, job, runs, sent, overlapped>>

TimePasses ==
  /\ now < MaxTime
  /\ now' = now + 1
  /\ UNCHANGED <<budget, job, runs, sent, ep, ticks, overlapped>>

Changed(j) ==
  {[job[j] EXCEPT !.enabled = ~@], [job[j] EXCEPT !.perContract = ~@], [job[j] EXCEPT !.all = ~@],
   [job[j] EXCEPT !.all = FALSE, !.contracts = << >>]}

Next ==
  \/ \E e \in Endpoints :
       \/ BeginTick(e) \/ Scan(e) \/ ScanEnd(e) \/ Insert(e) \/ Resolve(e)
       \/ Make(e) \/ Deliver(e) \/ Fail(e) \/ Finish(e)
       \/ \E j \in JobIds : \E period \in {Default, LastPeriod, LastPeriod + 1} :
            BeginManual(e, j, period)
       \/ \E perContract \in BOOLEAN : BeginOnce(e, SetToSeq(Contracts), perContract)
  \/ \E j \in JobIds : \E new \in Changed(j) : EditJob(j, new)
  \/ Kill
  \/ TimePasses

Spec == Init /\ [][Next]_vars

------------------------------------------------------------------------------
RunRecord == [job : JobIds, status : {"running", "success", "error"}, files : Nat,
              by : {"tick", "manual"}, wanted : SUBSET Contracts, single : BOOLEAN, period : Int]
TickRecord == [at : Nat, period : Int, status : {"open", "done", "raised", "killed"},
               due : SUBSET JobIds]
EndpointRecord ==
  [kind : {"tick", "manual", "once"}, pc : {"scan", "insert", "resolve", "make", "deliver"},
   seen : [JobIds -> Row], tick : Nat, todo : Seq(JobIds), job : JobIds \cup {0}, period : Int,
   run : Nat, queue : Seq(Contracts \cup {All}), files : Nat, single : BOOLEAN]

\* What an endpoint may hold while the table has the rows rs and the history
\* of run-due the entries ts.
EndpointOK(x, rs, ts) ==
  \/ x = Idle
  \/ /\ x \in EndpointRecord
     /\ x.pc = "scan" => x.kind = "tick"
     /\ x.kind = "tick" => x.tick \in ts /\ x.period = Default
     /\ x.pc \in {"insert", "resolve"} => x.job \in JobIds /\ x.kind # "once"
     /\ x.pc = "resolve" => x.run \in rs
     /\ x.pc \in {"make", "deliver"} => x.run \in rs \cup {NoRun}
     /\ x.pc = "deliver" => x.queue # << >>

\* Every variable has its type; an endpoint that works on a run works on one of
\* the table, and for a job.
TypeOK ==
  /\ now \in Nat /\ budget \in [Acts -> Nat] /\ overlapped \in BOOLEAN
  /\ job \in [JobIds -> Row]
  /\ runs \in Seq(RunRecord) /\ ticks \in Seq(TickRecord)
  /\ sent \subseteq Nat \X (Contracts \cup {All})
  /\ ep \in [Endpoints -> EndpointRecord \cup {Idle}]
  /\ \A e \in Endpoints : EndpointOK(ep[e], DOMAIN runs, DOMAIN ticks)

Sent(r) == {c \in Contracts \cup {All} : <<r, c>> \in sent}

\* A run that says success has delivered what it was to deliver: a file for
\* each of its contracts that has a report, or one for all of them, and the
\* number of files it states.  An empty combined report is never a success,
\* and no file that failed is passed over.
SuccessIsComplete ==
  \A r \in DOMAIN runs :
    runs[r].status = "success" =>
      /\ runs[r].files = Cardinality(Sent(r))
      /\ IF runs[r].single THEN All \in Sent(r)
         ELSE Sent(r) = runs[r].wanted \cap Billable

\* The CronJob bills no period of a job twice, though it fires several times
\* within the window and a run may take longer than the time between: of the
\* runs it has started at most one is under way or has succeeded.  It takes
\* that no two endpoints have run at the same time.
BilledOnce ==
  ~overlapped =>
    \A r, q \in DOMAIN runs :
      /\ runs[r].by = "tick" /\ runs[q].by = "tick"
      /\ runs[r].job = runs[q].job /\ runs[r].period = runs[q].period
      /\ {runs[r].status, runs[q].status} \subseteq {"running", "success"}
      => r = q

\* A run-due that ends in good order leaves no job out: each that was enabled
\* and due when it began has been executed for that period or the next.
TickServes ==
  \A i \in DOMAIN ticks :
    ticks[i].status = "done" =>
      \A j \in ticks[i].due :
        \E r \in DOMAIN runs : runs[r].job = j /\ runs[r].period >= ticks[i].period

\* Not an invariant: run_due_jobs is to "find and execute all billing jobs that
\* are due now" (billing_runner.py:1520); once a period of one job has two
\* successful runs, as after two runs by hand, it raises at that job and
\* reaches none of those behind it.
TickReachesAll == \A i \in DOMAIN ticks : ticks[i].status # "raised"

\* Not an invariant: the same sentence, for a run that a restart has cut off;
\* its row says "running" for ever, and no later run-due bills the period.
NothingStuck ==
  \A r \in DOMAIN runs :
    runs[r].status = "running" => \E e \in Endpoints : Busy(e) /\ ep[e].run = r
=============================================================================
