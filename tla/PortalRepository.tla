--------------------------- MODULE PortalRepository ---------------------------
(***************************************************************************)
(* Where the customer portal keeps what it orders: contracts and clusters  *)
(* in its database, OpenstackProjects in one git repository, ManagedCluster *)
(* manifests in another.                                                   *)
(*                                                                         *)
(* Requests run concurrently, on any replica.  A change of a repository is *)
(* made from the state that was pulled and then pushed; if somebody else   *)
(* has pushed in between it is rebased, file by file.  What is pushed      *)
(* stays, whatever becomes of the transaction that ordered it.             *)
(***************************************************************************)
EXTENDS Integers, FiniteSets

CONSTANTS
  Threads,             \* requests that may run at once
  Contracts, Numbers,  \* contract ids, contract numbers
  Customers, Domains,
  Slugs, Names,        \* of clusters, of the projects that customers create
  Outside,             \* project names of OpenstackProjects that are in no repository
  Starts               \* what is there and what is asked, with a number of failures (bounds)

Keys == (Slugs \cup Names) \X Domains   \* project names, <<base, domain>>
None == [number |-> "none"]
Custom == 0                             \* quotas that are not those of a managed cluster

Projects == {None} \cup [number : Numbers, managed : BOOLEAN, quotas : Nat]
ContractRows == {None} \cup [number : Numbers, customer : Customers]

\* What users and administrators may ask for.
Requests ==
  [kind : {"cluster"}, base : Slugs, number : Numbers, groups : Nat]
  \cup [kind : {"resize"}, base : Slugs, groups : Nat]
  \cup [kind : {"create"}, base : Slugs \cup Names, number : Numbers]
  \cup [kind : {"update", "delete", "move"}, key : Keys, number : Numbers]
  \cup [kind : {"rename"}, contract : Contracts, number : Numbers]
  \cup [kind : {"drop"}, contract : Contracts]
  \cup [kind : {"give"}, contract : Contracts, customer : Customers]
  \cup [kind : {"domain"}, customer : Customers, domain : Domains]
  \cup [kind : {"contract"}, contract : Contracts, number : Numbers, customer : Customers]

ASSUME OutsideAssumption == Outside \subseteq Keys
ASSUME NamesAssumption == "none" \notin Numbers
\* There are no clusters yet, and the projects that are there have a contract.
ASSUME StartsAssumption ==
  \A s \in Starts :
    /\ s.failures \in Nat /\ s.asked \subseteq Requests
    /\ s.contract \in [Contracts -> ContractRows] /\ s.domain \in [Customers -> Domains]
    /\ \A c, d \in Contracts :
         s.contract[c] # None /\ s.contract[d] # None /\ s.contract[c].number = s.contract[d].number
           => c = d
    /\ s.repo \in [Keys -> Projects]
    /\ \A k \in Keys :
         s.repo[k] # None =>
           /\ ~s.repo[k].managed
           /\ \E c \in Contracts : s.contract[c] # None /\ s.contract[c].number = s.repo[k].number

VARIABLES
  contract,   \* Contract rows: number and customer
  domain,     \* per customer
  row,        \* TenantCluster rows
  repo,       \* the project repository: number, managed, quotas
  manifest,   \* the cluster repository
  asked,      \* what users and administrators ask for
  todo,       \* what of it nobody has begun
  th,         \* the requests that run
  failures,   \* budget
  crossed,    \* history: a request that checks before it changes ran together with another
  torn        \* history: a request failed between two of its changes

vars == <<contract, domain, row, repo, manifest, asked, todo, th, failures, crossed, torn>>
rows == <<contract, domain, row>>
gits == <<repo, manifest>>
history == <<asked, failures, crossed, torn>>

Idle == [pc |-> "idle"]
Begun(r) ==
  [pc |-> "begin", req |-> r, id |-> "none", number |-> "none", key |-> << >>,
   base |-> << >>, result |-> << >>]
Busy(t) == th[t].pc # "idle"
Req(t) == th[t].req
At(t, pc, kinds) == th[t].pc = pc /\ Req(t).kind \in kinds

Exists(c) == contract[c] # None
WithNumber(n) == {c \in Contracts : Exists(c) /\ contract[c].number = n}

Init ==
  /\ \E s \in Starts :
       /\ contract = s.contract /\ domain = s.domain /\ repo = s.repo
       /\ asked = s.asked /\ todo = s.asked /\ failures = s.failures
  /\ row = [s \in Slugs |-> None]
  /\ manifest = [s \in Slugs |-> None]
  /\ th = [t \in Threads |-> Idle]
  /\ crossed = FALSE
  /\ torn = FALSE

------------------------------------------------------------------------------
\* Requests that check something which their change takes for granted.
Checking == {"rename", "drop", "domain", "update", "delete"}

Begin(t, r) ==
  /\ ~Busy(t)
  /\ r \in todo
  /\ todo' = todo \ {r}
  /\ th' = [th EXCEPT ![t] = Begun(r)]
  /\ crossed' = (crossed \/ \E u \in Threads : Busy(u) /\ {r.kind, Req(u).kind} \cap Checking # {})
  /\ UNCHANGED <<rows, gits, asked, failures, torn>>

Goto(t, rec) == th' = [th EXCEPT ![t] = rec]
Proceed(t, pc) == Goto(t, [th[t] EXCEPT !.pc = pc])
End(t) == Goto(t, Idle)

\* A step that only reads and decides.
Reads == UNCHANGED <<rows, gits, todo, history>>

\* _require_contract_access, and the first query of admin_create_cluster: the
\* contract by its number.
Access(t) ==
  /\ At(t, "begin", {"cluster", "create", "update", "delete"})
  /\ LET r == Req(t)
     IN IF WithNumber(r.number) = {} THEN End(t)
        ELSE \E c \in WithNumber(r.number) :
               Goto(t, [th[t] EXCEPT
                          !.pc = CASE r.kind = "cluster" -> "lock"
                                   [] r.kind = "create" -> "pull"
                                   [] OTHER -> "check",
                          !.id = c, !.number = r.number,
                          !.key = IF r.kind \in {"update", "delete"} THEN r.key
                                  ELSE <<r.base, domain[contract[c].customer]>>])
  /\ Reads

\* update_project and delete_project of routers/projects.py.
CheckProject(t) ==
  /\ At(t, "check", {"update", "delete"})
  /\ LET p == repo[th[t].key]
     IN IF p # None /\ p.number = th[t].number /\ ~p.managed THEN Proceed(t, "pull") ELSE End(t)
  /\ Reads

\* move_project of routers/admin.py.
CheckMove(t) ==
  /\ At(t, "begin", {"move"})
  /\ LET p == repo[Req(t).key]
     IN IF p # None /\ ~p.managed /\ WithNumber(Req(t).number) # {} /\ p.number # Req(t).number
        THEN Goto(t, [th[t] EXCEPT !.pc = "pull", !.key = Req(t).key, !.number = Req(t).number])
        ELSE End(t)
  /\ Reads

------------------------------------------------------------------------------
\* admin_create_cluster.

\* The clusters whose advisory lock a request holds.
Locked(t) == {Req(u).base : u \in {v \in Threads \ {t} :
                Busy(v) /\ Req(v).kind = "cluster" /\ th[v].pc \notin {"begin", "lock"}}}

\* A mistake the code does not make: no advisory lock.
LockFree(t) ==
  /\ At(t, "lock", {"cluster"})
  /\ IF row[Req(t).base] = None THEN Proceed(t, "lookup") ELSE End(t)
  /\ Reads

Lock(t) ==
  /\ At(t, "lock", {"cluster"})
  /\ Req(t).base \notin Locked(t)
  /\ IF row[Req(t).base] = None THEN Proceed(t, "lookup") ELSE End(t)
  /\ Reads

Wanted(t) == [number |-> th[t].number, managed |-> TRUE, quotas |-> Req(t).groups]

\* get_project: a project that is as it should be is adopted, another one is a
\* conflict; without one the name must be free outside the repository too.
LookUp(t) ==
  /\ At(t, "lookup", {"cluster"})
  /\ CASE repo[th[t].key] = None /\ th[t].key \notin Outside -> Proceed(t, "pull")
       [] repo[th[t].key] = Wanted(t) -> Proceed(t, "adopt")
       [] OTHER -> End(t)
  /\ Reads

\* update_project, for the role bindings of an adopted project.
Adopt(t) ==
  /\ At(t, "adopt", {"cluster"})
  /\ IF repo[th[t].key] = None THEN End(t) ELSE Proceed(t, "manifest")
  /\ Reads

Document(t) ==
  [number |-> th[t].number, groups |-> Req(t).groups, project |-> th[t].key]

\* A mistake the code does not make: any manifest that is there is a conflict.
ManifestOnce(t) ==
  /\ At(t, "manifest", {"cluster"})
  /\ IF manifest[Req(t).base] = None
     THEN manifest' = [manifest EXCEPT ![Req(t).base] = Document(t)] /\ Proceed(t, "commit")
     ELSE End(t) /\ UNCHANGED manifest
  /\ UNCHANGED <<rows, repo, todo, history>>

\* write_cluster: a manifest that is there is taken if it is the same.  The
\* lock keeps others from this manifest, so that pull and push are one step.
Manifest(t) ==
  /\ At(t, "manifest", {"cluster"})
  /\ LET s == Req(t).base
     IN IF manifest[s] \in {None, Document(t)}
        THEN manifest' = [manifest EXCEPT ![s] = Document(t)] /\ Proceed(t, "commit")
        ELSE End(t) /\ UNCHANGED manifest
  /\ UNCHANGED <<rows, repo, todo, history>>

\* The row; the contract it refers to must still be there.
CommitCluster(t) ==
  /\ At(t, "commit", {"cluster"})
  /\ row' = IF Exists(th[t].id) /\ row[Req(t).base] = None
            THEN [row EXCEPT ![Req(t).base] =
                    [number |-> "row", contract |-> th[t].id, groups |-> Req(t).groups,
                     initial |-> Req(t).groups, project |-> th[t].key]]
            ELSE row
  /\ End(t)
  /\ UNCHANGED <<contract, domain, gits, todo, history>>

\* apply_request of a resize (_apply_resize), in one transaction: only the row,
\* nothing is pushed.  (Two that are applied at once: ClusterRequests.)
Resize(t) ==
  /\ At(t, "begin", {"resize"})
  /\ LET s == Req(t).base
     IN row' = IF row[s] # None /\ Req(t).groups > row[s].groups
               THEN [row EXCEPT ![s].groups = Req(t).groups] ELSE row
  /\ End(t)
  /\ UNCHANGED <<contract, domain, gits, todo, history>>

------------------------------------------------------------------------------
\* A change of the project repository.

\* rename_contract: the projects that are moved to the new number.
OfNumber(n) == {k \in Keys : repo[k] # None /\ repo[k].number = n}

\* What the repository must be like for the change: see write_project,
\* update_project, delete_project, move_project and rename_contract.
Allowed(t) ==
  LET r == Req(t)
      p == repo[th[t].key]
  IN CASE r.kind = "cluster" -> p = None
       [] r.kind = "create" -> p = None /\ th[t].key \notin Outside
       [] r.kind = "move" -> p # None /\ ~p.managed
       [] r.kind = "rename" -> \A k \in OfNumber(th[t].number) : ~repo[k].managed
       [] OTHER -> p # None

Edited(t) ==
  LET k == th[t].key
  IN CASE Req(t).kind = "cluster" -> [repo EXCEPT ![k] = Wanted(t)]
       [] Req(t).kind = "create" ->
            [repo EXCEPT ![k] = [number |-> th[t].number, managed |-> FALSE, quotas |-> Custom]]
       [] Req(t).kind = "update" -> [repo EXCEPT ![k].quotas = Custom]
       [] Req(t).kind = "delete" -> [repo EXCEPT ![k] = None]
       [] Req(t).kind = "move" -> [repo EXCEPT ![k].number = th[t].number]
       [] Req(t).kind = "rename" ->
            [j \in Keys |-> IF j \in OfNumber(th[t].number)
                            THEN [repo[j] EXCEPT !.number = Req(t).number] ELSE repo[j]]

\* A renaming that concerns no project has nothing to push.
Pull(t) ==
  /\ th[t].pc = "pull"
  /\ IF ~Allowed(t) THEN End(t)
     ELSE IF Edited(t) = repo /\ Req(t).kind = "rename" THEN Proceed(t, "commit")
     ELSE Goto(t, [th[t] EXCEPT !.pc = "push", !.base = repo, !.result = Edited(t)])
  /\ Reads

\* Git merges file by file; a file that both have changed does not merge, and
\* the list of all files may or may not if both have changed it.
Mine(t, k) == th[t].result[k] # th[t].base[k]
Theirs(t, k) == repo[k] # th[t].base[k]
Listed(r) == {k \in Keys : r[k] # None}
Clash(t) == \E k \in Keys : Mine(t, k) /\ Theirs(t, k) /\ repo[k] # th[t].result[k]
BothList(t) ==
  /\ Listed(th[t].base) # Listed(th[t].result)
  /\ Listed(th[t].base) # Listed(repo)

After(t) ==
  CASE Req(t).kind = "cluster" -> [th[t] EXCEPT !.pc = "manifest", !.base = << >>, !.result = << >>]
    [] Req(t).kind = "rename" -> [th[t] EXCEPT !.pc = "commit", !.base = << >>, !.result = << >>]
    [] OTHER -> Idle

\* A mistake the code does not make: a push that is refused is forced.
PushForced(t) ==
  /\ th[t].pc = "push"
  /\ repo' = th[t].result
  /\ Goto(t, After(t))
  /\ UNCHANGED <<rows, manifest, todo, history>>

Push(t) ==
  /\ th[t].pc = "push"
  /\ ~Clash(t)
  /\ repo' = [k \in Keys |-> IF Mine(t, k) THEN th[t].result[k] ELSE repo[k]]
  /\ Goto(t, After(t))
  /\ UNCHANGED <<rows, manifest, todo, history>>

\* The caller gets an error and may ask again; the clone is reset.
PushFails(t) ==
  /\ th[t].pc = "push"
  /\ Clash(t) \/ BothList(t)
  /\ End(t)
  /\ todo' = todo \cup {Req(t)}
  /\ UNCHANGED <<rows, gits, history>>

------------------------------------------------------------------------------
\* Contracts and customers: routers/admin.py.

\* rename_contract: the first look at the projects.
CheckRename(t) ==
  /\ At(t, "begin", {"rename"})
  /\ LET c == Req(t).contract
     IN IF Exists(c) /\ contract[c].number # Req(t).number
           /\ \A k \in OfNumber(contract[c].number) : ~repo[k].managed
        THEN Goto(t, [th[t] EXCEPT !.pc = "flush", !.id = c, !.number = contract[c].number])
        ELSE End(t)
  /\ Reads

Flushed(t) == {u \in Threads \ {t} : /\ Busy(u) /\ Req(u).kind = "rename"
                                     /\ th[u].pc \in {"pull", "push", "commit"}}
\* A mistake the code does not make: the new number is committed first.
FlushCommits(t) ==
  /\ At(t, "flush", {"rename"})
  /\ IF Exists(th[t].id) /\ WithNumber(Req(t).number) = {}
     THEN Proceed(t, "pull") /\ contract' = [contract EXCEPT ![th[t].id].number = Req(t).number]
     ELSE End(t) /\ UNCHANGED contract
  /\ UNCHANGED <<domain, row, gits, todo, history>>

\* The new number in the transaction, which waits for those that have changed
\* the same row or taken the same number.
Flush(t) ==
  /\ At(t, "flush", {"rename"})
  /\ \A u \in Flushed(t) : th[u].id # th[t].id /\ Req(u).number # Req(t).number
  /\ IF Exists(th[t].id) /\ WithNumber(Req(t).number) = {} THEN Proceed(t, "pull") ELSE End(t)
  /\ Reads

CommitRename(t) ==
  /\ At(t, "commit", {"rename"})
  /\ contract' = [contract EXCEPT ![th[t].id].number = Req(t).number]
  /\ End(t)
  /\ UNCHANGED <<domain, row, gits, todo, history>>

\* delete_contract.
CheckDrop(t) ==
  /\ At(t, "begin", {"drop"})
  /\ LET c == Req(t).contract
     IN IF Exists(c) /\ OfNumber(contract[c].number) = {}
        THEN Goto(t, [th[t] EXCEPT !.pc = "commit", !.id = c]) ELSE End(t)
  /\ Reads

\* Clusters refer to their contract, a change of its row is waited for.
CommitDrop(t) ==
  /\ At(t, "commit", {"drop"})
  /\ \A u \in Flushed(t) : th[u].id # th[t].id
  /\ contract' = IF \E s \in Slugs : row[s] # None /\ row[s].contract = th[t].id
                 THEN contract ELSE [contract EXCEPT ![th[t].id] = None]
  /\ End(t)
  /\ UNCHANGED <<domain, row, gits, todo, history>>

\* update_customer: no contract of the customer may have a project.
CheckDomain(t) ==
  /\ At(t, "begin", {"domain"})
  /\ IF \A c \in Contracts : Exists(c) /\ contract[c].customer = Req(t).customer
                              => OfNumber(contract[c].number) = {}
     THEN Proceed(t, "commit") ELSE End(t)
  /\ Reads

CommitDomain(t) ==
  /\ At(t, "commit", {"domain"})
  /\ domain' = [domain EXCEPT ![Req(t).customer] = Req(t).domain]
  /\ End(t)
  /\ UNCHANGED <<contract, row, gits, todo, history>>

\* create_contract, and move_contract, which leaves projects as they are; both
\* wait for a renaming that takes the same number or has changed the same row.
CreateContract(t) ==
  /\ At(t, "begin", {"contract"})
  /\ \A u \in Flushed(t) : Req(u).number # Req(t).number
  /\ contract' = IF WithNumber(Req(t).number) # {} \/ Exists(Req(t).contract) THEN contract
                 ELSE [contract EXCEPT ![Req(t).contract] =
                         [number |-> Req(t).number, customer |-> Req(t).customer]]
  /\ End(t)
  /\ UNCHANGED <<domain, row, gits, todo, history>>

MoveContract(t) ==
  /\ At(t, "begin", {"give"})
  /\ \A u \in Flushed(t) : th[u].id # Req(t).contract
  /\ contract' = IF ~Exists(Req(t).contract) THEN contract
                 ELSE [contract EXCEPT ![Req(t).contract].customer = Req(t).customer]
  /\ End(t)
  /\ UNCHANGED <<domain, row, gits, todo, history>>

------------------------------------------------------------------------------
\* The replica goes down, or git or the database do not answer: the request
\* ends where it is, and is asked again.
Fail(t) ==
  /\ Busy(t)
  /\ failures > 0
  /\ failures' = failures - 1
  /\ End(t)
  /\ todo' = todo \cup {Req(t)}
  /\ torn' = (torn \/ At(t, "commit", {"rename"}))
  /\ UNCHANGED <<rows, gits, asked, crossed>>

Step(t) ==
  \/ Access(t) \/ CheckProject(t) \/ CheckMove(t)
  \/ Lock(t) \/ LookUp(t) \/ Adopt(t) \/ Manifest(t) \/ CommitCluster(t) \/ Resize(t)
  \/ Pull(t) \/ Push(t) \/ PushFails(t)
  \/ CheckRename(t) \/ Flush(t) \/ CommitRename(t)
  \/ CheckDrop(t) \/ CommitDrop(t) \/ CheckDomain(t) \/ CommitDomain(t)
  \/ CreateContract(t) \/ MoveContract(t)

Next == \E t \in Threads : Step(t) \/ Fail(t) \/ \E r \in todo : Begin(t, r)

\* A request that has begun goes on, and what is asked is begun.
Fairness ==
  /\ \A t \in Threads : WF_vars(Step(t))
  /\ WF_vars(\E t \in Threads : \E r \in todo : Begin(t, r))

Spec == Init /\ [][Next]_vars /\ Fairness

------------------------------------------------------------------------------
Rows == [number : {"row"}, contract : Contracts, groups : Nat, initial : Nat, project : Keys]
Manifests == [number : Numbers, groups : Nat, project : Keys]
ThreadRecord ==
  [pc : {"begin", "check", "lock", "lookup", "adopt", "manifest", "flush", "pull", "push", "commit"},
   req : Requests, id : Contracts \cup {"none"}, number : Numbers \cup {"none"},
   key : Keys \cup {<< >>}, base : [Keys -> Projects] \cup {<< >>},
   result : [Keys -> Projects] \cup {<< >>}]

\* The places a request of each kind passes, and what it has found out by then.
Places ==
  [cluster |-> {"begin", "lock", "lookup", "adopt", "pull", "push", "manifest", "commit"},
   create |-> {"begin", "pull", "push"}, move |-> {"begin", "pull", "push"},
   update |-> {"begin", "check", "pull", "push"}, delete |-> {"begin", "check", "pull", "push"},
   rename |-> {"begin", "flush", "pull", "push", "commit"},
   drop |-> {"begin", "commit"}, domain |-> {"begin", "commit"},
   resize |-> {"begin"}, give |-> {"begin"}, contract |-> {"begin"}]
ThreadOK(x) ==
  /\ x.pc \in Places[x.req.kind]
  /\ x.pc = "push" => x.base \in [Keys -> Projects] /\ x.result \in [Keys -> Projects]
  /\ x.pc # "begin" =>
       /\ x.req.kind \in {"cluster", "create", "move", "update", "delete"} =>
            x.key \in Keys /\ x.number \in Numbers
       /\ x.req.kind \in {"cluster", "rename", "drop"} => x.id \in Contracts
       /\ x.req.kind = "rename" => x.number \in Numbers

\* Every variable has its type; numbers of contracts are unique.
TypeOK ==
  /\ contract \in [Contracts -> ContractRows]
  /\ \A c, d \in Contracts :
       Exists(c) /\ Exists(d) /\ contract[c].number = contract[d].number => c = d
  /\ domain \in [Customers -> Domains]
  /\ row \in [Slugs -> {None} \cup Rows] /\ manifest \in [Slugs -> {None} \cup Manifests]
  /\ repo \in [Keys -> Projects]
  /\ todo \subseteq asked /\ asked \subseteq Requests
  /\ failures \in Nat /\ crossed \in BOOLEAN /\ torn \in BOOLEAN
  /\ th \in [Threads -> ThreadRecord \cup {Idle}]
  /\ \A t \in Threads : Busy(t) => Req(t) \in asked /\ ThreadOK(th[t])

\* Every project in the repository is charged to a contract that exists,
\* whatever is created, moved, renamed and dropped and whatever fails in the
\* middle.  It takes that nothing ran together with a request that checks
\* before it changes, and that no renaming failed after its push.
ContractsKnown ==
  \A k \in Keys :
    \/ repo[k] = None
    \/ WithNumber(repo[k].number) # {}
    \/ crossed \/ torn
    \/ \E t \in Threads : At(t, "commit", {"rename"})

\* A cluster in the database is published, and stays so: its manifest is there
\* and its managed project, with the number of its contract and the quotas of
\* the size that it was created with, whatever is renamed, moved, updated or
\* resized later.  With nothing that ran together with a checking request.
RowsArePublished ==
  crossed \/
  \A s \in Slugs :
    row[s] # None =>
      LET number == contract[row[s].contract].number
      IN /\ manifest[s] = [number |-> number, groups |-> row[s].initial, project |-> row[s].project]
         /\ repo[row[s].project] =
              [number |-> number, managed |-> TRUE, quotas |-> row[s].initial]

\* However many ask for a cluster of one name, for whichever contracts: as long
\* as nothing has failed, each managed project belongs to a cluster or to the
\* one request that is creating it.  With nothing that ran together with a
\* checking request.
Failed == \E s \in Starts : s.asked = asked /\ s.failures > failures
NoOrphans ==
  \A k \in Keys :
    \/ repo[k] = None \/ ~repo[k].managed
    \/ Failed \/ crossed
    \/ \E s \in Slugs : row[s] # None /\ row[s].project = k
    \/ \E t \in Threads : /\ Busy(t) /\ Req(t).kind = "cluster" /\ th[t].key = k
                           /\ th[t].pc \in {"adopt", "manifest", "commit"}

\* A creation that failed after it had published something is repeated and
\* adopts it ("retry creation to adopt the matching manifests"): unless others
\* ask for the same name or change the contract or its customer, the cluster
\* comes to be, whatever fails how often.
Undisturbed(r) ==
  \A q \in asked \ {r} :
    /\ q.kind \in {"cluster", "create", "move", "update", "resize"}
    /\ q.kind \in {"cluster", "create"} => q.base # r.base
RetryAdopts ==
  \A r \in UNION {s.asked : s \in Starts} :
    r.kind = "cluster" =>
      (r \in asked /\ Undisturbed(r) ~> row[r.base] # None)

\* Not an invariant: "Managed OpenStack project quotas are sized from the
\* requested worker-group count" (README.md:18-19, and 26-29 of resize requests);
\* a resize that is applied leaves quotas and manifest as they were.
SizesArePublished ==
  \A s \in Slugs :
    row[s] # None => /\ manifest[s].groups = row[s].groups
                     /\ repo[row[s].project].quotas = row[s].groups

\* Not an invariant: the number of a contract with managed projects is not
\* changed (git_backend.py:41-44); when a cluster is created while its contract
\* is renamed, its project has a number that no contract has.
NumbersHold ==
  \A k \in Keys : repo[k] # None /\ repo[k].managed /\ ~torn => WithNumber(repo[k].number) # {}
=============================================================================
