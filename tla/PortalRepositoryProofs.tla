------------------------ MODULE PortalRepositoryProofs ------------------------
(***************************************************************************)
(* Proofs about PortalRepository, for any requests, replicas and failures. *)
(*                                                                         *)
(* Types and unique contract numbers (TypesHold) need FlushInv: renamings  *)
(* that have written their new number in a transaction hold it against     *)
(* others.  Projects, manifests and rows (ProjectsAreCharged,              *)
(* ClustersArePublished, ProjectsAreOwned) need what each request may      *)
(* still take for granted of what it has read (Sound), which the others    *)
(* leave alone (Tame) as long as none of them checks, and that a cluster   *)
(* is made by one request at a time (LockInv).                             *)
(***************************************************************************)
EXTENDS PortalRepository, TLAPS

-----------------------------------------------------------------------------
(* Requests and the records of the threads. *)

Pcs == {"begin", "check", "lock", "lookup", "adopt", "manifest", "flush", "pull", "push", "commit"}
Others(t) == \A u \in Threads \ {t} : th'[u] = th[u]

\* A request has the parameters of its kind.
LEMMA RequestTyped ==
  ASSUME NEW r \in Requests
  PROVE  /\ r.kind = "cluster" => r.base \in Slugs /\ r.number \in Numbers /\ r.groups \in Nat
         /\ r.kind = "resize" => r.base \in Slugs /\ r.groups \in Nat
         /\ r.kind = "create" => r.base \in Slugs \cup Names /\ r.number \in Numbers
         /\ r.kind \in {"update", "delete", "move"} => r.key \in Keys /\ r.number \in Numbers
         /\ r.kind = "rename" => r.contract \in Contracts /\ r.number \in Numbers
         /\ r.kind = "drop" => r.contract \in Contracts
         /\ r.kind = "give" => r.contract \in Contracts /\ r.customer \in Customers
         /\ r.kind = "domain" => r.customer \in Customers /\ r.domain \in Domains
         /\ r.kind = "contract" =>
              r.contract \in Contracts /\ r.number \in Numbers /\ r.customer \in Customers
         /\ r.kind \in {"cluster", "resize", "create", "update", "delete", "move", "rename", "drop",
                        "give", "domain", "contract"}
BY DEF Requests

LEMMA BusyThread ==
  ASSUME TypeOK, NEW t \in Threads, Busy(t)
  PROVE  th[t] \in ThreadRecord /\ Req(t) \in Requests /\ th[t] # Idle
BY DEF TypeOK, Busy, Req, Idle, ThreadRecord

LEMMA GotoTyped ==
  ASSUME TypeOK, NEW t \in Threads, NEW x \in ThreadRecord \cup {Idle}, Goto(t, x)
  PROVE  th' \in [Threads -> ThreadRecord \cup {Idle}] /\ th'[t] = x /\ Others(t)
BY DEF TypeOK, Goto, Others

LEMMA Proceeded ==
  ASSUME NEW y \in ThreadRecord, NEW pc \in Pcs
  PROVE  LET x == [y EXCEPT !.pc = pc]
         IN /\ x \in ThreadRecord /\ x.pc = pc /\ x.req = y.req /\ x.id = y.id
            /\ x.number = y.number /\ x.key = y.key /\ x.base = y.base /\ x.result = y.result
BY DEF ThreadRecord, Pcs

\* A thread goes on with another pc, or ends.
Moves(t, pc) ==
  /\ th' \in [Threads -> ThreadRecord \cup {Idle}] /\ Others(t)
  /\ th'[t] \in ThreadRecord /\ th'[t].pc = pc /\ th'[t].req = th[t].req
Keeps(t) ==
  /\ th'[t].id = th[t].id /\ th'[t].number = th[t].number /\ th'[t].key = th[t].key
Ends(t) ==
  th' \in [Threads -> ThreadRecord \cup {Idle}] /\ Others(t) /\ th'[t] = Idle

LEMMA ProceedMoves ==
  ASSUME TypeOK, NEW t \in Threads, Busy(t), NEW pc \in Pcs, Proceed(t, pc)
  PROVE  Moves(t, pc) /\ Keeps(t)
<1>1. PICK y \in ThreadRecord : y = th[t]
  BY BusyThread
<1>2. PICK x : x = [y EXCEPT !.pc = pc]
  OBVIOUS
<1>3. /\ x \in ThreadRecord /\ x.pc = pc /\ x.req = y.req /\ x.id = y.id
      /\ x.number = y.number /\ x.key = y.key
  BY <1>2, Proceeded
<1>4. Goto(t, x)
  BY <1>1, <1>2 DEF Proceed
<1> QED BY <1>1, <1>3, <1>4, GotoTyped DEF Moves, Keeps

LEMMA EndEnds ==
  ASSUME TypeOK, NEW t \in Threads, End(t)
  PROVE  Ends(t)
BY GotoTyped DEF End, Ends

\* Access: the contract and the project name of the request.
LEMMA AccessNext ==
  ASSUME TypeOK, NEW t \in Threads, Access(t)
  PROVE  \/ Ends(t)
         \/ \E c \in Contracts :
              LET r == Req(t)
              IN /\ Exists(c) /\ contract[c].number = r.number
                 /\ Moves(t, CASE r.kind = "cluster" -> "lock"
                               [] r.kind = "create" -> "pull"
                               [] OTHER -> "check")
                 /\ th'[t].id = c /\ th'[t].number = r.number /\ th'[t].key \in Keys
                 /\ r.kind \in {"update", "delete"} => th'[t].key = r.key
<1>1. /\ Busy(t) /\ th[t].pc = "begin"
      /\ Req(t).kind \in {"cluster", "create", "update", "delete"}
  BY DEF Access, At, Busy
<1>2. PICK y \in ThreadRecord : y = th[t] /\ y.req \in Requests
  BY <1>1, BusyThread DEF Req
<1>3. PICK r \in Requests : r = y.req /\ r = Req(t)
  BY <1>2 DEF Req
<1>4. CASE WithNumber(r.number) = {}
  BY <1>3, <1>4, EndEnds DEF Access
<1>5. CASE WithNumber(r.number) # {}
  <2>1. PICK pc \in Pcs : pc = (CASE r.kind = "cluster" -> "lock"
                                  [] r.kind = "create" -> "pull"
                                  [] OTHER -> "check")
    BY DEF Pcs
  <2>2. PICK c \in WithNumber(r.number) :
          Goto(t, [th[t] EXCEPT !.pc = pc, !.id = c, !.number = r.number,
                                !.key = IF r.kind \in {"update", "delete"} THEN r.key
                                        ELSE <<r.base, domain[contract[c].customer]>>])
    BY <1>3, <1>5, <2>1 DEF Access
  <2>3. c \in Contracts /\ Exists(c) /\ contract[c].number = r.number
    BY DEF WithNumber
  <2>4. PICK key : key = (IF r.kind \in {"update", "delete"} THEN r.key
                          ELSE <<r.base, domain[contract[c].customer]>>)
    OBVIOUS
  <2>5. key \in Keys
    <3>1. domain[contract[c].customer] \in Domains
      BY <2>3 DEF TypeOK, Exists, ContractRows, None
    <3>2. CASE r.kind \in {"update", "delete"}
      BY <2>4, <3>2, RequestTyped
    <3>3. CASE r.kind \in {"cluster", "create"}
      BY <2>4, <3>1, <3>3, RequestTyped DEF Keys
    <3> QED BY <1>1, <1>3, <3>2, <3>3
  <2>6. PICK x : x = [y EXCEPT !.pc = pc, !.id = c, !.number = r.number, !.key = key]
    OBVIOUS
  <2>7. r.number \in Numbers
    BY <1>1, <1>3, RequestTyped
  <2>8. x \in ThreadRecord /\ x.pc = pc /\ x.req = y.req /\ x.id = c /\ x.number = r.number
        /\ x.key = key
    BY <2>3, <2>5, <2>6, <2>7 DEF ThreadRecord, Pcs
  <2>9. Goto(t, x)
    BY <1>2, <2>2, <2>4, <2>6
  <2>10. Moves(t, pc) /\ th'[t] = x
    BY <1>2, <2>8, <2>9, GotoTyped DEF Moves
  <2> QED BY <1>3, <2>1, <2>3, <2>4, <2>5, <2>8, <2>10
<1> QED BY <1>4, <1>5

LEMMA CheckProjectNext ==
  ASSUME TypeOK, NEW t \in Threads, CheckProject(t)
  PROVE  \/ Ends(t)
         \/ /\ Moves(t, "pull") /\ Keeps(t)
            /\ repo[th[t].key] # None /\ ~repo[th[t].key].managed
            /\ repo[th[t].key].number = th[t].number
<1>1. Busy(t)
  BY DEF CheckProject, At, Busy
<1> QED BY <1>1, EndEnds, ProceedMoves DEF CheckProject, Pcs

LEMMA CheckMoveNext ==
  ASSUME TypeOK, NEW t \in Threads, CheckMove(t)
  PROVE  \/ Ends(t)
         \/ /\ Moves(t, "pull") /\ WithNumber(th'[t].number) # {} /\ th'[t].key \in Keys
<1>1. Busy(t) /\ Req(t).kind = "move"
  BY DEF CheckMove, At, Busy
<1>2. PICK y \in ThreadRecord : y = th[t] /\ y.req \in Requests
  BY <1>1, BusyThread DEF Req
<1>3. PICK r \in Requests : r = y.req /\ r = Req(t)
  BY <1>2 DEF Req
<1>4. r.key \in Keys /\ r.number \in Numbers
  BY <1>1, <1>3, RequestTyped
<1>5. PICK x : x = [y EXCEPT !.pc = "pull", !.key = r.key, !.number = r.number]
  OBVIOUS
<1>6. /\ x \in ThreadRecord /\ x.pc = "pull" /\ x.req = y.req /\ x.number = r.number
      /\ x.key = r.key
  BY <1>4, <1>5 DEF ThreadRecord
<1>7. End(t) \/ (Goto(t, x) /\ WithNumber(r.number) # {})
  BY <1>2, <1>3, <1>5 DEF CheckMove
<1> QED BY <1>2, <1>4, <1>6, <1>7, EndEnds, GotoTyped DEF Moves

LEMMA CheckRenameNext ==
  ASSUME TypeOK, NEW t \in Threads, CheckRename(t)
  PROVE  \/ Ends(t)
         \/ /\ Moves(t, "flush") /\ th'[t].id \in Contracts /\ Exists(th'[t].id)
            /\ th'[t].number = contract[th'[t].id].number /\ th'[t].number # Req(t).number
<1>1. Busy(t) /\ Req(t).kind = "rename"
  BY DEF CheckRename, At, Busy
<1>2. PICK y \in ThreadRecord : y = th[t] /\ y.req \in Requests
  BY <1>1, BusyThread DEF Req
<1>3. PICK r \in Requests : r = y.req /\ r = Req(t)
  BY <1>2 DEF Req
<1>4. PICK c \in Contracts : c = r.contract
  BY <1>1, <1>3, RequestTyped
<1>5. PICK x : x = [y EXCEPT !.pc = "flush", !.id = c, !.number = contract[c].number]
  OBVIOUS
<1>6. Exists(c) => contract[c].number \in Numbers
  BY DEF TypeOK, Exists, ContractRows
<1>7. Exists(c) => /\ x \in ThreadRecord /\ x.pc = "flush" /\ x.req = y.req /\ x.id = c
                   /\ x.number = contract[c].number
  BY <1>5, <1>6 DEF ThreadRecord
<1>8. End(t) \/ (Goto(t, x) /\ Exists(c) /\ contract[c].number # r.number)
  BY <1>2, <1>3, <1>4, <1>5 DEF CheckRename
<1> QED BY <1>2, <1>3, <1>7, <1>8, EndEnds, GotoTyped DEF Moves

LEMMA CheckDropNext ==
  ASSUME TypeOK, NEW t \in Threads, CheckDrop(t)
  PROVE  \/ Ends(t)
         \/ /\ Moves(t, "commit") /\ th'[t].id \in Contracts /\ Exists(th'[t].id)
            /\ OfNumber(contract[th'[t].id].number) = {}
<1>1. Busy(t) /\ Req(t).kind = "drop"
  BY DEF CheckDrop, At, Busy
<1>2. PICK y \in ThreadRecord : y = th[t] /\ y.req \in Requests
  BY <1>1, BusyThread DEF Req
<1>3. PICK r \in Requests : r = y.req /\ r = Req(t)
  BY <1>2 DEF Req
<1>4. PICK c \in Contracts : c = r.contract
  BY <1>1, <1>3, RequestTyped
<1>5. PICK x : x = [y EXCEPT !.pc = "commit", !.id = c]
  OBVIOUS
<1>6. x \in ThreadRecord /\ x.pc = "commit" /\ x.req = y.req /\ x.id = c
  BY <1>5 DEF ThreadRecord
<1>7. End(t) \/ (Goto(t, x) /\ Exists(c) /\ OfNumber(contract[c].number) = {})
  BY <1>2, <1>3, <1>4, <1>5 DEF CheckDrop
<1> QED BY <1>2, <1>3, <1>6, <1>7, EndEnds, GotoTyped DEF Moves

\* The kinds of requests that come to a place.
LEMMA KindAt ==
  ASSUME NEW x, x.req \in Requests, x.pc \in Places[x.req.kind]
  PROVE  /\ x.pc \in {"lock", "lookup", "adopt", "manifest"} => x.req.kind = "cluster"
         /\ x.pc = "check" => x.req.kind \in {"update", "delete"}
         /\ x.pc = "flush" => x.req.kind = "rename"
         /\ x.pc \in {"pull", "push"} =>
              x.req.kind \in {"cluster", "create", "move", "update", "delete", "rename"}
         /\ x.pc = "commit" => x.req.kind \in {"cluster", "rename", "drop", "domain"}
<1>1. x.req.kind \in {"cluster", "resize", "create", "update", "delete", "move", "rename", "drop",
                      "give", "domain", "contract"}
  BY RequestTyped
<1>2. CASE x.req.kind = "cluster"
  BY <1>2 DEF Places
<1>3. CASE x.req.kind \in {"create", "move"}
  BY <1>3 DEF Places
<1>4. CASE x.req.kind \in {"update", "delete"}
  BY <1>4 DEF Places
<1>5. CASE x.req.kind = "rename"
  BY <1>5 DEF Places
<1>6. CASE x.req.kind \in {"drop", "domain"}
  BY <1>6 DEF Places
<1>7. CASE x.req.kind \in {"resize", "give", "contract"}
  BY <1>7 DEF Places
<1> QED BY <1>1, <1>2, <1>3, <1>4, <1>5, <1>6, <1>7

\* What a thread that has begun knows.
LEMMA KnownOf ==
  ASSUME TypeOK, NEW t \in Threads, Busy(t)
  PROVE  /\ th[t] \in ThreadRecord /\ th[t].req \in Requests /\ Req(t) = th[t].req
         /\ ThreadOK(th[t]) /\ th[t].req \in asked
BY BusyThread DEF TypeOK, Req

LEMMA LockNext ==
  ASSUME TypeOK, NEW t \in Threads, Lock(t)
  PROVE  \/ Ends(t)
         \/ Moves(t, "lookup") /\ Keeps(t) /\ row[Req(t).base] = None
<1>1. Busy(t)
  BY DEF Lock, At, Busy
<1> QED BY <1>1, EndEnds, ProceedMoves DEF Lock, Pcs

LEMMA LookUpNext ==
  ASSUME TypeOK, NEW t \in Threads, LookUp(t)
  PROVE  \/ Ends(t)
         \/ Moves(t, "pull") /\ Keeps(t)
         \/ Moves(t, "adopt") /\ Keeps(t) /\ repo[th[t].key] = Wanted(t)
<1>1. Busy(t)
  BY DEF LookUp, At, Busy
<1> QED BY <1>1, EndEnds, ProceedMoves DEF LookUp, Pcs

LEMMA AdoptNext ==
  ASSUME TypeOK, NEW t \in Threads, Adopt(t)
  PROVE  \/ Ends(t) /\ repo[th[t].key] = None
         \/ Moves(t, "manifest") /\ Keeps(t)
<1>1. Busy(t)
  BY DEF Adopt, At, Busy
<1> QED BY <1>1, EndEnds, ProceedMoves DEF Adopt, Pcs

LEMMA FlushNext ==
  ASSUME TypeOK, NEW t \in Threads, Flush(t)
  PROVE  \/ Ends(t)
         \/ /\ Moves(t, "pull") /\ Keeps(t)
            /\ Exists(th[t].id) /\ WithNumber(Req(t).number) = {}
<1>1. Busy(t)
  BY DEF Flush, At, Busy
<1> QED BY <1>1, EndEnds, ProceedMoves DEF Flush, Pcs

LEMMA CheckDomainNext ==
  ASSUME TypeOK, NEW t \in Threads, CheckDomain(t)
  PROVE  Ends(t) \/ (Moves(t, "commit") /\ Keeps(t))
<1>1. Busy(t)
  BY DEF CheckDomain, At, Busy
<1> QED BY <1>1, EndEnds, ProceedMoves DEF CheckDomain, Pcs

\* What a change of the project repository does to each project: p is the project
\* before it, q the one after it.
Change(t, k, p, q) ==
  LET x == th[t]
      kind == x.req.kind
  IN /\ kind \in {"cluster", "create", "move", "update", "delete"} /\ k # x.key => q = p
     /\ kind \in {"cluster", "create"} => p = None \/ k # x.key
     /\ kind \in {"move", "update", "delete"} => p # None \/ k # x.key
     /\ kind = "move" => ~p.managed \/ k # x.key
     /\ kind = "cluster" /\ k = x.key => q = Wanted(t)
     /\ kind = "create" /\ k = x.key =>
          q # None /\ q.number = x.number /\ ~q.managed
     /\ kind = "move" /\ k = x.key => q # None /\ q.number = x.number /\ q.managed = p.managed
     /\ kind = "update" /\ k = x.key => q # None /\ q.number = p.number /\ q.managed = p.managed
     /\ kind = "delete" /\ k = x.key => q = None
     /\ kind = "rename" =>
          IF k \in OfNumber(x.number)
          THEN p # None /\ q # None /\ q.number = x.req.number /\ ~p.managed /\ ~q.managed
          ELSE q = p

LEMMA ProjectUpdates ==
  ASSUME NEW p \in Projects, p # None, NEW n \in Numbers, NEW q
  PROVE  /\ q = [p EXCEPT !.number = n] =>
              q \in Projects /\ q # None /\ q.number = n /\ q.managed = p.managed
         /\ q = [p EXCEPT !.quotas = Custom] =>
              q \in Projects /\ q # None /\ q.number = p.number /\ q.managed = p.managed
<1>1. p \in [number : Numbers, managed : BOOLEAN, quotas : Nat] /\ Custom \in Nat
  BY DEF Projects, Custom
<1>2. q = [p EXCEPT !.number = n] =>
        /\ q \in [number : Numbers, managed : BOOLEAN, quotas : Nat] /\ q.number = n
        /\ q.managed = p.managed
  BY <1>1
<1>3. q = [p EXCEPT !.quotas = Custom] =>
        /\ q \in [number : Numbers, managed : BOOLEAN, quotas : Nat] /\ q.number = p.number
        /\ q.managed = p.managed
  BY <1>1
<1>4. \A r \in [number : Numbers, managed : BOOLEAN, quotas : Nat] : r # None /\ r \in Projects
  BY NamesAssumption DEF Projects, None
<1> QED BY <1>2, <1>3, <1>4

LEMMA NewProjects ==
  ASSUME TypeOK, NEW t \in Threads, Busy(t), th[t].number \in Numbers
  PROVE  /\ Req(t).kind = "cluster" =>
              /\ Wanted(t) \in Projects /\ Wanted(t) # None /\ Wanted(t).managed
              /\ Wanted(t).number = th[t].number
         /\ LET q == [number |-> th[t].number, managed |-> FALSE, quotas |-> Custom]
            IN q \in Projects /\ q # None /\ q.number = th[t].number /\ ~q.managed
<1>1. \A q \in [number : Numbers, managed : BOOLEAN, quotas : Nat] : q # None /\ q \in Projects
  BY NamesAssumption DEF Projects, None
<1>2. Req(t).kind = "cluster" => Req(t).groups \in Nat
  BY BusyThread, RequestTyped
<1> QED BY <1>1, <1>2 DEF Wanted, Custom

LEMMA EditedShape ==
  ASSUME TypeOK, NEW t \in Threads, Busy(t), th[t].pc = "pull", Allowed(t)
  PROVE  /\ Edited(t) \in [Keys -> Projects]
         /\ \A k \in Keys : Change(t, k, repo[k], Edited(t)[k])
<1>1. PICK x \in ThreadRecord : x = th[t] /\ ThreadOK(x) /\ x.req \in Requests /\ Req(t) = x.req
  BY KnownOf
<1>2. x.req.kind \in {"cluster", "create", "move", "update", "delete", "rename"}
  BY <1>1, KindAt DEF ThreadOK
<1>3. x.number \in Numbers /\ (x.req.kind # "rename" => x.key \in Keys)
  BY <1>1, <1>2 DEF ThreadOK
<1>4. repo \in [Keys -> Projects]
  BY DEF TypeOK
<1>5. CASE x.req.kind = "cluster"
  <2>1. PICK q \in Projects : q = Wanted(t) /\ q # None
    BY <1>1, <1>3, <1>5, NewProjects
  <2>2. Edited(t) = [repo EXCEPT ![x.key] = q] /\ repo[x.key] = None
    BY <1>1, <1>5, <2>1 DEF Edited, Allowed
  <2> QED BY <1>1, <1>3, <1>4, <1>5, <2>1, <2>2 DEF Change
<1>6. CASE x.req.kind = "create"
  <2>1. PICK q \in Projects : /\ q = [number |-> th[t].number, managed |-> FALSE, quotas |-> Custom]
                              /\ q # None /\ q.number = x.number /\ ~q.managed
    BY <1>1, <1>3, NewProjects
  <2>2. Edited(t) = [repo EXCEPT ![x.key] = q] /\ repo[x.key] = None
    BY <1>1, <1>6, <2>1 DEF Edited, Allowed
  <2> QED BY <1>1, <1>3, <1>4, <1>6, <2>1, <2>2 DEF Change
<1>7. CASE x.req.kind \in {"move", "update"}
  <2>1. repo[x.key] # None
    BY <1>1, <1>7 DEF Allowed
  <2>2. PICK p \in Projects : p = repo[x.key] /\ p # None
    BY <1>3, <1>4, <1>7, <2>1
  <2>3. PICK q : q = (IF x.req.kind = "move" THEN [p EXCEPT !.number = x.number]
                      ELSE [p EXCEPT !.quotas = Custom])
    OBVIOUS
  <2>4. /\ q \in Projects /\ q # None /\ q.managed = p.managed
        /\ q.number = IF x.req.kind = "move" THEN x.number ELSE p.number
    <3>1. CASE x.req.kind = "move"
      BY <1>3, <2>2, <2>3, <3>1, ProjectUpdates
    <3>2. CASE x.req.kind # "move"
      BY <1>3, <2>2, <2>3, <3>2, ProjectUpdates
    <3> QED BY <3>1, <3>2
  <2>5. Edited(t) = [repo EXCEPT ![x.key] = q]
    BY <1>1, <1>3, <1>4, <1>7, <2>2, <2>3 DEF Edited
  <2>6. x.req.kind = "move" => ~p.managed
    BY <1>1, <2>2 DEF Allowed
  <2> QED BY <1>1, <1>3, <1>4, <1>7, <2>2, <2>4, <2>5, <2>6 DEF Change
<1>8. CASE x.req.kind = "delete"
  <2>1. repo[x.key] # None
    BY <1>1, <1>8 DEF Allowed
  <2>2. Edited(t) = [repo EXCEPT ![x.key] = None] /\ None \in Projects
    BY <1>1, <1>8 DEF Edited, Projects
  <2> QED BY <1>1, <1>3, <1>4, <1>8, <2>1, <2>2 DEF Change
<1>9. CASE x.req.kind = "rename"
  <2>1. PICK n \in Numbers : n = x.req.number
    BY <1>1, <1>9, RequestTyped
  <2>2. Edited(t) = [j \in Keys |-> IF j \in OfNumber(x.number) THEN [repo[j] EXCEPT !.number = n]
                                    ELSE repo[j]]
    BY <1>1, <1>9, <2>1 DEF Edited
  <2>3. ASSUME NEW k \in OfNumber(x.number)
        PROVE  /\ k \in Keys /\ repo[k] # None /\ ~repo[k].managed
               /\ Edited(t)[k] \in Projects /\ Edited(t)[k] # None
               /\ Edited(t)[k].number = n /\ ~Edited(t)[k].managed
    <3>1. k \in Keys /\ repo[k] # None /\ ~repo[k].managed
      BY <1>1, <1>9 DEF Allowed, OfNumber
    <3>2. PICK p \in Projects : p = repo[k] /\ p # None
      BY <1>4, <3>1
    <3>3. PICK q : q = [p EXCEPT !.number = n]
      OBVIOUS
    <3>4. q \in Projects /\ q # None /\ q.number = n /\ q.managed = p.managed
      BY <3>2, <3>3, ProjectUpdates
    <3>5. Edited(t)[k] = q
      BY <2>2, <3>1, <3>2, <3>3
    <3> QED BY <3>1, <3>2, <3>4, <3>5
  <2>4. \A k \in Keys : k \notin OfNumber(x.number) => Edited(t)[k] = repo[k]
    BY <2>2
  <2>5. Edited(t) \in [Keys -> Projects]
    BY <1>4, <2>2, <2>3, <2>4
  <2> QED BY <1>1, <1>9, <2>1, <2>3, <2>4, <2>5 DEF Change
<1> QED BY <1>2, <1>5, <1>6, <1>7, <1>8, <1>9

LEMMA PullNext ==
  ASSUME TypeOK, NEW t \in Threads, Pull(t)
  PROVE  \/ Ends(t)
         \/ /\ Moves(t, "commit") /\ Keeps(t) /\ Req(t).kind = "rename"
            /\ Allowed(t) /\ Edited(t) = repo
         \/ /\ Moves(t, "push") /\ Keeps(t) /\ Allowed(t)
            /\ th'[t].base = repo /\ th'[t].result = Edited(t)
<1>1. Busy(t) /\ th[t].pc = "pull"
  BY DEF Pull, Busy
<1>2. PICK y \in ThreadRecord : y = th[t]
  BY <1>1, BusyThread
<1>3. \/ End(t)
      \/ Proceed(t, "commit") /\ Req(t).kind = "rename" /\ Allowed(t) /\ Edited(t) = repo
      \/ Goto(t, [y EXCEPT !.pc = "push", !.base = repo, !.result = Edited(t)]) /\ Allowed(t)
  BY <1>2 DEF Pull
<1>4. ASSUME Allowed(t), Goto(t, [y EXCEPT !.pc = "push", !.base = repo, !.result = Edited(t)])
      PROVE  /\ Moves(t, "push") /\ Keeps(t)
             /\ th'[t].base = repo /\ th'[t].result = Edited(t)
  <2>1. PICK e \in [Keys -> Projects] : e = Edited(t)
    BY <1>1, <1>4, EditedShape
  <2>2. PICK x : x = [y EXCEPT !.pc = "push", !.base = repo, !.result = e]
    OBVIOUS
  <2>3. repo \in [Keys -> Projects]
    BY DEF TypeOK
  <2>4. /\ x \in ThreadRecord /\ x.pc = "push" /\ x.req = y.req /\ x.id = y.id
        /\ x.number = y.number /\ x.key = y.key /\ x.base = repo /\ x.result = e
    BY <2>2, <2>3 DEF ThreadRecord
  <2>5. Goto(t, x)
    BY <1>4, <2>1, <2>2
  <2> QED BY <1>2, <2>1, <2>4, <2>5, GotoTyped DEF Moves, Keeps
<1> QED BY <1>1, <1>3, <1>4, EndEnds, ProceedMoves DEF Pcs

LEMMA ManifestNext ==
  ASSUME TypeOK, NEW t \in Threads, Manifest(t)
  PROVE  LET s == Req(t).base
         IN \/ Ends(t) /\ manifest[s] \notin {None, Document(t)} /\ UNCHANGED manifest
            \/ /\ Moves(t, "commit") /\ Keeps(t) /\ manifest[s] \in {None, Document(t)}
               /\ manifest' = [manifest EXCEPT ![s] = Document(t)]
<1>1. Busy(t)
  BY DEF Manifest, At, Busy
<1> QED BY <1>1, EndEnds, ProceedMoves DEF Manifest, Pcs

LEMMA PushNext ==
  ASSUME TypeOK, NEW t \in Threads, Push(t)
  PROVE  \/ Ends(t) /\ Req(t).kind \notin {"cluster", "rename"}
         \/ Moves(t, "manifest") /\ Keeps(t) /\ Req(t).kind = "cluster"
         \/ Moves(t, "commit") /\ Keeps(t) /\ Req(t).kind = "rename"
<1>1. Busy(t) /\ Goto(t, After(t))
  BY DEF Push, Busy
<1>2. PICK y \in ThreadRecord : y = th[t]
  BY <1>1, BusyThread
<1>3. ASSUME NEW pc \in Pcs, NEW x, x = [y EXCEPT !.pc = pc, !.base = << >>, !.result = << >>]
      PROVE  /\ x \in ThreadRecord /\ x.pc = pc /\ x.req = y.req /\ x.id = y.id
             /\ x.number = y.number /\ x.key = y.key
  BY <1>3 DEF ThreadRecord, Pcs
<1>4. CASE Req(t).kind = "cluster"
  <2>1. PICK x : x = [y EXCEPT !.pc = "manifest", !.base = << >>, !.result = << >>]
    OBVIOUS
  <2>2. After(t) = x
    BY <1>2, <1>4, <2>1 DEF After
  <2>3. /\ x \in ThreadRecord /\ x.pc = "manifest" /\ x.req = y.req /\ x.id = y.id
        /\ x.number = y.number /\ x.key = y.key
    BY <1>3, <2>1 DEF Pcs
  <2> QED BY <1>1, <1>2, <1>4, <2>2, <2>3, GotoTyped DEF Moves, Keeps
<1>5. CASE Req(t).kind = "rename"
  <2>1. PICK x : x = [y EXCEPT !.pc = "commit", !.base = << >>, !.result = << >>]
    OBVIOUS
  <2>2. After(t) = x
    BY <1>2, <1>5, <2>1 DEF After
  <2>3. /\ x \in ThreadRecord /\ x.pc = "commit" /\ x.req = y.req /\ x.id = y.id
        /\ x.number = y.number /\ x.key = y.key
    BY <1>3, <2>1 DEF Pcs
  <2> QED BY <1>1, <1>2, <1>5, <2>2, <2>3, GotoTyped DEF Moves, Keeps
<1>6. CASE Req(t).kind \notin {"cluster", "rename"}
  <2>1. After(t) = Idle
    BY <1>6 DEF After
  <2> QED BY <1>1, <1>6, <2>1, GotoTyped DEF Ends
<1> QED BY <1>4, <1>5, <1>6

LEMMA OthersEnd ==
  ASSUME TypeOK, NEW t \in Threads,
         \/ CommitCluster(t) \/ PushFails(t) \/ CommitRename(t) \/ CommitDrop(t)
         \/ CommitDomain(t) \/ CreateContract(t) \/ MoveContract(t) \/ Resize(t) \/ Fail(t)
  PROVE  Ends(t)
BY EndEnds DEF CommitCluster, PushFails, CommitRename, CommitDrop, CommitDomain, CreateContract,
               MoveContract, Resize, Fail

\* A resize changes the size of one row, and nothing else.
LEMMA ResizeNext ==
  ASSUME TypeOK, NEW t \in Threads, Resize(t)
  PROVE  /\ Busy(t) /\ th[t].pc = "begin"
         /\ row' \in [Slugs -> {None} \cup Rows]
         /\ \A s \in Slugs :
              IF row[s] = None THEN row'[s] = None
              ELSE /\ row'[s] # None /\ row'[s].contract = row[s].contract
                   /\ row'[s].initial = row[s].initial /\ row'[s].project = row[s].project
         /\ UNCHANGED <<contract, domain, repo, manifest, todo, asked, failures, crossed, torn>>
<1>1. /\ Busy(t) /\ th[t].pc = "begin" /\ Req(t).kind = "resize"
      /\ UNCHANGED <<contract, domain, repo, manifest, todo, asked, failures, crossed, torn>>
  BY DEF Resize, At, Busy, gits, history
<1>2. PICK r \in Requests : r = Req(t)
  BY <1>1, KnownOf
<1>3. PICK s0 \in Slugs : s0 = r.base /\ r.groups \in Nat
  BY <1>1, <1>2, RequestTyped
<1>4. row \in [Slugs -> {None} \cup Rows]
  BY DEF TypeOK
<1>5. CASE row' = row
  BY <1>1, <1>4, <1>5
<1>6. CASE row' # row
  <2>1. row[s0] # None /\ row' = [row EXCEPT ![s0].groups = r.groups]
    BY <1>2, <1>3, <1>6 DEF Resize
  <2>2. PICK p \in Rows : p = row[s0]
    BY <1>4, <2>1
  <2>3. PICK q : q = [p EXCEPT !.groups = r.groups]
    OBVIOUS
  <2>4. /\ q \in Rows /\ q.contract = p.contract /\ q.initial = p.initial
        /\ q.project = p.project
    BY <1>3, <2>3 DEF Rows
  <2>5. q # None
    BY <2>4 DEF Rows, None
  <2>6. row' = [row EXCEPT ![s0] = q]
    BY <1>4, <2>1, <2>2, <2>3
  <2> QED BY <1>1, <1>4, <2>1, <2>2, <2>4, <2>5, <2>6
<1> QED BY <1>5, <1>6

-----------------------------------------------------------------------------
(* Types. *)

ThreadsOK ==
  /\ th \in [Threads -> ThreadRecord \cup {Idle}]
  /\ \A t \in Threads : Busy(t) => Req(t) \in asked /\ ThreadOK(th[t])

LEMMA PlaceFor ==
  ASSUME NEW kind
  PROVE  /\ kind = "cluster" =>
              {"lock", "lookup", "adopt", "pull", "push", "manifest", "commit"} \subseteq Places[kind]
         /\ kind \in {"create", "move"} => {"pull", "push"} \subseteq Places[kind]
         /\ kind \in {"update", "delete"} => {"check", "pull", "push"} \subseteq Places[kind]
         /\ kind = "rename" => {"flush", "pull", "push", "commit"} \subseteq Places[kind]
         /\ kind \in {"drop", "domain"} => "commit" \in Places[kind]
         /\ kind \in {"cluster", "resize", "create", "update", "delete", "move", "rename", "drop",
                      "give", "domain", "contract"} => "begin" \in Places[kind]
<1>1. CASE kind = "cluster"
  BY <1>1 DEF Places
<1>2. CASE kind \in {"create", "move"}
  BY <1>2 DEF Places
<1>3. CASE kind \in {"update", "delete"}
  BY <1>3 DEF Places
<1>4. CASE kind = "rename"
  BY <1>4 DEF Places
<1>5. CASE kind \in {"resize", "drop", "domain", "give", "contract"}
  BY <1>5 DEF Places
<1> QED BY <1>1, <1>2, <1>3, <1>4, <1>5

LEMMA ThreadsStep ==
  ASSUME TypeOK, NEW t \in Threads, Busy(t), UNCHANGED asked,
         \/ Ends(t)
         \/ \E pc \in Pcs : Moves(t, pc) /\ ThreadOK(th'[t])
  PROVE  ThreadsOK'
<1>1. Req(t) \in asked /\ Req(t) = th[t].req
  BY KnownOf DEF Req
<1>2. th' \in [Threads -> ThreadRecord \cup {Idle}] /\ Others(t)
  BY DEF Ends, Moves
<1>3. ASSUME NEW u \in Threads, th'[u].pc # "idle"
      PROVE  th'[u].req \in asked' /\ ThreadOK(th'[u])
  <2>1. CASE u = t
    BY <1>1, <1>3, <2>1 DEF Ends, Moves, Idle
  <2>2. CASE u # t
    BY <1>2, <1>3, <2>2 DEF Others, TypeOK, Busy, Req
  <2> QED BY <2>1, <2>2
<1> QED BY <1>2, <1>3 DEF ThreadsOK, Busy, Req

\* A thread that moves on with what it has found out.
LEMMA MovedOK ==
  ASSUME TypeOK, NEW t \in Threads, Busy(t), NEW pc, Moves(t, pc), Keeps(t),
         th[t].pc # "begin", pc # "push", pc \in Places[Req(t).kind]
  PROVE  ThreadOK(th'[t])
<1>1. ThreadOK(th[t]) /\ Req(t) = th[t].req
  BY KnownOf
<1> QED BY <1>1 DEF ThreadOK, Moves, Keeps

LEMMA StepThreads ==
  ASSUME TypeOK, NEW t \in Threads, Step(t) \/ Fail(t)
  PROVE  ThreadsOK'
<1>1. Busy(t) /\ UNCHANGED asked
  BY DEF Step, Fail, Access, CheckProject, CheckMove, Lock, LookUp, Adopt, Manifest, CommitCluster,
         Pull, Push, PushFails, CheckRename, Flush, CommitRename, CheckDrop, CommitDrop, CheckDomain,
         CommitDomain, CreateContract, MoveContract, Resize, At, Busy, Reads, history
<1>2. PICK r \in Requests : r = Req(t) /\ r = th[t].req /\ ThreadOK(th[t])
  BY <1>1, KnownOf
<1>3. CASE Access(t)
  <2>1. r.kind \in {"cluster", "create", "update", "delete"}
    BY <1>2, <1>3 DEF Access, At
  <2>2. PICK pc \in Pcs : pc = (CASE r.kind = "cluster" -> "lock"
                                  [] r.kind = "create" -> "pull"
                                  [] OTHER -> "check")
    BY DEF Pcs
  <2>3. ASSUME Moves(t, pc), th'[t].id \in Contracts, th'[t].number = r.number,
               th'[t].key \in Keys
        PROVE  ThreadOK(th'[t])
    <3>1. r.number \in Numbers /\ pc \in Places[r.kind] /\ pc # "push"
      BY <2>1, <2>2, RequestTyped, PlaceFor
    <3> QED BY <1>2, <2>1, <2>3, <3>1 DEF ThreadOK, Moves
  <2>4. Ends(t) \/ (Moves(t, pc) /\ ThreadOK(th'[t]))
    BY <1>2, <1>3, <2>2, <2>3, AccessNext
  <2> QED BY <1>1, <2>4, ThreadsStep
<1>4. CASE CheckMove(t)
  <2>1. r.kind = "move"
    BY <1>2, <1>4 DEF CheckMove, At
  <2>2. ASSUME Moves(t, "pull"), WithNumber(th'[t].number) # {}, th'[t].key \in Keys
        PROVE  ThreadOK(th'[t])
    <3>1. th'[t].number \in Numbers
      BY <2>2 DEF WithNumber, Exists, TypeOK, ContractRows
    <3> QED BY <1>2, <2>1, <2>2, <3>1, PlaceFor DEF ThreadOK, Moves
  <2> QED BY <1>1, <1>4, <2>2, CheckMoveNext, ThreadsStep DEF Pcs
<1>5. CASE CheckRename(t)
  <2>1. r.kind = "rename"
    BY <1>2, <1>5 DEF CheckRename, At
  <2>2. ASSUME Moves(t, "flush"), th'[t].id \in Contracts, Exists(th'[t].id),
               th'[t].number = contract[th'[t].id].number
        PROVE  ThreadOK(th'[t])
    <3>1. th'[t].number \in Numbers
      BY <2>2 DEF Exists, TypeOK, ContractRows
    <3> QED BY <1>2, <2>1, <2>2, <3>1, PlaceFor DEF ThreadOK, Moves
  <2> QED BY <1>1, <1>5, <2>2, CheckRenameNext, ThreadsStep DEF Pcs
<1>6. CASE CheckDrop(t)
  <2>1. r.kind = "drop"
    BY <1>2, <1>6 DEF CheckDrop, At
  <2>2. ASSUME Moves(t, "commit"), th'[t].id \in Contracts
        PROVE  ThreadOK(th'[t])
    BY <1>2, <2>1, <2>2, PlaceFor DEF ThreadOK, Moves
  <2> QED BY <1>1, <1>6, <2>2, CheckDropNext, ThreadsStep DEF Pcs
<1>7. CASE CheckDomain(t)
  <2>1. r.kind = "domain"
    BY <1>2, <1>7 DEF CheckDomain, At
  <2>2. ASSUME Moves(t, "commit") PROVE ThreadOK(th'[t])
    BY <1>2, <2>1, <2>2, PlaceFor DEF ThreadOK, Moves
  <2> QED BY <1>1, <1>7, <2>2, CheckDomainNext, ThreadsStep DEF Pcs
<1>8. CASE CheckProject(t) \/ Lock(t) \/ LookUp(t) \/ Adopt(t) \/ Flush(t) \/ Manifest(t)
  <2>1. PICK pc \in Pcs : /\ Ends(t) \/ (Moves(t, pc) /\ Keeps(t))
                          /\ pc \in Places[r.kind] /\ pc # "push" /\ th[t].pc # "begin"
    <3>1. CASE CheckProject(t)
      <4>1. th[t].pc = "check" /\ "pull" \in Places[r.kind]
        BY <1>2, <3>1, PlaceFor DEF CheckProject, At
      <4> QED BY <3>1, <4>1, CheckProjectNext DEF Pcs
    <3>2. CASE Lock(t)
      <4>1. th[t].pc = "lock" /\ "lookup" \in Places[r.kind]
        BY <1>2, <3>2, PlaceFor DEF Lock, At
      <4> QED BY <3>2, <4>1, LockNext DEF Pcs
    <3>3. CASE LookUp(t)
      <4>1. th[t].pc = "lookup" /\ "pull" \in Places[r.kind] /\ "adopt" \in Places[r.kind]
        BY <1>2, <3>3, PlaceFor DEF LookUp, At
      <4> QED BY <3>3, <4>1, LookUpNext DEF Pcs
    <3>4. CASE Adopt(t)
      <4>1. th[t].pc = "adopt" /\ "manifest" \in Places[r.kind]
        BY <1>2, <3>4, PlaceFor DEF Adopt, At
      <4> QED BY <3>4, <4>1, AdoptNext DEF Pcs
    <3>5. CASE Flush(t)
      <4>1. th[t].pc = "flush" /\ "pull" \in Places[r.kind]
        BY <1>2, <3>5, PlaceFor DEF Flush, At
      <4> QED BY <3>5, <4>1, FlushNext DEF Pcs
    <3>6. CASE Manifest(t)
      <4>1. th[t].pc = "manifest" /\ "commit" \in Places[r.kind]
        BY <1>2, <3>6, PlaceFor DEF Manifest, At
      <4> QED BY <3>6, <4>1, ManifestNext DEF Pcs
    <3> QED BY <1>8, <3>1, <3>2, <3>3, <3>4, <3>5, <3>6
  <2>2. Ends(t) \/ (Moves(t, pc) /\ ThreadOK(th'[t]))
    BY <1>1, <1>2, <2>1, MovedOK
  <2> QED BY <1>1, <2>2, ThreadsStep
<1>9. CASE Pull(t)
  <2>1. th[t].pc = "pull"
    BY <1>9 DEF Pull
  <2>2. r.kind \in {"cluster", "create", "move", "update", "delete", "rename"}
    BY <1>2, <2>1, KindAt DEF ThreadOK
  <2>3. ASSUME Moves(t, "commit"), Keeps(t), r.kind = "rename" PROVE ThreadOK(th'[t])
    BY <1>1, <1>2, <2>1, <2>3, MovedOK, PlaceFor
  <2>4. ASSUME Moves(t, "push"), Keeps(t), Allowed(t), th'[t].base = repo, th'[t].result = Edited(t)
        PROVE  ThreadOK(th'[t])
    <3>1. repo \in [Keys -> Projects] /\ Edited(t) \in [Keys -> Projects]
      BY <1>1, <2>1, <2>4, EditedShape DEF TypeOK
    <3>2. "push" \in Places[r.kind]
      BY <2>2, PlaceFor
    <3> QED BY <1>2, <2>1, <2>4, <3>1, <3>2 DEF ThreadOK, Moves, Keeps
  <2> QED BY <1>1, <1>2, <1>9, <2>3, <2>4, PullNext, ThreadsStep DEF Pcs
<1>10. CASE Push(t)
  <2>1. th[t].pc = "push"
    BY <1>10 DEF Push
  <2>2. ASSUME Moves(t, "manifest"), Keeps(t), r.kind = "cluster" PROVE ThreadOK(th'[t])
    BY <1>1, <1>2, <2>1, <2>2, MovedOK, PlaceFor
  <2>3. ASSUME Moves(t, "commit"), Keeps(t), r.kind = "rename" PROVE ThreadOK(th'[t])
    BY <1>1, <1>2, <2>1, <2>3, MovedOK, PlaceFor
  <2> QED BY <1>1, <1>2, <1>10, <2>2, <2>3, PushNext, ThreadsStep DEF Pcs
<1>11. CASE \/ CommitCluster(t) \/ PushFails(t) \/ CommitRename(t) \/ CommitDrop(t)
            \/ CommitDomain(t) \/ CreateContract(t) \/ MoveContract(t) \/ Resize(t) \/ Fail(t)
  BY <1>1, <1>11, OthersEnd, ThreadsStep
<1> QED BY <1>3, <1>4, <1>5, <1>6, <1>7, <1>8, <1>9, <1>10, <1>11 DEF Step

LEMMA BeginThreads ==
  ASSUME TypeOK, NEW t \in Threads, NEW r \in todo, Begin(t, r)
  PROVE  ThreadsOK'
<1>1. PICK x : x = Begun(r)
  OBVIOUS
<1>2. r \in Requests /\ r \in asked /\ UNCHANGED asked
  BY DEF TypeOK, Begin
<1>3. x \in ThreadRecord /\ x.pc = "begin" /\ x.req = r
  BY <1>1, <1>2 DEF Begun, ThreadRecord
<1>4. ThreadOK(x)
  BY <1>2, <1>3, RequestTyped, PlaceFor DEF ThreadOK
<1>5. Goto(t, x)
  BY <1>1 DEF Begin, Goto
<1>6. th' \in [Threads -> ThreadRecord \cup {Idle}] /\ th'[t] = x /\ Others(t)
  BY <1>3, <1>5, GotoTyped
<1>7. ASSUME NEW u \in Threads, th'[u].pc # "idle"
      PROVE  th'[u].req \in asked' /\ ThreadOK(th'[u])
  BY <1>2, <1>3, <1>4, <1>6, <1>7 DEF Others, TypeOK, Busy, Req
<1> QED BY <1>6, <1>7 DEF ThreadsOK, Busy, Req

\* A contract of the table tab has the number.
Known(tab, n) == \E c \in Contracts : tab[c] # None /\ tab[c].number = n

LEMMA WithNumberKnown ==
  ASSUME NEW n
  PROVE  WithNumber(n) # {} <=> Known(contract, n)
BY DEF WithNumber, Known, Exists

\* What the renamings that are under way rely on: their new number is free and their
\* contract is there, and no two of them take one number or change one contract.
Renames(t) == Busy(t) /\ Req(t).kind = "rename" /\ th[t].pc \in {"pull", "push", "commit"}
FlushInv ==
  \A t \in Threads :
    Renames(t) =>
      /\ ~Known(contract, th[t].req.number) /\ contract[th[t].id] # None
      /\ \A u \in Threads \ {t} :
           Renames(u) => th[u].req.number # th[t].req.number /\ th[u].id # th[t].id

TInv == TypeOK /\ FlushInv

LEMMA RenamesFlushed ==
  ASSUME TypeOK, NEW t \in Threads, NEW u \in Threads, u # t
  PROVE  u \in Flushed(t) <=> Renames(u)
BY DEF Flushed, Renames

LEMMA RenamesTyped ==
  ASSUME TypeOK, NEW t \in Threads, Renames(t)
  PROVE  th[t].id \in Contracts /\ th[t].req.number \in Numbers
<1>1. PICK r \in Requests : r = Req(t) /\ r = th[t].req /\ ThreadOK(th[t])
  BY KnownOf DEF Renames
<1> QED BY <1>1, RequestTyped DEF Renames, ThreadOK

\* What is left to prove of a step of t, which leaves alone what the others hold.
LEMMA FlushStep ==
  ASSUME TInv, NEW t \in Threads, Others(t),
         \A u \in Threads \ {t} :
           Renames(u) => ~Known(contract', th[u].req.number) /\ contract'[th[u].id] # None,
         Renames(t)' =>
           /\ ~Known(contract', th'[t].req.number) /\ contract'[th'[t].id] # None
           /\ \A u \in Threads \ {t} :
                Renames(u) => th[u].req.number # th'[t].req.number /\ th[u].id # th'[t].id
  PROVE  FlushInv'
<1>1. \A u \in Threads \ {t} : th'[u] = th[u] /\ (Renames(u)' <=> Renames(u))
  BY DEF Renames, Others, Busy, Req
<1>2. ASSUME NEW u \in Threads, Renames(u)'
      PROVE  /\ ~Known(contract', th'[u].req.number) /\ contract'[th'[u].id] # None
             /\ \A v \in Threads \ {u} :
                  Renames(v)' => /\ th'[v].req.number # th'[u].req.number
                                 /\ th'[v].id # th'[u].id
  <2>1. CASE u = t
    BY <1>1, <1>2, <2>1
  <2>2. CASE u # t
    <3>1. Renames(u) /\ th'[u] = th[u]
      BY <1>1, <1>2, <2>2
    <3>2. ASSUME NEW v \in Threads \ {u}, Renames(v)'
          PROVE  th'[v].req.number # th'[u].req.number /\ th'[v].id # th'[u].id
      <4>1. CASE v = t
        BY <2>2, <3>1, <3>2, <4>1
      <4>2. CASE v # t
        BY <1>1, <3>1, <3>2, <4>2 DEF TInv, FlushInv
      <4> QED BY <4>1, <4>2
    <3> QED BY <2>2, <3>1, <3>2
  <2> QED BY <2>1, <2>2
<1> QED BY <1>2 DEF FlushInv

\* One that leaves the contracts alone; a renaming that comes to hold its number has
\* found it free.
LEMMA FlushQuiet ==
  ASSUME TInv, NEW t \in Threads, Others(t), UNCHANGED contract,
         Renames(t)' =>
           /\ th'[t].req = th[t].req /\ th'[t].id = th[t].id
           /\ \/ Renames(t)
              \/ /\ WithNumber(Req(t).number) = {} /\ Exists(th[t].id)
                 /\ \A u \in Flushed(t) : th[u].id # th[t].id /\ Req(u).number # Req(t).number
  PROVE  FlushInv'
<1>1. \A u \in Threads \ {t} :
        Renames(u) => ~Known(contract, th[u].req.number) /\ contract[th[u].id] # None
  BY DEF TInv, FlushInv
<1>2. Renames(t)' =>
        /\ ~Known(contract, th[t].req.number) /\ contract[th[t].id] # None
        /\ \A u \in Threads \ {t} :
             Renames(u) => th[u].req.number # th[t].req.number /\ th[u].id # th[t].id
  BY RenamesFlushed, WithNumberKnown DEF TInv, FlushInv, Exists, Req
<1> QED BY <1>1, <1>2, FlushStep

Unique(tab) ==
  \A c, d \in Contracts :
    tab[c] # None /\ tab[d] # None /\ tab[c].number = tab[d].number => c = d

\* The steps that change contracts.
LEMMA ContractsStep ==
  ASSUME TInv, NEW t \in Threads,
         CommitRename(t) \/ CommitDrop(t) \/ CreateContract(t) \/ MoveContract(t)
  PROVE  /\ contract' \in [Contracts -> ContractRows] /\ Unique(contract')
         /\ \A u \in Threads \ {t} :
              Renames(u) => ~Known(contract', th[u].req.number) /\ contract'[th[u].id] # None
<1>1. contract \in [Contracts -> ContractRows] /\ Unique(contract) /\ None \in ContractRows
  BY DEF TInv, TypeOK, Unique, Exists, ContractRows
<1>2. ASSUME NEW u \in Threads \ {t}, Renames(u)
      PROVE  ~Known(contract, th[u].req.number) /\ contract[th[u].id] # None
             /\ th[u].id \in Contracts /\ Req(u) = th[u].req
  BY <1>2, RenamesTyped DEF TInv, FlushInv, Req
<1>3. \A u \in Threads \ {t} : u \in Flushed(t) <=> Renames(u)
  BY RenamesFlushed DEF TInv
<1>4. Busy(t)
  BY DEF CommitRename, CommitDrop, CreateContract, MoveContract, At, Busy
<1>5. PICK r \in Requests : r = Req(t) /\ r = th[t].req /\ ThreadOK(th[t])
  BY <1>4, KnownOf DEF TInv
<1>6. \A q \in [number : Numbers, customer : Customers] : q # None /\ q \in ContractRows
  BY NamesAssumption DEF None, ContractRows
<1>7. CASE CommitRename(t)
  <2>1. PICK n \in Numbers : n = r.number
    BY <1>5, <1>7, RequestTyped DEF CommitRename, At
  <2>2. Renames(t)
    BY <1>4, <1>7 DEF CommitRename, At, Renames
  <2>3. PICK c \in Contracts : c = th[t].id /\ contract[c] # None
    BY <2>2, RenamesTyped DEF TInv, FlushInv
  <2>4. PICK p \in [number : Numbers, customer : Customers] : p = contract[c]
    BY <1>1, <2>3 DEF ContractRows
  <2>5. PICK q : q = [p EXCEPT !.number = n]
    OBVIOUS
  <2>6. q \in [number : Numbers, customer : Customers] /\ q.number = n
    BY <2>5
  <2>7. contract' = [contract EXCEPT ![c] = q]
    BY <1>1, <1>5, <1>7, <2>1, <2>3, <2>4, <2>5 DEF CommitRename
  <2>8. q # None /\ q \in ContractRows
    BY <1>6, <2>6
  <2>9. contract' \in [Contracts -> ContractRows]
    BY <1>1, <2>7, <2>8
  <2>10. ~Known(contract, n)
    BY <1>5, <2>1, <2>2 DEF TInv, FlushInv
  <2>11. Unique(contract')
    BY <1>1, <2>6, <2>7, <2>8, <2>10 DEF Unique, Known
  <2>12. ASSUME NEW u \in Threads \ {t}, Renames(u)
         PROVE  ~Known(contract', th[u].req.number) /\ contract'[th[u].id] # None
    <3>1. th[u].req.number # n
      BY <1>5, <2>1, <2>2, <2>12 DEF TInv, FlushInv
    <3> QED BY <1>1, <1>2, <2>6, <2>7, <2>8, <2>12, <3>1 DEF Known
  <2> QED BY <2>9, <2>11, <2>12
<1>8. CASE CommitDrop(t)
  <2>1. contract' \in {contract, [contract EXCEPT ![th[t].id] = None]}
    BY <1>8 DEF CommitDrop
  <2>2. \A u \in Threads \ {t} : Renames(u) => th[u].id # th[t].id
    BY <1>3, <1>8 DEF CommitDrop
  <2>3. ASSUME NEW tab, tab = [contract EXCEPT ![th[t].id] = None]
        PROVE  /\ tab \in [Contracts -> ContractRows] /\ Unique(tab)
               /\ \A u \in Threads \ {t} :
                    Renames(u) => ~Known(tab, th[u].req.number) /\ tab[th[u].id] # None
    <3>1. tab \in [Contracts -> ContractRows] /\ \A c \in Contracts : tab[c] \in {contract[c], None}
      BY <1>1, <2>3
    <3>2. \A c \in Contracts : c # th[t].id => tab[c] = contract[c]
      BY <1>1, <2>3
    <3>3. Unique(tab)
      BY <1>1, <3>1 DEF Unique
    <3> QED BY <1>2, <2>2, <3>1, <3>2, <3>3 DEF Known
  <2> QED BY <1>1, <1>2, <2>1, <2>3
<1>9. CASE CreateContract(t)
  <2>1. r.contract \in Contracts /\ r.number \in Numbers /\ r.customer \in Customers
    BY <1>5, <1>9, RequestTyped DEF CreateContract, At
  <2>2. PICK q : q = [number |-> r.number, customer |-> r.customer]
    OBVIOUS
  <2>3. q \in [number : Numbers, customer : Customers] /\ q.number = r.number
    BY <2>1, <2>2
  <2>4. \/ UNCHANGED contract
        \/ /\ contract' = [contract EXCEPT ![r.contract] = q]
           /\ ~Known(contract, r.number)
    BY <1>5, <1>9, <2>2, WithNumberKnown DEF CreateContract
  <2>5. \A u \in Threads \ {t} : Renames(u) => th[u].req.number # r.number
    BY <1>2, <1>3, <1>5, <1>9 DEF CreateContract
  <2>6. CASE UNCHANGED contract
    BY <1>1, <1>2, <2>6
  <2>7. CASE contract' = [contract EXCEPT ![r.contract] = q] /\ ~Known(contract, r.number)
    <3>1. q # None /\ q \in ContractRows
      BY <1>6, <2>3
    <3>2. contract' \in [Contracts -> ContractRows]
      BY <1>1, <2>7, <3>1
    <3>3. Unique(contract')
      BY <1>1, <2>1, <2>3, <2>7, <3>1 DEF Unique, Known
    <3> QED BY <1>1, <1>2, <2>1, <2>3, <2>5, <2>7, <3>1, <3>2, <3>3 DEF Known
  <2> QED BY <2>4, <2>6, <2>7
<1>10. CASE MoveContract(t)
  <2>1. r.contract \in Contracts /\ r.customer \in Customers
    BY <1>5, <1>10, RequestTyped DEF MoveContract, At
  <2>2. CASE contract[r.contract] = None
    <3>1. UNCHANGED contract
      BY <1>5, <1>10, <2>2 DEF MoveContract, Exists
    <3> QED BY <1>1, <1>2, <3>1
  <2>3. CASE contract[r.contract] # None
    <3>1. PICK p \in [number : Numbers, customer : Customers] : p = contract[r.contract]
      BY <1>1, <2>1, <2>3 DEF ContractRows
    <3>2. PICK q : q = [p EXCEPT !.customer = r.customer]
      OBVIOUS
    <3>3. q \in [number : Numbers, customer : Customers] /\ q.number = p.number
      BY <2>1, <3>2
    <3>4. q # None /\ q \in ContractRows
      BY <1>6, <3>3
    <3>5. contract' = [contract EXCEPT ![r.contract] = q]
      BY <1>1, <1>5, <1>10, <2>1, <2>3, <3>1, <3>2 DEF MoveContract, Exists
    <3>6. /\ contract' \in [Contracts -> ContractRows]
          /\ \A c \in Contracts : /\ contract'[c] # None <=> contract[c] # None
                                  /\ contract'[c].number = contract[c].number
      BY <1>1, <2>1, <2>3, <3>1, <3>3, <3>4, <3>5
    <3>7. Unique(contract')
      BY <1>1, <3>6 DEF Unique
    <3> QED BY <1>2, <3>6, <3>7 DEF Known
  <2> QED BY <2>2, <2>3
<1> QED BY <1>7, <1>8, <1>9, <1>10

TablesOK ==
  /\ contract \in [Contracts -> ContractRows] /\ Unique(contract)
  /\ domain \in [Customers -> Domains]
  /\ row \in [Slugs -> {None} \cup Rows] /\ manifest \in [Slugs -> {None} \cup Manifests]
  /\ repo \in [Keys -> Projects]
  /\ todo \subseteq asked /\ asked \subseteq Requests
  /\ failures \in Nat /\ crossed \in BOOLEAN /\ torn \in BOOLEAN

LEMMA Halves == TypeOK <=> TablesOK /\ ThreadsOK
BY DEF TypeOK, TablesOK, ThreadsOK, Unique, Exists

LEMMA HalvesNext == TablesOK' /\ ThreadsOK' => TypeOK'
BY DEF TypeOK, TablesOK, ThreadsOK, Unique, Exists

LEMMA PushTyped ==
  ASSUME TypeOK, NEW t \in Threads, Push(t)
  PROVE  /\ repo' \in [Keys -> Projects] /\ th[t].pc = "push"
         /\ \A k \in Keys : repo'[k] = IF Mine(t, k) THEN th[t].result[k] ELSE repo[k]
<1>1. Busy(t) /\ th[t].pc = "push"
  BY DEF Push, Busy
<1>2. th[t].result \in [Keys -> Projects] /\ repo \in [Keys -> Projects]
  BY <1>1 DEF TypeOK, ThreadOK
<1>3. repo' = [k \in Keys |-> IF Mine(t, k) THEN th[t].result[k] ELSE repo[k]]
  BY DEF Push
<1> QED BY <1>1, <1>2, <1>3

LEMMA StepTables ==
  ASSUME TInv, NEW t \in Threads, Step(t)
  PROVE  TablesOK'
<1>1. TablesOK
  BY Halves DEF TInv
<1>2. CASE CommitRename(t) \/ CommitDrop(t) \/ CreateContract(t) \/ MoveContract(t)
  <2>1. UNCHANGED <<domain, row, manifest, repo, todo, asked, failures, crossed, torn>>
    BY <1>2 DEF CommitRename, CommitDrop, CreateContract, MoveContract, gits, history
  <2> QED BY <1>1, <1>2, <2>1, ContractsStep DEF TablesOK
<1>3. CASE Push(t)
  <2>1. UNCHANGED <<contract, domain, row, manifest, todo, asked, failures, crossed, torn>>
    BY <1>3 DEF Push, rows, history
  <2> QED BY <1>1, <1>3, <2>1, PushTyped DEF TablesOK, TInv
<1>4. CASE Manifest(t) \/ CommitCluster(t)
  <2>1. Busy(t) /\ th[t].pc # "begin" /\ Req(t).kind = "cluster"
    BY <1>4 DEF Manifest, CommitCluster, At, Busy
  <2>2. PICK r \in Requests : r = Req(t) /\ r = th[t].req /\ ThreadOK(th[t])
    BY <2>1, KnownOf DEF TInv
  <2>3. /\ r.base \in Slugs /\ r.groups \in Nat
        /\ th[t].id \in Contracts /\ th[t].number \in Numbers /\ th[t].key \in Keys
    BY <2>1, <2>2, RequestTyped DEF ThreadOK
  <2>4. Document(t) \in Manifests
    BY <2>2, <2>3 DEF Document, Manifests
  <2>5. CASE Manifest(t)
    <3>1. UNCHANGED manifest \/ manifest' = [manifest EXCEPT ![r.base] = Document(t)]
      BY <2>2, <2>5 DEF Manifest
    <3>2. UNCHANGED <<contract, domain, row, repo, todo, asked, failures, crossed, torn>>
      BY <2>5 DEF Manifest, rows, history
    <3> QED BY <1>1, <2>4, <3>1, <3>2 DEF TablesOK
  <2>6. CASE CommitCluster(t)
    <3>1. PICK q \in Rows : q = [number |-> "row", contract |-> th[t].id, groups |-> r.groups,
                                 initial |-> r.groups, project |-> th[t].key]
      BY <2>3 DEF Rows
    <3>2. UNCHANGED row \/ row' = [row EXCEPT ![r.base] = q]
      BY <2>2, <2>6, <3>1 DEF CommitCluster
    <3>3. UNCHANGED <<contract, domain, manifest, repo, todo, asked, failures, crossed, torn>>
      BY <2>6 DEF CommitCluster, gits, history
    <3> QED BY <1>1, <3>2, <3>3 DEF TablesOK
  <2> QED BY <1>4, <2>5, <2>6
<1>5. CASE CommitDomain(t)
  <2>1. Busy(t) /\ Req(t).kind = "domain"
    BY <1>5 DEF CommitDomain, At, Busy
  <2>2. PICK r \in Requests : r = Req(t)
    BY <2>1, KnownOf DEF TInv
  <2>3. r.customer \in Customers /\ r.domain \in Domains
    BY <2>1, <2>2, RequestTyped
  <2>4. domain' = [domain EXCEPT ![r.customer] = r.domain]
        /\ UNCHANGED <<contract, row, manifest, repo, todo, asked, failures, crossed, torn>>
    BY <1>5, <2>2 DEF CommitDomain, gits, history
  <2> QED BY <1>1, <2>3, <2>4 DEF TablesOK
<1>6. CASE PushFails(t)
  <2>1. Busy(t)
    BY <1>6 DEF PushFails, Busy
  <2>2. /\ todo' = todo \cup {Req(t)} /\ Req(t) \in asked
        /\ UNCHANGED <<contract, domain, row, manifest, repo, asked, failures, crossed, torn>>
    BY <1>6, <2>1 DEF PushFails, rows, gits, history, TInv, TypeOK
  <2> QED BY <1>1, <2>2 DEF TablesOK
<1>7. CASE Reads
  BY <1>1, <1>7 DEF TablesOK, Reads, rows, gits, history
<1>8. CASE Resize(t)
  BY <1>1, <1>8, ResizeNext DEF TablesOK, TInv
<1> QED
  BY <1>2, <1>3, <1>4, <1>5, <1>6, <1>7, <1>8
  DEF Step, Access, CheckProject, CheckMove, Lock, LookUp, Adopt, Pull, CheckRename, Flush,
      CheckDrop, CheckDomain

LEMMA ReadsFlush ==
  ASSUME TInv, NEW t \in Threads,
         \/ Access(t) \/ CheckProject(t) \/ CheckMove(t) \/ Lock(t) \/ LookUp(t) \/ Adopt(t)
         \/ CheckRename(t) \/ Flush(t) \/ CheckDrop(t) \/ CheckDomain(t) \/ Pull(t) \/ Manifest(t)
         \/ Push(t)
  PROVE  FlushInv'
<1>1. UNCHANGED contract
  BY DEF Access, CheckProject, CheckMove, Lock, LookUp, Adopt, CheckRename, Flush, CheckDrop,
         CheckDomain, Pull, Manifest, Push, Reads, rows
<1>2. TypeOK
  BY DEF TInv
<1>3. Busy(t)
  BY DEF Access, CheckProject, CheckMove, Lock, LookUp, Adopt, CheckRename, Flush, CheckDrop,
         CheckDomain, Pull, Manifest, Push, At, Busy
<1>4. ASSUME NEW pc, Moves(t, pc), Renames(t)'
      PROVE  th'[t].req = th[t].req /\ Req(t).kind = "rename" /\ pc \in {"pull", "push", "commit"}
  BY <1>4 DEF Moves, Renames, Req
<1>5. ASSUME Ends(t) PROVE ~Renames(t)' /\ Others(t)
  BY <1>5 DEF Ends, Renames, Busy, Idle
<1>6. CASE Flush(t)
  <2>1. \A u \in Flushed(t) : th[u].id # th[t].id /\ Req(u).number # Req(t).number
    BY <1>6 DEF Flush
  <2> QED BY <1>1, <1>2, <1>4, <1>5, <1>6, <2>1, FlushNext, FlushQuiet DEF Moves, Keeps
<1>7. CASE Pull(t)
  <2>1. Req(t).kind = "rename" => Renames(t)
    BY <1>3, <1>7 DEF Pull, Renames
  <2> QED BY <1>1, <1>2, <1>4, <1>5, <1>7, <2>1, PullNext, FlushQuiet DEF Moves, Keeps
<1>8. CASE Push(t)
  <2>1. Req(t).kind = "rename" => Renames(t)
    BY <1>3, <1>8 DEF Push, Renames
  <2> QED BY <1>1, <1>2, <1>4, <1>5, <1>8, <2>1, PushNext, FlushQuiet DEF Moves, Keeps
<1>9. CASE CheckRename(t)
  BY <1>1, <1>2, <1>4, <1>5, <1>9, CheckRenameNext, FlushQuiet DEF Moves
<1>10. CASE \/ Access(t) \/ CheckProject(t) \/ CheckMove(t) \/ Lock(t) \/ LookUp(t) \/ Adopt(t)
            \/ CheckDrop(t) \/ CheckDomain(t) \/ Manifest(t)
  <2>1. Req(t).kind # "rename"
    BY <1>10 DEF Access, CheckProject, CheckMove, Lock, LookUp, Adopt, CheckDrop, CheckDomain,
                 Manifest, At
  <2>2. Ends(t) \/ \E pc : Moves(t, pc)
    BY <1>2, <1>10, AccessNext, CheckProjectNext, CheckMoveNext, LockNext, LookUpNext, AdoptNext,
       CheckDropNext, CheckDomainNext, ManifestNext
  <2> QED BY <1>1, <1>4, <1>5, <2>1, <2>2, FlushQuiet DEF Moves
<1> QED BY <1>6, <1>7, <1>8, <1>9, <1>10

LEMMA NextTyped ==
  ASSUME TInv, [Next]_vars
  PROVE  TInv'
<1>1. CASE UNCHANGED vars
  BY <1>1 DEF TInv, TypeOK, FlushInv, Known, Renames, Busy, Req, Exists, vars
<1>2. ASSUME NEW t \in Threads, Step(t) PROVE TInv'
  <2>1. TypeOK'
    BY <1>2, StepThreads, StepTables, HalvesNext DEF TInv
  <2>2. ASSUME CommitRename(t) \/ CommitDrop(t) \/ CreateContract(t) \/ MoveContract(t)
        PROVE  FlushInv'
    <3>1. Others(t) /\ ~Renames(t)'
      BY <2>2, OthersEnd DEF Ends, Renames, Busy, Idle, TInv
    <3> QED BY <2>2, <3>1, ContractsStep, FlushStep
  <2>3. ASSUME CommitCluster(t) \/ PushFails(t) \/ CommitDomain(t) \/ Resize(t)
        PROVE  FlushInv'
    <3>1. Others(t) /\ ~Renames(t)' /\ UNCHANGED contract
      BY <2>3, OthersEnd DEF Ends, Renames, Busy, Idle, TInv, CommitCluster, PushFails,
                             CommitDomain, Resize, rows
    <3> QED BY <3>1, FlushQuiet
  <2>4. FlushInv'
    BY <1>2, <2>2, <2>3, ReadsFlush DEF Step
  <2> QED BY <2>1, <2>4 DEF TInv
<1>3. ASSUME NEW t \in Threads, Fail(t) PROVE TInv'
  <2>1. Ends(t) /\ UNCHANGED contract
    BY <1>3, OthersEnd DEF Fail, rows, TInv
  <2>2. Busy(t) /\ Req(t) \in asked
    BY <1>3 DEF Fail, TInv, TypeOK
  <2>3. TablesOK'
    <3>1. TablesOK
      BY Halves DEF TInv
    <3>2. /\ failures' = failures - 1 /\ failures > 0 /\ todo' = todo \cup {Req(t)}
          /\ UNCHANGED <<contract, domain, row, manifest, repo, asked, crossed>>
      BY <1>3 DEF Fail, rows, gits
    <3>3. torn' \in BOOLEAN
      BY <1>3, <3>1 DEF Fail, TablesOK, At
    <3> QED BY <2>2, <3>1, <3>2, <3>3 DEF TablesOK
  <2>4. TypeOK'
    BY <1>3, <2>3, StepThreads, HalvesNext DEF TInv
  <2>5. Others(t) /\ ~Renames(t)'
    BY <2>1 DEF Ends, Renames, Busy, Idle
  <2> QED BY <2>1, <2>4, <2>5, FlushQuiet DEF TInv
<1>4. ASSUME NEW t \in Threads, NEW r \in todo, Begin(t, r) PROVE TInv'
  <2>1. /\ todo' = todo \ {r} /\ th' = [th EXCEPT ![t] = Begun(r)]
        /\ UNCHANGED <<contract, domain, row, manifest, repo, asked, failures, torn>>
    BY <1>4 DEF Begin, rows, gits
  <2>2. crossed' \in BOOLEAN
    BY <1>4 DEF Begin, TInv, TypeOK
  <2>3. TypeOK'
    BY <1>4, <2>1, <2>2, BeginThreads, Halves, HalvesNext DEF TInv, TablesOK
  <2>4. th'[t] = Begun(r) /\ Others(t)
    BY <2>1 DEF TInv, TypeOK, Others
  <2>5. ~Renames(t)'
    BY <2>4 DEF Renames, Begun
  <2> QED BY <2>1, <2>3, <2>4, <2>5, FlushQuiet DEF TInv
<1> QED BY <1>1, <1>2, <1>3, <1>4 DEF Next

LEMMA InitTyped == Init => TInv
<1> SUFFICES ASSUME Init PROVE TInv
  OBVIOUS
<1>1. PICK s \in Starts :
        /\ contract = s.contract /\ domain = s.domain /\ repo = s.repo
        /\ asked = s.asked /\ todo = s.asked /\ failures = s.failures
  BY DEF Init
<1>2. TablesOK
  BY <1>1, StartsAssumption DEF Init, TablesOK, Unique
<1>3. \A t \in Threads : th[t] = Idle
  BY DEF Init
<1>4. ThreadsOK
  BY <1>3 DEF Init, ThreadsOK, Busy, Idle
<1>5. FlushInv
  BY <1>3 DEF FlushInv, Renames, Busy, Idle
<1> QED BY <1>2, <1>4, <1>5, Halves DEF TInv

\* Every variable keeps its type and no two contracts have one number, whatever is asked
\* at once and whatever fails.
THEOREM TypesHold == Spec => []TypeOK
<1>1. TInv => TypeOK
  BY DEF TInv
<1> QED BY <1>1, InitTyped, NextTyped, PTL DEF Spec

-----------------------------------------------------------------------------
(* What holds as long as nothing has run together with a request that checks. *)

AloneInv ==
  \A t, u \in Threads : t # u /\ Busy(t) /\ Busy(u) => th[t].req.kind \notin Checking

PastLock(t) == Busy(t) /\ th[t].req.kind = "cluster" /\ th[t].pc \notin {"begin", "lock"}
LockInv ==
  \A t, u \in Threads : t # u /\ PastLock(t) /\ PastLock(u) => th[t].req.base # th[u].req.base

\* A request that is about a project has found the contract it is charged to.
Charged(t) ==
  th[t].req.kind \in {"cluster", "create", "update", "delete", "move"} /\ th[t].pc # "begin" =>
    Known(contract, th[t].number)

\* A cluster that is being created has a contract, no row and, once it is published,
\* its project and its manifest.
ClusterSound(t) ==
  th[t].req.kind = "cluster" /\ th[t].pc # "begin" =>
    /\ contract[th[t].id] # None /\ contract[th[t].id].number = th[t].number
    /\ th[t].pc # "lock" => row[th[t].req.base] = None
    /\ th[t].pc \in {"adopt", "manifest", "commit"} => repo[th[t].key] = Wanted(t)
    /\ th[t].pc = "commit" => manifest[th[t].req.base] = Document(t)

\* The projects of tab are what rename_contract leaves behind.
Renumbered(t, tab) ==
  \A k \in Keys :
    tab[k] # None =>
      /\ tab[k].number # th[t].number
      /\ torn \/ tab[k].number = th[t].req.number \/ Known(contract, tab[k].number)

\* What is about to be pushed changes no managed project and makes none but that of a
\* cluster; its projects have a contract.
PushSound(t) ==
  th[t].pc = "push" =>
    /\ \A k \in Keys :
         th[t].result[k] # th[t].base[k] =>
           /\ th[t].base[k] = None \/ ~th[t].base[k].managed
           /\ \/ th[t].result[k] = None \/ th[t].req.kind = "rename"
              \/ Known(contract, th[t].result[k].number)
           /\ th[t].result[k] # None /\ th[t].result[k].managed =>
                th[t].req.kind = "cluster" /\ k = th[t].key
    /\ th[t].req.kind = "cluster" =>
         th[t].base[th[t].key] = None /\ th[t].result[th[t].key] = Wanted(t)
    /\ th[t].req.kind \in Checking => th[t].base = repo
    /\ th[t].req.kind = "rename" => Renumbered(t, th[t].result)

EditSound(t) ==
  th[t].req.kind \in {"update", "delete"} /\ th[t].pc = "pull" =>
    /\ repo[th[t].key] # None /\ ~repo[th[t].key].managed
    /\ repo[th[t].key].number = th[t].number

RenameSound(t) ==
  th[t].req.kind = "rename" /\ th[t].pc # "begin" =>
    /\ contract[th[t].id] # None /\ contract[th[t].id].number = th[t].number
    /\ th[t].number # th[t].req.number
    /\ th[t].pc = "commit" => Renumbered(t, repo)

DropSound(t) ==
  th[t].req.kind = "drop" /\ th[t].pc # "begin" =>
    /\ contract[th[t].id] # None
    /\ \A k \in Keys : repo[k] # None => repo[k].number # contract[th[t].id].number

Sound(t) ==
  Busy(t) => /\ Charged(t) /\ ClusterSound(t) /\ PushSound(t) /\ EditSound(t)
             /\ RenameSound(t) /\ DropSound(t)

Renaming == \E t \in Threads : Busy(t) /\ th[t].req.kind = "rename" /\ th[t].pc = "commit"
KnownInv ==
  \A k \in Keys : repo[k] # None => Known(contract, repo[k].number) \/ torn \/ Renaming

RowsInv ==
  \A s \in Slugs :
    row[s] # None =>
      /\ contract[row[s].contract] # None
      /\ manifest[s] = [number |-> contract[row[s].contract].number, groups |-> row[s].initial,
                        project |-> row[s].project]
      /\ repo[row[s].project] = [number |-> contract[row[s].contract].number, managed |-> TRUE,
                                 quotas |-> row[s].initial]

\* A manifest or a managed project belongs to a cluster or to the request that creates it.
Committing(t, s) ==
  Busy(t) /\ th[t].req.kind = "cluster" /\ th[t].pc = "commit" /\ th[t].req.base = s
Making(t, k) ==
  /\ Busy(t) /\ th[t].req.kind = "cluster" /\ th[t].key = k
  /\ th[t].pc \in {"adopt", "manifest", "commit"}
ManifestsInv ==
  Failed \/ \A s \in Slugs :
    manifest[s] # None => row[s] # None \/ \E t \in Threads : Committing(t, s)
OrphansInv ==
  Failed \/ \A k \in Keys :
    repo[k] # None /\ repo[k].managed =>
      \/ \E s \in Slugs : row[s] # None /\ row[s].project = k
      \/ \E t \in Threads : Making(t, k)

Budget == \E s \in Starts : s.asked = asked /\ failures <= s.failures

CoreInv ==
  /\ AloneInv /\ LockInv /\ \A t \in Threads : Sound(t)
  /\ RowsInv /\ KnownInv /\ ManifestsInv /\ OrphansInv

IInv == TInv /\ Budget /\ (crossed \/ CoreInv)

-----------------------------------------------------------------------------
(* Who runs, and who holds a lock. *)

LEMMA StepMoves ==
  ASSUME TypeOK, NEW t \in Threads, Step(t)
  PROVE  /\ Busy(t)
         /\ Ends(t) \/ \E pc \in Pcs : Moves(t, pc)
<1>1. Busy(t)
  BY DEF Step, Access, CheckProject, CheckMove, Lock, LookUp, Adopt, Manifest, CommitCluster,
         Pull, Push, PushFails, CheckRename, Flush, CommitRename, CheckDrop, CommitDrop,
         CheckDomain, CommitDomain, CreateContract, MoveContract, Resize, At, Busy
<1>2. CASE Access(t)
  <2>1. PICK pc \in Pcs : pc = (CASE Req(t).kind = "cluster" -> "lock"
                                  [] Req(t).kind = "create" -> "pull"
                                  [] OTHER -> "check")
    BY DEF Pcs
  <2>2. Ends(t) \/ Moves(t, pc)
    BY <1>2, <2>1, AccessNext
  <2> QED BY <1>1, <2>2
<1>3. CASE CheckProject(t) \/ CheckMove(t) \/ Lock(t) \/ LookUp(t) \/ Adopt(t) \/ Flush(t)
  BY <1>1, <1>3, CheckProjectNext, CheckMoveNext, LockNext, LookUpNext, AdoptNext, FlushNext DEF Pcs
<1>4. CASE Pull(t) \/ Push(t) \/ Manifest(t) \/ CheckRename(t) \/ CheckDrop(t) \/ CheckDomain(t)
  BY <1>1, <1>4, PullNext, PushNext, ManifestNext, CheckRenameNext, CheckDropNext, CheckDomainNext
  DEF Pcs
<1>5. CASE \/ CommitCluster(t) \/ PushFails(t) \/ CommitRename(t) \/ CommitDrop(t)
           \/ CommitDomain(t) \/ CreateContract(t) \/ MoveContract(t) \/ Resize(t)
  BY <1>1, <1>5, OthersEnd
<1> QED BY <1>2, <1>3, <1>4, <1>5 DEF Step

LEMMA AloneStep ==
  ASSUME AloneInv, NEW t \in Threads, Busy(t),
         Ends(t) \/ \E pc : Moves(t, pc)
  PROVE  AloneInv'
<1>1. \A u \in Threads : Busy(u)' => Busy(u) /\ th'[u].req = th[u].req
  BY DEF Ends, Moves, Others, Busy, Idle
<1> QED BY <1>1 DEF AloneInv

LEMMA LockStep ==
  ASSUME TypeOK, LockInv, NEW t \in Threads, Step(t) \/ Ends(t)
  PROVE  LockInv'
<1>1. Others(t) /\ (Busy(t)' => Busy(t) /\ th'[t].req = th[t].req)
  BY StepMoves DEF Ends, Moves, Busy, Idle
<1>2. ASSUME PastLock(t)'
      PROVE  PastLock(t) \/ Lock(t)
  <2>1. Step(t) /\ Busy(t) /\ Req(t).kind = "cluster" /\ th'[t].req = th[t].req
    BY <1>1, <1>2 DEF PastLock, Ends, Busy, Idle, Req
  <2>2. CASE th[t].pc = "begin"
    <3>1. Access(t)
      BY <2>1, <2>2 DEF Step, CheckProject, CheckMove, Lock, LookUp, Adopt, Manifest,
           CommitCluster, Pull, Push, PushFails, CheckRename, Flush, CommitRename, CheckDrop,
           CommitDrop, CheckDomain, CommitDomain, CreateContract, MoveContract, Resize, At
    <3> QED BY <1>2, <2>1, <3>1, AccessNext DEF PastLock, Ends, Moves, Busy, Idle
  <2>3. CASE th[t].pc = "lock"
    BY <2>1, <2>3 DEF Step, Access, CheckProject, CheckMove, LookUp, Adopt, Manifest,
         CommitCluster, Pull, Push, PushFails, CheckRename, Flush, CommitRename, CheckDrop,
         CommitDrop, CheckDomain, CommitDomain, CreateContract, MoveContract, Resize, At
  <2> QED BY <2>1, <2>2, <2>3 DEF PastLock, Req
<1>3. ASSUME NEW u \in Threads \ {t}, PastLock(t)', PastLock(u)
      PROVE  th'[t].req.base # th[u].req.base
  <2>1. CASE PastLock(t)
    BY <1>1, <1>3, <2>1 DEF LockInv, PastLock
  <2>2. CASE Lock(t)
    <3>1. Req(t).base # Req(u).base
      BY <1>3, <2>2 DEF Lock, Locked, PastLock, Req
    <3> QED BY <1>1, <1>3, <3>1 DEF PastLock, Req
  <2> QED BY <1>2, <1>3, <2>1, <2>2
<1>4. \A u \in Threads \ {t} : th'[u] = th[u] /\ (PastLock(u)' <=> PastLock(u))
  BY <1>1 DEF Others, PastLock, Busy
<1> QED BY <1>3, <1>4 DEF LockInv

-----------------------------------------------------------------------------
(* A step of one thread and what the others rely on. *)

\* Contracts keep their number, managed projects stay.
Tame ==
  /\ \A c \in Contracts :
       contract[c] # None => contract'[c] # None /\ contract'[c].number = contract[c].number
  /\ \A k \in Keys : repo[k] # None /\ repo[k].managed => repo'[k] = repo[k]

LEMMA TameKnown ==
  ASSUME Tame, NEW n, Known(contract, n)
  PROVE  Known(contract', n)
BY DEF Tame, Known

LEMMA OthersSound ==
  ASSUME TypeOK, Tame, NEW t \in Threads, NEW u \in Threads \ {t}, Others(t), Sound(u), Busy(u),
         th[u].req.kind \notin Checking,
         PastLock(u) => /\ row'[th[u].req.base] = row[th[u].req.base]
                        /\ manifest'[th[u].req.base] = manifest[th[u].req.base]
  PROVE  Sound(u)'
<1>1. PICK x \in ThreadRecord : x = th[u] /\ ThreadOK(x) /\ x.req \in Requests /\ Req(u) = x.req
  BY KnownOf
<1>2. th'[u] = x
  BY <1>1 DEF Others
<1>3. Charged(u) => Charged(u)'
  BY <1>1, <1>2, TameKnown DEF Charged
<1>4. ASSUME ClusterSound(u) PROVE ClusterSound(u)'
  <2>1. CASE x.req.kind = "cluster" /\ x.pc # "begin"
    <3>1. x.id \in Contracts /\ x.key \in Keys /\ x.number \in Numbers
      BY <1>1, <2>1 DEF ThreadOK
    <3>2. Wanted(u) # None /\ Wanted(u).managed
      BY <1>1, <2>1, <3>1, NewProjects
    <3>3. Wanted(u)' = Wanted(u) /\ Document(u)' = Document(u)
      BY <1>1, <1>2 DEF Wanted, Document, Req
    <3>4. contract'[x.id] # None /\ contract'[x.id].number = x.number
      BY <1>1, <1>4, <2>1, <3>1 DEF ClusterSound, Tame
    <3>5. x.pc # "lock" => PastLock(u)
      BY <1>1, <2>1 DEF PastLock
    <3>6. x.pc # "lock" => row'[x.req.base] = None
      BY <1>1, <1>4, <2>1, <3>5 DEF ClusterSound
    <3>7. x.pc \in {"adopt", "manifest", "commit"} => repo'[x.key] = Wanted(u)
      BY <1>1, <1>4, <2>1, <3>1, <3>2 DEF ClusterSound, Tame
    <3>8. x.pc = "commit" => manifest'[x.req.base] = Document(u)
      BY <1>1, <1>4, <2>1, <3>5 DEF ClusterSound
    <3> QED BY <1>2, <3>3, <3>4, <3>6, <3>7, <3>8 DEF ClusterSound
  <2> QED BY <1>1, <1>2, <2>1 DEF ClusterSound
<1>5. ASSUME PushSound(u) PROVE PushSound(u)'
  <2>1. CASE x.pc = "push"
    <3>1. Wanted(u)' = Wanted(u)
      BY <1>1, <1>2 DEF Wanted, Req
    <3>2. x.req.kind \notin Checking /\ x.req.kind # "rename"
      BY <1>1 DEF Checking
    <3>3. ASSUME NEW k \in Keys, x.result[k] # x.base[k]
          PROVE  /\ x.base[k] = None \/ ~x.base[k].managed
                 /\ x.result[k] = None \/ Known(contract', x.result[k].number)
                 /\ x.result[k] # None /\ x.result[k].managed => x.req.kind = "cluster" /\ k = x.key
      BY <1>1, <1>5, <2>1, <3>2, <3>3, TameKnown DEF PushSound
    <3>4. x.req.kind = "cluster" => x.base[x.key] = None /\ x.result[x.key] = Wanted(u)
      BY <1>1, <1>5, <2>1 DEF PushSound
    <3> QED BY <1>2, <3>1, <3>2, <3>3, <3>4 DEF PushSound
  <2> QED BY <1>2, <2>1 DEF PushSound
<1>6. EditSound(u)' /\ RenameSound(u)' /\ DropSound(u)'
  BY <1>1, <1>2 DEF EditSound, RenameSound, DropSound, Checking
<1> QED BY <1>3, <1>4, <1>5, <1>6 DEF Sound

LEMMA EndSound ==
  ASSUME NEW t \in Threads, Ends(t)
  PROVE  Sound(t)'
BY DEF Ends, Sound, Busy, Idle

Tables == <<contract, row, repo, manifest>>

\* A thread that reads and goes on with what it knows.
LEMMA KeptSound ==
  ASSUME TypeOK, NEW t \in Threads, Busy(t), Sound(t), NEW pc, Moves(t, pc), Keeps(t),
         UNCHANGED <<Tables, torn>>,
         th[t].pc # "begin", pc \notin {"push", "commit"},
         Req(t).kind = "cluster" /\ pc # "lock" => row[Req(t).base] = None,
         Req(t).kind = "cluster" /\ pc \in {"adopt", "manifest"} => repo[th[t].key] = Wanted(t),
         Req(t).kind \in {"update", "delete"} /\ pc = "pull" =>
           /\ repo[th[t].key] # None /\ ~repo[th[t].key].managed
           /\ repo[th[t].key].number = th[t].number
  PROVE  Sound(t)'
<1>1. UNCHANGED contract /\ UNCHANGED row /\ UNCHANGED repo /\ UNCHANGED torn
  BY DEF Tables
<1>2. PICK x \in ThreadRecord : x = th[t] /\ x.req \in Requests /\ Req(t) = x.req
  BY KnownOf
<1>3. PICK y \in ThreadRecord : /\ y = th'[t] /\ y.pc = pc /\ y.req = x.req /\ y.id = x.id
                                /\ y.number = x.number /\ y.key = x.key
  BY <1>2 DEF Moves, Keeps
<1>4. Wanted(t)' = Wanted(t)
  BY <1>2, <1>3 DEF Wanted, Req
<1>5. Charged(t)'
  BY <1>1, <1>2, <1>3 DEF Sound, Charged
<1>6. ClusterSound(t)'
  BY <1>1, <1>2, <1>3, <1>4 DEF Sound, ClusterSound
<1>7. PushSound(t)'
  BY <1>3 DEF PushSound
<1>8. EditSound(t)'
  BY <1>1, <1>2, <1>3 DEF EditSound
<1>9. RenameSound(t)'
  BY <1>1, <1>2, <1>3 DEF Sound, RenameSound
<1>10. DropSound(t)'
  BY <1>1, <1>2, <1>3 DEF Sound, DropSound
<1> QED BY <1>5, <1>6, <1>7, <1>8, <1>9, <1>10 DEF Sound

LEMMA ReadsTables ==
  ASSUME Reads
  PROVE  UNCHANGED <<Tables, torn>> /\ UNCHANGED <<asked, failures>>
BY DEF Reads, rows, gits, history, Tables

LEMMA KeptSteps ==
  ASSUME TypeOK, CoreInv, NEW t \in Threads,
         CheckProject(t) \/ Lock(t) \/ LookUp(t) \/ Adopt(t) \/ Flush(t)
  PROVE  Sound(t)'
<1>1. Busy(t) /\ Sound(t) /\ Reads /\ th[t].pc # "begin" /\ Req(t) = th[t].req
  BY DEF CheckProject, Lock, LookUp, Adopt, Flush, At, Busy, CoreInv, Req
<1>2. UNCHANGED <<Tables, torn>>
  BY <1>1, ReadsTables
<1>3. CASE CheckProject(t)
  <2>1. Req(t).kind # "cluster"
    BY <1>3 DEF CheckProject, At
  <2> QED BY <1>1, <1>2, <1>3, <2>1, CheckProjectNext, KeptSound, EndSound
<1>4. CASE Lock(t)
  <2>1. Req(t).kind = "cluster"
    BY <1>4 DEF Lock, At
  <2> QED BY <1>1, <1>2, <1>4, <2>1, LockNext, KeptSound, EndSound
<1>5. CASE LookUp(t)
  <2>1. Req(t).kind = "cluster" /\ th[t].pc = "lookup"
    BY <1>5 DEF LookUp, At
  <2>2. row[Req(t).base] = None
    BY <1>1, <2>1 DEF Sound, ClusterSound
  <2> QED BY <1>1, <1>2, <1>5, <2>1, <2>2, LookUpNext, KeptSound, EndSound
<1>6. CASE Adopt(t)
  <2>1. Req(t).kind = "cluster" /\ th[t].pc = "adopt"
    BY <1>6 DEF Adopt, At
  <2>2. row[Req(t).base] = None /\ repo[th[t].key] = Wanted(t)
    BY <1>1, <2>1 DEF Sound, ClusterSound
  <2> QED BY <1>1, <1>2, <1>6, <2>1, <2>2, AdoptNext, KeptSound, EndSound
<1>7. CASE Flush(t)
  <2>1. Req(t).kind = "rename"
    BY <1>7 DEF Flush, At
  <2> QED BY <1>1, <1>2, <1>7, <2>1, FlushNext, KeptSound, EndSound
<1> QED BY <1>3, <1>4, <1>5, <1>6, <1>7

\* The first step of a request.
LEMMA FirstSteps ==
  ASSUME TypeOK, NEW t \in Threads,
         Access(t) \/ CheckMove(t) \/ CheckRename(t) \/ CheckDrop(t) \/ CheckDomain(t)
  PROVE  Sound(t)'
<1>1. Busy(t) /\ Reads
  BY DEF Access, CheckMove, CheckRename, CheckDrop, CheckDomain, At, Busy
<1>2. UNCHANGED contract /\ UNCHANGED repo
  BY <1>1, ReadsTables DEF Tables
<1>3. PICK r \in Requests : r = Req(t) /\ r = th[t].req
  BY <1>1, KnownOf
<1>4. CASE Access(t)
  <2>1. r.kind \in {"cluster", "create", "update", "delete"}
    BY <1>3, <1>4 DEF Access, At
  <2>2. ASSUME NEW c \in Contracts, NEW pc \in Pcs, Exists(c), contract[c].number = r.number,
               r.kind = "cluster" => pc = "lock", pc \notin {"push", "commit"},
               r.kind \in {"update", "delete"} => pc = "check",
               Moves(t, pc), th'[t].id = c, th'[t].number = r.number
        PROVE  Sound(t)'
    <3>1. PICK y \in ThreadRecord : /\ y = th'[t] /\ y.pc = pc /\ y.req = r /\ y.id = c
                                    /\ y.number = r.number
      BY <1>3, <2>2 DEF Moves
    <3>2. contract'[c] # None /\ contract'[c].number = r.number /\ Known(contract', r.number)
      BY <1>2, <2>2 DEF Exists, Known
    <3>3. Charged(t)' /\ ClusterSound(t)'
      BY <2>2, <3>1, <3>2 DEF Charged, ClusterSound
    <3>4. PushSound(t)' /\ EditSound(t)' /\ RenameSound(t)' /\ DropSound(t)'
      BY <2>1, <2>2, <3>1 DEF PushSound, EditSound, RenameSound, DropSound
    <3> QED BY <3>3, <3>4 DEF Sound
  <2>3. PICK pc \in Pcs : pc = (CASE r.kind = "cluster" -> "lock"
                                  [] r.kind = "create" -> "pull"
                                  [] OTHER -> "check")
    BY DEF Pcs
  <2>4. /\ r.kind = "cluster" => pc = "lock"
        /\ pc \notin {"push", "commit"}
        /\ r.kind \in {"update", "delete"} => pc = "check"
    BY <2>1, <2>3
  <2>5. CASE Ends(t)
    BY <2>5, EndSound
  <2>6. CASE ~Ends(t)
    <3>1. PICK c \in Contracts : /\ Exists(c) /\ contract[c].number = r.number
                                 /\ Moves(t, pc) /\ th'[t].id = c /\ th'[t].number = r.number
      BY <1>3, <1>4, <2>3, <2>6, AccessNext
    <3> QED BY <2>2, <2>4, <3>1
  <2> QED BY <2>5, <2>6
<1>5. CASE CheckMove(t)
  <2>1. r.kind = "move"
    BY <1>3, <1>5 DEF CheckMove, At
  <2>2. ASSUME Moves(t, "pull"), WithNumber(th'[t].number) # {}
        PROVE  Sound(t)'
    <3>1. PICK y \in ThreadRecord : y = th'[t] /\ y.pc = "pull" /\ y.req = r
      BY <1>3, <2>2 DEF Moves
    <3>2. Known(contract', y.number)
      BY <1>2, <2>2, <3>1, WithNumberKnown
    <3> QED BY <2>1, <3>1, <3>2
        DEF Sound, Charged, ClusterSound, PushSound, EditSound, RenameSound, DropSound
  <2> QED BY <1>5, <2>2, CheckMoveNext, EndSound
<1>6. CASE CheckRename(t)
  <2>1. r.kind = "rename"
    BY <1>3, <1>6 DEF CheckRename, At
  <2>2. ASSUME Moves(t, "flush"), Exists(th'[t].id),
               th'[t].number = contract[th'[t].id].number, th'[t].number # Req(t).number
        PROVE  Sound(t)'
    <3>1. PICK y \in ThreadRecord : y = th'[t] /\ y.pc = "flush" /\ y.req = r
      BY <1>3, <2>2 DEF Moves
    <3>2. contract'[y.id] # None /\ contract'[y.id].number = y.number /\ y.number # r.number
      BY <1>2, <1>3, <2>2, <3>1 DEF Exists
    <3> QED BY <2>1, <3>1, <3>2
        DEF Sound, Charged, ClusterSound, PushSound, EditSound, RenameSound, DropSound
  <2> QED BY <1>6, <2>2, CheckRenameNext, EndSound
<1>7. CASE CheckDrop(t)
  <2>1. r.kind = "drop"
    BY <1>3, <1>7 DEF CheckDrop, At
  <2>2. ASSUME Moves(t, "commit"), Exists(th'[t].id), OfNumber(contract[th'[t].id].number) = {}
        PROVE  Sound(t)'
    <3>1. PICK y \in ThreadRecord : y = th'[t] /\ y.pc = "commit" /\ y.req = r
      BY <1>3, <2>2 DEF Moves
    <3>2. /\ contract'[y.id] # None
          /\ \A k \in Keys : repo'[k] # None => repo'[k].number # contract'[y.id].number
      BY <1>2, <2>2, <3>1 DEF Exists, OfNumber
    <3> QED BY <2>1, <3>1, <3>2
        DEF Sound, Charged, ClusterSound, PushSound, EditSound, RenameSound, DropSound
  <2> QED BY <1>7, <2>2, CheckDropNext, EndSound
<1>8. CASE CheckDomain(t)
  <2>1. r.kind = "domain"
    BY <1>3, <1>8 DEF CheckDomain, At
  <2>2. ASSUME Moves(t, "commit") PROVE Sound(t)'
    <3>1. PICK y \in ThreadRecord : y = th'[t] /\ y.pc = "commit" /\ y.req = r
      BY <1>3, <2>2 DEF Moves
    <3> QED BY <2>1, <3>1
        DEF Sound, Charged, ClusterSound, PushSound, EditSound, RenameSound, DropSound
  <2> QED BY <1>8, <2>2, CheckDomainNext, EndSound
<1> QED BY <1>4, <1>5, <1>6, <1>7, <1>8

\* Nobody is in the middle of a renaming while another request checks.
LEMMA NotRenaming ==
  ASSUME CoreInv, NEW t \in Threads, Busy(t), th[t].req.kind \in Checking,
         th[t].req.kind # "rename" \/ th[t].pc # "commit"
  PROVE  \A k \in Keys : repo[k] # None => Known(contract, repo[k].number) \/ torn
<1>1. ~Renaming
  BY DEF CoreInv, AloneInv, Renaming
<1> QED BY <1>1 DEF CoreInv, KnownInv

LEMMA PullSound ==
  ASSUME TypeOK, CoreInv, NEW t \in Threads, Pull(t)
  PROVE  Sound(t)'
<1>1. Busy(t) /\ th[t].pc = "pull" /\ Sound(t) /\ Reads
  BY DEF Pull, Busy, CoreInv
<1>2. UNCHANGED contract /\ UNCHANGED row /\ UNCHANGED repo /\ UNCHANGED torn
  BY <1>1, ReadsTables DEF Tables
<1>3. PICK x \in ThreadRecord : x = th[t] /\ ThreadOK(x) /\ x.req \in Requests /\ Req(t) = x.req
  BY <1>1, KnownOf
<1>4. x.req.kind \in {"cluster", "create", "move", "update", "delete", "rename"}
  BY <1>1, <1>3, KindAt DEF ThreadOK
<1>5. /\ x.number \in Numbers /\ (x.req.kind # "rename" => x.key \in Keys)
      /\ repo \in [Keys -> Projects]
  BY <1>1, <1>3, <1>4 DEF ThreadOK, TypeOK
<1>6. ASSUME NEW pc, pc \in {"push", "commit"}, Moves(t, pc), Keeps(t),
             pc = "commit" => x.req.kind = "rename",
             PushSound(t)', x.req.kind = "rename" /\ pc = "commit" => Renumbered(t, repo)'
      PROVE  Sound(t)'
  <2>1. PICK y \in ThreadRecord : /\ y = th'[t] /\ y.pc = pc /\ y.req = x.req /\ y.id = x.id
                                  /\ y.number = x.number /\ y.key = x.key
    BY <1>3, <1>6 DEF Moves, Keeps
  <2>2. Wanted(t)' = Wanted(t)
    BY <1>3, <2>1 DEF Wanted, Req
  <2>3. Charged(t)'
    BY <1>1, <1>2, <1>3, <2>1 DEF Sound, Charged
  <2>4. ClusterSound(t)'
    BY <1>1, <1>2, <1>3, <1>6, <2>1, <2>2 DEF Sound, ClusterSound
  <2>5. EditSound(t)' /\ DropSound(t)'
    BY <1>4, <1>6, <2>1 DEF EditSound, DropSound
  <2>6. RenameSound(t)'
    BY <1>1, <1>2, <1>3, <1>6, <2>1 DEF Sound, RenameSound
  <2> QED BY <1>6, <2>3, <2>4, <2>5, <2>6 DEF Sound
<1>7. ASSUME Allowed(t), x.req.kind = "rename"
      PROVE  Renumbered(t, Edited(t))
  <2>1. ASSUME NEW k \in Keys, Edited(t)[k] # None
        PROVE  /\ Edited(t)[k].number # x.number
               /\ torn \/ Edited(t)[k].number = x.req.number \/ Known(contract, Edited(t)[k].number)
    <3>1. IF k \in OfNumber(x.number)
          THEN Edited(t)[k].number = x.req.number ELSE Edited(t)[k] = repo[k]
      BY <1>1, <1>3, <1>7, EditedShape DEF Change
    <3>2. x.number # x.req.number
      BY <1>1, <1>3, <1>7 DEF Sound, RenameSound
    <3>3. CASE k \in OfNumber(x.number)
      BY <3>1, <3>2, <3>3
    <3>4. CASE k \notin OfNumber(x.number)
      <4>1. repo[k] = Edited(t)[k] /\ repo[k].number # x.number
        BY <2>1, <3>1, <3>4 DEF OfNumber
      <4>2. Known(contract, repo[k].number) \/ torn
        BY <1>1, <1>3, <1>7, <2>1, <4>1, NotRenaming DEF Checking
      <4> QED BY <4>1, <4>2
    <3> QED BY <3>3, <3>4
  <2> QED BY <1>3, <2>1 DEF Renumbered
<1>8. ASSUME Moves(t, "commit"), Keeps(t), Allowed(t), x.req.kind = "rename", Edited(t) = repo
      PROVE  Sound(t)'
  <2>1. PushSound(t)'
    BY <1>8 DEF Moves, PushSound
  <2>2. Renumbered(t, repo)
    BY <1>7, <1>8
  <2>3. Renumbered(t, repo)'
    BY <1>2, <1>3, <1>8, <2>2 DEF Renumbered, Moves, Keeps
  <2> QED BY <1>6, <1>8, <2>1, <2>3
<1>9. ASSUME Moves(t, "push"), Keeps(t), Allowed(t), th'[t].base = repo, th'[t].result = Edited(t)
      PROVE  Sound(t)'
  <2>1. PICK y \in ThreadRecord : /\ y = th'[t] /\ y.pc = "push" /\ y.req = x.req
                                  /\ y.number = x.number /\ y.key = x.key
                                  /\ y.base = repo /\ y.result = Edited(t)
    BY <1>3, <1>9 DEF Moves, Keeps
  <2>2. Wanted(t)' = Wanted(t)
    BY <1>3, <2>1 DEF Wanted, Req
  <2>3. ASSUME NEW k \in Keys, Edited(t)[k] # repo[k]
        PROVE  /\ repo[k] = None \/ ~repo[k].managed
               /\ Edited(t)[k] = None \/ x.req.kind = "rename" \/ Known(contract, Edited(t)[k].number)
               /\ Edited(t)[k] # None /\ Edited(t)[k].managed => x.req.kind = "cluster" /\ k = x.key
    <3>1. Change(t, k, repo[k], Edited(t)[k])
      BY <1>1, <1>9, EditedShape
    <3>2. x.req.kind # "rename" => Known(contract, x.number)
      BY <1>1, <1>3, <1>4 DEF Sound, Charged
    <3>3. CASE x.req.kind = "cluster"
      <4>1. k = x.key /\ repo[k] = None /\ Edited(t)[k] = Wanted(t)
        BY <1>3, <2>3, <3>1, <3>3 DEF Change
      <4>2. Wanted(t).number = x.number
        BY <1>3 DEF Wanted
      <4> QED BY <3>2, <3>3, <4>1, <4>2
    <3>4. CASE x.req.kind = "create"
      BY <1>3, <2>3, <3>1, <3>2, <3>4 DEF Change
    <3>5. CASE x.req.kind = "move"
      BY <1>3, <2>3, <3>1, <3>2, <3>5 DEF Change
    <3>6. CASE x.req.kind \in {"update", "delete"}
      <4>1. ~repo[x.key].managed /\ repo[x.key].number = x.number
        BY <1>1, <1>3, <3>6 DEF Sound, EditSound
      <4> QED BY <1>3, <2>3, <3>1, <3>2, <3>6, <4>1 DEF Change
    <3>7. CASE x.req.kind = "rename"
      BY <1>3, <2>3, <3>1, <3>7 DEF Change
    <3> QED BY <1>4, <3>3, <3>4, <3>5, <3>6, <3>7
  <2>4. x.req.kind = "cluster" => repo[x.key] = None /\ Edited(t)[x.key] = Wanted(t)
    <3>1. x.req.kind = "cluster" => Change(t, x.key, repo[x.key], Edited(t)[x.key])
      BY <1>1, <1>5, <1>9, EditedShape
    <3> QED BY <1>3, <3>1 DEF Change
  <2>5. x.req.kind = "rename" => Renumbered(t, y.result)'
    <3>1. x.req.kind = "rename" => Renumbered(t, Edited(t))
      BY <1>7, <1>9
    <3> QED BY <1>2, <1>3, <2>1, <3>1 DEF Renumbered
  <2>6. PushSound(t)'
    BY <1>2, <2>1, <2>2, <2>3, <2>4, <2>5 DEF PushSound, Renumbered
  <2> QED BY <1>6, <1>9, <2>6
<1> QED BY <1>3, <1>8, <1>9, PullNext, EndSound

\* What a push does to the projects.
LEMMA PushFacts ==
  ASSUME TypeOK, NEW t \in Threads, Push(t), Sound(t)
  PROVE  /\ Busy(t) /\ th[t].pc = "push" /\ Tame
         /\ UNCHANGED <<contract, domain, row, manifest, asked, failures, crossed, torn>>
         /\ \A k \in Keys : repo'[k] # None /\ repo'[k].managed =>
              repo'[k] = repo[k] \/ (th[t].req.kind = "cluster" /\ k = th[t].key)
         /\ \A k \in Keys : repo'[k] # None =>
              repo'[k] = repo[k] \/ th[t].req.kind = "rename" \/ Known(contract, repo'[k].number)
         /\ th[t].req.kind = "rename" => \A k \in Keys : repo'[k] = th[t].result[k]
         /\ th[t].req.kind = "cluster" => repo'[th[t].key] = Wanted(t)
<1>1. Busy(t) /\ UNCHANGED <<contract, domain, row, manifest, asked, failures, crossed, torn>>
  BY DEF Push, Busy, rows, history
<1>2. PICK x \in ThreadRecord : x = th[t] /\ ThreadOK(x) /\ x.req \in Requests /\ Req(t) = x.req
  BY <1>1, KnownOf
<1>3. /\ x.pc = "push"
      /\ \A k \in Keys : repo'[k] = IF x.result[k] # x.base[k] THEN x.result[k] ELSE repo[k]
  BY <1>2, PushTyped DEF Mine
<1>4. \A k \in Keys : x.result[k] # x.base[k] => repo[k] = x.base[k] \/ repo[k] = x.result[k]
  BY <1>2 DEF Push, Clash, Mine, Theirs
<1>5. PushSound(t)
  BY <1>1 DEF Sound
<1>6. \A k \in Keys : repo[k] # None /\ repo[k].managed => repo'[k] = repo[k]
  BY <1>2, <1>3, <1>4, <1>5 DEF PushSound
<1>7. Tame
  BY <1>1, <1>6 DEF Tame
<1>8. \A k \in Keys : repo'[k] # None /\ repo'[k].managed =>
        repo'[k] = repo[k] \/ (x.req.kind = "cluster" /\ k = x.key)
  BY <1>2, <1>3, <1>5 DEF PushSound
<1>9. \A k \in Keys : repo'[k] # None =>
        repo'[k] = repo[k] \/ x.req.kind = "rename" \/ Known(contract, repo'[k].number)
  BY <1>2, <1>3, <1>5 DEF PushSound
<1>10. ASSUME x.req.kind = "rename" PROVE \A k \in Keys : repo'[k] = x.result[k]
  <2>1. x.base = repo
    BY <1>2, <1>3, <1>5, <1>10 DEF PushSound, Checking
  <2> QED BY <1>3, <2>1
<1>11. ASSUME x.req.kind = "cluster" PROVE repo'[x.key] = Wanted(t)
  <2>1. x.key \in Keys /\ x.number \in Numbers
    BY <1>2, <1>3, <1>11 DEF ThreadOK
  <2>2. x.base[x.key] = None /\ x.result[x.key] = Wanted(t)
    BY <1>2, <1>3, <1>5, <1>11 DEF PushSound
  <2>3. Wanted(t) # None
    BY <1>1, <1>2, <1>11, <2>1, NewProjects
  <2> QED BY <1>3, <2>1, <2>2, <2>3
<1> QED BY <1>1, <1>2, <1>3, <1>7, <1>8, <1>9, <1>10, <1>11

LEMMA PushedSound ==
  ASSUME TypeOK, CoreInv, NEW t \in Threads, Push(t)
  PROVE  Sound(t)'
<1>1. Sound(t)
  BY DEF CoreInv
<1>2. Busy(t) /\ th[t].pc = "push" /\ UNCHANGED contract /\ UNCHANGED row /\ UNCHANGED torn
  BY <1>1, PushFacts
<1>3. PICK x \in ThreadRecord : x = th[t] /\ x.req \in Requests /\ Req(t) = x.req
  BY <1>2, KnownOf
<1>4. ASSUME Moves(t, "manifest"), Keeps(t), x.req.kind = "cluster" PROVE Sound(t)'
  <2>1. PICK y \in ThreadRecord : /\ y = th'[t] /\ y.pc = "manifest" /\ y.req = x.req /\ y.id = x.id
                                  /\ y.number = x.number /\ y.key = x.key
    BY <1>3, <1>4 DEF Moves, Keeps
  <2>2. Wanted(t)' = Wanted(t) /\ repo'[x.key] = Wanted(t)
    BY <1>1, <1>3, <1>4, <2>1, PushFacts DEF Wanted, Req
  <2>3. Charged(t)' /\ ClusterSound(t)'
    BY <1>1, <1>2, <1>3, <1>4, <2>1, <2>2 DEF Sound, Charged, ClusterSound
  <2>4. PushSound(t)' /\ EditSound(t)' /\ RenameSound(t)' /\ DropSound(t)'
    BY <1>4, <2>1 DEF PushSound, EditSound, RenameSound, DropSound
  <2> QED BY <2>3, <2>4 DEF Sound
<1>5. ASSUME Moves(t, "commit"), Keeps(t), x.req.kind = "rename" PROVE Sound(t)'
  <2>1. PICK y \in ThreadRecord : /\ y = th'[t] /\ y.pc = "commit" /\ y.req = x.req /\ y.id = x.id
                                  /\ y.number = x.number /\ y.key = x.key
    BY <1>3, <1>5 DEF Moves, Keeps
  <2>2. Renumbered(t, x.result)
    BY <1>1, <1>2, <1>3, <1>5 DEF Sound, PushSound
  <2>3. \A k \in Keys : repo'[k] = x.result[k]
    BY <1>1, <1>3, <1>5, PushFacts
  <2>4. Renumbered(t, repo)'
    BY <1>2, <1>3, <2>1, <2>2, <2>3 DEF Renumbered
  <2>5. RenameSound(t)'
    BY <1>1, <1>2, <1>3, <1>5, <2>1, <2>4 DEF Sound, RenameSound
  <2>6. Charged(t)' /\ ClusterSound(t)' /\ PushSound(t)' /\ EditSound(t)' /\ DropSound(t)'
    BY <1>5, <2>1 DEF Charged, ClusterSound, PushSound, EditSound, DropSound
  <2> QED BY <2>5, <2>6 DEF Sound
<1> QED BY <1>3, <1>4, <1>5, PushNext, EndSound

LEMMA ManifestSound ==
  ASSUME TypeOK, CoreInv, NEW t \in Threads, Manifest(t)
  PROVE  Sound(t)'
<1>1. /\ Busy(t) /\ Req(t).kind = "cluster" /\ th[t].pc = "manifest" /\ Sound(t)
      /\ UNCHANGED contract /\ UNCHANGED row /\ UNCHANGED repo
  BY DEF Manifest, At, Busy, CoreInv, rows
<1>2. PICK x \in ThreadRecord : x = th[t] /\ x.req \in Requests /\ Req(t) = x.req
  BY <1>1, KnownOf
<1>3. ASSUME Moves(t, "commit"), Keeps(t),
             manifest' = [manifest EXCEPT ![x.req.base] = Document(t)]
      PROVE  Sound(t)'
  <2>1. PICK y \in ThreadRecord : /\ y = th'[t] /\ y.pc = "commit" /\ y.req = x.req /\ y.id = x.id
                                  /\ y.number = x.number /\ y.key = x.key
    BY <1>2, <1>3 DEF Moves, Keeps
  <2>2. Wanted(t)' = Wanted(t) /\ Document(t)' = Document(t)
    BY <1>2, <2>1 DEF Wanted, Document, Req
  <2>3. x.req.base \in Slugs /\ manifest \in [Slugs -> {None} \cup Manifests]
    BY <1>1, <1>2, RequestTyped DEF TypeOK
  <2>4. manifest'[x.req.base] = Document(t)
    BY <1>3, <2>3
  <2>5. Charged(t)' /\ ClusterSound(t)'
    BY <1>1, <1>2, <2>1, <2>2, <2>4 DEF Sound, Charged, ClusterSound
  <2>6. PushSound(t)' /\ EditSound(t)' /\ RenameSound(t)' /\ DropSound(t)'
    BY <1>1, <1>2, <2>1 DEF PushSound, EditSound, RenameSound, DropSound
  <2> QED BY <2>5, <2>6 DEF Sound
<1> QED BY <1>2, <1>3, ManifestNext, EndSound

\* A cluster that comes to be written finds no manifest but its own.
LEMMA ManifestFree ==
  ASSUME TypeOK, CoreInv, NEW t \in Threads, Manifest(t), ~Failed
  PROVE  manifest[Req(t).base] = None
<1>1. Busy(t) /\ Req(t).kind = "cluster" /\ th[t].pc = "manifest" /\ Sound(t)
  BY DEF Manifest, At, Busy, CoreInv
<1>2. PICK x \in ThreadRecord : x = th[t] /\ x.req \in Requests /\ Req(t) = x.req
  BY <1>1, KnownOf
<1>3. row[x.req.base] = None /\ x.req.base \in Slugs
  BY <1>1, <1>2, RequestTyped DEF Sound, ClusterSound
<1>4. \A u \in Threads : ~Committing(u, x.req.base)
  BY <1>1, <1>2 DEF CoreInv, LockInv, PastLock, Committing
<1> QED BY <1>2, <1>3, <1>4 DEF CoreInv, ManifestsInv

LEMMA ContractsTame ==
  ASSUME TypeOK, NEW t \in Threads, CreateContract(t) \/ MoveContract(t)
  PROVE  Tame /\ UNCHANGED <<row, repo, manifest, asked, failures, torn>>
<1>1. UNCHANGED <<row, repo, manifest, asked, failures, torn>>
  BY DEF CreateContract, MoveContract, gits, history
<1>2. Busy(t) /\ contract \in [Contracts -> ContractRows]
  BY DEF CreateContract, MoveContract, At, Busy, TypeOK
<1>3. PICK r \in Requests : r = Req(t)
  BY <1>2, KnownOf
<1>4. CASE CreateContract(t)
  BY <1>1, <1>2, <1>3, <1>4 DEF CreateContract, Exists, Tame
<1>5. CASE MoveContract(t)
  <2>1. r.contract \in Contracts /\ r.customer \in Customers
    BY <1>3, <1>5, RequestTyped DEF MoveContract, At
  <2>2. CASE contract[r.contract] = None
    BY <1>1, <1>3, <1>5, <2>2 DEF MoveContract, Exists, Tame
  <2>3. CASE contract[r.contract] # None
    <3>1. PICK p \in [number : Numbers, customer : Customers] : p = contract[r.contract]
      BY <1>2, <2>1, <2>3 DEF ContractRows
    <3>2. PICK q : q = [p EXCEPT !.customer = r.customer]
      OBVIOUS
    <3>3. q \in [number : Numbers, customer : Customers] /\ q.number = p.number
      BY <2>1, <3>2
    <3>4. q # None
      BY <3>3, NamesAssumption DEF None
    <3>5. contract' = [contract EXCEPT ![r.contract] = q]
      BY <1>2, <1>3, <1>5, <2>1, <2>3, <3>1, <3>2 DEF MoveContract, Exists
    <3> QED BY <1>1, <1>2, <2>1, <3>1, <3>3, <3>4, <3>5 DEF Tame
  <2> QED BY <2>2, <2>3
<1> QED BY <1>1, <1>4, <1>5

LEMMA TablesTame ==
  ASSUME UNCHANGED Tables
  PROVE  Tame
BY DEF Tables, Tame

\* A request that does not check does not touch what the others rely on.
LEMMA StepTame ==
  ASSUME TypeOK, CoreInv, NEW t \in Threads, Step(t), th[t].req.kind \notin Checking,
         NEW u \in Threads \ {t}, PastLock(u)
  PROVE  /\ row'[th[u].req.base] = row[th[u].req.base]
         /\ manifest'[th[u].req.base] = manifest[th[u].req.base]
<1>1. CASE Manifest(t) \/ CommitCluster(t)
  <2>1. PastLock(t) /\ Req(t) = th[t].req
    BY <1>1 DEF Manifest, CommitCluster, At, PastLock, Busy, Req
  <2>2. th[t].req.base # th[u].req.base
    BY <2>1 DEF CoreInv, LockInv
  <2>3. row \in [Slugs -> {None} \cup Rows] /\ manifest \in [Slugs -> {None} \cup Manifests]
    BY DEF TypeOK
  <2>4. UNCHANGED row \/ \E q : row' = [row EXCEPT ![th[t].req.base] = q]
    BY <1>1, <2>1 DEF Manifest, CommitCluster, rows
  <2>5. UNCHANGED manifest \/ \E q : manifest' = [manifest EXCEPT ![th[t].req.base] = q]
    BY <1>1, <2>1 DEF Manifest, CommitCluster, gits
  <2>6. th[u].req.base \in Slugs
    BY KnownOf, RequestTyped DEF PastLock
  <2> QED BY <2>2, <2>3, <2>4, <2>5, <2>6
<1>2. CASE CreateContract(t) \/ MoveContract(t)
  BY <1>2, ContractsTame
<1>3. CASE Push(t)
  BY <1>3 DEF Push, rows
<1>4. CASE Reads
  BY <1>4, ReadsTables DEF Tables
<1>5. CASE PushFails(t) \/ CommitRename(t) \/ CommitDrop(t) \/ CommitDomain(t)
  BY <1>5 DEF PushFails, CommitRename, CommitDrop, CommitDomain, rows, gits
<1>6. CASE Resize(t)
  <2>1. th[u].req.base \in Slugs
    BY KnownOf, RequestTyped DEF PastLock
  <2>2. row[th[u].req.base] = None
    BY DEF CoreInv, Sound, ClusterSound, PastLock
  <2> QED BY <1>6, <2>1, <2>2, ResizeNext
<1> QED
  BY <1>1, <1>2, <1>3, <1>4, <1>5, <1>6
  DEF Step, Access, CheckProject, CheckMove, Lock, LookUp, Adopt, Pull, CheckRename, Flush,
      CheckDrop, CheckDomain

LEMMA StepKeepsNumbers ==
  ASSUME TypeOK, CoreInv, NEW t \in Threads, Step(t), th[t].req.kind \notin Checking
  PROVE  Tame
<1>1. CASE Manifest(t) \/ CommitCluster(t) \/ PushFails(t)
  BY <1>1 DEF Manifest, CommitCluster, PushFails, Tame, rows, gits
<1>2. CASE CreateContract(t) \/ MoveContract(t)
  BY <1>2, ContractsTame
<1>3. CASE Push(t)
  BY <1>3, PushFacts DEF CoreInv
<1>4. CASE Reads
  BY <1>4, ReadsTables, TablesTame
<1>5. CASE CommitRename(t) \/ CommitDrop(t) \/ CommitDomain(t)
  BY <1>5 DEF CommitRename, CommitDrop, CommitDomain, At, Checking, Req
<1>6. CASE Resize(t)
  BY <1>6, ResizeNext DEF Tame
<1> QED
  BY <1>1, <1>2, <1>3, <1>4, <1>5, <1>6
  DEF Step, Access, CheckProject, CheckMove, Lock, LookUp, Adopt, Pull, CheckRename, Flush,
      CheckDrop, CheckDomain

LEMMA StepSound ==
  ASSUME TypeOK, CoreInv, NEW t \in Threads, Step(t)
  PROVE  \A u \in Threads : Sound(u)'
<1>1. Busy(t) /\ Others(t)
  BY StepMoves DEF Ends, Moves
<1>2. Sound(t)'
  <2>1. CASE \/ CommitCluster(t) \/ PushFails(t) \/ CommitRename(t) \/ CommitDrop(t)
             \/ CommitDomain(t) \/ CreateContract(t) \/ MoveContract(t) \/ Resize(t)
    BY <2>1, OthersEnd, EndSound
  <2>2. CASE CheckProject(t) \/ Lock(t) \/ LookUp(t) \/ Adopt(t) \/ Flush(t)
    BY <2>2, KeptSteps
  <2>3. CASE Access(t) \/ CheckMove(t) \/ CheckRename(t) \/ CheckDrop(t) \/ CheckDomain(t)
    BY <2>3, FirstSteps
  <2>4. CASE Pull(t) \/ Push(t) \/ Manifest(t)
    BY <2>4, PullSound, PushedSound, ManifestSound
  <2> QED BY <2>1, <2>2, <2>3, <2>4 DEF Step
<1>3. ASSUME NEW u \in Threads \ {t} PROVE Sound(u)'
  <2>1. CASE ~Busy(u)
    BY <1>1, <2>1 DEF Others, Sound, Busy
  <2>2. CASE Busy(u)
    <3>1. th[t].req.kind \notin Checking /\ th[u].req.kind \notin Checking /\ Sound(u)
      BY <1>1, <2>2 DEF CoreInv, AloneInv
    <3>2. Tame
      BY <3>1, StepKeepsNumbers
    <3>3. PastLock(u) => /\ row'[th[u].req.base] = row[th[u].req.base]
                         /\ manifest'[th[u].req.base] = manifest[th[u].req.base]
      BY <3>1, StepTame
    <3> QED BY <1>1, <2>2, <3>1, <3>2, <3>3, OthersSound
  <2> QED BY <2>1, <2>2
<1> QED BY <1>2, <1>3

-----------------------------------------------------------------------------
(* Projects, manifests and rows. *)

LEMMA OthersHold ==
  ASSUME NEW t \in Threads, Others(t)
  PROVE  /\ \A u \in Threads \ {t} : th'[u] = th[u] /\ (Busy(u)' <=> Busy(u))
         /\ Renaming /\ ~(th[t].req.kind = "rename" /\ th[t].pc = "commit") => Renaming'
BY DEF Others, Busy, Renaming

LEMMA OwnersHold ==
  ASSUME NEW t \in Threads, Others(t), NEW x
  PROVE  \A u \in Threads \ {t} : /\ Committing(u, x)' <=> Committing(u, x)
                                  /\ Making(u, x)' <=> Making(u, x)
BY OthersHold DEF Committing, Making

LEMMA FailedHolds ==
  ASSUME UNCHANGED <<asked, failures>>
  PROVE  Failed' <=> Failed
BY DEF Failed

ProjectsInv == RowsInv /\ KnownInv /\ ManifestsInv /\ OrphansInv

\* A step that changes no table and gives up nothing.
LEMMA QuietProjects ==
  ASSUME ProjectsInv, NEW t \in Threads, Busy(t), Others(t), UNCHANGED Tables,
         torn => torn', Failed => Failed',
         torn' \/ ~(th[t].req.kind = "rename" /\ th[t].pc = "commit"),
         \/ Failed'
         \/ ~(th[t].req.kind = "cluster" /\ th[t].pc \in {"adopt", "manifest", "commit"})
         \/ /\ Busy(t)' /\ th'[t].req = th[t].req /\ th'[t].key = th[t].key
            /\ th'[t].pc \in {"adopt", "manifest", "commit"}
            /\ th[t].pc # "commit"
  PROVE  ProjectsInv'
<1>1. UNCHANGED contract /\ UNCHANGED row /\ UNCHANGED repo /\ UNCHANGED manifest
  BY DEF Tables
<1>2. RowsInv'
  BY <1>1 DEF ProjectsInv, RowsInv
<1>3. KnownInv'
  BY <1>1, OthersHold DEF ProjectsInv, KnownInv
<1>4. ManifestsInv'
  <2>1. ASSUME NEW s \in Slugs, ~Failed', manifest[s] # None, row[s] = None
        PROVE  \E u \in Threads : Committing(u, s)'
    <3>1. PICK u \in Threads : Committing(u, s)
      BY <2>1 DEF ProjectsInv, ManifestsInv
    <3>2. u # t
      BY <2>1, <3>1 DEF Committing
    <3> QED BY <3>1, <3>2, OwnersHold
  <2> QED BY <1>1, <2>1 DEF ManifestsInv
<1>5. OrphansInv'
  <2>1. ASSUME NEW k \in Keys, ~Failed', repo[k] # None, repo[k].managed,
               ~\E s \in Slugs : row[s] # None /\ row[s].project = k
        PROVE  \E u \in Threads : Making(u, k)'
    <3>1. PICK u \in Threads : Making(u, k)
      BY <2>1 DEF ProjectsInv, OrphansInv
    <3>2. CASE u = t
      BY <2>1, <3>1, <3>2 DEF Making
    <3>3. CASE u # t
      BY <3>1, <3>3, OwnersHold
    <3> QED BY <3>2, <3>3
  <2> QED BY <1>1, <2>1 DEF OrphansInv
<1> QED BY <1>2, <1>3, <1>4, <1>5 DEF ProjectsInv

LEMMA ReadsProjects ==
  ASSUME TypeOK, CoreInv, NEW t \in Threads,
         \/ Access(t) \/ CheckProject(t) \/ CheckMove(t) \/ Lock(t) \/ LookUp(t) \/ Adopt(t)
         \/ CheckRename(t) \/ Flush(t) \/ CheckDrop(t) \/ CheckDomain(t) \/ Pull(t)
         \/ PushFails(t) \/ CommitDomain(t)
  PROVE  ProjectsInv'
<1>1. ProjectsInv
  BY DEF CoreInv, ProjectsInv
<1>2. Step(t)
  BY DEF Step
<1>3. Busy(t) /\ Others(t)
  BY <1>2, StepMoves DEF Ends, Moves
<1>4. UNCHANGED Tables /\ UNCHANGED torn /\ UNCHANGED <<asked, failures>>
  BY ReadsTables DEF Access, CheckProject, CheckMove, Lock, LookUp, Adopt, CheckRename, Flush,
     CheckDrop, CheckDomain, Pull, PushFails, CommitDomain, Tables, rows, gits, history
<1>5. ~(th[t].req.kind = "rename" /\ th[t].pc = "commit")
  BY DEF Access, CheckProject, CheckMove, Lock, LookUp, Adopt, CheckRename, Flush, CheckDrop,
         CheckDomain, Pull, PushFails, CommitDomain, At, Req
<1>6. CASE Adopt(t)
  <2>1. Req(t).kind = "cluster" /\ th[t].pc = "adopt" /\ Sound(t)
    BY <1>6 DEF Adopt, At, CoreInv
  <2>2. PICK x \in ThreadRecord : x = th[t] /\ ThreadOK(x) /\ x.req \in Requests /\ Req(t) = x.req
    BY <1>3, KnownOf
  <2>3. repo[th[t].key] # None
    <3>1. th[t].key \in Keys /\ th[t].number \in Numbers
      BY <2>1, <2>2 DEF ThreadOK
    <3>2. Wanted(t) # None
      BY <1>3, <2>1, <3>1, NewProjects
    <3> QED BY <1>3, <2>1, <2>2, <3>2 DEF Sound, ClusterSound
  <2>4. Moves(t, "manifest") /\ Keeps(t)
    BY <1>6, <2>3, AdoptNext
  <2>5. Busy(t)' /\ th'[t].req = th[t].req /\ th'[t].key = th[t].key /\ th'[t].pc = "manifest"
    BY <2>4 DEF Moves, Keeps, Busy
  <2> QED BY <1>1, <1>3, <1>4, <1>5, <2>1, <2>5, QuietProjects, FailedHolds
<1>7. CASE ~Adopt(t)
  <2>1. ~(th[t].req.kind = "cluster" /\ th[t].pc \in {"adopt", "manifest", "commit"})
    BY <1>7 DEF Access, CheckProject, CheckMove, Lock, LookUp, CheckRename, Flush, CheckDrop,
                CheckDomain, Pull, PushFails, CommitDomain, At, Req
  <2> QED BY <1>1, <1>3, <1>4, <1>5, <2>1, QuietProjects, FailedHolds
<1> QED BY <1>6, <1>7

\* A row's project and manifest stay when managed projects and manifests do.
LEMMA TameRows ==
  ASSUME TypeOK, RowsInv, Tame, UNCHANGED row, UNCHANGED manifest
  PROVE  RowsInv'
<1>1. ASSUME NEW s \in Slugs, row[s] # None
      PROVE  /\ contract'[row[s].contract] # None
             /\ contract'[row[s].contract].number = contract[row[s].contract].number
             /\ repo'[row[s].project] = repo[row[s].project]
  <2>1. PICK q \in Rows : q = row[s]
    BY <1>1 DEF TypeOK
  <2>2. q.contract \in Contracts /\ q.project \in Keys
    BY DEF Rows
  <2>3. contract[q.contract] # None /\ contract[q.contract].number \in Numbers
    BY <1>1, <2>1, <2>2 DEF RowsInv, TypeOK, ContractRows, None
  <2>4. repo[q.project] # None /\ repo[q.project].managed
    <3>1. repo[q.project] = [number |-> contract[q.contract].number, managed |-> TRUE,
                             quotas |-> q.initial]
      BY <1>1, <2>1 DEF RowsInv
    <3> QED BY <2>3, <3>1, NamesAssumption DEF None
  <2> QED BY <2>1, <2>2, <2>3, <2>4 DEF Tame
<1> QED BY <1>1 DEF RowsInv

LEMMA PushProjects ==
  ASSUME TypeOK, CoreInv, NEW t \in Threads, Push(t)
  PROVE  ProjectsInv'
<1>1. /\ Busy(t) /\ th[t].pc = "push" /\ Tame /\ Sound(t)
      /\ UNCHANGED contract /\ UNCHANGED row /\ UNCHANGED manifest /\ UNCHANGED torn
      /\ UNCHANGED <<asked, failures>>
  BY PushFacts DEF CoreInv
<1>2. /\ Others(t)
      /\ th[t].req.kind = "rename" => Renaming'
      /\ \A k : th[t].req.kind = "cluster" /\ k = th[t].key => Making(t, k)'
  BY <1>1, PushNext DEF Ends, Moves, Keeps, Renaming, Making, Busy, Req
<1>3. RowsInv'
  BY <1>1, TameRows DEF CoreInv
<1>4. KnownInv'
  <2>1. ASSUME NEW k \in Keys, repo'[k] # None, ~torn, ~Renaming'
        PROVE  Known(contract, repo'[k].number)
    <3>1. repo'[k] = repo[k] \/ Known(contract, repo'[k].number)
      BY <1>1, <1>2, <2>1, PushFacts
    <3>2. ~Renaming
      BY <1>1, <1>2, <2>1, OthersHold
    <3> QED BY <2>1, <3>1, <3>2 DEF CoreInv, KnownInv
  <2> QED BY <1>1, <2>1 DEF KnownInv
<1>5. ManifestsInv'
  <2>1. ASSUME NEW s \in Slugs, ~Failed, manifest[s] # None, row[s] = None
        PROVE  \E u \in Threads : Committing(u, s)'
    <3>1. PICK u \in Threads : Committing(u, s)
      BY <2>1 DEF CoreInv, ManifestsInv
    <3>2. u # t
      BY <1>1, <3>1 DEF Committing
    <3> QED BY <1>2, <3>1, <3>2, OwnersHold
  <2> QED BY <1>1, <2>1, FailedHolds DEF ManifestsInv
<1>6. OrphansInv'
  <2>1. ASSUME NEW k \in Keys, ~Failed, repo'[k] # None, repo'[k].managed,
               ~\E s \in Slugs : row[s] # None /\ row[s].project = k
        PROVE  \E u \in Threads : Making(u, k)'
    <3>1. repo'[k] = repo[k] \/ (th[t].req.kind = "cluster" /\ k = th[t].key)
      BY <1>1, <2>1, PushFacts
    <3>2. CASE repo'[k] = repo[k]
      <4>1. PICK u \in Threads : Making(u, k)
        BY <2>1, <3>2 DEF CoreInv, OrphansInv
      <4>2. u # t
        BY <1>1, <4>1 DEF Making
      <4> QED BY <1>2, <4>1, <4>2, OwnersHold
    <3>3. CASE th[t].req.kind = "cluster" /\ k = th[t].key
      BY <1>2, <3>3
    <3> QED BY <3>1, <3>2, <3>3
  <2> QED BY <1>1, <2>1, FailedHolds DEF OrphansInv
<1> QED BY <1>3, <1>4, <1>5, <1>6 DEF ProjectsInv

LEMMA ContractsProjects ==
  ASSUME TypeOK, CoreInv, NEW t \in Threads, CreateContract(t) \/ MoveContract(t)
  PROVE  ProjectsInv'
<1>1. /\ Tame /\ UNCHANGED row /\ UNCHANGED repo /\ UNCHANGED manifest /\ UNCHANGED torn
      /\ UNCHANGED <<asked, failures>>
  BY ContractsTame
<1>2. Ends(t) /\ Others(t)
  BY OthersEnd DEF Ends
<1>3. th[t].pc = "begin"
  BY DEF CreateContract, MoveContract, At
<1>4. RowsInv'
  BY <1>1, TameRows DEF CoreInv
<1>5. KnownInv'
  BY <1>1, <1>2, <1>3, OthersHold, TameKnown DEF CoreInv, KnownInv
<1>6. ManifestsInv'
  <2>1. ASSUME NEW s \in Slugs, ~Failed, manifest[s] # None, row[s] = None
        PROVE  \E u \in Threads : Committing(u, s)'
    <3>1. PICK u \in Threads : Committing(u, s)
      BY <2>1 DEF CoreInv, ManifestsInv
    <3>2. u # t
      BY <1>3, <3>1 DEF Committing
    <3> QED BY <1>2, <3>1, <3>2, OwnersHold
  <2> QED BY <1>1, <2>1, FailedHolds DEF ManifestsInv
<1>7. OrphansInv'
  <2>1. ASSUME NEW k \in Keys, ~Failed, repo[k] # None, repo[k].managed,
               ~\E s \in Slugs : row[s] # None /\ row[s].project = k
        PROVE  \E u \in Threads : Making(u, k)'
    <3>1. PICK u \in Threads : Making(u, k)
      BY <2>1 DEF CoreInv, OrphansInv
    <3>2. u # t
      BY <1>3, <3>1 DEF Making
    <3> QED BY <1>2, <3>1, <3>2, OwnersHold
  <2> QED BY <1>1, <2>1, FailedHolds DEF OrphansInv
<1> QED BY <1>4, <1>5, <1>6, <1>7 DEF ProjectsInv

LEMMA ManifestProjects ==
  ASSUME TypeOK, CoreInv, NEW t \in Threads, Manifest(t)
  PROVE  ProjectsInv'
<1>1. /\ Busy(t) /\ Req(t).kind = "cluster" /\ th[t].pc = "manifest" /\ Sound(t)
      /\ UNCHANGED contract /\ UNCHANGED row /\ UNCHANGED repo /\ UNCHANGED torn
      /\ UNCHANGED <<asked, failures>>
  BY DEF Manifest, At, Busy, CoreInv, rows, history
<1>2. PICK x \in ThreadRecord : x = th[t] /\ x.req \in Requests /\ Req(t) = x.req
  BY <1>1, KnownOf
<1>3. /\ x.req.base \in Slugs /\ row[x.req.base] = None
      /\ manifest \in [Slugs -> {None} \cup Manifests]
  BY <1>1, <1>2, RequestTyped DEF Sound, ClusterSound, TypeOK
<1>4. /\ Others(t)
      /\ UNCHANGED manifest \/ manifest' = [manifest EXCEPT ![x.req.base] = Document(t)]
      /\ ~Failed => /\ Making(t, x.key)' /\ Committing(t, x.req.base)'
                    /\ manifest' = [manifest EXCEPT ![x.req.base] = Document(t)]
  BY <1>1, <1>2, ManifestNext, ManifestFree
  DEF Ends, Moves, Keeps, Making, Committing, Busy
<1>5. \A s \in Slugs : s # x.req.base => manifest'[s] = manifest[s]
  BY <1>3, <1>4
<1>6. RowsInv'
  BY <1>1, <1>3, <1>5 DEF CoreInv, RowsInv
<1>7. KnownInv'
  BY <1>1, <1>4, OthersHold DEF CoreInv, KnownInv
<1>8. ManifestsInv'
  <2>1. ASSUME NEW s \in Slugs, ~Failed, manifest'[s] # None, row[s] = None
        PROVE  \E u \in Threads : Committing(u, s)'
    <3>1. CASE s = x.req.base
      BY <1>4, <2>1, <3>1
    <3>2. CASE s # x.req.base
      <4>1. PICK u \in Threads : Committing(u, s)
        BY <1>5, <2>1, <3>2 DEF CoreInv, ManifestsInv
      <4>2. u # t
        BY <1>1, <4>1 DEF Committing
      <4> QED BY <1>4, <4>1, <4>2, OwnersHold
    <3> QED BY <3>1, <3>2
  <2> QED BY <1>1, <2>1, FailedHolds DEF ManifestsInv
<1>9. OrphansInv'
  <2>1. ASSUME NEW k \in Keys, ~Failed, repo[k] # None, repo[k].managed,
               ~\E s \in Slugs : row[s] # None /\ row[s].project = k
        PROVE  \E u \in Threads : Making(u, k)'
    <3>1. PICK u \in Threads : Making(u, k)
      BY <2>1 DEF CoreInv, OrphansInv
    <3>2. CASE u = t
      BY <1>2, <1>4, <2>1, <3>1, <3>2 DEF Making
    <3>3. CASE u # t
      BY <1>4, <3>1, <3>3, OwnersHold
    <3> QED BY <3>2, <3>3
  <2> QED BY <1>1, <2>1, FailedHolds DEF OrphansInv
<1> QED BY <1>6, <1>7, <1>8, <1>9 DEF ProjectsInv

LEMMA CommitProjects ==
  ASSUME TypeOK, CoreInv, NEW t \in Threads, CommitCluster(t)
  PROVE  ProjectsInv'
<1>1. /\ Busy(t) /\ Req(t).kind = "cluster" /\ th[t].pc = "commit" /\ Sound(t) /\ Ends(t)
      /\ Others(t)
      /\ UNCHANGED contract /\ UNCHANGED manifest /\ UNCHANGED repo /\ UNCHANGED torn
      /\ UNCHANGED <<asked, failures>>
  BY OthersEnd DEF CommitCluster, At, Busy, CoreInv, gits, history, Ends
<1>2. PICK x \in ThreadRecord : x = th[t] /\ ThreadOK(x) /\ x.req \in Requests /\ Req(t) = x.req
  BY <1>1, KnownOf
<1>3. PICK s0 \in Slugs : s0 = x.req.base
  BY <1>1, <1>2, RequestTyped
<1>4. x.id \in Contracts /\ x.number \in Numbers /\ x.key \in Keys /\ x.req.groups \in Nat
  BY <1>1, <1>2, RequestTyped DEF ThreadOK
<1>5. /\ contract[x.id] # None /\ contract[x.id].number = x.number /\ row[s0] = None
      /\ repo[x.key] = Wanted(t) /\ manifest[s0] = Document(t)
  BY <1>1, <1>2, <1>3 DEF Sound, ClusterSound
<1>6. PICK q : q = [number |-> "row", contract |-> x.id, groups |-> x.req.groups,
                initial |-> x.req.groups, project |-> x.key]
  OBVIOUS
<1>7. /\ q # None /\ q.contract = x.id /\ q.initial = x.req.groups /\ q.project = x.key
  BY <1>6 DEF None
<1>8. row' = [row EXCEPT ![s0] = q] /\ row \in [Slugs -> {None} \cup Rows]
  BY <1>2, <1>3, <1>5, <1>6 DEF CommitCluster, Exists, TypeOK
<1>9. row'[s0] = q /\ \A s \in Slugs : s # s0 => row'[s] = row[s]
  BY <1>8
<1>10. RowsInv'
  <2>1. manifest[s0] = [number |-> contract[q.contract].number, groups |-> q.initial,
                        project |-> q.project]
    BY <1>2, <1>5, <1>7 DEF Document
  <2>2. repo[q.project] = [number |-> contract[q.contract].number, managed |-> TRUE,
                           quotas |-> q.initial]
    BY <1>2, <1>5, <1>7 DEF Wanted
  <2>3. ASSUME NEW s \in Slugs, row'[s] # None
        PROVE  /\ contract[row'[s].contract] # None
               /\ manifest[s] = [number |-> contract[row'[s].contract].number,
                                 groups |-> row'[s].initial, project |-> row'[s].project]
               /\ repo[row'[s].project] = [number |-> contract[row'[s].contract].number,
                                           managed |-> TRUE, quotas |-> row'[s].initial]
    <3>1. CASE s = s0
      BY <1>5, <1>7, <1>9, <2>1, <2>2, <3>1
    <3>2. CASE s # s0
      BY <1>9, <2>3, <3>2 DEF CoreInv, RowsInv
    <3> QED BY <3>1, <3>2
  <2> QED BY <1>1, <2>3 DEF RowsInv
<1>11. KnownInv'
  BY <1>1, <1>2, OthersHold DEF CoreInv, KnownInv
<1>12. ManifestsInv'
  <2>1. ASSUME NEW s \in Slugs, ~Failed, manifest[s] # None, row'[s] = None
        PROVE  \E u \in Threads : Committing(u, s)'
    <3>1. s # s0 /\ row[s] = None
      BY <1>7, <1>9, <2>1
    <3>2. PICK u \in Threads : Committing(u, s)
      BY <2>1, <3>1 DEF CoreInv, ManifestsInv
    <3>3. u # t
      BY <1>2, <1>3, <3>1, <3>2 DEF Committing
    <3> QED BY <1>1, <3>2, <3>3, OwnersHold
  <2> QED BY <1>1, <2>1, FailedHolds DEF ManifestsInv
<1>13. OrphansInv'
  <2>1. ASSUME NEW k \in Keys, ~Failed, repo[k] # None, repo[k].managed,
               ~\E s \in Slugs : row'[s] # None /\ row'[s].project = k
        PROVE  \E u \in Threads : Making(u, k)'
    <3>1. k # x.key /\ ~\E s \in Slugs : row[s] # None /\ row[s].project = k
      BY <1>5, <1>7, <1>9, <2>1
    <3>2. PICK u \in Threads : Making(u, k)
      BY <2>1, <3>1 DEF CoreInv, OrphansInv
    <3>3. u # t
      BY <1>2, <3>1, <3>2 DEF Making
    <3> QED BY <1>1, <3>2, <3>3, OwnersHold
  <2> QED BY <1>1, <2>1, FailedHolds DEF OrphansInv
<1> QED BY <1>10, <1>11, <1>12, <1>13 DEF ProjectsInv

\* A renaming keeps its projects and finds no cluster under the contract.
LEMMA RenameProjects ==
  ASSUME TypeOK, CoreInv, NEW t \in Threads, CommitRename(t)
  PROVE  ProjectsInv'
<1>1. /\ Busy(t) /\ Req(t).kind = "rename" /\ th[t].pc = "commit" /\ Sound(t) /\ Ends(t)
      /\ Others(t)
      /\ UNCHANGED row /\ UNCHANGED manifest /\ UNCHANGED repo /\ UNCHANGED torn
      /\ UNCHANGED <<asked, failures>>
  BY OthersEnd DEF CommitRename, At, Busy, CoreInv, gits, history, Ends
<1>2. PICK x \in ThreadRecord : x = th[t] /\ ThreadOK(x) /\ x.req \in Requests /\ Req(t) = x.req
  BY <1>1, KnownOf
<1>3. PICK n \in Numbers : n = x.req.number
  BY <1>1, <1>2, RequestTyped
<1>4. PICK c \in Contracts : c = x.id
  BY <1>1, <1>2 DEF ThreadOK
<1>5. contract[c] # None /\ contract[c].number = x.number /\ Renumbered(t, repo)
  BY <1>1, <1>2, <1>4 DEF Sound, RenameSound
<1>6. contract \in [Contracts -> ContractRows]
  BY DEF TypeOK
<1>7. PICK p \in [number : Numbers, customer : Customers] : p = contract[c]
  BY <1>5, <1>6 DEF ContractRows
<1>8. PICK q : q = [p EXCEPT !.number = n]
  OBVIOUS
<1>9. q \in [number : Numbers, customer : Customers] /\ q.number = n
  BY <1>8
<1>10. q # None
  BY <1>9, NamesAssumption DEF None
<1>11. contract' = [contract EXCEPT ![c] = q]
  BY <1>2, <1>3, <1>4, <1>5, <1>6, <1>7, <1>8 DEF CommitRename
<1>12. contract'[c] = q /\ \A d \in Contracts : d # c => contract'[d] = contract[d]
  BY <1>6, <1>11
<1>13. RowsInv'
  <2>1. ASSUME NEW s \in Slugs, row[s] # None
        PROVE  contract'[row[s].contract] = contract[row[s].contract]
    <3>1. PICK r \in Rows : r = row[s]
      BY <2>1 DEF TypeOK
    <3>2. r.contract \in Contracts /\ r.project \in Keys
      BY DEF Rows
    <3>3. CASE r.contract = c
      <4>1. repo[r.project] = [number |-> x.number, managed |-> TRUE, quotas |-> r.initial]
        BY <1>5, <2>1, <3>1, <3>3 DEF CoreInv, RowsInv
      <4>2. repo[r.project].number = x.number /\ repo[r.project] # None
        BY <1>5, <1>7, <4>1, NamesAssumption DEF None
      <4> QED BY <1>2, <1>5, <3>2, <4>2 DEF Renumbered
    <3>4. CASE r.contract # c
      BY <1>12, <3>1, <3>2, <3>4
    <3> QED BY <3>3, <3>4
  <2> QED BY <1>1, <2>1 DEF CoreInv, RowsInv
<1>14. KnownInv'
  <2>1. ASSUME NEW k \in Keys, repo[k] # None, ~torn
        PROVE  Known(contract', repo[k].number)
    <3>1. /\ repo[k].number # x.number
          /\ repo[k].number = n \/ Known(contract, repo[k].number)
      BY <1>2, <1>3, <1>5, <2>1 DEF Renumbered
    <3>2. CASE repo[k].number = n
      BY <1>9, <1>10, <1>12, <3>2 DEF Known
    <3>3. CASE Known(contract, repo[k].number)
      <4>1. PICK d \in Contracts : contract[d] # None /\ contract[d].number = repo[k].number
        BY <3>3 DEF Known
      <4>2. d # c
        BY <1>5, <3>1, <4>1
      <4> QED BY <1>12, <4>1, <4>2 DEF Known
    <3> QED BY <3>1, <3>2, <3>3
  <2> QED BY <1>1, <2>1 DEF KnownInv
<1>15. ManifestsInv'
  <2>1. ASSUME NEW s \in Slugs, ~Failed, manifest[s] # None, row[s] = None
        PROVE  \E u \in Threads : Committing(u, s)'
    <3>1. PICK u \in Threads : Committing(u, s)
      BY <2>1 DEF CoreInv, ManifestsInv
    <3>2. u # t
      BY <1>1, <1>2, <3>1 DEF Committing
    <3> QED BY <1>1, <3>1, <3>2, OwnersHold
  <2> QED BY <1>1, <2>1, FailedHolds DEF ManifestsInv
<1>16. OrphansInv'
  <2>1. ASSUME NEW k \in Keys, ~Failed, repo[k] # None, repo[k].managed,
               ~\E s \in Slugs : row[s] # None /\ row[s].project = k
        PROVE  \E u \in Threads : Making(u, k)'
    <3>1. PICK u \in Threads : Making(u, k)
      BY <2>1 DEF CoreInv, OrphansInv
    <3>2. u # t
      BY <1>1, <1>2, <3>1 DEF Making
    <3> QED BY <1>1, <3>1, <3>2, OwnersHold
  <2> QED BY <1>1, <2>1, FailedHolds DEF OrphansInv
<1> QED BY <1>13, <1>14, <1>15, <1>16 DEF ProjectsInv

\* A contract that is dropped has neither projects nor clusters.
LEMMA DropProjects ==
  ASSUME TypeOK, CoreInv, NEW t \in Threads, CommitDrop(t)
  PROVE  ProjectsInv'
<1>1. /\ Busy(t) /\ Req(t).kind = "drop" /\ th[t].pc = "commit" /\ Sound(t) /\ Ends(t)
      /\ Others(t)
      /\ UNCHANGED row /\ UNCHANGED manifest /\ UNCHANGED repo /\ UNCHANGED torn
      /\ UNCHANGED <<asked, failures>>
  BY OthersEnd DEF CommitDrop, At, Busy, CoreInv, gits, history, Ends
<1>2. PICK x \in ThreadRecord : x = th[t] /\ ThreadOK(x) /\ x.req \in Requests /\ Req(t) = x.req
  BY <1>1, KnownOf
<1>3. PICK c \in Contracts : c = x.id
  BY <1>1, <1>2 DEF ThreadOK
<1>4. \A k \in Keys : repo[k] # None => repo[k].number # contract[c].number
  BY <1>1, <1>2, <1>3 DEF Sound, DropSound
<1>5. contract \in [Contracts -> ContractRows]
  BY DEF TypeOK
<1>6. /\ UNCHANGED contract \/ \A s \in Slugs : row[s] # None => row[s].contract # c
      /\ \A d \in Contracts : d # c => contract'[d] = contract[d]
  BY <1>2, <1>3, <1>5 DEF CommitDrop
<1>7. RowsInv'
  <2>1. ASSUME NEW s \in Slugs, row[s] # None
        PROVE  contract'[row[s].contract] = contract[row[s].contract]
    <3>1. row[s].contract \in Contracts
      BY <2>1 DEF TypeOK, Rows
    <3> QED BY <1>6, <2>1, <3>1
  <2> QED BY <1>1, <2>1 DEF CoreInv, RowsInv
<1>8. KnownInv'
  <2>1. ASSUME NEW k \in Keys, repo[k] # None, ~torn, ~Renaming'
        PROVE  Known(contract', repo[k].number)
    <3>1. ~Renaming
      BY <1>1, <1>2, <2>1, OthersHold
    <3>2. PICK d \in Contracts : contract[d] # None /\ contract[d].number = repo[k].number
      BY <2>1, <3>1 DEF CoreInv, KnownInv, Known
    <3>3. d # c
      BY <1>4, <2>1, <3>2
    <3> QED BY <1>6, <3>2, <3>3 DEF Known
  <2> QED BY <1>1, <2>1 DEF KnownInv
<1>9. ManifestsInv'
  <2>1. ASSUME NEW s \in Slugs, ~Failed, manifest[s] # None, row[s] = None
        PROVE  \E u \in Threads : Committing(u, s)'
    <3>1. PICK u \in Threads : Committing(u, s)
      BY <2>1 DEF CoreInv, ManifestsInv
    <3>2. u # t
      BY <1>1, <1>2, <3>1 DEF Committing
    <3> QED BY <1>1, <3>1, <3>2, OwnersHold
  <2> QED BY <1>1, <2>1, FailedHolds DEF ManifestsInv
<1>10. OrphansInv'
  <2>1. ASSUME NEW k \in Keys, ~Failed, repo[k] # None, repo[k].managed,
               ~\E s \in Slugs : row[s] # None /\ row[s].project = k
        PROVE  \E u \in Threads : Making(u, k)'
    <3>1. PICK u \in Threads : Making(u, k)
      BY <2>1 DEF CoreInv, OrphansInv
    <3>2. u # t
      BY <1>1, <1>2, <3>1 DEF Making
    <3> QED BY <1>1, <3>1, <3>2, OwnersHold
  <2> QED BY <1>1, <2>1, FailedHolds DEF OrphansInv
<1> QED BY <1>7, <1>8, <1>9, <1>10 DEF ProjectsInv

\* A resize leaves what a row has in git, which is of the size at first.
LEMMA ResizeProjects ==
  ASSUME TypeOK, CoreInv, NEW t \in Threads, Resize(t)
  PROVE  ProjectsInv'
<1>1. /\ UNCHANGED contract /\ UNCHANGED repo /\ UNCHANGED manifest /\ UNCHANGED torn
      /\ UNCHANGED <<asked, failures>> /\ th[t].pc = "begin"
  BY ResizeNext
<1>2. \A s \in Slugs :
        /\ row'[s] = None <=> row[s] = None
        /\ row[s] # None => /\ row'[s].contract = row[s].contract
                            /\ row'[s].initial = row[s].initial
                            /\ row'[s].project = row[s].project
  BY ResizeNext
<1>3. Ends(t) /\ Others(t)
  BY OthersEnd DEF Ends
<1>4. RowsInv'
  BY <1>1, <1>2 DEF CoreInv, RowsInv
<1>5. KnownInv'
  BY <1>1, <1>3, OthersHold DEF CoreInv, KnownInv
<1>6. ManifestsInv'
  <2>1. ASSUME NEW s \in Slugs, ~Failed, manifest[s] # None, row[s] = None
        PROVE  \E u \in Threads : Committing(u, s)'
    <3>1. PICK u \in Threads : Committing(u, s)
      BY <2>1 DEF CoreInv, ManifestsInv
    <3>2. u # t
      BY <1>1, <3>1 DEF Committing
    <3> QED BY <1>3, <3>1, <3>2, OwnersHold
  <2> QED BY <1>1, <1>2, <2>1, FailedHolds DEF ManifestsInv
<1>7. OrphansInv'
  <2>1. ASSUME NEW k \in Keys, ~Failed, repo[k] # None, repo[k].managed,
               ~\E s \in Slugs : row[s] # None /\ row[s].project = k
        PROVE  \E u \in Threads : Making(u, k)'
    <3>1. PICK u \in Threads : Making(u, k)
      BY <2>1 DEF CoreInv, OrphansInv
    <3>2. u # t
      BY <1>1, <3>1 DEF Making
    <3> QED BY <1>3, <3>1, <3>2, OwnersHold
  <2> QED BY <1>1, <1>2, <2>1, FailedHolds DEF OrphansInv
<1> QED BY <1>4, <1>5, <1>6, <1>7 DEF ProjectsInv

-----------------------------------------------------------------------------
(* The invariant. *)

\* A failure takes from the budget.
LEMMA FailFails ==
  ASSUME TypeOK, Budget, NEW t \in Threads, Fail(t)
  PROVE  Failed' /\ Budget'
<1>1. PICK s \in Starts : s.asked = asked /\ failures <= s.failures
  BY DEF Budget
<1>2. s.failures \in Nat /\ failures \in Nat /\ failures' = failures - 1 /\ asked' = asked
  BY StartsAssumption DEF TypeOK, Fail
<1>3. s.failures > failures' /\ failures' <= s.failures
  BY <1>1, <1>2
<1> QED BY <1>1, <1>2, <1>3 DEF Failed, Budget

LEMMA NextCore ==
  ASSUME IInv, [Next]_vars
  PROVE  IInv'
<1>1. TInv' /\ TypeOK
  BY NextTyped DEF IInv, TInv
<1>2. CASE UNCHANGED vars
  <2>1. Budget'
    BY <1>2 DEF IInv, Budget, vars
  <2>2. CoreInv => CoreInv'
    <3>1. AloneInv /\ LockInv => AloneInv' /\ LockInv'
      BY <1>2 DEF AloneInv, LockInv, PastLock, Busy, vars
    <3>2. RowsInv /\ KnownInv => RowsInv' /\ KnownInv'
      BY <1>2 DEF RowsInv, KnownInv, Renaming, Known, Busy, vars
    <3>3. ManifestsInv /\ OrphansInv => ManifestsInv' /\ OrphansInv'
      BY <1>2 DEF ManifestsInv, OrphansInv, Committing, Making, Failed, Busy, vars
    <3>4. ASSUME NEW t \in Threads, Sound(t) PROVE Sound(t)'
      BY <1>2, <3>4 DEF Sound, Charged, ClusterSound, PushSound, EditSound, RenameSound, DropSound,
           Renumbered, Known, Wanted, Document, Busy, Req, vars
    <3> QED BY <3>1, <3>2, <3>3, <3>4 DEF CoreInv
  <2> QED BY <1>1, <1>2, <2>1, <2>2 DEF IInv, vars
<1>3. ASSUME NEW t \in Threads, Step(t) PROVE IInv'
  <2>1. UNCHANGED <<asked, failures, crossed>>
    BY <1>3 DEF Step, Access, CheckProject, CheckMove, Lock, LookUp, Adopt, Manifest,
         CommitCluster, Pull, Push, PushFails, CheckRename, Flush, CommitRename, CheckDrop,
         CommitDrop, CheckDomain, CommitDomain, CreateContract, MoveContract, Resize, Reads, history
  <2>2. Budget'
    BY <2>1 DEF IInv, Budget
  <2>3. ASSUME CoreInv PROVE CoreInv'
    <3>1. Busy(t) /\ (Ends(t) \/ \E pc : Moves(t, pc))
      BY <1>1, <1>3, StepMoves
    <3>2. AloneInv' /\ LockInv'
      BY <1>1, <1>3, <2>3, <3>1, AloneStep, LockStep DEF CoreInv
    <3>3. \A u \in Threads : Sound(u)'
      BY <1>1, <1>3, <2>3, StepSound
    <3>4. ProjectsInv'
      BY <1>1, <1>3, <2>3, ReadsProjects, PushProjects, ContractsProjects, ManifestProjects,
         CommitProjects, ResizeProjects, RenameProjects, DropProjects DEF Step
    <3> QED BY <3>2, <3>3, <3>4 DEF CoreInv, ProjectsInv
  <2> QED BY <1>1, <2>1, <2>2, <2>3 DEF IInv
<1>4. ASSUME NEW t \in Threads, Fail(t) PROVE IInv'
  <2>1. Failed' /\ Budget' /\ UNCHANGED crossed
    BY <1>1, <1>4, FailFails DEF IInv, Fail
  <2>2. ASSUME CoreInv PROVE CoreInv'
    <3>1. Busy(t) /\ Ends(t) /\ Others(t) /\ UNCHANGED Tables
      BY <1>1, <1>4, OthersEnd DEF Fail, Ends, Tables, rows, gits
    <3>2. AloneInv' /\ LockInv'
      BY <1>1, <2>2, <3>1, AloneStep, LockStep DEF CoreInv
    <3>3. ASSUME NEW u \in Threads PROVE Sound(u)'
      <4>1. CASE u = t
        BY <3>1, <4>1, EndSound
      <4>2. CASE u # t /\ ~Busy(u)
        BY <3>1, <4>2 DEF Others, Sound, Busy
      <4>3. CASE u # t /\ Busy(u)
        <5>1. th[u].req.kind \notin Checking /\ Sound(u)
          BY <2>2, <3>1, <4>3 DEF CoreInv, AloneInv
        <5>2. Tame
          BY <3>1, TablesTame
        <5>3. UNCHANGED row /\ UNCHANGED manifest
          BY <3>1 DEF Tables
        <5> QED BY <1>1, <3>1, <4>3, <5>1, <5>2, <5>3, OthersSound
      <4> QED BY <4>1, <4>2, <4>3
    <3>4. torn' \/ ~(th[t].req.kind = "rename" /\ th[t].pc = "commit")
      BY <1>4 DEF Fail, At, Req
    <3>5. torn => torn'
      BY <1>4 DEF Fail
    <3>6. ProjectsInv'
      BY <2>1, <2>2, <3>1, <3>4, <3>5, QuietProjects DEF CoreInv, ProjectsInv
    <3> QED BY <3>2, <3>3, <3>6 DEF CoreInv, ProjectsInv
  <2> QED BY <1>1, <2>1, <2>2 DEF IInv
<1>5. ASSUME NEW t \in Threads, NEW r \in todo, Begin(t, r) PROVE IInv'
  <2>1. /\ ~Busy(t) /\ UNCHANGED Tables /\ UNCHANGED torn /\ UNCHANGED <<asked, failures>>
        /\ crossed => crossed'
    BY <1>5 DEF Begin, Tables, rows, gits
  <2>2. Budget'
    BY <2>1 DEF IInv, Budget
  <2>3. PICK x : x = Begun(r)
    OBVIOUS
  <2>4. x.pc = "begin" /\ x.req = r
    BY <2>3 DEF Begun
  <2>5. th'[t] = x /\ Others(t) /\ Busy(t)'
    BY <1>1, <1>5, <2>3, <2>4 DEF Begin, TypeOK, Others, Busy
  <2>6. ASSUME CoreInv, ~crossed' PROVE CoreInv'
    <3>1. \A u \in Threads : Busy(u) => r.kind \notin Checking /\ th[u].req.kind \notin Checking
      BY <1>5, <2>6 DEF Begin, Req
    <3>2. AloneInv'
      BY <2>1, <2>4, <2>5, <2>6, <3>1, OthersHold DEF CoreInv, AloneInv
    <3>3. \A u \in Threads \ {t} : th'[u] = th[u] /\ (PastLock(u)' <=> PastLock(u))
      BY <2>5 DEF Others, PastLock, Busy
    <3>4. ~PastLock(t)'
      BY <2>4, <2>5 DEF PastLock
    <3>5. LockInv'
      BY <2>6, <3>3, <3>4 DEF CoreInv, LockInv
    <3>6. ASSUME NEW u \in Threads PROVE Sound(u)'
      <4>1. CASE u = t
        BY <2>4, <2>5, <4>1 DEF Sound, Charged, ClusterSound, PushSound, EditSound, RenameSound,
                                DropSound
      <4>2. CASE u # t /\ ~Busy(u)
        BY <2>5, <4>2 DEF Others, Sound, Busy
      <4>3. CASE u # t /\ Busy(u)
        <5>1. th[u].req.kind \notin Checking /\ Sound(u)
          BY <2>6, <3>1, <4>3 DEF CoreInv
        <5>2. Tame
          BY <2>1, TablesTame
        <5>3. UNCHANGED row /\ UNCHANGED manifest
          BY <2>1 DEF Tables
        <5> QED BY <1>1, <2>5, <4>3, <5>1, <5>2, <5>3, OthersSound
      <4> QED BY <4>1, <4>2, <4>3
    <3>7. ProjectsInv'
      <4>1. UNCHANGED contract /\ UNCHANGED row /\ UNCHANGED repo /\ UNCHANGED manifest
        BY <2>1 DEF Tables
      <4>2. Failed' <=> Failed
        BY <2>1, FailedHolds
      <4>3. RowsInv'
        BY <2>6, <4>1 DEF CoreInv, RowsInv
      <4>4. Renaming => Renaming'
        BY <2>1, <2>5, OthersHold DEF Renaming
      <4>5. KnownInv'
        BY <2>1, <2>6, <4>1, <4>4 DEF CoreInv, KnownInv
      <4>6. ASSUME NEW k, NEW u \in Threads
            PROVE  (Committing(u, k) => Committing(u, k)') /\ (Making(u, k) => Making(u, k)')
        <5>1. CASE u = t
          BY <2>1, <5>1 DEF Committing, Making
        <5>2. CASE u # t
          BY <2>5, <5>2, OwnersHold
        <5> QED BY <5>1, <5>2
      <4>7. ManifestsInv' /\ OrphansInv'
        BY <2>6, <4>1, <4>2, <4>6 DEF CoreInv, ManifestsInv, OrphansInv
      <4> QED BY <4>3, <4>5, <4>7 DEF ProjectsInv
    <3> QED BY <3>2, <3>5, <3>6, <3>7 DEF CoreInv, ProjectsInv
  <2> QED BY <1>1, <2>1, <2>2, <2>6 DEF IInv
<1> QED BY <1>2, <1>3, <1>4, <1>5 DEF Next

LEMMA InitCore == Init => IInv
<1> SUFFICES ASSUME Init PROVE IInv
  OBVIOUS
<1>1. PICK s \in Starts :
        /\ contract = s.contract /\ domain = s.domain /\ repo = s.repo
        /\ asked = s.asked /\ todo = s.asked /\ failures = s.failures
  BY DEF Init
<1>2. \A t \in Threads : ~Busy(t)
  BY DEF Init, Busy, Idle
<1>3. (\A c \in Slugs : row[c] = None) /\ (\A c \in Slugs : manifest[c] = None)
  BY DEF Init
<1>4. Budget
  BY <1>1, StartsAssumption DEF Budget
<1>5. AloneInv /\ LockInv /\ \A t \in Threads : Sound(t)
  BY <1>2 DEF AloneInv, LockInv, PastLock, Sound
<1>6. RowsInv /\ ManifestsInv
  BY <1>3 DEF RowsInv, ManifestsInv
<1>7. KnownInv /\ OrphansInv
  BY <1>1, StartsAssumption DEF KnownInv, OrphansInv, Known
<1> QED BY <1>4, <1>5, <1>6, <1>7, InitTyped DEF IInv, CoreInv

LEMMA Invariance == Spec => []IInv
BY InitCore, NextCore, PTL DEF Spec

\* No project is charged to a contract that is gone, however contracts are renamed and
\* dropped while projects are created and moved, as long as no checking request has run
\* together with another and no renaming failed after its push (rename_contract,
\* delete_contract of routers/admin.py).
THEOREM ProjectsAreCharged == Spec => []ContractsKnown
<1>1. IInv => ContractsKnown
  <2>1. Renaming => \E t \in Threads : At(t, "commit", {"rename"})
    BY DEF Renaming, At, Req
  <2> QED BY <2>1, WithNumberKnown DEF IInv, CoreInv, KnownInv, ContractsKnown
<1> QED BY <1>1, Invariance, PTL

\* What the database says is a cluster has its project and its manifest in git, with the
\* number of its contract and the quotas of the size it was created with, however its
\* contract is renamed or the cluster is resized (admin_create_cluster, apply_request).
THEOREM ClustersArePublished == Spec => []RowsArePublished
<1>1. IInv => RowsArePublished
  BY DEF IInv, CoreInv, RowsInv, RowsArePublished
<1> QED BY <1>1, Invariance, PTL

\* However many ask for one cluster, no managed project is left without the cluster it was
\* made for or the request that makes it, unless something failed.
THEOREM ProjectsAreOwned == Spec => []NoOrphans
<1>1. IInv => NoOrphans
  <2>1. \A k \in Keys, t \in Threads : Making(t, k) =>
          /\ Busy(t) /\ Req(t).kind = "cluster" /\ th[t].key = k
          /\ th[t].pc \in {"adopt", "manifest", "commit"}
    BY DEF Making, Req
  <2> QED BY <2>1 DEF IInv, CoreInv, OrphansInv, NoOrphans
<1> QED BY <1>1, Invariance, PTL
=============================================================================
