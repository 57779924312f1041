-------------------------- MODULE PortalAccessProofs --------------------------
(***************************************************************************)
(* Theorems about PortalAccess: it is well typed, the readers of a         *)
(* cluster's project in git are the cluster's customer admins, and the     *)
(* list of kubeconfigs tells the truth of the RoleBindings.                *)
(***************************************************************************)
EXTENDS PortalAccess, TLAPS

-----------------------------------------------------------------------------
(* The inductive invariant. *)

Changing(t) == Busy(t) /\ Req(t).kind \in Changes

\* One change of access at a time.
SoleInv == ~mixed => \A t, v \in Threads : Changing(t) /\ Changing(v) => t = v

\* What git holds when a change of access has written it, and has not committed
\* its row yet: the administrators that there will be.
GrantWritten(t) ==
  /\ access[Req(t).user] = None
  /\ readers = IF Req(t).role = "customer_admin" THEN Admins \cup {Req(t).user} ELSE Admins
RemoveWritten(t) ==
  /\ th[t].target # None
  /\ readers = IF th[t].target.role = "customer_admin" THEN Admins \ Mine(t) ELSE Admins

WrittenInv ==
  mixed \/ torn \/ \A t \in Threads : /\ At(t, "commit", {"grant"}) => GrantWritten(t)
                                      /\ At(t, "commit", {"remove"}) => RemoveWritten(t)

\* A removal has found the row that it is to delete.
TargetInv ==
  \A t \in Threads :
    th[t].pc \in {"list", "cascade", "write"} /\ Req(t).kind = "remove" => th[t].target # None

IInv == TypeOK /\ SoleInv /\ WrittenInv /\ TargetInv /\ ReadersAreAdmins

-----------------------------------------------------------------------------
(* Types. *)

Pcs == {"begin", "bind", "unbind", "list", "cascade", "write", "commit"}

LEMMA RequestTyped ==
  ASSUME NEW r \in Requests
  PROVE  /\ r.user \in Users
         /\ r.kind \in {"issue", "rotate", "revoke", "remove", "grant"}
         /\ r.kind = "grant" => r.role \in Roles
  BY DEF Requests

LEMMA BusyTyped ==
  ASSUME TypeOK, NEW t \in Threads, Busy(t)
  PROVE  th[t] \in ThreadRecord /\ Req(t) \in Requests
  BY DEF TypeOK, Busy, Idle, Req, ThreadRecord

LEMMA GotoTyped ==
  ASSUME TypeOK, NEW t \in Threads, NEW x \in ThreadRecord \cup {Idle}, Goto(t, x)
  PROVE  th' \in [Threads -> ThreadRecord \cup {Idle}]
  BY DEF TypeOK, Goto

LEMMA Update ==
  ASSUME NEW y \in ThreadRecord, NEW pc \in Pcs
  PROVE  /\ [y EXCEPT !.pc = pc] \in ThreadRecord
         /\ \A n \in Nat : [y EXCEPT !.pc = pc, !.old = n] \in ThreadRecord
         /\ \A n \in Nat : [y EXCEPT !.new = n, !.pc = pc] \in ThreadRecord
         /\ \A s \in SUBSET Nat : [y EXCEPT !.pc = pc, !.names = s] \in ThreadRecord
         /\ \A s \in SUBSET Nat : [y EXCEPT !.pc = pc, !.gone = s] \in ThreadRecord
         /\ \A a \in AccessRow \cup {None} : [y EXCEPT !.pc = pc, !.target = a] \in ThreadRecord
         /\ \A s, g \in SUBSET Nat : [y EXCEPT !.names = s, !.gone = g] \in ThreadRecord
  BY DEF ThreadRecord, Pcs

\* A step that only leads a thread on.
LEMMA ReadsTyped ==
  ASSUME TypeOK, NEW t \in Threads, NEW x \in ThreadRecord \cup {Idle}, Goto(t, x), Reads
  PROVE  TypeOK'
<1>1. th' \in [Threads -> ThreadRecord \cup {Idle}]
  BY GotoTyped
<1> QED BY <1>1 DEF TypeOK, Reads, portal, cluster, history

LEMMA BeginTyped ==
  ASSUME TypeOK, NEW t \in Threads, Begin(t)
  PROVE  TypeOK'
<1> DEFINE r == Head(todo)
           x == [pc |-> "begin", req |-> r, target |-> None, old |-> 0, new |-> 0,
                 names |-> {}, gone |-> {}]
<1>1. todo \in Seq(Requests) /\ todo # << >>
  BY DEF TypeOK, Begin
<1>2. r \in Requests /\ todo' \in Seq(Requests)
  BY <1>1 DEF Begin
<1>3. x \in ThreadRecord
  BY <1>2 DEF ThreadRecord
<1>4. Goto(t, x) /\ UNCHANGED <<portal, cluster, readers, failures, lost, torn>>
      /\ crossed' \subseteq crossed \cup {r.user}
      /\ mixed' = (mixed \/ (r.kind \in Changes /\ \E q \in {Req(v) : v \in {w \in Threads : Busy(w)}} : q.kind \in Changes))
  BY DEF Begin
<1> HIDE DEF x, r
<1>5. th' \in [Threads -> ThreadRecord \cup {Idle}]
  BY <1>3, <1>4, GotoTyped
<1>6. crossed' \subseteq Users /\ mixed' \in BOOLEAN
  BY <1>2, <1>4, RequestTyped DEF TypeOK
<1> QED BY <1>2, <1>4, <1>5, <1>6 DEF TypeOK, portal, cluster

LEMMA CheckTyped ==
  ASSUME TypeOK, NEW t \in Threads,
         \/ CheckIssue(t) \/ CheckRotate(t) \/ CheckRevoke(t) \/ CheckGrant(t)
         \/ CheckRemove(t) \/ List(t) \/ Select(t)
  PROVE  TypeOK'
<1>1. Busy(t) /\ Reads
  BY DEF CheckIssue, CheckRotate, CheckRevoke, CheckGrant, CheckRemove, List, Select, At, Busy
<1>2. th[t] \in ThreadRecord /\ Req(t).user \in Users
  BY <1>1, BusyTyped, RequestTyped
<1>3. \A u : \A r \in Active(u) : r.binding \in Nat
  BY DEF Active, TypeOK
<1>4. access[Req(t).user] \in AccessRow \cup {None}
  BY <1>2 DEF TypeOK
<1>5. bindings \subseteq Nat
  BY DEF TypeOK
<1>6. \E x \in ThreadRecord \cup {Idle} : Goto(t, x)
  <2>1. CASE CheckIssue(t) \/ CheckGrant(t)
    BY <1>2, <2>1, Update DEF CheckIssue, CheckGrant, Proceed, End, Pcs
  <2>2. CASE CheckRotate(t) \/ CheckRevoke(t)
    BY <1>2, <1>3, <2>2, Update DEF CheckRotate, CheckRevoke, End, Pcs
  <2>3. CASE CheckRemove(t)
    BY <1>2, <1>4, <2>3, Update DEF CheckRemove, End, Pcs
  <2>4. CASE List(t)
    <3>1. {b \in bindings : made[b] = Req(t).user} \in SUBSET Nat
      BY <1>5
    <3> QED BY <1>2, <2>4, <3>1, Update DEF List, Pcs
  <2>5. CASE Select(t)
    <3>1. {r.binding : r \in Active(Req(t).user)} \in SUBSET Nat
      BY <1>3
    <3> QED BY <1>2, <2>5, <3>1, Update DEF Select, Pcs
  <2> QED BY <2>1, <2>2, <2>3, <2>4, <2>5
<1> QED BY <1>1, <1>6, ReadsTyped

LEMMA BindTyped ==
  ASSUME TypeOK, NEW t \in Threads, Bind(t)
  PROVE  TypeOK'
<1>1. Busy(t) /\ UNCHANGED <<portal, readers, todo, history>>
  BY DEF Bind, At, Busy
<1>2. th[t] \in ThreadRecord /\ Req(t).user \in Users
  BY <1>1, BusyTyped, RequestTyped
<1>3. /\ made \in Seq(Users) /\ made' = Append(made, Req(t).user) /\ Len(made) + 1 \in Nat
      /\ bindings' = bindings \cup {Len(made) + 1} /\ bindings \subseteq Nat
  BY DEF Bind, TypeOK
<1>4. made' \in Seq(Users) /\ bindings' \subseteq Nat
  <2>1. Append(made, Req(t).user) \in Seq(Users)
    BY <1>2, <1>3
  <2> QED BY <1>3, <2>1
<1>5. \E x \in ThreadRecord : Goto(t, x)
  BY <1>2, <1>3, Update DEF Bind, Pcs
<1>6. th' \in [Threads -> ThreadRecord \cup {Idle}]
  BY <1>5, GotoTyped
<1> QED BY <1>1, <1>4, <1>6 DEF TypeOK, portal, history

LEMMA UnbindTyped ==
  ASSUME TypeOK, NEW t \in Threads, Unbind(t) \/ Cascade(t)
  PROVE  TypeOK'
<1>1. Busy(t) /\ UNCHANGED <<portal, made, readers, todo, history>> /\ bindings' \subseteq bindings
  BY DEF Unbind, Cascade, At, Busy
<1>2. th[t] \in ThreadRecord
  BY <1>1, BusyTyped
<1>3. th[t].old \in Nat /\ th[t].names \subseteq Nat /\ th[t].gone \subseteq Nat
  BY <1>2 DEF ThreadRecord
<1>4. \E x \in ThreadRecord : Goto(t, x)
  <2>1. CASE Unbind(t)
    BY <1>2, <1>3, <2>1, Update DEF Unbind, Pcs
  <2>2. CASE Cascade(t)
    <3>1. PICK b \in th[t].names : Goto(t, [th[t] EXCEPT !.names = @ \ {b}, !.gone = @ \cup {b}])
      BY <2>2 DEF Cascade
    <3>2. th[t].names \ {b} \in SUBSET Nat /\ th[t].gone \cup {b} \in SUBSET Nat
      BY <1>3
    <3> QED BY <1>2, <3>1, <3>2, Update DEF Pcs
  <2> QED BY <2>1, <2>2
<1>5. th' \in [Threads -> ThreadRecord \cup {Idle}]
  BY <1>4, GotoTyped
<1> QED BY <1>1, <1>5 DEF TypeOK, portal, history

LEMMA RevokedTyped ==
  ASSUME TypeOK, NEW rs
  PROVE  Revoked(rs) \subseteq [user : Users, binding : Nat, revoked : BOOLEAN]
  BY DEF TypeOK, Revoked

LEMMA CommitTyped ==
  ASSUME TypeOK, NEW t \in Threads,
         CommitCredential(t) \/ CommitGrant(t) \/ CommitRemove(t)
  PROVE  TypeOK'
<1>1. Busy(t) /\ End(t) /\ UNCHANGED <<cluster, readers, todo, history>>
  BY DEF CommitCredential, CommitGrant, CommitRemove, At, Busy
<1>2. th[t] \in ThreadRecord /\ Req(t) \in Requests /\ Req(t).user \in Users
  BY <1>1, BusyTyped, RequestTyped
<1>3. th' \in [Threads -> ThreadRecord \cup {Idle}]
  BY <1>1, GotoTyped DEF End
<1>4. /\ access \in [Users -> AccessRow \cup {None}] /\ ids \in Nat
      /\ rows \subseteq [user : Users, binding : Nat, revoked : BOOLEAN]
  BY DEF TypeOK
<1>5. /\ access' \in [Users -> AccessRow \cup {None}] /\ ids' \in Nat
      /\ rows' \subseteq [user : Users, binding : Nat, revoked : BOOLEAN]
  <2>1. CASE CommitCredential(t)
    <3>1. th[t].new \in Nat
      BY <1>2 DEF ThreadRecord
    <3>2. {Row(Req(t).user, b, FALSE) : b \in {th[t].new} \ {0}}
            \subseteq [user : Users, binding : Nat, revoked : BOOLEAN]
      <4>1. ASSUME NEW b \in Nat
            PROVE  Row(Req(t).user, b, FALSE) \in [user : Users, binding : Nat, revoked : BOOLEAN]
        BY <1>2 DEF Row
      <4> QED BY <3>1, <4>1
    <3> QED BY <1>4, <2>1, <3>2, RevokedTyped DEF CommitCredential
  <2>2. CASE CommitGrant(t)
    <3>1. Req(t).role \in Roles
      BY <1>2, <2>2, RequestTyped DEF CommitGrant, At
    <3>2. [role |-> Req(t).role, id |-> ids + 1] \in AccessRow
      BY <1>4, <3>1 DEF AccessRow
    <3> QED BY <1>2, <1>4, <2>2, <3>2 DEF CommitGrant
  <2>3. CASE CommitRemove(t)
    BY <1>4, <2>3, RevokedTyped DEF CommitRemove
  <2> QED BY <2>1, <2>2, <2>3
<1> QED BY <1>1, <1>3, <1>5 DEF TypeOK, cluster, history

LEMMA WriteTyped ==
  ASSUME TypeOK, NEW t \in Threads, WriteGrant(t) \/ WriteRemove(t)
  PROVE  TypeOK'
<1>1. Busy(t) /\ UNCHANGED <<portal, cluster, todo, history>>
  BY DEF WriteGrant, WriteRemove, At, Busy
<1>2. th[t] \in ThreadRecord /\ Req(t).user \in Users
  BY <1>1, BusyTyped, RequestTyped
<1>3. readers' \subseteq Users
  BY <1>2 DEF WriteGrant, WriteRemove, Admins, TypeOK
<1>4. \E x \in ThreadRecord \cup {Idle} : Goto(t, x)
  BY <1>2, Update DEF WriteGrant, WriteRemove, Proceed, End, Pcs
<1>5. th' \in [Threads -> ThreadRecord \cup {Idle}]
  BY <1>4, GotoTyped
<1> QED BY <1>1, <1>3, <1>5 DEF TypeOK, portal, cluster, history

LEMMA FailTyped ==
  ASSUME TypeOK, NEW t \in Threads, CascadeFails(t) \/ Fail(t)
  PROVE  TypeOK'
<1>1. /\ Busy(t) /\ failures' \in Nat /\ UNCHANGED <<portal, cluster, readers, todo, crossed, mixed>>
      /\ lost' = lost \cup th[t].gone /\ torn' \in BOOLEAN
  <2>1. failures \in Nat /\ torn \in BOOLEAN
    BY DEF TypeOK
  <2>2. CASE CascadeFails(t)
    BY <2>1, <2>2 DEF CascadeFails, At, Busy
  <2>3. CASE Fail(t)
    <3>1. torn' \in BOOLEAN
      BY <2>1, <2>3 DEF Fail
    <3>2. failures' \in Nat
      BY <2>1, <2>3 DEF Fail
    <3> QED BY <2>3, <3>1, <3>2 DEF Fail
  <2> QED BY <2>2, <2>3
<1>2. th[t] \in ThreadRecord
  BY <1>1, BusyTyped
<1>3. lost' \subseteq Nat
  BY <1>1, <1>2 DEF TypeOK, ThreadRecord
<1>4. {} \in SUBSET Nat
  OBVIOUS
<1>5. \E x \in ThreadRecord \cup {Idle} : Goto(t, x)
  BY <1>2, <1>4, Update DEF CascadeFails, Fail, End, Pcs
<1>6. th' \in [Threads -> ThreadRecord \cup {Idle}]
  BY <1>5, GotoTyped
<1> QED BY <1>1, <1>3, <1>6 DEF TypeOK, portal, cluster

LEMMA InitTyped == Init => TypeOK
<1> SUFFICES ASSUME Init PROVE TypeOK
  OBVIOUS
<1>1. access \in [Users -> AccessRow \cup {None}] /\ todo \in Seq(Requests) /\ failures \in Nat
  BY StartsAssumption DEF Init
<1>2. made \in Seq(Users)
  BY DEF Init
<1> QED BY <1>1, <1>2 DEF Init, TypeOK, Admins

LEMMA NextTyped ==
  ASSUME TypeOK, [Next]_vars
  PROVE  TypeOK'
<1>1. CASE UNCHANGED vars
  BY <1>1 DEF vars, TypeOK
<1> QED BY <1>1, BeginTyped, CheckTyped, BindTyped, UnbindTyped, CommitTyped, WriteTyped,
           FailTyped DEF Next

\* Every variable keeps its type, for any users, requests and numbers of endpoints.
THEOREM TypeCorrect == Spec => []TypeOK
  BY InitTyped, NextTyped, PTL DEF Spec

-----------------------------------------------------------------------------
(* The readers. *)

Rest == SoleInv /\ WrittenInv /\ TargetInv /\ ReadersAreAdmins

LEMMA Stepped ==
  ASSUME TypeOK, NEW t \in Threads, NEW x, Goto(t, x)
  PROVE  th'[t] = x /\ \A v \in Threads \ {t} : th'[v] = th[v]
  BY DEF TypeOK, Goto

LEMMA TargetKeeps ==
  ASSUME IInv, NEW t \in Threads, NEW x, Goto(t, x),
         x.pc \in {"list", "cascade", "write"} /\ x.req.kind = "remove" => x.target # None
  PROVE  TargetInv'
  BY Stepped DEF IInv, TargetInv, Req

\* A step that concerns neither rows nor readers.
LEMMA NeutralKeeps ==
  ASSUME IInv, NEW t \in Threads, NEW x, Goto(t, x), UNCHANGED <<access, readers, mixed>>,
         torn => torn', Busy(t),
         x.pc = "idle" \/ x.req = th[t].req,
         x.pc = "commit" => x.req.kind \notin Changes,
         torn' \/ ~At(t, "commit", Changes),
         x.pc \in {"list", "cascade", "write"} /\ x.req.kind = "remove" => x.target # None
  PROVE  Rest'
<1>1. th'[t] = x /\ \A v \in Threads \ {t} : th'[v] = th[v]
  BY Stepped DEF IInv
<1>2. Admins' = Admins
  BY DEF Admins, Has
<1>3. \A v \in Threads : Changing(v)' => Changing(v)
  BY <1>1 DEF Changing, Busy, Req
<1>4. SoleInv'
  BY <1>3 DEF IInv, SoleInv
<1>5. \A v \in Threads \ {t} : (GrantWritten(v) => GrantWritten(v)')
                             /\ (RemoveWritten(v) => RemoveWritten(v)')
  BY <1>1, <1>2 DEF GrantWritten, RemoveWritten, Mine, Req
<1>6. ~At(t, "commit", {"grant"})' /\ ~At(t, "commit", {"remove"})'
  BY <1>1 DEF At, Req, Changes
<1>7. WrittenInv'
  <2>1. ASSUME ~mixed', ~torn', NEW v \in Threads
        PROVE  /\ At(v, "commit", {"grant"})' => GrantWritten(v)'
               /\ At(v, "commit", {"remove"})' => RemoveWritten(v)'
    <3>1. CASE v = t
      BY <1>6, <3>1
    <3>2. CASE v # t
      BY <1>1, <1>5, <2>1, <3>2 DEF IInv, WrittenInv, At, Req
    <3> QED BY <3>1, <3>2
  <2> QED BY <2>1 DEF WrittenInv
<1>8. ReadersAreAdmins'
  <2>1. ASSUME ~mixed', ~torn', NEW v \in Threads, At(v, "commit", Changes)
        PROVE  At(v, "commit", Changes)'
    BY <1>1, <2>1 DEF At, Req
  <2> QED BY <1>2, <2>1 DEF IInv, ReadersAreAdmins
<1>9. TargetInv'
  BY TargetKeeps
<1> QED BY <1>4, <1>7, <1>8, <1>9 DEF Rest

LEMMA BeginKeeps ==
  ASSUME IInv, NEW t \in Threads, Begin(t)
  PROVE  Rest'
<1> DEFINE r == Head(todo)
           x == [pc |-> "begin", req |-> r, target |-> None, old |-> 0, new |-> 0,
                 names |-> {}, gone |-> {}]
<1>1. /\ ~Busy(t) /\ Goto(t, x) /\ UNCHANGED <<access, readers, torn>>
      /\ mixed' = (mixed \/ (r.kind \in Changes /\ \E q \in {Req(v) : v \in {w \in Threads : Busy(w)}} :
                                                     q.kind \in Changes))
  BY DEF Begin, portal
<1>2. x.pc = "begin" /\ x.req = r
  OBVIOUS
<1> HIDE DEF x, r
<1>3. th'[t] = x /\ \A v \in Threads \ {t} : th'[v] = th[v]
  BY <1>1, Stepped DEF IInv
<1>4. Admins' = Admins
  BY <1>1 DEF Admins, Has
<1>5. SoleInv'
  <2>1. ASSUME ~mixed', NEW v \in Threads \ {t}, Changing(v)', r.kind \in Changes
        PROVE  FALSE
    BY <1>1, <1>3, <2>1 DEF Changing, Busy, Req
  <2>2. ASSUME ~mixed', NEW v \in Threads, NEW w \in Threads, Changing(v)', Changing(w)'
        PROVE  v = w
    <3>1. Changing(t)' => r.kind \in Changes
      BY <1>2, <1>3 DEF Changing, Req
    <3>2. CASE v = t \/ w = t
      BY <2>1, <2>2, <3>1, <3>2
    <3>3. CASE v # t /\ w # t
      BY <1>1, <1>3, <2>2, <3>3 DEF IInv, SoleInv, Changing, Busy, Req
    <3> QED BY <3>2, <3>3
  <2> QED BY <2>2 DEF SoleInv
<1>6. \A v \in Threads \ {t} : (GrantWritten(v) => GrantWritten(v)')
                             /\ (RemoveWritten(v) => RemoveWritten(v)')
  BY <1>1, <1>3, <1>4 DEF GrantWritten, RemoveWritten, Mine, Req
<1>7. WrittenInv'
  <2>1. ASSUME ~mixed', ~torn', NEW v \in Threads
        PROVE  /\ At(v, "commit", {"grant"})' => GrantWritten(v)'
               /\ At(v, "commit", {"remove"})' => RemoveWritten(v)'
    <3>1. CASE v = t
      BY <1>2, <1>3, <3>1 DEF At
    <3>2. CASE v # t
      BY <1>1, <1>3, <1>6, <2>1, <3>2 DEF IInv, WrittenInv, At, Req
    <3> QED BY <3>1, <3>2
  <2> QED BY <2>1 DEF WrittenInv
<1>8. ReadersAreAdmins'
  <2>1. ASSUME NEW v \in Threads, At(v, "commit", Changes)
        PROVE  At(v, "commit", Changes)'
    BY <1>1, <1>3, <2>1 DEF At, Req, Busy
  <2> QED BY <1>1, <1>4, <2>1 DEF IInv, ReadersAreAdmins
<1>9. TargetInv'
  BY <1>1, <1>2, TargetKeeps
<1> QED BY <1>5, <1>7, <1>8, <1>9 DEF Rest

\* How a thread may go on when it has not written git.
Harmless(t, x) ==
  /\ x.pc = "idle" \/ x.req = th[t].req
  /\ x.pc = "commit" => x.req.kind \notin Changes
  /\ x.pc \in {"list", "cascade", "write"} /\ x.req.kind = "remove" => x.target # None

LEMMA HarmlessUpdates ==
  ASSUME TypeOK, NEW t \in Threads, Busy(t), NEW pc \in Pcs,
         pc = "commit" => Req(t).kind \notin Changes,
         pc \in {"list", "cascade", "write"} /\ Req(t).kind = "remove" => th[t].target # None
  PROVE  /\ Harmless(t, Idle)
         /\ Harmless(t, [th[t] EXCEPT !.pc = pc])
         /\ \A n : Harmless(t, [th[t] EXCEPT !.pc = pc, !.old = n])
         /\ \A n : Harmless(t, [th[t] EXCEPT !.new = n, !.pc = pc])
         /\ \A s : Harmless(t, [th[t] EXCEPT !.pc = pc, !.gone = s])
         /\ \A s : Harmless(t, [th[t] EXCEPT !.pc = pc, !.names = s])
<1>1. PICK y \in ThreadRecord : y = th[t]
  BY BusyTyped
<1>2. Harmless(t, Idle)
  BY DEF Harmless, Idle
<1>3. Harmless(t, [y EXCEPT !.pc = pc])
  BY <1>1 DEF Harmless, ThreadRecord, Req
<1>4. ASSUME NEW n PROVE Harmless(t, [y EXCEPT !.pc = pc, !.old = n])
  BY <1>1 DEF Harmless, ThreadRecord, Req
<1>5. ASSUME NEW n PROVE Harmless(t, [y EXCEPT !.new = n, !.pc = pc])
  BY <1>1 DEF Harmless, ThreadRecord, Req
<1>6. ASSUME NEW s PROVE Harmless(t, [y EXCEPT !.pc = pc, !.gone = s])
  BY <1>1 DEF Harmless, ThreadRecord, Req
<1>7. ASSUME NEW s PROVE Harmless(t, [y EXCEPT !.pc = pc, !.names = s])
  BY <1>1 DEF Harmless, ThreadRecord, Req
<1> QED BY <1>1, <1>2, <1>3, <1>4, <1>5, <1>6, <1>7

LEMMA QuietKeeps ==
  ASSUME IInv, NEW t \in Threads,
         \/ CheckIssue(t) \/ CheckRotate(t) \/ CheckRevoke(t) \/ CheckGrant(t) \/ CheckRemove(t)
         \/ Bind(t) \/ Unbind(t) \/ CommitCredential(t)
         \/ List(t) \/ Cascade(t) \/ Select(t) \/ CascadeFails(t) \/ Fail(t)
  PROVE  Rest'
<1>1. /\ Busy(t) /\ UNCHANGED <<access, readers, mixed>> /\ (torn => torn')
      /\ torn' \/ ~At(t, "commit", Changes)
  <2>1. CASE CheckIssue(t) \/ CheckRotate(t) \/ CheckRevoke(t) \/ CheckGrant(t)
             \/ CheckRemove(t) \/ List(t) \/ Select(t)
    <3>1. \E pc \in Pcs : pc # "commit" /\ th[t].pc = pc
      BY <2>1 DEF CheckIssue, CheckRotate, CheckRevoke, CheckGrant, CheckRemove, List, Select,
                  At, Pcs
    <3>2. Reads
      BY <2>1 DEF CheckIssue, CheckRotate, CheckRevoke, CheckGrant, CheckRemove, List, Select
    <3>3. UNCHANGED <<access, readers, mixed, torn>>
      BY <3>2 DEF Reads, portal, history
    <3> QED BY <3>1, <3>3 DEF At, Busy, Pcs
  <2>2. CASE Bind(t) \/ Unbind(t) \/ CommitCredential(t) \/ Cascade(t)
    <3>1. Busy(t) /\ ~At(t, "commit", Changes)
      BY <2>2 DEF Bind, Unbind, CommitCredential, Cascade, At, Busy, Changes
    <3>2. UNCHANGED <<access, readers, mixed, torn>>
      BY <2>2 DEF Bind, Unbind, CommitCredential, Cascade, portal, history
    <3> QED BY <3>1, <3>2
  <2>3. CASE CascadeFails(t)
    BY <2>3 DEF CascadeFails, At, Busy, portal
  <2>4. CASE Fail(t)
    <3>1. torn' = (torn \/ At(t, "commit", Changes))
      BY <2>4 DEF Fail
    <3>2. Busy(t) /\ UNCHANGED <<access, readers, mixed>>
      BY <2>4 DEF Fail, portal
    <3> QED BY <3>1, <3>2
  <2> QED BY <2>1, <2>2, <2>3, <2>4
<1>2. TypeOK
  BY DEF IInv
<1>3. \E x : Goto(t, x) /\ Harmless(t, x)
  <2>1. CASE CheckIssue(t) \/ CheckRotate(t) \/ CheckRevoke(t)
    <3>1. Req(t).kind \in {"issue", "rotate", "revoke"}
      BY <2>1 DEF CheckIssue, CheckRotate, CheckRevoke, At
    <3>2. Harmless(t, Idle) /\ Harmless(t, [th[t] EXCEPT !.pc = "bind"])
          /\ \A n : Harmless(t, [th[t] EXCEPT !.pc = "bind", !.old = n])
      BY <1>1, <1>2, HarmlessUpdates DEF Pcs
    <3>3. \A n : Harmless(t, [th[t] EXCEPT !.pc = "unbind", !.old = n])
      BY <1>1, <1>2, HarmlessUpdates DEF Pcs
    <3>4. CASE CheckIssue(t)
      BY <3>2, <3>4 DEF CheckIssue, Proceed, End
    <3>5. CASE CheckRotate(t)
      BY <3>2, <3>5 DEF CheckRotate, End
    <3>6. CASE CheckRevoke(t)
      BY <3>2, <3>3, <3>6 DEF CheckRevoke, End
    <3> QED BY <2>1, <3>4, <3>5, <3>6
  <2>2. CASE CheckGrant(t)
    <3>1. Req(t).kind = "grant"
      BY <2>2 DEF CheckGrant, At
    <3>2. Harmless(t, Idle) /\ Harmless(t, [th[t] EXCEPT !.pc = "write"])
      BY <1>1, <1>2, <3>1, HarmlessUpdates DEF Pcs
    <3> QED BY <2>2, <3>2 DEF CheckGrant, Proceed, End
  <2>3. CASE CheckRemove(t)
    <3>1. Harmless(t, Idle)
      BY DEF Harmless, Idle
    <3>2. ASSUME access[Req(t).user] # None
          PROVE  Harmless(t, [th[t] EXCEPT !.pc = "list", !.target = access[Req(t).user]])
      <4>1. PICK y \in ThreadRecord : y = th[t]
        BY <1>1, <1>2, BusyTyped
      <4>2. ASSUME NEW a, a # None
            PROVE  Harmless(t, [y EXCEPT !.pc = "list", !.target = a])
        BY <4>1, <4>2 DEF Harmless, ThreadRecord
      <4> QED BY <3>2, <4>1, <4>2
    <3> QED BY <2>3, <3>1, <3>2 DEF CheckRemove, End
  <2>4. CASE Bind(t) \/ Unbind(t)
    <3>1. Req(t).kind \notin Changes
      BY <2>4 DEF Bind, Unbind, At, Issues, Changes
    <3>2. \A pc \in {"unbind", "commit"} :
            /\ \A n : Harmless(t, [th[t] EXCEPT !.new = n, !.pc = pc])
            /\ \A s : Harmless(t, [th[t] EXCEPT !.pc = pc, !.gone = s])
      BY <1>1, <1>2, <3>1, HarmlessUpdates DEF Pcs
    <3> QED BY <2>4, <3>2 DEF Bind, Unbind
  <2>5. CASE CommitCredential(t) \/ Fail(t)
    <3>1. Goto(t, Idle)
      BY <2>5 DEF CommitCredential, Fail, End
    <3>2. Harmless(t, Idle)
      BY DEF Harmless, Idle
    <3> QED BY <3>1, <3>2
  <2>6. CASE List(t) \/ Select(t) \/ CascadeFails(t)
    <3>1. Req(t).kind = "remove" /\ th[t].target # None
      BY <2>6 DEF List, Select, CascadeFails, At, IInv, TargetInv
    <3>2. \A pc \in {"cascade", "write"} : \A s : Harmless(t, [th[t] EXCEPT !.pc = pc, !.names = s])
      BY <1>1, <1>2, <3>1, HarmlessUpdates DEF Pcs
    <3> QED BY <2>6, <3>2 DEF List, Select, CascadeFails
  <2>7. CASE Cascade(t)
    <3>1. Req(t).kind = "remove" /\ th[t].target # None /\ th[t].pc = "cascade"
      BY <2>7 DEF Cascade, At, IInv, TargetInv
    <3>2. PICK y \in ThreadRecord : y = th[t]
      BY <1>1, <1>2, BusyTyped
    <3>3. ASSUME NEW s, NEW g
          PROVE  Harmless(t, [y EXCEPT !.names = s, !.gone = g])
      BY <3>1, <3>2 DEF Harmless, ThreadRecord, Req
    <3>4. PICK b \in th[t].names : Goto(t, [th[t] EXCEPT !.names = @ \ {b}, !.gone = @ \cup {b}])
      BY <2>7 DEF Cascade
    <3> QED BY <3>2, <3>3, <3>4
  <2> QED BY <2>1, <2>2, <2>3, <2>4, <2>5, <2>6, <2>7
<1> QED BY <1>1, <1>3, NeutralKeeps DEF Harmless

\* While one change of access runs, no other has written git.
LEMMA Alone ==
  ASSUME IInv, NEW t \in Threads, Changing(t), ~mixed
  PROVE  \A v \in Threads \ {t} : ~Changing(v) /\ ~At(v, "commit", Changes)
  BY DEF IInv, SoleInv, At, Changing, Busy

\* Whoever has written git or goes back to idle leaves at most itself to look at.
LEMMA LedOn ==
  ASSUME IInv, NEW t \in Threads, NEW x, Goto(t, x), Changing(t),
         UNCHANGED <<mixed, torn>>,
         x.pc = "idle" \/ (x.pc = "commit" /\ x.req = th[t].req)
  PROVE  /\ SoleInv' /\ TargetInv'
         /\ ~mixed => \A v \in Threads \ {t} : ~At(v, "commit", Changes)'
<1>1. th'[t] = x /\ \A v \in Threads \ {t} : th'[v] = th[v]
  BY Stepped DEF IInv
<1>2. \A v \in Threads : Changing(v)' => Changing(v)
  BY <1>1 DEF Changing, Busy, Req
<1>3. SoleInv'
  BY <1>2 DEF IInv, SoleInv
<1>4. TargetInv'
  BY TargetKeeps
<1>5. ASSUME ~mixed, NEW v \in Threads \ {t}
      PROVE  ~At(v, "commit", Changes)'
  BY <1>1, <1>5, Alone DEF At, Req
<1> QED BY <1>3, <1>4, <1>5

LEMMA WriteKeeps ==
  ASSUME IInv, NEW t \in Threads, WriteGrant(t) \/ WriteRemove(t)
  PROVE  Rest'
<1>1. /\ th[t].pc = "write" /\ Busy(t) /\ Changing(t) /\ ~At(t, "commit", Changes)
      /\ UNCHANGED <<access, mixed, torn>>
  <2>1. CASE WriteGrant(t)
    BY <2>1 DEF WriteGrant, At, Changing, Busy, Changes, portal, history
  <2>2. CASE WriteRemove(t)
    BY <2>2 DEF WriteRemove, At, Changing, Busy, Changes, portal, history
  <2> QED BY <2>1, <2>2
<1>2. PICK y \in ThreadRecord : y = th[t]
  BY <1>1, BusyTyped DEF IInv
<1> DEFINE x == [y EXCEPT !.pc = "commit"]
<1>3. x.pc = "commit" /\ x.req = th[t].req /\ x.target = th[t].target
  BY <1>2 DEF ThreadRecord
<1>4. CASE End(t) /\ UNCHANGED readers
  <2>1. Harmless(t, Idle)
    BY DEF Harmless, Idle
  <2> QED BY <1>1, <1>4, <2>1, NeutralKeeps DEF End, Harmless
<1>5. CASE Goto(t, x) /\ (\/ WriteGrant(t) /\ access[Req(t).user] = None
                             /\ readers' = IF Req(t).role = "customer_admin"
                                           THEN Admins \cup {Req(t).user} ELSE readers
                          \/ WriteRemove(t))
  <2> HIDE DEF x
  <2>1. SoleInv' /\ TargetInv' /\ (~mixed => \A v \in Threads \ {t} : ~At(v, "commit", Changes)')
    BY <1>1, <1>3, <1>5, LedOn
  <2>2. th'[t] = x
    BY <1>5, Stepped DEF IInv
  <2>3. Req(t)' = Req(t) /\ th'[t].target = th[t].target /\ Admins' = Admins /\ Mine(t)' = Mine(t)
    BY <1>1, <1>3, <2>2 DEF Req, Admins, Has, Mine
  <2>4. ReadersAreAdmins'
    BY <1>1, <1>3, <2>2, <2>3 DEF ReadersAreAdmins, At, Changing, Req
  <2>5. ASSUME ~mixed, ~torn PROVE readers = Admins
    <3>1. ~\E v \in Threads : At(v, "commit", Changes)
      BY <1>1, <2>5, Alone
    <3> QED BY <2>5, <3>1 DEF IInv, ReadersAreAdmins
  <2>6. ASSUME ~mixed, ~torn
        PROVE  /\ At(t, "commit", {"grant"})' => GrantWritten(t)'
               /\ At(t, "commit", {"remove"})' => RemoveWritten(t)'
    <3>1. CASE WriteGrant(t)
      <4>1. Req(t).kind = "grant" /\ access[Req(t).user] = None
            /\ readers' = IF Req(t).role = "customer_admin"
                          THEN Admins \cup {Req(t).user} ELSE readers
        BY <1>5, <3>1 DEF WriteGrant, WriteRemove, At
      <4> QED BY <1>1, <2>3, <2>5, <2>6, <4>1 DEF GrantWritten, At
    <3>2. CASE WriteRemove(t)
      <4>1. Req(t).kind = "remove" /\ th[t].target # None
            /\ readers' = IF th[t].target.role = "customer_admin" THEN Admins \ Mine(t) ELSE readers
        BY <1>1, <3>2 DEF WriteRemove, At, IInv, TargetInv
      <4> QED BY <1>1, <2>3, <2>5, <2>6, <4>1 DEF RemoveWritten, At
    <3> QED BY <1>5, <3>1, <3>2
  <2>7. WrittenInv'
    <3>1. ASSUME ~mixed, NEW v \in Threads \ {t}
          PROVE  ~At(v, "commit", {"grant"})' /\ ~At(v, "commit", {"remove"})'
      BY <2>1, <3>1 DEF At, Changes
    <3> QED BY <1>1, <2>6, <3>1 DEF WrittenInv
  <2> QED BY <2>1, <2>4, <2>7 DEF Rest
<1>6. (End(t) /\ UNCHANGED readers)
      \/ (Goto(t, x) /\ (\/ WriteGrant(t) /\ access[Req(t).user] = None
                            /\ readers' = IF Req(t).role = "customer_admin"
                                          THEN Admins \cup {Req(t).user} ELSE readers
                         \/ WriteRemove(t)))
  BY <1>2 DEF WriteGrant, WriteRemove, Proceed
<1> HIDE DEF x
<1> QED BY <1>4, <1>5, <1>6

LEMMA CommitKeeps ==
  ASSUME IInv, NEW t \in Threads, CommitGrant(t) \/ CommitRemove(t)
  PROVE  Rest'
<1>1. /\ Changing(t) /\ End(t) /\ UNCHANGED <<readers, mixed, torn>>
  <2>1. CASE CommitGrant(t)
    BY <2>1 DEF CommitGrant, At, Changing, Busy, Changes, history
  <2>2. CASE CommitRemove(t)
    BY <2>2 DEF CommitRemove, At, Changing, Busy, Changes, history
  <2> QED BY <2>1, <2>2
<1>2. SoleInv' /\ TargetInv' /\ (~mixed => \A v \in Threads \ {t} : ~At(v, "commit", Changes)')
  BY <1>1, LedOn DEF End, Idle
<1>3. \A kinds : ~At(t, "commit", kinds)'
  BY <1>1, Stepped DEF End, Idle, At, IInv
<1>4. WrittenInv'
  <2>1. ASSUME ~mixed, NEW v \in Threads
        PROVE  ~At(v, "commit", {"grant"})' /\ ~At(v, "commit", {"remove"})'
    BY <1>2, <1>3, <2>1 DEF At, Changes
  <2> QED BY <1>1, <2>1 DEF WrittenInv
<1>5. ASSUME ~mixed, ~torn PROVE readers = Admins'
  <2>1. access \in [Users -> AccessRow \cup {None}] /\ Req(t) \in Requests /\ Req(t).user \in Users
    BY <1>1, BusyTyped, RequestTyped DEF IInv, TypeOK, Changing
  <2>2. CASE CommitGrant(t)
    <3>1. GrantWritten(t)
      BY <1>5, <2>2 DEF IInv, WrittenInv, CommitGrant
    <3>2. access' = [access EXCEPT ![Req(t).user] = [role |-> Req(t).role, id |-> ids + 1]]
      BY <2>2 DEF CommitGrant
    <3>3. Req(t).role \in Roles
      BY <2>1, <2>2, RequestTyped DEF CommitGrant, At
    <3>4. [role |-> Req(t).role, id |-> ids + 1] # None
      BY <3>3 DEF None, Roles
    <3>5. \A u \in Users \ {Req(t).user} : access'[u] = access[u]
      BY <2>1, <3>2
    <3>6. access'[Req(t).user] = [role |-> Req(t).role, id |-> ids + 1]
      BY <2>1, <3>2
    <3>7. Admins' = IF Req(t).role = "customer_admin" THEN Admins \cup {Req(t).user} ELSE Admins
      <4>1. ASSUME NEW u \in Users \ {Req(t).user}
            PROVE  u \in Admins' <=> u \in Admins
        BY <3>5, <4>1 DEF Admins, Has
      <4>2. Req(t).user \in Admins' <=> Req(t).role = "customer_admin"
        BY <2>1, <3>4, <3>6 DEF Admins, Has
      <4>3. Req(t).user \notin Admins
        BY <3>1 DEF Admins, Has, GrantWritten
      <4>4. Admins \subseteq Users /\ Admins' \subseteq Users
        BY DEF Admins
      <4> QED BY <2>1, <4>1, <4>2, <4>3, <4>4
    <3> QED BY <3>1, <3>7 DEF GrantWritten
  <2>3. CASE CommitRemove(t)
    <3>1. RemoveWritten(t)
      BY <1>5, <2>3 DEF IInv, WrittenInv, CommitRemove
    <3>2. access' = [u \in Users |-> IF u \in Mine(t) THEN None ELSE access[u]]
      BY <2>3 DEF CommitRemove
    <3>3. Admins' = Admins \ Mine(t)
      <4>1. ASSUME NEW u \in Users
            PROVE  u \in Admins' <=> (u \in Admins /\ u \notin Mine(t))
        BY <3>2 DEF Admins, Has
      <4> QED BY <4>1 DEF Admins
    <3>4. th[t].target.role # "customer_admin" => Admins \cap Mine(t) = {}
      BY DEF Admins, Has, Mine
    <3> QED BY <3>1, <3>3, <3>4 DEF RemoveWritten
  <2> QED BY <2>2, <2>3
<1>6. ReadersAreAdmins'
  BY <1>1, <1>5 DEF ReadersAreAdmins
<1> QED BY <1>2, <1>4, <1>6 DEF Rest

LEMMA InitInv == Init => IInv
<1> SUFFICES ASSUME Init PROVE IInv
  OBVIOUS
<1>1. \A t \in Threads : th[t] = Idle
  BY DEF Init
<1>2. \A t \in Threads : th[t].pc = "idle"
  <2>1. Idle.pc = "idle"
    BY DEF Idle
  <2> QED BY <1>1, <2>1
<1>4. \A t \in Threads : ~Changing(t)
  BY <1>2 DEF Changing, Busy
<1>3. readers = Admins
  BY DEF Init
<1> QED BY <1>2, <1>3, <1>4, InitTyped
        DEF IInv, SoleInv, WrittenInv, TargetInv, ReadersAreAdmins, At

LEMMA NextKeeps ==
  ASSUME IInv, [Next]_vars
  PROVE  IInv'
<1>1. TypeOK'
  BY NextTyped DEF IInv
<1>2. Rest'
  <2>1. CASE UNCHANGED vars
    <3>1. UNCHANGED <<access, readers, th, mixed, torn>>
      BY <2>1 DEF vars
    <3> QED BY <3>1 DEF IInv, Rest, SoleInv, WrittenInv, TargetInv, ReadersAreAdmins, Changing, Busy,
            Req, At, GrantWritten, RemoveWritten, Mine, Admins, Has
  <2>2. CASE Next
    BY <2>2, BeginKeeps, QuietKeeps, WriteKeeps, CommitKeeps DEF Next
  <2> QED BY <2>1, <2>2
<1> QED BY <1>1, <1>2 DEF IInv, Rest

\* The readers of the cluster's project in git are its customer admins, for any
\* users, requests, endpoints and failures, as long as no two changes of access
\* ran at once and none failed between git and its commit.
THEOREM ReadersAreTheAdmins == Spec => []ReadersAreAdmins
<1>1. IInv => ReadersAreAdmins
  BY DEF IInv
<1> QED BY <1>1, InitInv, NextKeeps, PTL DEF Spec

-----------------------------------------------------------------------------
(* What the portal says of the kubeconfigs.                                 *)
(*                                                                          *)
(* Every RoleBinding that is missing was deleted by somebody: an endpoint   *)
(* that runs, or one that failed.  An endpoint knows which RoleBindings it  *)
(* deletes are of rows, and the one that it makes is in no row yet.         *)

\* Rows and RoleBindings are of RoleBindings that were made, for their user.
KnownInv ==
  /\ bindings \subseteq DOMAIN made
  /\ \A r \in rows : r.binding \in DOMAIN made /\ made[r.binding] = r.user

\* The RoleBinding that a thread has made and will write a row for.
NewInv(t) ==
  th[t].new # 0 =>
    /\ Req(t).kind \in Issues /\ th[t].pc \in {"unbind", "commit"}
    /\ th[t].new \in DOMAIN made /\ made[th[t].new] = Req(t).user
    /\ \A r \in rows : r.binding # th[t].new
    /\ Req(t).user \in crossed \/ th[t].new \in bindings

\* The one that it deletes, of a row.
OldInv(t) ==
  /\ th[t].old # 0 => Req(t).kind \in {"rotate", "revoke"} /\ \E r \in rows : r.binding = th[t].old
  /\ At(t, "commit", {"rotate", "revoke"}) => th[t].old \notin bindings

\* Those that it has deleted.
GoneInv(t) ==
  \/ th[t].gone = {}
  \/ At(t, "commit", {"rotate", "revoke"}) /\ th[t].gone = {th[t].old}
  \/ /\ Req(t).kind = "remove" /\ th[t].pc \in {"cascade", "write", "commit"}
     /\ \A b \in th[t].gone : b \in DOMAIN made /\ made[b] = Req(t).user

\* The removal of an access lists all RoleBindings of the user, and marks the
\* rows of all of them unless the cluster did not answer.
CascadeInv(t) ==
  At(t, "cascade", {"remove"}) =>
    \/ Req(t).user \in crossed
    \/ \A b \in bindings : made[b] = Req(t).user => b \in th[t].names
MarkInv(t) ==
  At(t, "write", {"remove"}) \/ At(t, "commit", {"remove"}) =>
    \/ Req(t).user \in crossed
    \/ /\ th[t].names \cap bindings = {}
       /\ \/ th[t].gone \subseteq lost
          \/ \A r \in Active(Req(t).user) : r.binding \in th[t].names
NamesInv(t) ==
  Req(t).kind = "remove" => \A b \in th[t].names : b \in DOMAIN made /\ made[b] = Req(t).user

Sound(t) ==
  Busy(t) => NewInv(t) /\ OldInv(t) /\ GoneInv(t) /\ CascadeInv(t) /\ MarkInv(t) /\ NamesInv(t)
PairInv ==
  \A t, v \in Threads :
    t # v /\ Busy(t) /\ Busy(v) =>
      /\ th[t].new # 0 => th[t].new # th[v].new
      /\ Meets(Req(t), Req(v)) => Req(t).user \in crossed

Recorded(b) == b \in lost \/ \E t \in Threads : Busy(t) /\ b \in th[t].gone
RowTrue(r) ==
  r.user \in crossed
  \/ IF r.revoked THEN r.binding \notin bindings
     ELSE r.binding \in bindings \/ Recorded(r.binding)

LInv ==
  TypeOK /\ KnownInv /\ (\A t \in Threads : Sound(t)) /\ PairInv /\ (\A r \in rows : RowTrue(r))

LEMMA ListFollows == LInv => ListIsTrue
<1> SUFFICES ASSUME LInv, NEW r \in rows, r.user \notin crossed, ~r.revoked, r.binding \notin bindings
             PROVE  r.binding \in lost \/ Revoking(r)
  BY DEF LInv, ListIsTrue, RowTrue
<1>1. CASE r.binding \in lost
  BY <1>1
<1>2. CASE \E t \in Threads : Busy(t) /\ r.binding \in th[t].gone
  <2>1. PICK t \in Threads : Busy(t) /\ r.binding \in th[t].gone
    BY <1>2
  <2>2. GoneInv(t) /\ made[r.binding] = r.user
    BY <2>1 DEF LInv, Sound, KnownInv
  <2> QED BY <2>1, <2>2 DEF GoneInv, At, Revoking
<1> QED BY <1>1, <1>2 DEF LInv, RowTrue, Recorded

-----------------------------------------------------------------------------
(* What a step may do to the threads that do not take it. *)

\* A row after the step that is one of before, maybe revoked since.
Since(q, r) == q.user = r.user /\ q.binding = r.binding /\ (r.revoked => q.revoked)

Spares(v) ==
  /\ \A b \in DOMAIN made : b \in DOMAIN made' /\ made'[b] = made[b]
  /\ crossed \subseteq crossed' /\ lost \subseteq lost'
  /\ \A b \in bindings' \ bindings :
       /\ b \notin DOMAIN made /\ b # 0
       /\ Req(v).kind = "remove" /\ made'[b] = Req(v).user => Req(v).user \in crossed
  /\ th[v].new \in bindings \ bindings' => Req(v).user \in crossed
  /\ \A r \in rows : \E q \in rows' : q.binding = r.binding
  /\ \A q \in rows' :
       \/ \E r \in rows : Since(q, r)
       \/ /\ q.binding # th[v].new
          /\ Req(v).kind = "remove" /\ Req(v).user = q.user => q.user \in crossed

LEMMA SparedSound ==
  ASSUME LInv, NEW v \in Threads, th'[v] = th[v], Busy(v) => Spares(v)
  PROVE  Sound(v)'
<1> SUFFICES ASSUME Busy(v)
             PROVE  NewInv(v)' /\ OldInv(v)' /\ GoneInv(v)' /\ CascadeInv(v)' /\ MarkInv(v)' /\ NamesInv(v)'
  BY DEF Sound, Busy
<1>1. Spares(v) /\ Req(v)' = Req(v) /\ bindings \subseteq DOMAIN made
  BY DEF Req, LInv, KnownInv
<1>2. NewInv(v) /\ OldInv(v) /\ GoneInv(v) /\ CascadeInv(v) /\ MarkInv(v) /\ NamesInv(v)
  BY DEF LInv, Sound
<1>3. NewInv(v)'
  <2>1. CASE th[v].new = 0
    BY <2>1 DEF NewInv
  <2>2. CASE th[v].new # 0
    <3>1. \A q \in rows' : q.binding # th[v].new
      BY <1>1, <1>2, <2>2 DEF NewInv, Spares, Since
    <3>2. Req(v).user \in crossed' \/ th[v].new \in bindings'
      BY <1>1, <1>2, <2>2 DEF NewInv, Spares
    <3>3. th[v].new \in DOMAIN made' /\ made'[th[v].new] = Req(v).user
      BY <1>1, <1>2, <2>2 DEF NewInv, Spares
    <3> QED BY <1>1, <1>2, <2>2, <3>1, <3>2, <3>3 DEF NewInv
  <2> QED BY <2>1, <2>2
<1>4. OldInv(v)'
  <2>1. th[v].old # 0 => \E r \in rows' : r.binding = th[v].old
    BY <1>1, <1>2 DEF OldInv, Spares
  <2>2. At(v, "commit", {"rotate", "revoke"}) => th[v].old \notin bindings'
    <3>1. ASSUME At(v, "commit", {"rotate", "revoke"}), th[v].old \in bindings'
          PROVE  FALSE
      <4>1. th[v].old \notin DOMAIN made /\ th[v].old # 0
        BY <1>1, <1>2, <3>1 DEF OldInv, Spares
      <4>2. th[v].old # 0 => th[v].old \in DOMAIN made
        BY <1>2 DEF OldInv, LInv, KnownInv
      <4> QED BY <4>1, <4>2
    <3> QED BY <3>1
  <2> QED BY <1>1, <1>2, <2>1, <2>2 DEF OldInv, At
<1>5. GoneInv(v)'
  BY <1>1, <1>2 DEF GoneInv, At, Spares
<1>6. CascadeInv(v)'
  <2>1. NamesInv(v)
    BY <1>2
  <2>2. ASSUME At(v, "cascade", {"remove"})
        PROVE  Req(v).user \in crossed' \/ \A b \in bindings' : made'[b] = Req(v).user => b \in th[v].names
    BY <1>1, <1>2, <2>2 DEF CascadeInv, Spares, At
  <2> QED BY <1>1, <2>2 DEF CascadeInv, At
<1>7. MarkInv(v)'
  <2>1. ASSUME At(v, "write", {"remove"}) \/ At(v, "commit", {"remove"}), Req(v).user \notin crossed'
        PROVE  /\ th[v].names \cap bindings' = {}
               /\ \/ th[v].gone \subseteq lost'
                  \/ \A r \in Active(Req(v).user)' : r.binding \in th[v].names
    <3>1. Req(v).user \notin crossed /\ Req(v).kind = "remove"
      BY <1>1, <2>1 DEF Spares, At
    <3>2. th[v].names \cap bindings' = {}
      BY <1>1, <1>2, <2>1, <3>1 DEF MarkInv, NamesInv, Spares
    <3>3. ASSUME NEW q \in rows', q.user = Req(v).user, ~q.revoked
          PROVE  \E r \in Active(Req(v).user) : r.binding = q.binding
      BY <1>1, <3>1, <3>3 DEF Spares, Since, Active
    <3>4. CASE th[v].gone \subseteq lost
      BY <1>1, <3>2, <3>4 DEF Spares
    <3>5. CASE \A r \in Active(Req(v).user) : r.binding \in th[v].names
      <4>1. ASSUME NEW q \in Active(Req(v).user)'
            PROVE  q.binding \in th[v].names
        BY <1>1, <3>3, <3>5, <4>1 DEF Active
      <4> QED BY <3>2, <4>1
    <3> QED BY <1>2, <2>1, <3>1, <3>4, <3>5 DEF MarkInv
  <2> QED BY <1>1, <2>1 DEF MarkInv, At
<1>8. NamesInv(v)'
  BY <1>1, <1>2 DEF NamesInv, Spares
<1> QED BY <1>3, <1>4, <1>5, <1>6, <1>7, <1>8

-----------------------------------------------------------------------------
(* What a step does to the thread that takes it. *)

\* Of the rows: no RoleBinding is deleted that nobody records.
LEMMA RowStaysTrue ==
  ASSUME LInv, NEW t \in Threads, NEW x, Goto(t, x), NEW r \in rows, NEW q, Since(q, r),
         crossed \subseteq crossed', lost \subseteq lost',
         \A b \in bindings' \ bindings : b \notin DOMAIN made,
         q.revoked => r.revoked \/ r.binding \notin bindings \/ q.user \in crossed',
         Busy(t) /\ r.binding \in th[t].gone
           => r.binding \in lost' \/ q.revoked \/ q.user \in crossed'
              \/ (x.pc # "idle" /\ r.binding \in x.gone),
         r.binding \in bindings \ bindings' => x.pc # "idle" /\ r.binding \in x.gone
  PROVE  RowTrue(q)'
<1>1. th'[t] = x /\ \A v \in Threads \ {t} : th'[v] = th[v]
  BY Stepped DEF LInv
<1>2. RowTrue(r) /\ r.binding \in DOMAIN made
  BY DEF LInv, KnownInv
<1>3. SUFFICES ASSUME q.user \notin crossed' PROVE RowTrue(q)'
  BY DEF RowTrue
<1>4. r.binding = q.binding /\ r.user \notin crossed
  BY <1>3 DEF Since
<1>5. CASE q.revoked
  BY <1>2, <1>3, <1>4, <1>5 DEF RowTrue
<1>6. CASE ~q.revoked
  <2>1. ~r.revoked
    BY <1>6 DEF Since
  <2>2. CASE r.binding \in bindings
    <3>1. CASE r.binding \in bindings'
      BY <1>3, <1>4, <1>6, <3>1 DEF RowTrue
    <3>2. CASE r.binding \notin bindings'
      <4>1. Recorded(r.binding)'
        BY <1>1, <2>2, <3>2 DEF Recorded, Busy
      <4> QED BY <1>4, <1>6, <4>1 DEF RowTrue
    <3> QED BY <3>1, <3>2
  <2>3. CASE Recorded(r.binding)
    <3>1. Recorded(r.binding)'
      <4>1. CASE r.binding \in lost
        BY <4>1 DEF Recorded
      <4>2. CASE \E v \in Threads : Busy(v) /\ r.binding \in th[v].gone
        <5>1. PICK v \in Threads : Busy(v) /\ r.binding \in th[v].gone
          BY <4>2
        <5>2. CASE v = t
          BY <1>1, <1>3, <1>6, <5>1, <5>2 DEF Recorded, Busy
        <5>3. CASE v # t
          BY <1>1, <5>1, <5>3 DEF Recorded, Busy
        <5> QED BY <5>2, <5>3
      <4> QED BY <2>3, <4>1, <4>2 DEF Recorded
    <3> QED BY <1>4, <1>6, <3>1 DEF RowTrue
  <2> QED BY <1>2, <1>4, <2>1, <2>2, <2>3 DEF RowTrue
<1> QED BY <1>5, <1>6

LEMMA PairKeeps ==
  ASSUME LInv, NEW t \in Threads, NEW x, Goto(t, x), Busy(t), crossed \subseteq crossed',
         x.pc = "idle" \/ x.req = th[t].req,
         \/ x.pc = "idle" \/ x.new = th[t].new
         \/ x.new # 0 /\ \A v \in Threads \ {t} : Busy(v) => x.new # th[v].new
  PROVE  PairInv'
<1>1. th'[t] = x /\ \A v \in Threads \ {t} : th'[v] = th[v]
  BY Stepped DEF LInv
<1> SUFFICES ASSUME NEW v \in Threads, NEW w \in Threads, v # w, Busy(v)', Busy(w)'
             PROVE  /\ th'[v].new # 0 => th'[v].new # th'[w].new
                    /\ Meets(Req(v)', Req(w)') => Req(v)' \in {Req(v)} /\ Req(v).user \in crossed'
  BY DEF PairInv, Meets
<1>2. \A u \in {v, w} : Busy(u) /\ Req(u)' = Req(u)
  BY <1>1 DEF Busy, Req
<1>3. Meets(Req(v)', Req(w)') => Req(v)' \in {Req(v)} /\ Req(v).user \in crossed'
  BY <1>2 DEF LInv, PairInv
<1>4. th'[v].new # 0 => th'[v].new # th'[w].new
  <2>1. CASE v # t /\ w # t
    BY <1>1, <1>2, <2>1 DEF LInv, PairInv
  <2>2. CASE v = t
    BY <1>1, <1>2, <2>2 DEF LInv, PairInv, Busy
  <2>3. CASE w = t
    BY <1>1, <1>2, <2>3 DEF LInv, PairInv, Busy
  <2> QED BY <2>1, <2>2, <2>3
<1> QED BY <1>3, <1>4

\* A step that concerns no kubeconfig.
LEMMA StillKeeps ==
  ASSUME LInv, TypeOK', NEW t \in Threads, NEW x, Goto(t, x), Busy(t),
         UNCHANGED <<rows, made, bindings, lost, crossed>>,
         \/ x.pc = "idle" /\ th[t].gone = {}
         \/ x.pc # "idle" /\ x.req = th[t].req /\ x.new = th[t].new /\ x.gone = th[t].gone,
         x.pc # "idle" => Sound(t)'
  PROVE  LInv'
<1>1. th'[t] = x /\ \A v \in Threads \ {t} : th'[v] = th[v]
  BY Stepped DEF LInv
<1>2. \A v \in Threads \ {t} : Sound(v)'
  <2>1. ASSUME NEW v \in Threads \ {t} PROVE Sound(v)'
    <3>1. Spares(v)
      BY DEF Spares, Since
    <3> QED BY <1>1, <3>1, SparedSound
  <2> QED BY <2>1
<1>3. Sound(t)'
  BY <1>1 DEF Sound, Busy
<1>4. ASSUME NEW r \in rows' PROVE RowTrue(r)'
  <2>1. r \in rows /\ Since(r, r)
    BY <1>4 DEF Since
  <2> QED BY <2>1, RowStaysTrue
<1>5. PairInv'
  BY PairKeeps
<1>6. KnownInv'
  BY DEF LInv, KnownInv
<1> QED BY <1>2, <1>3, <1>4, <1>5, <1>6 DEF LInv

\* What a thread knows while it has not bound or unbound anything.
LEMMA Fresh ==
  ASSUME LInv, NEW t \in Threads, Busy(t), th[t].pc \in {"begin", "bind", "list"} \/ Req(t).kind = "grant"
  PROVE  th[t].new = 0 /\ th[t].gone = {}
  BY DEF LInv, Sound, NewInv, GoneInv, At, Issues

LEMMA LeadKeeps ==
  ASSUME LInv, TypeOK', NEW t \in Threads, NEW x, Goto(t, x), Busy(t),
         UNCHANGED <<rows, made, bindings, lost, crossed>>,
         x.pc # "idle", x.req = th[t].req, x.new = 0, th[t].new = 0, x.gone = th[t].gone,
         x.pc # "commit" \/ Req(t).kind \notin {"rotate", "revoke"},
         x.old = th[t].old
           \/ (Req(t).kind \in {"rotate", "revoke"} /\ \E r \in rows : r.binding = x.old),
         x.gone = {} \/ (Req(t).kind = "remove" /\ x.pc \in {"cascade", "write", "commit"}),
         CascadeInv(t)' /\ MarkInv(t)' /\ NamesInv(t)'
  PROVE  LInv'
<1>1. th'[t] = x /\ Req(t)' = Req(t)
  BY Stepped DEF LInv, Req
<1>2. NewInv(t) /\ OldInv(t) /\ GoneInv(t)
  BY DEF LInv, Sound
<1>3. NewInv(t)'
  BY <1>1 DEF NewInv
<1>4. OldInv(t)'
  BY <1>1, <1>2 DEF OldInv, At
<1>5. GoneInv(t)'
  BY <1>1, <1>2 DEF GoneInv, At
<1>6. Sound(t)'
  BY <1>3, <1>4, <1>5 DEF Sound
<1> QED BY <1>6, StillKeeps

LEMMA CheckReads ==
  ASSUME NEW t \in Threads,
         \/ CheckIssue(t) \/ CheckRotate(t) \/ CheckRevoke(t) \/ CheckGrant(t)
         \/ CheckRemove(t) \/ List(t) \/ Select(t)
  PROVE  Busy(t) /\ Reads
  BY DEF CheckIssue, CheckRotate, CheckRevoke, CheckGrant, CheckRemove, List, Select, At, Busy

LEMMA CheckKeepsList ==
  ASSUME LInv, NEW t \in Threads,
         \/ CheckIssue(t) \/ CheckRotate(t) \/ CheckRevoke(t) \/ CheckGrant(t)
         \/ CheckRemove(t) \/ List(t) \/ Select(t)
         \/ WriteGrant(t) \/ WriteRemove(t) \/ CommitGrant(t)
  PROVE  LInv'
<1>1. Busy(t) /\ UNCHANGED <<rows, made, bindings, lost, crossed>>
  <2>1. CASE \/ CheckIssue(t) \/ CheckRotate(t) \/ CheckRevoke(t) \/ CheckGrant(t)
             \/ CheckRemove(t) \/ List(t) \/ Select(t)
    BY <2>1, CheckReads DEF Reads, portal, cluster, history
  <2>2. CASE WriteGrant(t) \/ WriteRemove(t)
    BY <2>2 DEF WriteGrant, WriteRemove, At, Busy, portal, cluster, history
  <2>3. CASE CommitGrant(t)
    BY <2>3 DEF CommitGrant, At, Busy, cluster, history
  <2> QED BY <2>1, <2>2, <2>3
<1>2. PICK y \in ThreadRecord : y = th[t]
  BY <1>1, BusyTyped DEF LInv
<1>3. Req(t) = y.req /\ Req(t) \in Requests
  BY <1>1, <1>2, BusyTyped DEF LInv, Req
<1>4. TypeOK'
  BY CheckTyped, WriteTyped, CommitTyped DEF LInv
<1>5. TypeOK /\ Sound(t)
  BY DEF LInv
<1>6. ASSUME End(t),
             \/ CheckIssue(t) \/ CheckRotate(t) \/ CheckRevoke(t) \/ CheckGrant(t) \/ CheckRemove(t)
             \/ WriteGrant(t) \/ CommitGrant(t)
      PROVE  LInv'
  <2>1. th[t].pc = "begin" \/ Req(t).kind = "grant"
    <3>1. CASE CheckIssue(t) \/ CheckGrant(t) \/ CheckRemove(t) \/ WriteGrant(t) \/ CommitGrant(t)
      BY <3>1 DEF CheckIssue, CheckGrant, CheckRemove, WriteGrant, CommitGrant, At
    <3>2. CASE CheckRotate(t)
      BY <3>2 DEF CheckRotate, At
    <3>3. CASE CheckRevoke(t)
      BY <3>3 DEF CheckRevoke, At
    <3> QED BY <1>6, <3>1, <3>2, <3>3
  <2>2. th[t].gone = {}
    BY <1>1, <2>1, Fresh
  <2> QED BY <1>1, <1>4, <1>6, <2>2, StillKeeps DEF End, Idle
<1>7. CASE CheckIssue(t) \/ CheckGrant(t)
  <2>1. ASSUME NEW pc \in {"bind", "write"}, Proceed(t, pc) PROVE LInv'
    <3> DEFINE x == [y EXCEPT !.pc = pc]
    <3>1. x.pc = pc /\ x.req = y.req /\ x.new = y.new /\ x.gone = y.gone /\ x.old = y.old
      BY DEF ThreadRecord
    <3>2. Goto(t, x) /\ y.pc = "begin" /\ y.req.kind \in {"issue", "grant"}
      BY <1>2, <1>3, <1>7, <2>1 DEF Proceed, CheckIssue, CheckGrant, At
    <3> HIDE DEF x
    <3>3. th'[t] = x /\ y.new = 0 /\ y.gone = {}
      BY <1>1, <1>2, <1>5, <3>2, Stepped, Fresh
    <3>4. CascadeInv(t)' /\ MarkInv(t)' /\ NamesInv(t)'
      BY <1>2, <3>1, <3>2, <3>3 DEF CascadeInv, MarkInv, NamesInv, At, Req
    <3> QED BY <1>1, <1>2, <1>3, <1>4, <3>1, <3>2, <3>3, <3>4, LeadKeeps
  <2> QED BY <1>6, <1>7, <2>1 DEF CheckIssue, CheckGrant
<1>8. CASE CheckRotate(t) \/ CheckRevoke(t)
  <2>1. ASSUME NEW pc \in {"bind", "unbind"}, NEW r \in Active(Req(t).user),
               Goto(t, [th[t] EXCEPT !.pc = pc, !.old = r.binding])
        PROVE  LInv'
    <3> DEFINE x == [y EXCEPT !.pc = pc, !.old = r.binding]
    <3>1. x.pc = pc /\ x.req = y.req /\ x.new = y.new /\ x.gone = y.gone /\ x.old = r.binding
      BY DEF ThreadRecord
    <3>2. /\ Goto(t, x) /\ y.pc = "begin" /\ y.req.kind \in {"rotate", "revoke"}
          /\ \E q \in rows : q.binding = x.old
      <4>1. y.pc = "begin" /\ y.req.kind \in {"rotate", "revoke"}
        <5>1. CASE CheckRotate(t)
          BY <1>2, <1>3, <5>1 DEF CheckRotate, At
        <5>2. CASE CheckRevoke(t)
          BY <1>2, <1>3, <5>2 DEF CheckRevoke, At
        <5> QED BY <1>8, <5>1, <5>2
      <4>2. r \in rows
        BY DEF Active
      <4> QED BY <1>2, <2>1, <3>1, <4>1, <4>2
    <3> HIDE DEF x
    <3>3. th'[t] = x /\ y.new = 0 /\ y.gone = {}
      BY <1>1, <1>2, <1>5, <3>2, Stepped, Fresh
    <3>4. CascadeInv(t)' /\ MarkInv(t)' /\ NamesInv(t)'
      BY <1>2, <3>1, <3>2, <3>3 DEF CascadeInv, MarkInv, NamesInv, At, Req
    <3> QED BY <1>1, <1>2, <1>3, <1>4, <3>1, <3>2, <3>3, <3>4, LeadKeeps
  <2>2. CASE CheckRotate(t)
    <3>1. End(t) \/ \E r \in Active(Req(t).user) : Goto(t, [th[t] EXCEPT !.pc = "bind", !.old = r.binding])
      BY <2>2 DEF CheckRotate
    <3> QED BY <1>6, <2>1, <2>2, <3>1
  <2>3. CASE CheckRevoke(t)
    <3>1. End(t) \/ \E r \in Active(Req(t).user) : Goto(t, [th[t] EXCEPT !.pc = "unbind", !.old = r.binding])
      BY <2>3 DEF CheckRevoke
    <3> QED BY <1>6, <2>1, <2>3, <3>1
  <2> QED BY <1>8, <2>2, <2>3
<1>9. CASE CheckRemove(t)
  <2> DEFINE x == [y EXCEPT !.pc = "list", !.target = access[Req(t).user]]
  <2>1. /\ x.pc = "list" /\ x.req = y.req /\ x.new = y.new /\ x.gone = y.gone
        /\ x.old = y.old /\ x.names = y.names
    BY DEF ThreadRecord
  <2>2. (Goto(t, x) \/ End(t)) /\ y.pc = "begin" /\ y.req.kind = "remove"
    BY <1>2, <1>3, <1>9 DEF CheckRemove, At
  <2> HIDE DEF x
  <2>3. ASSUME Goto(t, x) PROVE LInv'
    <3>1. th'[t] = x /\ y.new = 0 /\ y.gone = {}
      BY <1>1, <1>2, <1>5, <2>2, <2>3, Stepped, Fresh
    <3>2. NamesInv(t)
      BY <1>1, <1>5 DEF Sound
    <3>3. CascadeInv(t)' /\ MarkInv(t)' /\ NamesInv(t)'
      BY <1>1, <1>2, <2>1, <3>1, <3>2 DEF CascadeInv, MarkInv, NamesInv, At, Req
    <3> QED BY <1>1, <1>2, <1>3, <1>4, <2>1, <2>2, <2>3, <3>1, <3>3, LeadKeeps
  <2> QED BY <1>6, <1>9, <2>2, <2>3
<1>10. CASE List(t)
  <2> DEFINE ns == {b \in bindings : made[b] = Req(t).user}
             x == [y EXCEPT !.pc = "cascade", !.names = ns]
  <2>1. /\ x.pc = "cascade" /\ x.req = y.req /\ x.new = y.new /\ x.gone = y.gone
        /\ x.old = y.old /\ x.names = ns
    BY DEF ThreadRecord
  <2>2. Goto(t, x) /\ y.pc = "list" /\ y.req.kind = "remove"
    BY <1>2, <1>3, <1>10 DEF List, At
  <2>3. ns \subseteq DOMAIN made /\ ns = {b \in bindings' : made'[b] = Req(t).user}
    BY <1>1 DEF LInv, KnownInv
  <2> HIDE DEF x, ns
  <2>4. th'[t] = x /\ y.new = 0 /\ y.gone = {}
    BY <1>1, <1>2, <1>5, <2>2, Stepped, Fresh
  <2>5. CascadeInv(t)' /\ MarkInv(t)' /\ NamesInv(t)'
    BY <1>1, <1>2, <1>3, <2>1, <2>3, <2>4 DEF CascadeInv, MarkInv, NamesInv, At, Req
  <2> QED BY <1>1, <1>2, <1>3, <1>4, <2>1, <2>2, <2>4, <2>5, LeadKeeps
<1>11. CASE Select(t)
  <2> DEFINE ns == {r.binding : r \in Active(Req(t).user)}
             x == [y EXCEPT !.pc = "write", !.names = ns]
  <2>1. /\ x.pc = "write" /\ x.req = y.req /\ x.new = y.new /\ x.gone = y.gone
        /\ x.old = y.old /\ x.names = ns
    BY DEF ThreadRecord
  <2>2. Goto(t, x) /\ y.pc = "cascade" /\ y.req.kind = "remove" /\ y.names = {}
    BY <1>2, <1>3, <1>11 DEF Select, At
  <2>3. NewInv(t) /\ CascadeInv(t) /\ At(t, "cascade", {"remove"})
    BY <1>1, <1>5, <1>11 DEF Sound, Select
  <2>4. ns \subseteq DOMAIN made /\ \A b \in ns : made[b] = Req(t).user
    BY DEF LInv, KnownInv, Active
  <2>5. Req(t).user \in crossed \/ ns \cap bindings = {}
    BY <1>2, <2>2, <2>3, <2>4 DEF CascadeInv
  <2>6. \A r \in Active(Req(t).user) : r.binding \in ns
    OBVIOUS
  <2> HIDE DEF x, ns
  <2>7. /\ th'[t] = x /\ y.new = 0 /\ Req(t)' = Req(t)
        /\ Active(Req(t).user)' = Active(Req(t).user)
    BY <1>1, <1>2, <1>3, <1>5, <2>1, <2>2, <2>3, Stepped DEF NewInv, Req, Issues, Active
  <2>8. CascadeInv(t)' /\ MarkInv(t)' /\ NamesInv(t)'
    BY <1>1, <2>1, <2>3, <2>4, <2>5, <2>6, <2>7 DEF CascadeInv, MarkInv, NamesInv, At
  <2> QED BY <1>1, <1>2, <1>3, <1>4, <2>1, <2>2, <2>7, <2>8, LeadKeeps
<1>12. CASE WriteGrant(t)
  <2>1. ASSUME Proceed(t, "commit") PROVE LInv'
    <3> DEFINE x == [y EXCEPT !.pc = "commit"]
    <3>1. x.pc = "commit" /\ x.req = y.req /\ x.new = y.new /\ x.gone = y.gone /\ x.old = y.old
      BY DEF ThreadRecord
    <3>2. Goto(t, x) /\ y.req.kind = "grant"
      BY <1>2, <1>3, <1>12, <2>1 DEF Proceed, WriteGrant, At
    <3> HIDE DEF x
    <3>3. th'[t] = x /\ y.new = 0 /\ y.gone = {}
      BY <1>1, <1>2, <1>3, <1>5, <3>2, Stepped, Fresh
    <3>4. CascadeInv(t)' /\ MarkInv(t)' /\ NamesInv(t)'
      BY <1>2, <3>1, <3>2, <3>3 DEF CascadeInv, MarkInv, NamesInv, At, Req
    <3> QED BY <1>1, <1>2, <1>3, <1>4, <3>1, <3>2, <3>3, <3>4, LeadKeeps
  <2> QED BY <1>6, <1>12, <2>1 DEF WriteGrant
<1>13. CASE WriteRemove(t)
  <2> DEFINE x == [y EXCEPT !.pc = "commit"]
  <2>1. /\ x.pc = "commit" /\ x.req = y.req /\ x.new = y.new /\ x.gone = y.gone
        /\ x.old = y.old /\ x.names = y.names
    BY DEF ThreadRecord
  <2>2. Goto(t, x) /\ y.pc = "write" /\ y.req.kind = "remove"
    BY <1>2, <1>3, <1>13 DEF Proceed, WriteRemove, At
  <2>3. NewInv(t) /\ MarkInv(t) /\ NamesInv(t) /\ At(t, "write", {"remove"})
    BY <1>1, <1>5, <1>13 DEF Sound, WriteRemove
  <2> HIDE DEF x
  <2>4. /\ th'[t] = x /\ y.new = 0 /\ Req(t)' = Req(t)
        /\ Active(Req(t).user)' = Active(Req(t).user)
    BY <1>1, <1>2, <1>3, <1>5, <2>1, <2>2, <2>3, Stepped DEF NewInv, Req, Issues, Active
  <2>5. CascadeInv(t)' /\ MarkInv(t)' /\ NamesInv(t)'
    BY <1>1, <1>2, <2>1, <2>3, <2>4 DEF CascadeInv, MarkInv, NamesInv, At
  <2> QED BY <1>1, <1>2, <1>3, <1>4, <2>1, <2>2, <2>4, <2>5, LeadKeeps
<1>14. CASE CommitGrant(t)
  BY <1>6, <1>14 DEF CommitGrant
<1> QED BY <1>7, <1>8, <1>9, <1>10, <1>11, <1>12, <1>13, <1>14

LEMMA BeginKeepsList ==
  ASSUME LInv, NEW t \in Threads, Begin(t)
  PROVE  LInv'
<1> DEFINE r == Head(todo)
           running == {Req(v) : v \in {w \in Threads : Busy(w)}}
           x == [pc |-> "begin", req |-> r, target |-> None, old |-> 0, new |-> 0,
                 names |-> {}, gone |-> {}]
<1>1. /\ ~Busy(t) /\ Goto(t, x) /\ UNCHANGED <<rows, made, bindings, lost>>
      /\ crossed' = crossed \cup {u \in {r.user} : \E q \in running : Meets(r, q) \/ Meets(q, r)}
  BY DEF Begin, portal, cluster
<1>2. x.pc = "begin" /\ x.req = r /\ x.old = 0 /\ x.new = 0 /\ x.names = {} /\ x.gone = {}
  OBVIOUS
<1>3. \A v \in Threads : Busy(v) => Req(v) \in running
  OBVIOUS
<1>4. TypeOK'
  BY BeginTyped DEF LInv
<1> HIDE DEF x, r, running
<1>5. th'[t] = x /\ \A v \in Threads \ {t} : th'[v] = th[v]
  BY <1>1, Stepped DEF LInv
<1>6. \A v \in Threads \ {t} : Sound(v)'
  <2>1. ASSUME NEW v \in Threads \ {t} PROVE Sound(v)'
    <3>1. Spares(v)
      BY <1>1 DEF Spares, Since
    <3> QED BY <1>5, <3>1, SparedSound
  <2> QED BY <2>1
<1>7. Sound(t)'
  BY <1>2, <1>5 DEF Sound, NewInv, OldInv, GoneInv, CascadeInv, MarkInv, NamesInv, At
<1>8. ASSUME NEW q \in rows' PROVE RowTrue(q)'
  <2>1. q \in rows /\ Since(q, q)
    BY <1>1, <1>8 DEF Since
  <2> QED BY <1>1, <2>1, RowStaysTrue
<1>9. KnownInv'
  BY <1>1 DEF LInv, KnownInv
<1>10. PairInv'
  <2> SUFFICES ASSUME NEW v \in Threads, NEW w \in Threads, v # w, Busy(v)', Busy(w)'
               PROVE  /\ th'[v].new # 0 => th'[v].new # th'[w].new
                      /\ Meets(Req(v)', Req(w)') => Req(v)'.user \in crossed'
    BY DEF PairInv, Meets, Req
  <2>1. CASE v # t /\ w # t
    BY <1>1, <1>5, <2>1 DEF LInv, PairInv, Busy, Req
  <2>2. CASE v = t
    <3>1. Busy(w) /\ Req(w)' = Req(w) /\ Req(v)' = r /\ th'[v].new = 0
      BY <1>2, <1>5, <2>2 DEF Busy, Req
    <3>2. Meets(r, Req(w)) => r.user \in crossed'
      BY <1>1, <1>3, <3>1
    <3> QED BY <3>1, <3>2
  <2>3. CASE w = t
    <3>1. Busy(v) /\ Req(v)' = Req(v) /\ Req(w)' = r /\ th'[w].new = 0
      BY <1>2, <1>5, <2>3 DEF Busy, Req
    <3>2. Meets(Req(v), r) => r.user \in crossed' /\ Req(v).user = r.user
      BY <1>1, <1>3, <3>1 DEF Meets
    <3> QED BY <3>1, <3>2
  <2> QED BY <2>1, <2>2, <2>3
<1> QED BY <1>4, <1>6, <1>7, <1>8, <1>9, <1>10 DEF LInv

LEMMA AppendMade ==
  ASSUME TypeOK, NEW u \in Users, made' = Append(made, u)
  PROVE  /\ Len(made) + 1 \notin DOMAIN made /\ Len(made) + 1 # 0
         /\ DOMAIN made' = DOMAIN made \cup {Len(made) + 1} /\ made'[Len(made) + 1] = u
         /\ \A b \in DOMAIN made : made'[b] = made[b]
<1>1. made \in Seq(Users)
  BY DEF TypeOK
<1> QED BY <1>1

LEMMA BindKeepsList ==
  ASSUME LInv, NEW t \in Threads, Bind(t)
  PROVE  LInv'
<1>1. Busy(t) /\ UNCHANGED <<rows, lost, crossed>> /\ th[t].pc = "bind" /\ Req(t).kind \in Issues
  BY DEF Bind, At, Busy, portal, history
<1>2. TypeOK /\ TypeOK' /\ Sound(t)
  BY BindTyped DEF LInv
<1>3. PICK y \in ThreadRecord : y = th[t]
  BY <1>1, <1>2, BusyTyped
<1>4. Req(t) = y.req /\ Req(t).user \in Users
  BY <1>1, <1>2, <1>3, BusyTyped, RequestTyped DEF Req
<1>5. PICK b : b = Len(made) + 1
  OBVIOUS
<1>6. made' = Append(made, Req(t).user) /\ bindings' = bindings \cup {b}
  BY <1>5 DEF Bind
<1>7. /\ b \notin DOMAIN made /\ b # 0 /\ DOMAIN made' = DOMAIN made \cup {b}
      /\ made'[b] = Req(t).user /\ \A c \in DOMAIN made : made'[c] = made[c]
  BY <1>2, <1>4, <1>5, <1>6, AppendMade
<1>8. PICK pc \in {"unbind", "commit"} :
        /\ pc = IF Req(t).kind = "rotate" THEN "unbind" ELSE "commit"
        /\ Goto(t, [y EXCEPT !.new = b, !.pc = pc])
  BY <1>3, <1>5 DEF Bind
<1> DEFINE x == [y EXCEPT !.new = b, !.pc = pc]
<1>9. x.pc = pc /\ x.req = y.req /\ x.new = b /\ x.gone = y.gone /\ x.old = y.old
  BY DEF ThreadRecord
<1>10. Goto(t, x)
  BY <1>8
<1> HIDE DEF x
<1>11. th'[t] = x /\ Req(t)' = Req(t) /\ \A v \in Threads \ {t} : th'[v] = th[v]
  BY <1>2, <1>4, <1>9, <1>10, Stepped DEF Req
<1>12. KnownInv /\ KnownInv'
  <2>1. KnownInv
    BY DEF LInv
  <2> QED BY <1>1, <1>6, <1>7, <2>1 DEF KnownInv
<1>13. ASSUME NEW v \in Threads \ {t}, Busy(v) PROVE Spares(v) /\ th[v].new # b
  <2>1. Req(v).kind = "remove" /\ Req(v).user = Req(t).user => Req(v).user \in crossed
    BY <1>1, <1>13 DEF LInv, PairInv, Meets
  <2>2. th[v].new # b
    BY <1>7, <1>13 DEF LInv, Sound, NewInv
  <2>3. \A c \in bindings' \ bindings : c = b
    BY <1>6
  <2>4. bindings \ bindings' = {}
    BY <1>6
  <2> QED BY <1>1, <1>7, <2>1, <2>2, <2>3, <2>4 DEF Spares, Since
<1>14. \A v \in Threads \ {t} : Sound(v)'
  BY <1>11, <1>13, SparedSound
<1>15. y.gone = {} /\ OldInv(t)
  BY <1>1, <1>2, <1>3, Fresh DEF Sound
<1>16. Sound(t)'
  <2>1. NewInv(t)'
    BY <1>1, <1>6, <1>7, <1>9, <1>11, <1>12 DEF NewInv, KnownInv
  <2>2. OldInv(t)'
    <3>1. ~At(t, "commit", {"rotate", "revoke"})'
      BY <1>1, <1>8, <1>9, <1>11 DEF At, Issues
    <3> QED BY <1>1, <1>3, <1>9, <1>11, <1>15, <3>1 DEF OldInv
  <2>3. GoneInv(t)'
    BY <1>9, <1>11, <1>15 DEF GoneInv
  <2>4. CascadeInv(t)' /\ MarkInv(t)' /\ NamesInv(t)'
    BY <1>1, <1>11 DEF CascadeInv, MarkInv, NamesInv, At, Issues
  <2> QED BY <2>1, <2>2, <2>3, <2>4 DEF Sound
<1>17. PairInv'
  BY <1>1, <1>4, <1>7, <1>3, <1>9, <1>10, <1>13, PairKeeps DEF Req
<1>18. ASSUME NEW q \in rows' PROVE RowTrue(q)'
  <2>1. q \in rows /\ Since(q, q)
    BY <1>1, <1>18 DEF Since
  <2> QED BY <1>1, <1>3, <1>6, <1>7, <1>10, <1>15, <2>1, RowStaysTrue
<1> QED BY <1>2, <1>12, <1>14, <1>16, <1>17, <1>18 DEF LInv

LEMMA ZeroNotMade ==
  ASSUME TypeOK
  PROVE  0 \notin DOMAIN made
<1>1. made \in Seq(Users)
  BY DEF TypeOK
<1> QED BY <1>1

LEMMA UnbindKeepsList ==
  ASSUME LInv, NEW t \in Threads, Unbind(t)
  PROVE  LInv'
<1>1. /\ Busy(t) /\ UNCHANGED <<rows, made, lost, crossed>>
      /\ th[t].pc = "unbind" /\ Req(t).kind \in {"rotate", "revoke"}
  BY DEF Unbind, At, Busy, portal, history
<1>2. TypeOK /\ TypeOK' /\ Sound(t) /\ KnownInv /\ 0 \notin DOMAIN made
  BY UnbindTyped, ZeroNotMade DEF LInv
<1>3. PICK y \in ThreadRecord : y = th[t]
  BY <1>1, <1>2, BusyTyped
<1> DEFINE x == [y EXCEPT !.pc = "commit", !.gone = {y.old}]
<1>4. x.pc = "commit" /\ x.req = y.req /\ x.new = y.new /\ x.gone = {y.old} /\ x.old = y.old
  BY DEF ThreadRecord
<1>5. Goto(t, x) /\ bindings' = bindings \ {y.old}
  BY <1>3 DEF Unbind
<1> HIDE DEF x
<1>6. th'[t] = x /\ Req(t)' = Req(t) /\ \A v \in Threads \ {t} : th'[v] = th[v]
  BY <1>2, <1>3, <1>4, <1>5, Stepped DEF Req
<1>7. KnownInv'
  BY <1>1, <1>2, <1>5 DEF KnownInv
<1>8. NewInv(t) /\ OldInv(t) /\ GoneInv(t)
  BY <1>1, <1>2 DEF Sound
<1>9. y.gone = {}
  BY <1>1, <1>3, <1>8 DEF GoneInv, At
<1>10. y.old \in bindings => \E r \in rows : r.binding = y.old
  BY <1>2, <1>3, <1>8 DEF OldInv, KnownInv
<1>11. ASSUME NEW v \in Threads, Busy(v), NewInv(v) PROVE th[v].new \notin bindings \ bindings'
  <2>1. \A r \in rows : r.binding # th[v].new \/ th[v].new = 0
    BY <1>11 DEF NewInv
  <2> QED BY <1>2, <1>5, <1>10, <2>1 DEF KnownInv
<1>12. ASSUME NEW v \in Threads \ {t} PROVE Sound(v)'
  <2>1. Busy(v) => Spares(v)
    <3>1. Busy(v) => NewInv(v)
      BY DEF LInv, Sound
    <3>2. bindings' \ bindings = {}
      BY <1>5
    <3> QED BY <1>1, <1>11, <3>1, <3>2 DEF Spares, Since
  <2> QED BY <1>6, <2>1, SparedSound
<1>13. Sound(t)'
  <2>1. NewInv(t)'
    BY <1>1, <1>3, <1>4, <1>6, <1>8, <1>11 DEF NewInv
  <2>2. OldInv(t)'
    BY <1>1, <1>3, <1>4, <1>5, <1>6, <1>8 DEF OldInv
  <2>3. GoneInv(t)'
    BY <1>1, <1>4, <1>6 DEF GoneInv, At
  <2>4. CascadeInv(t)' /\ MarkInv(t)' /\ NamesInv(t)'
    BY <1>1, <1>6 DEF CascadeInv, MarkInv, NamesInv, At
  <2> QED BY <2>1, <2>2, <2>3, <2>4 DEF Sound
<1>14. PairInv'
  BY <1>1, <1>3, <1>4, <1>5, PairKeeps
<1>15. ASSUME NEW q \in rows' PROVE RowTrue(q)'
  <2>1. q \in rows /\ Since(q, q)
    BY <1>1, <1>15 DEF Since
  <2>2. q.binding \in bindings \ bindings' => q.binding \in x.gone
    BY <1>4, <1>5
  <2> QED BY <1>1, <1>3, <1>4, <1>5, <1>9, <2>1, <2>2, RowStaysTrue
<1> QED BY <1>2, <1>7, <1>12, <1>13, <1>14, <1>15 DEF LInv

LEMMA CascadeKeepsList ==
  ASSUME LInv, NEW t \in Threads, Cascade(t)
  PROVE  LInv'
<1>1. Busy(t) /\ UNCHANGED <<rows, made, lost, crossed>> /\ th[t].pc = "cascade" /\ Req(t).kind = "remove"
  BY DEF Cascade, At, Busy, portal, history
<1>2. TypeOK /\ TypeOK' /\ Sound(t) /\ KnownInv /\ 0 \notin DOMAIN made
  BY UnbindTyped, ZeroNotMade DEF LInv
<1>3. PICK y \in ThreadRecord : y = th[t]
  BY <1>1, <1>2, BusyTyped
<1>4. PICK b \in y.names : bindings' = bindings \ {b}
         /\ Goto(t, [y EXCEPT !.names = @ \ {b}, !.gone = @ \cup {b}])
  BY <1>3 DEF Cascade
<1> DEFINE x == [y EXCEPT !.names = @ \ {b}, !.gone = @ \cup {b}]
<1>5. /\ x.pc = "cascade" /\ x.req = y.req /\ x.new = y.new /\ x.old = y.old
      /\ x.gone = y.gone \cup {b} /\ x.names = y.names \ {b}
  BY <1>1, <1>3 DEF ThreadRecord
<1>6. Goto(t, x)
  BY <1>4
<1> HIDE DEF x
<1>7. th'[t] = x /\ Req(t)' = Req(t) /\ \A v \in Threads \ {t} : th'[v] = th[v]
  BY <1>2, <1>3, <1>5, <1>6, Stepped DEF Req
<1>8. KnownInv'
  BY <1>1, <1>2, <1>4 DEF KnownInv
<1>9. NewInv(t) /\ OldInv(t) /\ GoneInv(t) /\ CascadeInv(t) /\ NamesInv(t)
  BY <1>1, <1>2 DEF Sound
<1>10. b \in DOMAIN made /\ made[b] = Req(t).user
  BY <1>1, <1>3, <1>9 DEF NamesInv
<1>11. ASSUME NEW v \in Threads \ {t} PROVE Sound(v)'
  <2>1. ASSUME Busy(v) PROVE Spares(v)
    <3>1. th[v].new = b => Req(v).user \in crossed
      <4>1. NewInv(v)
        BY <2>1 DEF LInv, Sound
      <4>2. th[v].new = b => Meets(Req(t), Req(v))
        BY <1>1, <1>2, <1>10, <4>1 DEF NewInv, Meets
      <4> QED BY <1>1, <2>1, <4>2 DEF LInv, PairInv, Meets
    <3>2. bindings' \ bindings = {} /\ \A c \in bindings \ bindings' : c = b
      BY <1>4
    <3> QED BY <1>1, <3>1, <3>2 DEF Spares, Since
  <2> QED BY <1>7, <2>1, SparedSound
<1>12. Sound(t)'
  <2>1. NewInv(t)' /\ OldInv(t)'
    BY <1>1, <1>3, <1>5, <1>7, <1>9 DEF NewInv, OldInv, At, Issues
  <2>2. GoneInv(t)'
    BY <1>1, <1>3, <1>5, <1>7, <1>9, <1>10 DEF GoneInv, At
  <2>3. CascadeInv(t)'
    BY <1>1, <1>3, <1>4, <1>5, <1>7, <1>9 DEF CascadeInv, At
  <2>4. MarkInv(t)' /\ NamesInv(t)'
    BY <1>1, <1>3, <1>5, <1>7, <1>9 DEF MarkInv, NamesInv, At
  <2> QED BY <2>1, <2>2, <2>3, <2>4 DEF Sound
<1>13. PairInv'
  BY <1>1, <1>3, <1>5, <1>6, PairKeeps
<1>14. ASSUME NEW q \in rows' PROVE RowTrue(q)'
  <2>1. q \in rows /\ Since(q, q)
    BY <1>1, <1>14 DEF Since
  <2>2. q.binding \in bindings \ bindings' => q.binding \in x.gone
    BY <1>4, <1>5
  <2> QED BY <1>1, <1>3, <1>4, <1>5, <1>6, <2>1, <2>2, RowStaysTrue
<1> QED BY <1>2, <1>8, <1>11, <1>12, <1>13, <1>14 DEF LInv

\* A row that is marked keeps the rest.
LEMMA RevokedSince ==
  ASSUME TypeOK, NEW rs
  PROVE  /\ \A r \in rows : \E q \in Revoked(rs) : q.binding = r.binding
         /\ \A q \in Revoked(rs) : \E r \in rows : Since(q, r) /\ (q.revoked <=> (r.revoked \/ r \in rs))
<1>1. rows \subseteq [user : Users, binding : Nat, revoked : BOOLEAN]
  BY DEF TypeOK
<1> DEFINE m(r) == IF r \in rs THEN [r EXCEPT !.revoked = TRUE] ELSE r
<1>2. ASSUME NEW r \in rows
      PROVE  /\ Since(m(r), r) /\ (m(r).revoked <=> (r.revoked \/ r \in rs))
             /\ m(r).binding = r.binding /\ m(r) \in Revoked(rs)
  <2>1. m(r) \in Revoked(rs)
    BY DEF Revoked
  <2>2. CASE r \in rs
    BY <1>1, <2>1, <2>2 DEF Since
  <2>3. CASE r \notin rs
    BY <1>1, <2>1, <2>3 DEF Since
  <2> QED BY <2>2, <2>3
<1>3. Revoked(rs) = {m(r) : r \in rows}
  BY DEF Revoked
<1> HIDE DEF m
<1> QED BY <1>2, <1>3

LEMMA CommitCredentialKeepsList ==
  ASSUME LInv, NEW t \in Threads, CommitCredential(t)
  PROVE  LInv'
<1>1. /\ Busy(t) /\ UNCHANGED <<made, bindings, lost, crossed>> /\ End(t)
      /\ At(t, "commit", {"issue", "rotate", "revoke"})
  BY DEF CommitCredential, At, Busy, cluster, history
<1>2. TypeOK /\ TypeOK' /\ Sound(t) /\ KnownInv /\ 0 \notin DOMAIN made
  BY CommitTyped, ZeroNotMade DEF LInv
<1>3. PICK n : n = th[t].new
  OBVIOUS
<1>4. PICK u : u = Req(t).user
  OBVIOUS
<1>5. PICK R : R = {r \in rows : r.binding = th[t].old}
  OBVIOUS
<1>6. rows' = Revoked(R) \cup {Row(u, b, FALSE) : b \in {n} \ {0}}
  BY <1>3, <1>4, <1>5 DEF CommitCredential
<1>7. NewInv(t) /\ OldInv(t) /\ GoneInv(t)
  BY <1>1, <1>2 DEF Sound
<1>8. ASSUME NEW q \in rows'
      PROVE  \/ \E r \in rows : Since(q, r) /\ (q.revoked <=> (r.revoked \/ r \in R))
             \/ q = Row(u, n, FALSE) /\ n # 0
  <2>1. CASE q \in Revoked(R)
    <3>1. \A p \in Revoked(R) : \E r \in rows : Since(p, r) /\ (p.revoked <=> (r.revoked \/ r \in R))
      BY <1>2, RevokedSince
    <3> QED BY <2>1, <3>1
  <2>2. CASE q \in {Row(u, b, FALSE) : b \in {n} \ {0}}
    BY <2>2
  <2> QED BY <1>6, <1>8, <2>1, <2>2
<1>9. Row(u, n, FALSE).user = u /\ Row(u, n, FALSE).binding = n /\ Row(u, n, FALSE).revoked = FALSE
  BY DEF Row
<1>10. KnownInv'
  <2>1. ASSUME NEW q \in rows' PROVE q.binding \in DOMAIN made /\ made[q.binding] = q.user
    <3>1. CASE \E r \in rows : Since(q, r)
      BY <1>2, <3>1 DEF KnownInv, Since
    <3>2. CASE q = Row(u, n, FALSE) /\ n # 0
      BY <1>3, <1>4, <1>7, <1>9, <3>2 DEF NewInv
    <3> QED BY <1>8, <2>1, <3>1, <3>2
  <2> QED BY <1>1, <1>2, <2>1 DEF KnownInv
<1>11. th'[t] = Idle /\ \A v \in Threads \ {t} : th'[v] = th[v]
  BY <1>1, <1>2, Stepped DEF End
<1>12. ASSUME NEW v \in Threads \ {t} PROVE Sound(v)'
  <2>1. ASSUME Busy(v) PROVE Spares(v)
    <3>1. n # 0 => n # th[v].new /\ (Req(v).kind = "remove" /\ Req(v).user = u => u \in crossed)
      BY <1>1, <1>3, <1>4, <1>7, <2>1 DEF LInv, PairInv, Meets, NewInv
    <3>2. \A q \in rows' :
            \/ \E r \in rows : Since(q, r)
            \/ /\ q.binding # th[v].new
               /\ Req(v).kind = "remove" /\ Req(v).user = q.user => q.user \in crossed
      BY <1>8, <1>9, <3>1
    <3>3. \A r \in rows : \E q \in rows' : q.binding = r.binding
      BY <1>2, <1>6, RevokedSince
    <3> QED BY <1>1, <3>2, <3>3 DEF Spares
  <2> QED BY <1>11, <2>1, SparedSound
<1>13. Sound(t)'
  BY <1>11 DEF Sound, Busy, Idle
<1>14. PairInv'
  BY <1>1, PairKeeps DEF End, Idle
<1>15. ASSUME NEW q \in rows' PROVE RowTrue(q)'
  <2>1. CASE q = Row(u, n, FALSE) /\ n # 0
    BY <1>1, <1>3, <1>4, <1>7, <1>9, <2>1 DEF NewInv, RowTrue
  <2>2. CASE \E r \in rows : Since(q, r) /\ (q.revoked <=> (r.revoked \/ r \in R))
    <3>1. PICK r \in rows : Since(q, r) /\ (q.revoked <=> (r.revoked \/ r \in R))
      BY <2>2
    <3>2. r.binding \in DOMAIN made /\ r.binding # 0
      BY <1>2 DEF KnownInv
    <3>3. r \in R => r.binding \notin bindings
      BY <1>1, <1>5, <1>7, <3>2 DEF OldInv, At
    <3>4. r.binding \in th[t].gone => r \in R
      BY <1>1, <1>5, <1>7 DEF GoneInv, At
    <3> QED BY <1>1, <3>1, <3>3, <3>4, RowStaysTrue DEF End
  <2> QED BY <1>8, <2>1, <2>2
<1> QED BY <1>2, <1>10, <1>12, <1>13, <1>14, <1>15 DEF LInv

LEMMA CommitRemoveKeepsList ==
  ASSUME LInv, NEW t \in Threads, CommitRemove(t)
  PROVE  LInv'
<1>1. /\ Busy(t) /\ UNCHANGED <<made, bindings, lost, crossed>> /\ End(t)
      /\ At(t, "commit", {"remove"})
  BY DEF CommitRemove, At, Busy, cluster, history
<1>2. TypeOK /\ TypeOK' /\ Sound(t) /\ KnownInv
  BY CommitTyped DEF LInv
<1>3. PICK R : R = {r \in rows : r.binding \in th[t].names}
  OBVIOUS
<1>4. rows' = Revoked(R)
  BY <1>3 DEF CommitRemove
<1>5. GoneInv(t) /\ MarkInv(t) /\ NamesInv(t)
  BY <1>1, <1>2 DEF Sound
<1>6. \A q \in rows' : \E r \in rows : Since(q, r) /\ (q.revoked <=> (r.revoked \/ r \in R))
  BY <1>2, <1>4, RevokedSince
<1>7. th'[t] = Idle /\ \A v \in Threads \ {t} : th'[v] = th[v]
  BY <1>1, <1>2, Stepped DEF End
<1>8. KnownInv'
  BY <1>1, <1>2, <1>6 DEF KnownInv, Since
<1>9. ASSUME NEW v \in Threads \ {t} PROVE Sound(v)'
  <2>1. Spares(v)
    <3>1. \A r \in rows : \E q \in rows' : q.binding = r.binding
      BY <1>2, <1>4, RevokedSince
    <3> QED BY <1>1, <1>6, <3>1 DEF Spares
  <2> QED BY <1>7, <2>1, SparedSound
<1>10. Sound(t)'
  BY <1>7 DEF Sound, Busy, Idle
<1>11. PairInv'
  BY <1>1, PairKeeps DEF End, Idle
<1>12. ASSUME NEW q \in rows' PROVE RowTrue(q)'
  <2>1. PICK r \in rows : Since(q, r) /\ (q.revoked <=> (r.revoked \/ r \in R))
    BY <1>6
  <2>2. made[r.binding] = r.user /\ r.user = q.user
    BY <1>2, <2>1 DEF KnownInv, Since
  <2>3. r \in R => r.binding \notin bindings \/ q.user \in crossed
    BY <1>1, <1>3, <1>5, <2>2 DEF MarkInv, NamesInv, At
  <2>4. r.binding \in th[t].gone => r.binding \in lost \/ q.revoked \/ q.user \in crossed
    <3>1. SUFFICES ASSUME r.binding \in th[t].gone, ~q.revoked, q.user \notin crossed
                   PROVE  r.binding \in lost
      OBVIOUS
    <3>2. r.user = Req(t).user
      BY <1>1, <1>5, <2>2, <3>1 DEF GoneInv, At
    <3>3. r \in Active(Req(t).user) /\ r \notin R
      BY <2>1, <3>1, <3>2 DEF Active
    <3> QED BY <1>1, <1>3, <1>5, <2>2, <3>1, <3>2, <3>3 DEF MarkInv
  <2> QED BY <1>1, <2>1, <2>3, <2>4, RowStaysTrue DEF End
<1> QED BY <1>2, <1>8, <1>9, <1>10, <1>11, <1>12 DEF LInv

LEMMA FailKeepsList ==
  ASSUME LInv, NEW t \in Threads, CascadeFails(t) \/ Fail(t)
  PROVE  LInv'
<1>1. /\ Busy(t) /\ UNCHANGED <<rows, made, bindings, crossed>> /\ lost' = lost \cup th[t].gone
  <2>1. CASE CascadeFails(t)
    BY <2>1 DEF CascadeFails, At, Busy, portal, cluster
  <2>2. CASE Fail(t)
    BY <2>2 DEF Fail, portal, cluster
  <2> QED BY <2>1, <2>2
<1>2. TypeOK /\ TypeOK' /\ Sound(t) /\ KnownInv
  BY FailTyped DEF LInv
<1>3. PICK y \in ThreadRecord : y = th[t]
  BY <1>1, <1>2, BusyTyped
<1>4. KnownInv'
  BY <1>1, <1>2 DEF KnownInv
<1>5. ASSUME NEW x, Goto(t, x), x.pc = "idle" \/ (x.req = th[t].req /\ x.new = th[t].new),
             x.pc # "idle" => Sound(t)'
      PROVE  LInv'
  <2>1. th'[t] = x /\ \A v \in Threads \ {t} : th'[v] = th[v]
    BY <1>2, <1>5, Stepped
  <2>2. ASSUME NEW v \in Threads \ {t} PROVE Sound(v)'
    <3>1. Spares(v)
      BY <1>1 DEF Spares, Since
    <3> QED BY <2>1, <3>1, SparedSound
  <2>3. Sound(t)'
    BY <1>5, <2>1 DEF Sound, Busy
  <2>4. PairInv'
    BY <1>1, <1>5, PairKeeps
  <2>5. ASSUME NEW q \in rows' PROVE RowTrue(q)'
    <3>1. q \in rows /\ Since(q, q)
      BY <1>1, <2>5 DEF Since
    <3> QED BY <1>1, <1>5, <3>1, RowStaysTrue
  <2> QED BY <1>2, <1>4, <2>2, <2>3, <2>4, <2>5 DEF LInv
<1>6. CASE Fail(t)
  BY <1>5, <1>6 DEF Fail, End, Idle
<1>7. CASE CascadeFails(t)
  <2> DEFINE x == [y EXCEPT !.pc = "write", !.names = {}]
  <2>1. /\ x.pc = "write" /\ x.req = y.req /\ x.new = y.new /\ x.old = y.old
        /\ x.gone = y.gone /\ x.names = {}
    BY DEF ThreadRecord
  <2>2. Goto(t, x) /\ Req(t).kind = "remove"
    BY <1>3, <1>7 DEF CascadeFails, At
  <2> HIDE DEF x
  <2>3. th'[t] = x /\ Req(t)' = Req(t)
    BY <1>2, <1>3, <2>1, <2>2, Stepped DEF Req
  <2>4. NewInv(t) /\ OldInv(t) /\ GoneInv(t)
    BY <1>1, <1>2 DEF Sound
  <2>5. NewInv(t)' /\ OldInv(t)' /\ GoneInv(t)'
    BY <1>1, <1>3, <2>1, <2>2, <2>3, <2>4 DEF NewInv, OldInv, GoneInv, At, Issues
  <2>6. CascadeInv(t)' /\ MarkInv(t)' /\ NamesInv(t)'
    BY <1>1, <1>3, <2>1, <2>2, <2>3 DEF CascadeInv, MarkInv, NamesInv, At
  <2> QED BY <1>3, <1>5, <2>1, <2>2, <2>5, <2>6 DEF Sound
<1> QED BY <1>6, <1>7

-----------------------------------------------------------------------------
LEMMA InitList == Init => LInv
<1> SUFFICES ASSUME Init PROVE LInv
  OBVIOUS
<1>1. \A t \in Threads : ~Busy(t)
  BY DEF Init, Busy, Idle
<1>2. bindings = {} /\ rows = {}
  BY DEF Init
<1> QED BY <1>1, <1>2, InitTyped DEF LInv, KnownInv, Sound, PairInv

LEMMA NextKeepsList ==
  ASSUME LInv, [Next]_vars
  PROVE  LInv'
<1>1. CASE UNCHANGED vars
  <2>1. TypeOK'
    BY <1>1, NextTyped DEF LInv
  <2>2. UNCHANGED <<rows, made, bindings, lost, crossed, th>>
    BY <1>1 DEF vars
  <2>3. KnownInv' /\ PairInv' /\ (\A r \in rows' : RowTrue(r)')
    BY <2>2 DEF LInv, KnownInv, PairInv, RowTrue, Recorded, Busy, Req
  <2>4. ASSUME NEW v \in Threads PROVE Sound(v)'
    <3>1. Spares(v)
      BY <2>2 DEF Spares, Since
    <3> QED BY <2>2, <3>1, SparedSound
  <2> QED BY <2>1, <2>3, <2>4 DEF LInv
<1>2. CASE Next
  BY <1>2, BeginKeepsList, CheckKeepsList, BindKeepsList, UnbindKeepsList, CascadeKeepsList,
     CommitCredentialKeepsList, CommitRemoveKeepsList, FailKeepsList DEF Next
<1> QED BY <1>1, <1>2

\* What the portal says of a kubeconfig is true, for any users, requests,
\* endpoints and failures: one that is shown as revoked has no RoleBinding, one
\* that is not works unless it is being revoked or a failed endpoint had
\* deleted its RoleBinding; apart from users whose access was removed while
\* they got a kubeconfig.
THEOREM ListOfKubeconfigs == Spec => []ListIsTrue
  BY InitList, NextKeepsList, ListFollows, PTL DEF Spec
=============================================================================
