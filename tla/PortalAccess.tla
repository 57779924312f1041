----------------------------- MODULE PortalAccess -----------------------------
(***************************************************************************)
(* Who may use one managed cluster: the portal's rows of access and of     *)
(* issued kubeconfigs, the RoleBindings in the cluster that give a         *)
(* kubeconfig its permissions, and the readers of the cluster's project    *)
(* in git.                                                                 *)
(*                                                                         *)
(* Each endpoint is one transaction: it reads, then changes the cluster    *)
(* and git, then commits its rows.  Endpoints run concurrently and see of  *)
(* each other's rows what is committed.                                    *)
(***************************************************************************)
EXTENDS Integers, Sequences

CONSTANTS
  Threads,   \* endpoints that may run at once
  Users,     \* users that are no SUNET admins
  Starts     \* access rows, requests in order, a number of failures (bounds)

Sunet == "sunet"
None == [role |-> "none"]

ASSUME UsersAssumption == Sunet \notin Users
Roles == {"user", "customer_admin"}
AccessRow == [role : Roles, id : Nat]
Requests ==
  [kind : {"issue", "rotate"}, user : Users]
  \cup [kind : {"revoke", "remove"}, by : Users \cup {Sunet}, user : Users]
  \cup [kind : {"grant"}, by : Users \cup {Sunet}, user : Users, role : Roles]
ASSUME StartsAssumption ==
  \A s \in Starts :
    /\ s.access \in [Users -> AccessRow \cup {None}]
    /\ s.requests \in Seq(Requests)
    /\ s.failures \in Nat

VARIABLES
  access,     \* per user the ClusterAccess row, with its id
  ids,        \* row ids given away
  rows,       \* KubeconfigIssuance rows; each names its RoleBinding
  made,       \* history: whose each RoleBinding is that was ever created
  bindings,   \* RoleBindings in the cluster
  readers,    \* users with the reader role in the project repository
  todo,       \* what will be asked
  th,         \* the endpoints
  failures,   \* budget
  lost,       \* history: RoleBindings deleted by endpoints that then failed
  crossed,    \* history: users whose access was removed while they got a kubeconfig
  mixed,      \* history: two changes of access ran at the same time
  torn        \* history: a change of access failed after it had written git

vars == <<access, ids, rows, made, bindings, readers, todo, th, failures, lost, crossed, mixed, torn>>
cluster == <<made, bindings>>
portal == <<access, ids, rows>>
history == <<failures, lost, crossed, mixed, torn>>

Idle == [pc |-> "idle"]
Busy(t) == th[t].pc # "idle"
Req(t) == th[t].req
At(t, pc, kinds) == th[t].pc = pc /\ Req(t).kind \in kinds

Row(user, binding, revoked) == [user |-> user, binding |-> binding, revoked |-> revoked]
Has(u, role) == u \in Users /\ access[u] # None /\ access[u].role = role
IsMember(u) == u = Sunet \/ Has(u, "user") \/ Has(u, "customer_admin")
IsAdmin(u) == u = Sunet \/ Has(u, "customer_admin")
Admins == {u \in Users : Has(u, "customer_admin")}

Init ==
  /\ \E s \in Starts : access = s.access /\ todo = s.requests /\ failures = s.failures
  /\ ids = 0 /\ rows = {} /\ made = << >> /\ bindings = {}
  /\ readers = Admins
  /\ th = [t \in Threads |-> Idle]
  /\ lost = {} /\ crossed = {} /\ mixed = FALSE /\ torn = FALSE

------------------------------------------------------------------------------
Goto(t, rec) == th' = [th EXCEPT ![t] = rec]
Proceed(t, pc) == Goto(t, [th[t] EXCEPT !.pc = pc])
End(t) == Goto(t, Idle)

Changes == {"grant", "remove"}
Issues == {"issue", "rotate"}
Meets(r, q) == r.kind = "remove" /\ q.kind \in Issues /\ r.user = q.user

Begin(t) ==
  /\ ~Busy(t) /\ todo # << >>
  /\ todo' = Tail(todo)
  /\ LET r == Head(todo)
         running == {Req(v) : v \in {w \in Threads : Busy(w)}}
     IN /\ Goto(t, [pc |-> "begin", req |-> r, target |-> None, old |-> 0, new |-> 0,
                    names |-> {}, gone |-> {}])
        /\ crossed' = crossed \cup {u \in {r.user} : \E q \in running : Meets(r, q) \/ Meets(q, r)}
        /\ mixed' = (mixed \/ (r.kind \in Changes /\ \E q \in running : q.kind \in Changes))
  /\ UNCHANGED <<portal, cluster, readers, failures, lost, torn>>

Reads == UNCHANGED <<portal, cluster, readers, todo, history>>

Active(u) == {r \in rows : r.user = u /\ ~r.revoked}

------------------------------------------------------------------------------
\* issue_credential, rotate_credential, revoke_credential.

CheckIssue(t) ==
  /\ At(t, "begin", {"issue"})
  /\ IF IsMember(Req(t).user) THEN Proceed(t, "bind") ELSE End(t)
  /\ Reads

CheckRotate(t) ==
  /\ At(t, "begin", {"rotate"})
  /\ \/ /\ IsMember(Req(t).user)
        /\ \E r \in Active(Req(t).user) : Goto(t, [th[t] EXCEPT !.pc = "bind", !.old = r.binding])
     \/ /\ IsMember(Req(t).user) => Active(Req(t).user) = {}
        /\ End(t)
  /\ Reads

\* One's own, or anybody's as an administrator; once revoked there is no more to do.
MayRevoke(r) == IsAdmin(r.by) \/ (r.by = r.user /\ IsMember(r.by))
CheckRevoke(t) ==
  /\ At(t, "begin", {"revoke"})
  /\ \/ /\ MayRevoke(Req(t))
        /\ \E r \in Active(Req(t).user) :
             Goto(t, [th[t] EXCEPT !.pc = "unbind", !.old = r.binding])
     \/ /\ MayRevoke(Req(t)) => Active(Req(t).user) = {}
        /\ End(t)
  /\ Reads

\* issue: a certificate for a group of its own and a RoleBinding for the group.
Bind(t) ==
  /\ At(t, "bind", Issues)
  /\ made' = Append(made, Req(t).user)
  /\ bindings' = bindings \cup {Len(made) + 1}
  /\ Goto(t, [th[t] EXCEPT !.new = Len(made) + 1,
                           !.pc = IF Req(t).kind = "rotate" THEN "unbind" ELSE "commit"])
  /\ UNCHANGED <<portal, readers, todo, history>>

\* revoke: a RoleBinding that is gone is as good as deleted.
Unbind(t) ==
  /\ At(t, "unbind", {"rotate", "revoke"})
  /\ bindings' = bindings \ {th[t].old}
  /\ Goto(t, [th[t] EXCEPT !.pc = "commit", !.gone = {th[t].old}])
  /\ UNCHANGED <<portal, made, readers, todo, history>>

Revoked(rs) == {IF r \in rs THEN [r EXCEPT !.revoked = TRUE] ELSE r : r \in rows}

CommitCredential(t) ==
  /\ At(t, "commit", {"issue", "rotate", "revoke"})
  /\ rows' = Revoked({r \in rows : r.binding = th[t].old})
             \cup {Row(Req(t).user, b, FALSE) : b \in {th[t].new} \ {0}}
  /\ End(t)
  /\ UNCHANGED <<access, ids, cluster, readers, todo, history>>

------------------------------------------------------------------------------
\* grant_cluster_access.

\* Only SUNET admins make customer admins.
CheckGrant(t) ==
  /\ At(t, "begin", {"grant"})
  /\ LET r == Req(t)
     IN IF IsAdmin(r.by) /\ (r.role = "customer_admin" => r.by = Sunet) /\ access[r.user] = None
        THEN Proceed(t, "write") ELSE End(t)
  /\ Reads

\* A row that another transaction has written is waited for.
Written(t, u) ==
  \E v \in Threads \ {t} : th[v].pc = "commit" /\ Req(v).kind \in Changes /\ Req(v).user = u

\* The row, and _sync_managed_project_admins: all administrators that the
\* transaction sees.
WriteGrant(t) ==
  /\ At(t, "write", {"grant"})
  /\ ~Written(t, Req(t).user)
  /\ IF access[Req(t).user] # None
     THEN End(t) /\ UNCHANGED readers
     ELSE /\ Proceed(t, "commit")
          /\ readers' = IF Req(t).role = "customer_admin" THEN Admins \cup {Req(t).user} ELSE readers
  /\ UNCHANGED <<portal, cluster, todo, history>>

CommitGrant(t) ==
  /\ At(t, "commit", {"grant"})
  /\ ids' = ids + 1
  /\ access' = [access EXCEPT ![Req(t).user] = [role |-> Req(t).role, id |-> ids + 1]]
  /\ End(t)
  /\ UNCHANGED <<rows, cluster, readers, todo, history>>

------------------------------------------------------------------------------
\* revoke_cluster_access.

CheckRemove(t) ==
  /\ At(t, "begin", {"remove"})
  /\ LET r == Req(t)
         target == access[r.user]
     IN IF IsAdmin(r.by) /\ target # None /\ (target.role = "customer_admin" => r.by = Sunet)
        THEN Goto(t, [th[t] EXCEPT !.pc = "list", !.target = target]) ELSE End(t)
  /\ Reads

\* cascade_revoke_for_user: the RoleBindings by their label, one deletion after
\* the other, then the rows that are not revoked.
List(t) ==
  /\ At(t, "list", {"remove"})
  /\ Goto(t, [th[t] EXCEPT !.pc = "cascade",
                           !.names = {b \in bindings : made[b] = Req(t).user}])
  /\ Reads

Cascade(t) ==
  /\ At(t, "cascade", {"remove"})
  /\ \E b \in th[t].names :
       /\ bindings' = bindings \ {b}
       /\ Goto(t, [th[t] EXCEPT !.names = @ \ {b}, !.gone = @ \cup {b}])
  /\ UNCHANGED <<portal, made, readers, todo, history>>

Select(t) ==
  /\ At(t, "cascade", {"remove"})
  /\ th[t].names = {}
  /\ Goto(t, [th[t] EXCEPT !.pc = "write", !.names = {r.binding : r \in Active(Req(t).user)}])
  /\ Reads

\* A mistake the code does not make: the rows are marked all the same.
CascadeFailsMarked(t) ==
  /\ At(t, "list", {"remove"}) \/ (At(t, "cascade", {"remove"}) /\ th[t].names # {})
  /\ failures > 0
  /\ failures' = failures - 1
  /\ lost' = lost \cup th[t].gone
  /\ Goto(t, [th[t] EXCEPT !.pc = "write", !.names = {r.binding : r \in Active(Req(t).user)}])
  /\ UNCHANGED <<portal, cluster, readers, todo, crossed, mixed, torn>>

\* The cluster does not answer: access is removed all the same.
CascadeFails(t) ==
  /\ At(t, "list", {"remove"}) \/ (At(t, "cascade", {"remove"}) /\ th[t].names # {})
  /\ failures > 0
  /\ failures' = failures - 1
  /\ lost' = lost \cup th[t].gone
  /\ Goto(t, [th[t] EXCEPT !.pc = "write", !.names = {}])
  /\ UNCHANGED <<portal, cluster, readers, todo, crossed, mixed, torn>>

\* A mistake the code does not make: git is synchronised before the row is gone.
WriteRemoveEarly(t) ==
  /\ At(t, "write", {"remove"})
  /\ ~Written(t, Req(t).user)
  /\ readers' = IF th[t].target.role = "customer_admin" THEN Admins ELSE readers
  /\ Proceed(t, "commit")
  /\ UNCHANGED <<portal, cluster, todo, history>>

\* The row is deleted by its id: one that was made since stays.
Mine(t) == {u \in {Req(t).user} : access[u] = th[t].target}
WriteRemove(t) ==
  /\ At(t, "write", {"remove"})
  /\ ~Written(t, Req(t).user)
  /\ readers' = IF th[t].target.role = "customer_admin" THEN Admins \ Mine(t) ELSE readers
  /\ Proceed(t, "commit")
  /\ UNCHANGED <<portal, cluster, todo, history>>

CommitRemove(t) ==
  /\ At(t, "commit", {"remove"})
  /\ access' = [u \in Users |-> IF u \in Mine(t) THEN None ELSE access[u]]
  /\ rows' = Revoked({r \in rows : r.binding \in th[t].names})
  /\ End(t)
  /\ UNCHANGED <<ids, cluster, readers, todo, history>>

------------------------------------------------------------------------------
\* The endpoint ends with an error, its transaction is rolled back.
Fail(t) ==
  /\ Busy(t)
  /\ failures > 0
  /\ failures' = failures - 1
  /\ End(t)
  /\ lost' = lost \cup th[t].gone
  /\ torn' = (torn \/ At(t, "commit", Changes))
  /\ UNCHANGED <<portal, cluster, readers, todo, crossed, mixed>>

Next ==
  \E t \in Threads :
    \/ Begin(t)
    \/ CheckIssue(t) \/ CheckRotate(t) \/ CheckRevoke(t)
    \/ Bind(t) \/ Unbind(t) \/ CommitCredential(t)
    \/ CheckGrant(t) \/ WriteGrant(t) \/ CommitGrant(t)
    \/ CheckRemove(t) \/ List(t) \/ Cascade(t) \/ Select(t) \/ CascadeFails(t)
    \/ WriteRemove(t) \/ CommitRemove(t)
    \/ Fail(t)

Spec == Init /\ [][Next]_vars

------------------------------------------------------------------------------
ThreadRecord ==
  [pc : {"begin", "bind", "unbind", "list", "cascade", "write", "commit"}, req : Requests,
   target : AccessRow \cup {None}, old : Nat, new : Nat, names : SUBSET Nat, gone : SUBSET Nat]

\* Every variable has its type.
TypeOK ==
  /\ access \in [Users -> AccessRow \cup {None}] /\ ids \in Nat
  /\ rows \subseteq [user : Users, binding : Nat, revoked : BOOLEAN]
  /\ made \in Seq(Users) /\ bindings \subseteq Nat
  /\ readers \subseteq Users /\ todo \in Seq(Requests)
  /\ th \in [Threads -> ThreadRecord \cup {Idle}]
  /\ failures \in Nat /\ lost \subseteq Nat /\ crossed \subseteq Users
  /\ mixed \in BOOLEAN /\ torn \in BOOLEAN

Revoking(r) ==
  \E t \in Threads :
    /\ Busy(t)
    /\ \/ th[t].pc = "commit" /\ th[t].old = r.binding
       \/ Req(t).kind = "remove" /\ Req(t).user = r.user

\* What the portal says of a kubeconfig is true: one that is shown as revoked
\* has no RoleBinding left, and one that is not shown so works, apart from what
\* is being revoked and what a failed endpoint had already deleted.  It holds
\* over concurrent rotations, revocations and removals and over clusters that
\* do not answer; not for a user whose access is removed while a kubeconfig is
\* being issued, where the removal may see the row and not the RoleBinding.
ListIsTrue ==
  \A r \in rows :
    \/ r.user \in crossed
    \/ IF r.revoked THEN r.binding \notin bindings
       ELSE r.binding \in bindings \cup lost \/ Revoking(r)

\* The readers of the cluster's project in git are its customer admins, over
\* grants, removals and failures, as long as no two changes of access ran at
\* the same time and none failed between git and its commit.
ReadersAreAdmins ==
  mixed \/ torn \/ (\E t \in Threads : At(t, "commit", Changes)) \/ readers = Admins
=============================================================================
