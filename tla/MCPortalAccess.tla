---------------------------- MODULE MCPortalAccess ----------------------------
EXTENDS PortalAccess, TLC

Symmetric == Permutations(Threads)

Issue(u) == [kind |-> "issue", user |-> u]
Rotate(u) == [kind |-> "rotate", user |-> u]
Revoke(by, u) == [kind |-> "revoke", by |-> by, user |-> u]
Grant(by, u, role) == [kind |-> "grant", by |-> by, user |-> u, role |-> role]
Remove(by, u) == [kind |-> "remove", by |-> by, user |-> u]

Admin == [role |-> "customer_admin", id |-> 0]
Member == [role |-> "user", id |-> 0]
MCStarts ==
  { [access |-> [u1 |-> Admin, u2 |-> Member], failures |-> 2, requests |-> r] : r \in
      { << Issue("u2"), Rotate("u2"), Revoke("u1", "u2"), Remove("u1", "u2"), Remove("u1", "u2") >>,
        << Issue("u2"), Issue("u2"), Remove("u1", "u2"), Remove("sunet", "u2") >>,
        << Issue("u2"), Rotate("u2"), Rotate("u2"), Revoke("u2", "u2") >>,
        << Issue("u1"), Remove("sunet", "u1"), Grant("sunet", "u1", "customer_admin"), Issue("u1") >>,
        << Remove("sunet", "u1"), Remove("sunet", "u2"), Grant("sunet", "u2", "customer_admin"),
           Grant("u2", "u1", "user") >>,
        << Remove("sunet", "u2"), Grant("sunet", "u2", "customer_admin"),
           Grant("u1", "u2", "user"), Remove("sunet", "u1") >>,
        << Remove("u1", "u2"), Remove("sunet", "u2"), Grant("sunet", "u2", "user"), Issue("u2") >> } }
=============================================================================
