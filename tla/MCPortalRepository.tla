------------------------- MODULE MCPortalRepository -------------------------
EXTENDS PortalRepository, TLC

Symmetric == Permutations(Threads)

Contract(n, k) == [number |-> n, customer |-> k]
MCContract == [c1 |-> Contract("n1", "k1"), c2 |-> Contract("n2", "k2")]
MCDomain == [k1 |-> "d1", k2 |-> "d2"]
Project(n) == [number |-> n, managed |-> FALSE, quotas |-> 9]
Empty == [k \in Keys |-> None]
Shop == <<"shop", "d1">>
Core == <<"core", "d1">>
MCOutside == {<<"shop", "d2">>}

Cluster(s, n, g) == [kind |-> "cluster", base |-> s, number |-> n, groups |-> g]
Grow(s, g) == [kind |-> "resize", base |-> s, groups |-> g]
Create(b, n) == [kind |-> "create", base |-> b, number |-> n]
Update(k, n) == [kind |-> "update", key |-> k, number |-> n]
Delete(k, n) == [kind |-> "delete", key |-> k, number |-> n]
Move(k, n) == [kind |-> "move", key |-> k, number |-> n]
Rename(c, n) == [kind |-> "rename", contract |-> c, number |-> n]
Drop(c) == [kind |-> "drop", contract |-> c]
Give(c, k) == [kind |-> "give", contract |-> c, customer |-> k]
NewDomain(k, d) == [kind |-> "domain", customer |-> k, domain |-> d]
NewContract(c, n, k) == [kind |-> "contract", contract |-> c, number |-> n, customer |-> k]

At0(repo0, contract0, requests, budget) ==
  [contract |-> contract0, domain |-> MCDomain, repo |-> repo0, asked |-> requests,
   failures |-> budget]
WithShop == [Empty EXCEPT ![Shop] = Project("n1")]
OneContract == [MCContract EXCEPT !.c2 = None]

MCStarts ==
  { \* two administrators, one cluster name, two contracts; a customer takes the name
    At0(Empty, MCContract, {Cluster("core", "n1", 1), Cluster("core", "n2", 1),
                            Cluster("core", "n1", 2), Create("core", "n1")}, 0),
    \* retries, next to other changes of the repositories
    At0(Empty, MCContract, {Cluster("core", "n1", 1), Cluster("data", "n1", 2),
                            Create("shop", "n1"), Grow("core", 3)}, 2),
    At0(WithShop, MCContract, {Cluster("core", "n1", 1), Move(Shop, "n2"), Update(Shop, "n1"),
                               Create("shop", "n2")}, 1),
    \* what generic changes of projects may do to a cluster
    At0(Empty, MCContract, {Cluster("core", "n1", 1), Update(Core, "n1"), Delete(Core, "n1"),
                            Move(Core, "n2"), Rename("c1", "n3"), Create("core", "n1"),
                            Grow("core", 2)}, 1),
    \* contracts
    At0(WithShop, OneContract, {Rename("c1", "n3"), Drop("c1"), NewContract("c2", "n1", "k1"),
                                Move(Shop, "n1"), Delete(Shop, "n3")}, 1),
    At0(Empty, MCContract, {Cluster("core", "n1", 1), NewDomain("k1", "d2"), Give("c1", "k2"),
                            Drop("c1")}, 1) }
=============================================================================
