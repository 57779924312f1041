-------------------------- MODULE MCClusterRequests --------------------------
EXTENDS ClusterRequests, TLC

Price(type, field, value, price) ==
  [type |-> type, field |-> field, value |-> value, price |-> price]

MCPriceList ==
  << Price("cluster_management_fee", "worker_groups", 1, 5),
     Price("cluster_management_fee", "worker_groups", 2, 8),
     Price("cluster_management_fee_increment", "none", 0, 3),
     Price("cluster_setup_fee", "group_type", "controllers", 1),
     Price("cluster_setup_fee", "group_type", "workers", 2),
     Price("cluster_addon_fee", "addon", "jupyterhub", 4) >>
MCOverrides == [k1 |-> [cluster_setup_fee |-> 3]]
MCRebates == [k1 |-> 10]

\* The packages and the increment of tests/test_billing_synthetic.py:65-113 in
\* small numbers: the next group costs as much beyond the packages as within.
ASSUME FeeIsLinear == \A g \in 1 .. 5 : HasManagementFee(g) /\ ManagementFee(g) = 2 + 3 * g
ASSUME NoFeeBelow == ~HasManagementFee(0)
\* An override replaces the price of every entry of its type, before the rebate.
ASSUME OverrideThenRebate ==
  /\ ContractPrice(2, "cluster_setup_fee", "k1") = 270
  /\ ContractPrice(4, "cluster_addon_fee", "k1") = 360
  /\ ContractPrice(4, "cluster_addon_fee", "k2") = 400
ASSUME NoSuchAddon == FindPrice("cluster_addon_fee", [addon |-> "other"]) = NoPrice

MCContractOf == [c \in Clusters |-> "k1"]
Symmetric == Permutations(Admins)
MCGroups == {1}
Resize(n) == [type |-> "resize", target |-> n, action |-> "none", addon |-> "none"]
Addon(action) == [type |-> "addon", target |-> 0, action |-> action, addon |-> "jupyterhub"]
Backup(action) == [type |-> "backup", target |-> 0, action |-> action, addon |-> "none"]
MCWishes ==
  { << Resize(4), Resize(2) >>,
    << Resize(2), Resize(4) >>,
    << Addon("enable"), Addon("disable"), Addon("enable") >>,
    << Backup("enable"), Backup("disable"), Backup("enable") >>,
    << Backup("enable"), Backup("enable") >>,
    << Resize(2), Backup("enable"), Addon("enable") >> }
=============================================================================
