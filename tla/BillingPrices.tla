---------------------------- MODULE BillingPrices ----------------------------
(***************************************************************************)
(* The prices of the customer portal: which entry of the price list        *)
(* applies to a product, what a contract pays for it, and the monthly fee  *)
(* of a managed cluster.  Amounts are hundredths of the price list's unit, *)
(* so that a rebate in percent stays an integer; round() is left out.      *)
(***************************************************************************)
EXTENDS Integers, Sequences, SequencesExt

CONSTANTS
  PriceList,   \* the ResourcePrice rows in the order they are loaded
  Overrides,   \* per contract id, prices by resource type
  Rebates      \* per contract id, a percentage

ASSUME PriceListAssumption == \A i \in DOMAIN PriceList : PriceList[i].price \in Nat
ASSUME RebateAssumption == \A k \in DOMAIN Rebates : Rebates[k] \in 0 .. 100

NoPrice == [type |-> "none"]

\* _find_price: the first entry for a metadata value the product has, else the
\* last entry without metadata.
IsSpecific(p, type, meta) ==
  /\ p.type = type
  /\ p.field \in DOMAIN meta
  /\ meta[p.field] = p.value
IsBase(p, type) == p.type = type /\ p.field = "none"

FindPrice(type, meta) ==
  LET specific == SelectSeq(PriceList, LAMBDA p : IsSpecific(p, type, meta))
      base == SelectSeq(PriceList, LAMBDA p : IsBase(p, type))
  IN CASE specific # << >> -> Head(specific)
       [] specific = << >> /\ base # << >> -> Last(base)
       [] OTHER -> NoPrice

\* _price_after_override_and_rebate.
ContractPrice(price, type, contract) ==
  LET overridden == contract \in DOMAIN Overrides /\ type \in DOMAIN Overrides[contract]
      unit == IF overridden THEN Overrides[contract][type] ELSE price
  IN unit * (IF contract \in DOMAIN Rebates THEN 100 - Rebates[contract] ELSE 100)

\* _cluster_management_fee: a package per number of worker groups, and an
\* increment per group above the largest package.
Packages ==
  {p \in Range(PriceList) : p.type = "cluster_management_fee" /\ p.field = "worker_groups"}
LargestPackage == CHOOSE p \in Packages : \A q \in Packages : q.value <= p.value
Increment == FindPrice("cluster_management_fee_increment", << >>)

HasManagementFee(groups) ==
  \/ \E p \in Packages : p.value = groups
  \/ Packages # {} /\ (\E p \in Packages : p.value < groups) /\ Increment # NoPrice

ManagementFee(groups) ==
  IF \E p \in Packages : p.value = groups
  THEN (CHOOSE p \in Packages : p.value = groups).price
  ELSE LargestPackage.price + (groups - LargestPackage.value) * Increment.price
=============================================================================
