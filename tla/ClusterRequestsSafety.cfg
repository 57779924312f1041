SPECIFICATION RequestsSpec
CONSTANTS
  PriceList <- MCPriceList
  Overrides <- MCOverrides
  Rebates <- MCRebates
  Clusters = {c1}
  ContractOf <- MCContractOf
  Admins = {a1, a2}
  Wishes <- MCWishes
  Groups <- MCGroups
  MonthTicks = 2
  LastTick = 2
INVARIANT GroupsChargedOnce BackupTracked
PROPERTY ClosedMonthsStay
SYMMETRY Symmetric
CHECK_DEADLOCK FALSE
