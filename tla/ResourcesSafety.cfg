SPECIFICATION FairSpec
CONSTANTS
  CRs = {1, 2}
  Collector = Collector
  Resources <- MCResources
  KindOf <- MCKindOf
  NameOf <- MCNameOf
  Ids = {1, 2, 3}
  GcKinds <- MCGcKinds
  Environments <- MCAll
  None = None
INVARIANTS GcSparesClaimed RecordsExist
PROPERTIES EditsApplied OrphansCollected
CHECK_DEADLOCK FALSE
