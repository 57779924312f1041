SPECIFICATION Spec
CONSTANTS
  CRs = {1, 2}
  Targets <- MCTargets
  GroupOf <- MCGroupOf
  ManagedDomain = "sso"
  ProjectIds = {p1, p2}
  Environments <- MCSafety
  None = None
SYMMETRY IdSymmetry
INVARIANTS GcSparesClaimed ExclusiveOwnership DeletionSparesSharers RecordedProjectExists
PROPERTIES KeepsLiveProject ImplementsOwnership
CHECK_DEADLOCK FALSE
