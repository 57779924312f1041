SPECIFICATION FairSpec
CONSTANTS
  CRs = {1, 2}
  Targets <- MCTargets
  GroupOf <- MCGroupOf
  ManagedDomain = "sso"
  ProjectIds = {p1, p2}
  Environments <- MCLiveness
  None = None
PROPERTIES Converges DeletionCompletes OrphansCollected
CHECK_DEADLOCK FALSE
