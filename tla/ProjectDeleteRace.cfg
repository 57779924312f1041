SPECIFICATION Spec
CONSTANTS
  CRs = {1, 2}
  Targets <- MCTargets
  GroupOf <- MCGroupOf
  ManagedDomain = "sso"
  ProjectIds = {p1, p2, p3}
  Environments <- MCOverlap
  None = None
INVARIANT SharedProjectSurvives
CHECK_DEADLOCK FALSE
