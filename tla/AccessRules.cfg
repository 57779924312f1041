SPECIFICATION Spec
CONSTANTS
  None = None
  c1 = c1
  c2 = c2
  u1 = u1
  u2 = u2
  CRs = {c1, c2}
  Users = {u1, u2}
  Specs <- MCSpecs
  Budgets <- MCBudgets
PROPERTY NeverEmptied RulesRepaired MembersSettle ManagedServed
CHECK_DEADLOCK FALSE
