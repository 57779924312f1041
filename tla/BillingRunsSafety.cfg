SPECIFICATION Spec
CONSTANTS
  Endpoints = {e1, e2}
  Jobs <- MCJobs
  Contracts = {"k1", "k2", "k3"}
  Owned <- MCOwned
  Billable = {"k1", "k2"}
  Window = 1
  Month = 2
  MaxTime = 4
  Starts <- MCStarts
INVARIANT SuccessIsComplete BilledOnce TickServes
SYMMETRY Symmetric
CHECK_DEADLOCK FALSE
