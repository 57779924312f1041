CONSTANTS
  Threads = {t1, t2}
  Contracts = {"c1", "c2"}
  Numbers = {"n1", "n2", "n3"}
  Customers = {"k1", "k2"}
  Domains = {"d1", "d2"}
  Slugs = {"core", "data"}
  Names = {"shop"}
  Outside <- MCOutside
  Starts <- MCStarts
SPECIFICATION Spec
INVARIANTS ContractsKnown RowsArePublished NoOrphans
PROPERTY RetryAdopts
CHECK_DEADLOCK FALSE
