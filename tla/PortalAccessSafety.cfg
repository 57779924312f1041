CONSTANTS
  Threads = {t1, t2, t3}
  Users = {"u1", "u2"}
  Starts <- MCStarts
SYMMETRY Symmetric
SPECIFICATION Spec
INVARIANTS ListIsTrue ReadersAreAdmins
CHECK_DEADLOCK FALSE
