SPECIFICATION FairSpec
CONSTANTS
  Images = {1, 2, 3, 4}
  Environments <- MCAll
  None = None
INVARIANTS ReadyAfterImport OneImage NothingForgotten
PROPERTIES ManagedSettles
CHECK_DEADLOCK FALSE
