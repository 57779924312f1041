SPECIFICATION Spec
CONSTANTS
  None = None
  Specs <- MCSpecs
  Profiles <- MCProfiles
  Projects <- MCProjects
  Starts <- MCStarts
INVARIANT InputsHold ReadyIsReal
PROPERTY RunningSpared Settles
CHECK_DEADLOCK FALSE
