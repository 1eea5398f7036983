SPECIFICATION Spec
CONSTANTS
  Lanes = 1
  MaxPending = 4
  RestartLimit = 1
  Scenarios <- All
INVARIANT HelperAgrees
PROPERTY Answered
CHECK_DEADLOCK FALSE
