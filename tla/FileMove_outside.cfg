SPECIFICATION Spec
CONSTANTS
  Setting = {0, 1}
  Plain = 0
  MaxEdits = 1
  MaxArrivals = 1
  MaxChanges = 1
  MaxOpens = 1
  MaxControls = 1
  MaxFaults = 1
  MaxCrashes = 1
INVARIANT PhotoKept
PROPERTY ForeignKept
CHECK_DEADLOCK FALSE
