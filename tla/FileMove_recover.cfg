SPECIFICATION FairSpec
CONSTANTS
  Setting = {0, 1, 2}
  Plain = 0
  MaxEdits = 0
  MaxArrivals = 0
  MaxChanges = 2
  MaxOpens = 0
  MaxControls = 0
  MaxFaults = 2
  MaxCrashes = 2
INVARIANT SettingsFollow
PROPERTY MovesAtOnce
PROPERTY Finishes
CHECK_DEADLOCK FALSE
