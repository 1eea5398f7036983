SPECIFICATION FairSpec
CONSTANTS
  Paths = {p}
  Edits = 2
  Requests = 4
  Faults = 1
PROPERTY KnownEditsKept
PROPERTY PathReachesPage
PROPERTY LeaveAnswered
PROPERTY QuitEnds
CHECK_DEADLOCK FALSE
