SPECIFICATION FairSpec
CONSTANTS
    Photos = {f, g}
    Projects = {p, q}
    Scenarios <- All
INVARIANT EarlyEditsKept
INVARIANT PageIsLive
PROPERTY NewestShown
PROPERTY Ends
CHECK_DEADLOCK FALSE
