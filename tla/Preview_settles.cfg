SPECIFICATION FairSpec
CONSTANTS
    Scenarios <- All
    Slots = 3
    MaxRearms = 2
INVARIANT ReadyIsShown
PROPERTY NeverOlder
PROPERTY Settles
CHECK_DEADLOCK FALSE
