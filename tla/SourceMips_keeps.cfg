SPECIFICATION Spec
CONSTANTS
  t1 = t1
  t2 = t2
  t3 = t3
  t4 = t4
  big = big
  small = small
  other = other
  old = old
  Thread = {t1, t2, t3, t4}
  Level = {big, small, other, old}
  Size <- MCSize
  Identity <- MCIdentity
  Old = {old}
  MemoryBudget = 2
  DiskBudget = 2
  Chunks = 2
  NoThread = NoThread
  Scenarios <- All
INVARIANT OneBuild
INVARIANT MemorySound
INVARIANT FolderSound
PROPERTY Ends
CHECK_DEADLOCK FALSE
