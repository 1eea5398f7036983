SPECIFICATION Spec
CONSTANTS
  Scenarios <- Undone
  None = None
  d0 = d0
  g1 = g1
  g2 = g2
  c1 = c1
  c2 = c2
  Default = d0
  Mark = {0, 1}
  NoMark = 0
  Revision = {1, 2, 3}
  Grade = {d0, g1, g2}
  Client = {c1}
INVARIANT QueueHoldsGrade
CHECK_DEADLOCK FALSE
