SPECIFICATION Spec
CONSTANTS
  p = p
  q = q
  Photos = {p, q}
  Requests <- BothOrOne
  Versions = 2
  Parallel = 2
  Scenarios <- All
INVARIANT FinishedIsComplete
INVARIANT ReportsKept
INVARIANT UneditedIsExported
PROPERTY JobsEnd
CHECK_DEADLOCK FALSE
