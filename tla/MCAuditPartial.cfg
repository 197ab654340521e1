CONSTANTS
  x1 = x1
  Exports = {x1}
  PageSize = 2
  Days = 1
  MaxTime = 3
  MaxRecords = 5
SPECIFICATION Spec
INVARIANT EndedDownloadIsWhole
CHECK_DEADLOCK FALSE
