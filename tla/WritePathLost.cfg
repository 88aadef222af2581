SPECIFICATION Spec
CONSTANTS
  Writers = {w1, w2}
  Snappers = {}
  Backers = {}
  NoOne = NoOne
  BatchSizes = {1}
  MaxStarts = 3
  MaxGuards = 0
  BeginMayFail = TRUE
  BufferSize = 0
  MaxErrors = 0
INVARIANT AckedDurable
CHECK_DEADLOCK FALSE
