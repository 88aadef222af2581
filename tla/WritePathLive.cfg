SPECIFICATION FairSpec
CONSTANTS
  Writers = {w1}
  Snappers = {}
  Backers = {b1}
  NoOne = NoOne
  BatchSizes = {1}
  MaxStarts = 3
  MaxGuards = 0
  BeginMayFail = TRUE
  BufferSize = 0
  MaxErrors = 0
PROPERTIES ImmFlushed WaiterProceeds
CHECK_DEADLOCK FALSE
