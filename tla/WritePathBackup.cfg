SPECIFICATION Spec
CONSTANTS
  Writers = {w1, w2}
  Snappers = {r1}
  Backers = {b1}
  NoOne = NoOne
  BatchSizes = {1}
  MaxStarts = 2
  MaxGuards = 0
  BeginMayFail = TRUE
  BufferSize = 0
  MaxErrors = 1
SYMMETRY WriterSymmetry
INVARIANT BackupComplete
PROPERTY ImplementsQueue
CHECK_DEADLOCK FALSE
