SPECIFICATION Spec
CONSTANTS
  Writers = {w1, w2}
  Snappers = {}
  Backers = {}
  NoOne = NoOne
  BatchSizes = {1}
  MaxStarts = 4
  MaxGuards = 1
  BeginMayFail = TRUE
  BufferSize = 0
  MaxErrors = 1
SYMMETRY WriterSymmetry
INVARIANTS   ReadsNewestUnlessReordered SequencesNotReused
CHECK_DEADLOCK FALSE
