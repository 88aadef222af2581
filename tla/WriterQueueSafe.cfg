CHECK_DEADLOCK FALSE
SPECIFICATION Spec
CONSTANTS
  w1 = w1
  w2 = w2
  w3 = w3
  Writers = {w1, w2, w3}
  r1 = r1
  Snappers = {r1}
  b1 = b1
  Backers = {b1}
  NoOne = NoOne
  BatchSizes = {1}
  MaxStarts = 3
  MaxGuards = 0
  MaySwitch = TRUE
  BeginMayFail = TRUE
SYMMETRY WriterSymmetry
INVARIANT TypeOK
INVARIANT PointersSafe
INVARIANT SnapshotMissesOnlyOrphans
INVARIANT TicketsOrdered
