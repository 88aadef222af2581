SPECIFICATION Spec
CONSTANTS
  Threads = {t1, t2, t3}
  kBlockSize = 8
  kHeaderSize = 2
  Sizes = {0, 1, 5, 12, 14}
  MaxRecords = 3
  MaxFailures = 1
SYMMETRY ThreadSymmetry
INVARIANTS WritesInReservation OnlyWholeRecords LostOnlyBehindGap
CHECK_DEADLOCK FALSE
