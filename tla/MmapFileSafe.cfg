SPECIFICATION Spec
CONSTANTS
  Threads = {t1, t2, t3}
  block_size_ = 4
  Chunk = 1
  Lengths = {3, 5}
  MaxEnd = 13
  MaxErrors = 1
SYMMETRY Symmetry
INVARIANTS NoFault WrittenStays SyncReaches SleepersWoken
CHECK_DEADLOCK FALSE
