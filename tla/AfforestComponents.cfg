SPECIFICATION FairSpec
CONSTANTS
  N = 4
  Workers = {w1, w2}
  Graphs <- GraphsDef
INVARIANTS
  Descending
  Components
PROPERTIES
  Returns
