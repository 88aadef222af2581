SPECIFICATION Spec
CONSTANTS
  Keys = {0, 1}
  GuardFrom <- GuardFromDef
  LastLevel = 2
  MaxSeq = 3
  MaxFile = 5
INVARIANTS
  MarkersObsolete
CHECK_DEADLOCK FALSE
