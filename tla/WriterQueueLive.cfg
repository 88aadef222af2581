SPECIFICATION FairSpec
CONSTANTS
  Writers = {w1}
  Snappers = {r1}
  Backers = {b1, b2}
  NoOne = NoOne
  BatchSizes = {1}
  MaxStarts = 3
  MaxGuards = 0
  MaySwitch = FALSE
  BeginMayFail = FALSE
PROPERTIES   BackupGetsTurn
