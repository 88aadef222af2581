SPECIFICATION FairSpec
CONSTANTS
  Readers = {r1}
  Callers = {c1}
  Contents <- ContentsDef
  LevelOf <- LevelOfDef
  LastGuard = 1
  LastLevel = 1
  MaxFile = 19
  Budget = 3
  None = None
INVARIANTS
  TypeOK
  FilesExist
  ManifestFilesExist
  
  
  BackupOpens
  CloseWaits
  ManualKept
PROPERTIES
  TablesImmutable
  ManualReturns
CHECK_DEADLOCK FALSE
