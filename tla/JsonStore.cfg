SPECIFICATION StoresSpec
CONSTANTS
  Ids = {r1, r2}
  System = system
  NoRecord = norecord
  Gone = gone
  Keep = keep
  None = none
  BackupIds = {b1}
  MaxOps = 4
  MaxStops = 2
  i1 = i1
  Operators = {1, 2, 3}
  Importers = {r1, r2}
  Unset = unset
  MaxWrites = 1
  Workers = {r1, r2}
  MaxOperations = 2
  MaxTrouble = 1
INVARIANTS
  TypeOK
  ServesWholeState
  ServesTrueCounts
  JournalApplies
  ListedBackupsRestore
  AcknowledgedSurvives
  NoStageLeftBehind
  StorageIsSound
PROPERTY ImplementsRecordLog
SYMMETRY Symmetry
