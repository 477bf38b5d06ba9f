SPECIFICATION Spec
CONSTANTS
  FileCount = 2
  MaxOpen = 2
  Capacity = 4
  HeadCells = 2
  SectorCells = 2
  MaxStore = 2
  Data = {d1}
  Current = Current
  Archive = Archive
  NoName = NoName
  Erased = Erased
  Garbled = Garbled
  NoFile = NoFile
  LoadMayFail = TRUE
INVARIANTS
  TypeOK
  ToldIsOnFlash
  UniqueNames
PROPERTIES
  NeighbourUntouched
  CrashOutcome
