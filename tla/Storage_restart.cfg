SPECIFICATION Spec
CONSTANTS
  Device = {a}
  Prop = {own, p}
  OwnerProp = own
  Value = {v1, v2}
  Depth = 2
  MaxDeltas = 2
  SpaceNeeded = 1
  MaxStore = 3
  BesideHeader = 2
  CloudSets = TRUE
  MayDestroy = TRUE
  TornWrites = "noArchive"
  MaxOps = 3
  MaxCrashes = 1
  NoLog = NoLog
SYMMETRY ValueSymmetry
CHECK_DEADLOCK FALSE
INVARIANTS
  TypeOK
  QuiescentLatest
  QuiescentKeys
PROPERTIES
  ArchiveRemovalSafe
  StorageIsPersistent
