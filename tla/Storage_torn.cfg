SPECIFICATION Spec
CONSTANTS
  Device = {a}
  Prop = {own, p}
  OwnerProp = own
  Value = {v1, v2}
  Depth = 3
  MaxDeltas = 2
  SpaceNeeded = 2
  MaxStore = 2
  BesideHeader = 2
  CloudSets = FALSE
  MayDestroy = FALSE
  TornWrites = "always"
  MaxOps = 2
  MaxCrashes = 1
  NoLog = NoLog
CHECK_DEADLOCK FALSE
PROPERTY ArchiveRemovalSafe
