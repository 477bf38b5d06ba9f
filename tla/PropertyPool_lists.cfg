SPECIFICATION FairSpec
CONSTANTS
  PoolSize = 5
  MaxThing = 2
  Gateway = Gateway
  Device = {d1, d2}
  NoDevice = NoDevice
  Id = {1, 2, 3}
  MaxOps = 6
CHECK_DEADLOCK FALSE
INVARIANTS
  TypeOK
  PoolIsPartitioned
  IdsAreUnique
  FindsWhatIsThere
PROPERTY WalkEnds
