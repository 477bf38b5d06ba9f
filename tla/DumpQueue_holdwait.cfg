SPECIFICATION Spec
CONSTANTS
  MaxThing = 2
  Persistent <- Properties
  MaxDeltas = 3
  Depth = 3
  SpaceNeeded = 2
  MaxStore = 2
  Client = {c1, c2}
  NoThread = NoThread
  MaxSets = 4
CHECK_DEADLOCK FALSE
PROPERTY DumpEnds
