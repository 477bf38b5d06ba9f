SPECIFICATION Spec
CONSTANTS
  d1 = d1
  d2 = d2
  Buffer = {b1, b2, b3, b4}
  Nil = nil
  Device = {d1, d2}
  Detailed = {d1}
  ReadsVolts = {d1}
  Temperature = {d1}
  QueueDepth = 2
  Traffic <- MCTraffic
  MaxInputs = 3
INVARIANTS
  OwnedOnce
CHECK_DEADLOCK FALSE
