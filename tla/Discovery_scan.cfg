SPECIFICATION FairSpec
CHECK_DEADLOCK FALSE
CONSTANTS
  Sid = {gw, a, b}
  Gateway = gw
  Persisted = {a}
  Scans = 2
  Updates = 2
  MaxOutstanding = 2
  MaxPosted = 1
  MaxAsked = 1
  MaxEvents = 1
INVARIANTS
  TypeOK
  ScanNeverForgotten
  SparesAnswering
PROPERTIES
  ScanEnds
  FlushAllReported
