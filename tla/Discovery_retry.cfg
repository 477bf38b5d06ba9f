SPECIFICATION Spec
CHECK_DEADLOCK FALSE
CONSTANTS
  Sid = {gw, a, b}
  Gateway = gw
  Persisted = {a, b}
  Scans = 2
  Updates = 2
  MaxOutstanding = 2
  MaxPosted = 2
  MaxAsked = 2
  MaxEvents = 2
PROPERTY RetrySendsSame
