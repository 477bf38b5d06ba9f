SPECIFICATION FairSpec
CONSTANTS
  Sid = {gw, a, b}
  NullSid = nobody
  Gateway = gw
  Message = {m}
  None = none
  Numbers = 2
  ChirpLimit = 2
  PropagationCountLimit = 2
  MaxCommands = 2
  MaxAnswers = 1
INVARIANTS
  TypeOK
  ReportsKept
  NumbersRepeatLate
  MissingAreUnreached
PROPERTIES
  RumorIsKept
  ReasonsEnd
