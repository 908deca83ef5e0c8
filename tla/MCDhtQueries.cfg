SPECIFICATION FairSpec
CONSTANTS
  Query = {q1, q2, q3}
  Command = {"findprovider", "findpeer", "put", "provide", "get"}
  MaxFound = 2
INVARIANTS
  TypeOK
  WorkShownIsUnderWay
  NewestNotAborted
PROPERTIES
  StatusSettles
CHECK_DEADLOCK FALSE
