SPECIFICATION FairSpec
CONSTANTS
  Conn = {c1}
  MaxMessages = 3
INVARIANTS
  TypeOK
  ClientsAreAttended
PROPERTIES
  ClientsCatchUp
  GoneIsClosed
CHECK_DEADLOCK FALSE
