SPECIFICATION FairSpec
CONSTANTS
  Field = {"peers", "conns", "remote", "mesh", "fanout", "rtts", "dialTime"}
  Task = {t1, t2}
  MaxChanges = 2
  MaxConnects = 2
  MaxRequests = 1
  UpdatesBeforeFullData = 2
INVARIANTS
  TypeOK
  NothingLost
PROPERTIES
  TailNeverGoesBack
  EventuallyConsistent
CHECK_DEADLOCK FALSE
