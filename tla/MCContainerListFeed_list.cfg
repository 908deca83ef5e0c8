SPECIFICATION FairFreshSpec
CONSTANTS
  Container = {a}
  Outsider = {}
  Task = {t}
  MaxChanges = 2
  MaxConnects = 2
  MaxBoots = 1
INVARIANTS
  TypeOK
PROPERTIES
  ListConverges
CHECK_DEADLOCK FALSE
