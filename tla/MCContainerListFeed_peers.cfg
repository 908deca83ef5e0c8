SPECIFICATION FairOpenedSpec
CONSTANTS
  Container = {a, b}
  Outsider = {}
  Task = {}
  MaxChanges = 2
  MaxConnects = 2
  MaxBoots = 2
PROPERTIES
  StatusConverges
  NobodyShownTwice
CHECK_DEADLOCK FALSE
