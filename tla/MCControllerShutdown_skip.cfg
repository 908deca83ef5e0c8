SPECIFICATION RepopulatedSpec
CONSTANTS
  Container = {c1, c2}
  Handler = {h1}
  MaxListed = 0
  MaxBoots = 1
INVARIANTS
  CleanupReachesAll
CHECK_DEADLOCK FALSE
