SPECIFICATION FairManagedSpec
CONSTANTS
  Container = {c1}
  Handler = {h1}
  MaxListed = 1
  MaxBoots = 2
INVARIANTS
  FollowerReachable
PROPERTIES
  CleanupEnds
CHECK_DEADLOCK FALSE
