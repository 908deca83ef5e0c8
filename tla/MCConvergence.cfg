SPECIFICATION FairSpec
CONSTANTS
  Node = {n1, n2}
  Deaf = {n2}
  Amount = 2
  MaxClicks = 2
  MaxFeed = 1
INVARIANTS
  TypeOK
  CountedOnce
  ConvergedMeansSeen
PROPERTIES
  DisplayCatchesUp
CHECK_DEADLOCK FALSE
