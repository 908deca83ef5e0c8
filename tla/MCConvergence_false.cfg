SPECIFICATION Spec
CONSTANTS
  Node = {n1, n2}
  Deaf = {}
  Amount = 1
  MaxClicks = 2
  MaxFeed = 1
INVARIANTS
  ConvergedIsTrue
CHECK_DEADLOCK FALSE
