SPECIFICATION FairSpec
CONSTANTS
  Container = {c1, c2}
  Publisher = {p}
  Commander = {k}
INVARIANTS
  TypeOK
  ClashTakesTwo
  ClearedBeforePublish
PROPERTIES
  RequestsAnswered
  BrokenConnLeaves
CHECK_DEADLOCK FALSE
