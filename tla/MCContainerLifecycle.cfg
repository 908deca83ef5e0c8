SPECIFICATION FairSpec
CONSTANTS
  Container = {c1}
  Handler = {h1}
  MaxListed = 2
  MaxBoots = 2
INVARIANTS
  TypeOK
  WatchedConn
  NoLostSocket
PROPERTIES
  StopAllHonest
  ImplementsRegistry
  DeadConnReaped
  HandshakeSettles
  FollowerStops
CHECK_DEADLOCK FALSE
