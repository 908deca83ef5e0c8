SPECIFICATION FairSpec
CONSTANTS
  Container = {c1, c2}
  Remote = {r}
  c1 = c1
  c2 = c2
  r = r
  Reports <- SomeReports
  MapType = {connections, meshPeers}
  StableIterations = 2
  MaxUnstable = 2
  MaxChanges = 3
INVARIANTS TypeOK OneSimulation EdgesFollowData SettledWithTheseEdges
PROPERTIES LayoutSettles
CHECK_DEADLOCK FALSE
