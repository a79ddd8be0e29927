\* Two threads, three nodes in a circle.
CONSTANTS
  root = root
  na = na
  nb = nb
  t1 = t1
  t2 = t2
  Thread = {t1, t2}
  Nobody = Nobody
  Node = {root, na, nb}
  Root = root
  Tunnel <- MCTunnel
  MaxCall = 2
  MaxNet = 2
SPECIFICATION QueryFairSpec
INVARIANT SafeQueries
PROPERTIES VersionsComplete TopologyComplete CallsEnd
CHECK_DEADLOCK FALSE
