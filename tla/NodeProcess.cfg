\* Two services, two peers and a client behind the same address.
CONSTANTS
  p1 = p1
  p2 = p2
  c1 = c1
  x1 = x1
  x2 = x2
  Service = {server, babeld}
  Babeld = babeld
  Peer = {p1, p2}
  NoPeer = NoPeer
  Client = {c1}
  Ip = {x1, x2}
  Remote <- MCRemote
  Trusted <- MCTrusted
SPECIFICATION NodeFairSpec
INVARIANTS SafeRoutes NothingLeft
PROPERTIES SignalOnce SignalEnds
CHECK_DEADLOCK FALSE
