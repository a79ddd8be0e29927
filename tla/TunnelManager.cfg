\* Two peers, one greater than us and with two addresses, one tap, one server:
\* the pool, tunnels that cross, killers, retries, late notifications.
CONSTANTS
  p1 = p1
  p2 = p2
  i1 = i1
  Self = Self
  Srv = Srv
  NoIface = NoIface
  Peer = {p1, p2}
  Higher = {p2}
  Persistent = {p1}
  Registry = p1
  ClientIface = {i1}
  ServerIface = {Srv}
  Alternate = {p2}
  MaxAddr = 2
  MaxEvents = 1
SPECIFICATION Spec
INVARIANTS SafePool OneTunnelPerPeer KillerHasTunnel
PROPERTY GoodAddress
CHECK_DEADLOCK FALSE
