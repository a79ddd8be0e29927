\* A node that is not notified keeps a configuration that is limited in time.
CONSTANTS
  Root = Root
  a = a
  b = b
  Node = {Root, a, b}
  Tunnel <- MCTunnel
  NoKey = NoKey
  EmptyKey = EmptyKey
  MaxVersion = 2
SPECIFICATION FairSpec
PROPERTY LimitEnds
CHECK_DEADLOCK FALSE
