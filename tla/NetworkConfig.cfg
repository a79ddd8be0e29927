\* A line of three nodes, rotations at any pace, notifications lost or not.
CONSTANTS
  Root = Root
  a = a
  b = b
  Node = {Root, a, b}
  Tunnel <- MCTunnel
  NoKey = NoKey
  EmptyKey = EmptyKey
  MaxVersion = 4
SPECIFICATION FairSpec
INVARIANT SafeRotation
PROPERTY Reconnected
CHECK_DEADLOCK FALSE
