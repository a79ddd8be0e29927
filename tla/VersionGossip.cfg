\* Three nodes in line, one new version, two faults.
CONSTANTS
  root = root
  na = na
  nb = nb
  Node = {root, na, nb}
  Root = root
  Neighbour <- MCLine
  MaxVersion = 2
  MaxFaults = 2
SPECIFICATION FairSpec
INVARIANT SafeGossip
PROPERTY Converges
CHECK_DEADLOCK FALSE
