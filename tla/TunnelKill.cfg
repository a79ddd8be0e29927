\* A lock lasts two ticks, a datagram one.
CONSTANTS
  LockTime = 2
  MaxAge = 1
SPECIFICATION FairSpec
INVARIANT SafeCosts
PROPERTIES NoTrafficCut Unlocked
