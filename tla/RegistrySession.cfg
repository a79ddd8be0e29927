SPECIFICATION FairSpec
CONSTANTS
  MaxRequest = 5
  MaxSecret = 3
  NoKey = NoKey
INVARIANTS OnlyOnce SessionKept CallAnswered
PROPERTY CallEnds
CHECK_DEADLOCK FALSE
