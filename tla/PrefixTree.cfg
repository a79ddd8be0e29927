\* Two communities, prefixes of two lengths, interruptions anywhere.
CONSTANTS
  MaxLen = 3
  Community <- MCCommunities
  Length = {1, 2}
SPECIFICATION FairSpec
INVARIANT Partition
PROPERTIES MergeComplete Terminates PoolSpec
