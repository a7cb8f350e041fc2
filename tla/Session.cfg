SPECIFICATION FairSpec
CONSTANTS
  Kinds <- AllKinds
  MaxAsks = 2
  MaxSteers = 2
  MaxPosts = 3
  MaxLines = 2
  MaxFaults = 1
  MaxProbes = 2
INVARIANT ReturnIsSound
INVARIANT ProviderIsTold
PROPERTY StopEnds
CHECK_DEADLOCK FALSE
