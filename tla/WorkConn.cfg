SPECIFICATION FairSpec
CONSTANTS
  Commits = {1, 2}
  None = None
  Kinds <- ConnectSignInTest
  Heads <- RefMoves
  MAX_OPERATIONS = 2
  MaxQueue = 1
  MaxFaults = 1
INVARIANT RegistryIsSound
INVARIANT NativeLoginOnce
PROPERTY ConnectionSettles
CHECK_DEADLOCK FALSE
