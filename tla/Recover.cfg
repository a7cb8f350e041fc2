SPECIFICATION FairSpec
CONSTANTS
  MaxRuns = 3
  MaxTree = 3
  MaxAttempts = 3
  MaxLimit = 2
  MaxFaults = 1
  MaxEdits = 2
  Gated = TRUE
INVARIANT RecoveryIsSound
PROPERTY NoLaunchPastBarrier
PROPERTY RecoverySettles
CHECK_DEADLOCK FALSE
