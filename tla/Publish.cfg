SPECIFICATION FairSpec
CONSTANTS
  p1 = p1
  p2 = p2
  Procs = {p1, p2}
  Identities <- OneOrTwo
  MaxAttempts = 3
  MaxFaults = 1
  MaxEdits = 1
INVARIANT RecordedIsOnGitHub
PROPERTY NothingIsUndone
PROPERTY PublicationCompletes
CHECK_DEADLOCK FALSE
