SPECIFICATION FairSpec
CONSTANTS
  Works <- SmallWorks
  CheckWrites <- SmallCheckWrites
  Specs <- SmallSpecs
  MaxRuns = 3
  MaxTrouble = 1
  MaxChecks = 1
  MaxTries = 1
INVARIANT AcceptanceIsSound
PROPERTY SourceIsKept
PROPERTY AssignmentEnds
