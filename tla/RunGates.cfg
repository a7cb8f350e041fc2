SPECIFICATION FairSpec
CONSTANTS
  m1 = m1
  t1 = t1
  t2 = t2
  a1 = a1
  c1 = c1
  n1 = n1
  NoTask = NoTask
  Missions <- OneMission
  Tasks <- OneTask
  Agents = {a1}
  Messages = {n1}
  MissionOf <- SoloMission
  AgentOf <- SoloAgent
  Deps <- SoloDeps
  MaxAttempts <- SoloAttempts
  Gated = {t1}
  NeedsArtifact = {t1}
  AsksApproval = {t1}
  Checks = {c1}
  Pressures = {"none", "suspend", "stop"}
  Recipient <- NoteRecipient
  Reported = {"working"}
  Cleanups = {"preserved", "quarantined"}
  MayCrash = FALSE
  MaxRuns = 1
INVARIANT AcceptedTaskHasEvidence
INVARIANT RowsAgree
PROPERTY TerminalRunIsFinal
PROPERTY ExpiryIsAutomatic
CHECK_DEADLOCK FALSE
