SPECIFICATION Spec
CONSTANTS
  m1 = m1
  t1 = t1
  t2 = t2
  a1 = a1
  c1 = c1
  n1 = n1
  NoTask = NoTask
  Missions <- OneMission
  Tasks <- TwoTasks
  Agents = {a1}
  Messages = {}
  MissionOf <- ChainMission
  AgentOf <- ChainAgent
  Deps <- ChainDeps
  MaxAttempts <- ChainAttempts
  Gated = {}
  NeedsArtifact = {}
  AsksApproval = {}
  Checks = {c1}
  Pressures = {"none"}
  Recipient <- NoRecipient
  Reported = {"working"}
  Cleanups = {"preserved"}
  MayCrash = TRUE
  MaxRuns = 3
INVARIANT OneActiveRun
INVARIANT RowsAgree
PROPERTY FreshRunAfterParents
PROPERTY ImplementsAssignment
CHECK_DEADLOCK FALSE
