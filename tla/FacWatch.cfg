SPECIFICATION FairSpec
CONSTANTS
  MaxEpochs = 2
  Hints = {2}
  Quotas <- LowQuota
  BaseBackoff = 1
  MaxBackoff = 2
  MaxFailures = 1
  Never = 3
  MaxControls = 2
  MaxThrottles = 1
  MaxFaults = 1
INVARIANT DoneMeansReconciled
PROPERTY WaitIsServed
PROPERTY ReconcileCompletes
CHECK_DEADLOCK FALSE
