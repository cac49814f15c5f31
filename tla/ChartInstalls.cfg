SPECIFICATION FairChartSpec
CONSTANTS
  Nil = Nil
  Gone = Gone
  Replicas = {r1, r2}
  LeaderElect = TRUE
  LeaseDuration = 4
  RenewDeadline = 2
  RetryPeriod = 1
  MaxCrashes = 2
  MaxRetries = 2
  BackoffLimit = 1
INVARIANT ManagerTypeOK OneController LeaseInv ChartTypeOK
PROPERTY FailsOver ReleaseEnds
