SPECIFICATION ChartSpec
CONSTANTS
  Nil = Nil
  Gone = Gone
  Replicas = {r1, r2}
  LeaderElect = FALSE
  LeaseDuration = 4
  RenewDeadline = 2
  RetryPeriod = 1
  MaxCrashes = 2
  MaxRetries = 2
  BackoffLimit = 1
INVARIANT ReadyAPIAnswers
