SPECIFICATION FairPairSpec
CONSTANTS
  Nil = Nil
  Gone = Gone
  Unreachable = Unreachable
  d1 = d1
  d2 = d2
  s1 = s1
  s2 = s2
  Namespaces = {}
  Domains = {d1, d2}
  Nameservers = {s1, s2}
  Classes = {c1}
  Nodes = {n1}
  Requests <- MCTwoRequests
  NodeConfigs <- MCGoodOrDown
  MaxConcurrentReconciles = 1
  RetrySteps = 2
  MaxEdits = 2
  MaxFaults = 1
  MaxRelists = 0
  MaxRestarts = 1
  MaxKubeletChanges = 0
  MaxRV = 20
  MaxEarlyRetries = 0
CHECK_DEADLOCK FALSE
INVARIANT ReadyMeansUsable  PairForgetsNothing
PROPERTY PairConverges
