SPECIFICATION FairSpec
CONSTANTS
  Nil = Nil
  Gone = Gone
  Unreachable = Unreachable
  d1 = d1
  d2 = d2
  s1 = s1
  s2 = s2
  Namespaces = {}
  Domains = {d1, d2}
  Nameservers = {s1, s2}
  Classes = {c1}
  Nodes = {n1}
  Requests <- MCRequests
  NodeConfigs <- MCGoodOrDown
  MaxConcurrentReconciles = 1
  RetrySteps = 2
  MaxEdits = 1
  MaxFaults = 0
  MaxRelists = 0
  MaxRestarts = 0
  MaxKubeletChanges = 1
  MaxRV = 20
  MaxEarlyRetries = 1
CHECK_DEADLOCK FALSE
PROPERTY ReachesReady
