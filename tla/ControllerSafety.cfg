SPECIFICATION HistorySpec
CONSTANTS
  Nil = Nil
  Gone = Gone
  Unreachable = Unreachable
  d1 = d1
  d2 = d2
  s1 = s1
  s2 = s2
  Namespaces = {}
  Domains = {d1, d2}
  Nameservers = {s1, s2}
  Classes = {c1}
  Nodes = {n1}
  Requests <- MCTwoRequests
  NodeConfigs <- MCNodeConfigs
  MaxConcurrentReconciles = 1
  RetrySteps = 2
  MaxEdits = 3
  MaxFaults = 1
  MaxRelists = 1
  MaxRestarts = 1
  MaxKubeletChanges = 1
  MaxRV = 12
  MaxEarlyRetries = 1
CHECK_DEADLOCK FALSE
INVARIANT TypeOK IInv ReadyMeansUsable  NothingForgotten 
PROPERTY StatusNeverRegresses ImplementsLifecycle
