SPECIFICATION FairSpec
CONSTANTS
  Nil = Nil
  Gone = Gone
  Unreachable = Unreachable
  d1 = d1
  d2 = d2
  s1 = s1
  s2 = s2
  Namespaces = {}
  Domains = {d1, d2}
  Nameservers = {s1, s2}
  Classes = {c1, c2}
  Nodes = {n1}
  Requests <- MCTwoRequests
  NodeConfigs <- MCAnswers
  MaxConcurrentReconciles = 1
  RetrySteps = 2
  MaxEdits = 2
  MaxFaults = 1
  MaxRelists = 1
  MaxRestarts = 1
  MaxKubeletChanges = 1
  MaxRV = 20
  MaxEarlyRetries = 1
CHECK_DEADLOCK FALSE
  
PROPERTY Converges
