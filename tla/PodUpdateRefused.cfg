SPECIFICATION ShepherdSpec
CONSTANTS
  Nil = Nil
  Gone = Gone
  Unreachable = Unreachable
  d1 = d1
  s1 = s1
  ns1 = ns1
  ns2 = ns2
  Namespaces = {ns1, ns2}
  Domains = {d1}
  Nameservers = {s1}
  Classes = {c1}
  Nodes = {n1}
  Requests <- MCRequests
  NodeConfigs <- MCGood
  PodNames = {p1}
  PodRequests <- MCPodRequests
  MaxConcurrentReconciles = 1
  RetrySteps = 2
  MaxEdits = 1
  MaxFaults = 0
  MaxRelists = 0
  MaxRestarts = 0
  MaxKubeletChanges = 0
  MaxEarlyRetries = 0
  MaxRV = 8
  MaxPodEdits = 2
CHECK_DEADLOCK FALSE
INVARIANT ExistingPodsAreLeftAlone
