SPECIFICATION ShepherdSpec
CONSTANTS
  Nil = Nil
  Gone = Gone
  Unreachable = Unreachable
  d1 = d1
  s1 = s1
  ns1 = ns1
  ns2 = ns2
  Namespaces = {ns1, ns2}
  Domains = {d1}
  Nameservers = {s1}
  Classes = {c1, c2}
  Nodes = {n1}
  Requests <- MCAllRequests
  NodeConfigs <- MCNodeConfigs
  PodNames = {p1}
  PodRequests <- MCPodRequests
  MaxConcurrentReconciles = 1
  RetrySteps = 2
  MaxEdits = 2
  MaxFaults = 1
  MaxRelists = 0
  MaxRestarts = 0
  MaxKubeletChanges = 1
  MaxEarlyRetries = 0
  MaxRV = 8
  MaxPodEdits = 2
CHECK_DEADLOCK FALSE
INVARIANT ShepherdTypeOK PodsAreWhole 
PROPERTY DenialIsTransient PatchIsStable 
