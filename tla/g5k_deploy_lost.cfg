SPECIFICATION Spec
CONSTANTS
  h1 = h1
  h2 = h2
  h3 = h3
  g1 = g1
  g2 = g2
  Hosts <- MCHosts
  Groups <- MCGroups
  GroupOf <- MCGroupOf
  MAX_DEPLOY = 3
  MaxCalls = 1
INVARIANT AllAccounted
CHECK_DEADLOCK FALSE
