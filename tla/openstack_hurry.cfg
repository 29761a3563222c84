SPECIFICATION Spec
CONSTANTS
  d1 = d1
  f1 = f1
  f2 = f2
  Deployments <- MCDeployments
  Fips <- MCFips
  Wanted = 2
  Gateway = TRUE
  Configure = TRUE
  Patient = FALSE
  MaxServers = 5
  MaxCalls = 3
INVARIANT
  AtMostWanted
CHECK_DEADLOCK FALSE
