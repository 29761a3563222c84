SPECIFICATION FairSpec
CONSTANTS
  d1 = d1
  f1 = f1
  f2 = f2
  Deployments <- MCDeployments
  Fips <- MCFips
  Wanted = 2
  Gateway = TRUE
  Configure = TRUE
  Patient = TRUE
  MaxServers = 5
  MaxCalls = 3
INVARIANTS
  TypeOK
  AtMostWanted
  ReadyIsSettled
  GatewayReachable
  NetworkRestored
PROPERTY
  PollEnds
CHECK_DEADLOCK FALSE
