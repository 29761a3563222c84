SPECIFICATION Spec
CONSTANTS
  s1 = s1
  s2 = s2
  c1 = c1
  c2 = c2
  Sites <- MCSites
  Clients <- OneClient
  MaxJobs = 3
  MaxCalls = 2
  MaxRounds = 2
INVARIANT
  WaitsForCurrent
CHECK_DEADLOCK FALSE
