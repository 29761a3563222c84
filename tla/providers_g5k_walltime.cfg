CONSTANTS
  N = 2
  Kind <- MCKind
  Walltime <- MCWalltime
  Args <- MCArgs
  DefaultWindow = 600
  Hints <- MCHints
  Delays <- MCDelays
  MaxNow = 140
  MaxCalls = 2
  MaxCrashes = 1
SPECIFICATION Spec
PROPERTY G5kJobsWithinSlot
CHECK_DEADLOCK FALSE
