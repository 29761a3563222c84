CONSTANTS
  N = 3
  Kind <- MCSlowKind
  Walltime <- MCSlowWalltime
  Args <- MCSlowArgs
  DefaultWindow = 600
  Hints <- MCHints
  Delays <- MCSlowDelays
  MaxNow = 1800
  MaxCalls = 1
  MaxCrashes = 0
SPECIFICATION FairSpec
INVARIANT RightEndPinned
PROPERTY CallsEnd
CHECK_DEADLOCK FALSE
