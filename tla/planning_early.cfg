SPECIFICATION PlanSpec
CONSTANTS
  Workers <- MCWorkers
  Groups <- MCGroups
  MaxStarts = 0
  Plans <- MCPlans
  DayLength = 3
  MaxTime = 5
  MaxCalls = 1
INVARIANT OnItsDate
CHECK_DEADLOCK FALSE
