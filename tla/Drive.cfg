SPECIFICATION MCSpec
CONSTANTS
  a = a
  b = b
  c = c
  n1 = n1
  n2 = n2
  n3 = n3
  n4 = n4
  odd = odd
  Plan <- PlanOfThree
  Deps <- LastWaits
  Workers = 2
  Solo = TRUE
  MaxSegments = 3
  StuckLimit = 2
  MaxRuns = 2
  MaxFaults = 1
  MaxGoals = 2
  Listing <- FourItems
  Strange = {odd}
CONSTRAINT Within
INVARIANTS EndIsTrue AcceptsJustOrders RanksAreLongest
PROPERTIES WorkKept
CHECK_DEADLOCK FALSE
