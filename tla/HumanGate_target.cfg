CONSTANTS
  a1 = a1
  a2 = a2
  b1 = b1
  b2 = b2
  c1 = c1
  p1 = p1
  p2 = p2
  s1 = s1
  s2 = s2
  Nil = Nil
  Names = {s1, s2}
  Plans = {p1, p2}
  Contracts = {a1, a2, b1, b2, c1}
  Endpoint <- EndpointOf
  Within <- Wide
  Covered <- Wide
  Original <- Files
  Sessions = {x}
  Hooks = {k1, k2}
  MaxEdits = 1
  MaxWords = 4
  MaxGoals = 2
SPECIFICATION Spec
SYMMETRY Alike
CONSTRAINT Scenarios
INVARIANT ActsAsApproved
CHECK_DEADLOCK FALSE
