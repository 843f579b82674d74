CONSTANTS
  p1 = p1
  p2 = p2
  q1 = q1
  q2 = q2
  None = None
  Hands <- TwoHands
  Items <- TwoItems
  Endpoint <- Deployed
  MaxHeads = 2
  MaxPulls = 2
  MaxFaults = 1
SPECIFICATION Spec
CONSTRAINT Within
SYMMETRY Alike
INVARIANTS SentOneByOne ShownIsDeployed
PROPERTY CompletedIsDelivered
CHECK_DEADLOCK FALSE
