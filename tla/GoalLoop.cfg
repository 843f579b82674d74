CONSTANTS
  sa = sa
  sb = sb
  pa = pa
  pb = pb
  n1 = n1
  f1 = f1
  t1 = t1
  t2 = t2
  h1 = h1
  h2 = h2
  None = None
  Slugs <- TwoSlugs
  Plans <- TwoPlans
  Works <- OneWork
  Finals <- OneFinal
  Trees <- TwoTrees
  Tiers <- BothTiers
  Harnesses <- AnyHarness
  HalfKinds <- BothHalves
  Verdicts <- BothVerdicts
  MaxNodes = 5
  MaxAttempts = 2
  MaxEras = 3
SPECIFICATION Spec
CONSTRAINT Within
SYMMETRY Symmetry
INVARIANTS LedgerAgrees AttestedOnOwnEvidence DoneIsAttested
PROPERTIES HeavyIsProved NeverRevived KeepsPromise
CHECK_DEADLOCK FALSE
