CONSTANTS
  p1 = p1
  p2 = p2
  w1 = w1
  w2 = w2
  a1 = a1
  a2 = a2
  t1 = t1
  t2 = t2
  q1 = q1
  q2 = q2
  None = None
  Absent = Absent
  Procs <- TwoProcs
  Savers <- TwoSavers
  MaxRuns = 3
  MaxKills = 2
  MaxWrites = 3
  Appliers <- TwoAppliers
  Tasks <- TwoTasks
  Texts <- TwoTexts
  MaxApplies = 3
  MaxTurns = 3
  MaxDeaths = 2
SPECIFICATION MCSpec
SYMMETRY Alike
CONSTRAINT Stories
INVARIANTS LostIsFlagged ConvertedHasDraft
PROPERTY KeptByBoth
CHECK_DEADLOCK FALSE
