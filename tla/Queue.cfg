CONSTANTS
  d1 = d1
  Items <- TwoItems
  DepsOf <- Chain
  Delivered <- OneDelivered
  Procs <- OneProc
  Stores <- BothStores
  WallLimits <- WithWall
  People <- Everything
  MaxSegments = 1
  MaxTx = 3
  MaxKills = 1
  MaxTurns = 2
  Other = Other
  None = None
  m1 = m1
  m2 = m2
  Unknown = Unknown
  Models <- TwoModels
  MaxSessions = 2
  MaxBuilds = 2
  MaxBurns = 3
  MaxHarvests = 2
  MaxTears = 1
SPECIFICATION MCSpec
CONSTRAINTS FirstModel Retried
INVARIANTS CompletedIsDone DispatchedInOrder RecordedIsCharged UseCountedOnce
CHECK_DEADLOCK FALSE
