CONSTANTS
  p1 = p1
  p2 = p2
  NoLock = NoLock
  Procs <- TwoProcs
  MaxCommands = 3
  MaxCrashes = 1
SPECIFICATION MCSpec
INVARIANT NoLostUpdate
PROPERTIES OrphanReclaimed CallComesBack
CHECK_DEADLOCK FALSE
