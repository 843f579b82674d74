CONSTANTS
  d1 = d1
  d2 = d2
  m1 = m1
  sa = sa
  sb = sb
  src = src
  doc = doc
  lock = lock
  one = one
  h1 = h1
  h2 = h2
  t1 = t1
  p1 = p1
  p2 = p2
  None = None
  Drives <- TwoDrives
  Manual <- OneManual
  Slugs <- TwoSlugs
  Cap = 1
  MaxSpend = 1
  MaxWrites = 1
  MaxGoals = 2
  MaxDeletes = 1
  Minute = 10
  Absent = Absent
  Nil = Nil
  Paths <- AllPaths
  Rank <- NameOrder
  Contents <- OneContent
  Inputs <- SourceOnly
  Hinted <- LockOnly
  Locks <- LockOnly
  Scripts <- SourceOnly
  Scopes <- SomeScopes
  Features <- ByManifest
  Risk = TRUE
  Written = 7
  MaxHead = 2
  MaxDrifts = 2
  MaxRuns = 2
  MaxReceipts = 4
  NoTurn = NoTurn
  Sessions <- TwoSessions
  Turns <- OneTurn
  Providers <- TwoProviders
  Minutes = {0, 1, 3}
  Log <- SomeLines
  PerHour = 2
  Day = 4
  Share = 60
  ShareTurns = 1
  ShareStarted = 1
  Sample = 1
  MaxLines = 4
  Shift = {0, 5, 11, 16}
  Now <- AllHours
  Start <- AllStarts
SPECIFICATION MCSpec
CONSTRAINT Within
INVARIANTS OneWriterWhileKept OverrunBounded ReviewedUpTo FinishedOnTheLatest MeasuredApart ArcsAreThePeaks
PROPERTY WritesFenced
CHECK_DEADLOCK FALSE
