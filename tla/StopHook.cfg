CONSTANTS
  s1 = s1
  h1 = h1
  h2 = h2
  None = None
  Sessions <- OneSession
  Hooks <- TwoHooks
  Steps = 2
  MaxContinues = 2
  MaxEras = 2
  MaxMarkers = 1
  MaxFaults = 1
SPECIFICATION Spec
SYMMETRY HookSymmetry
INVARIANTS PullsInOrder StanddownKept ReleasedByMarker
CHECK_DEADLOCK FALSE
