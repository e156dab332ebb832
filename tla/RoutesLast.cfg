SPECIFICATION Spec
CONSTANTS
  a = a  b = b  c = c  d = d
  Path <- Paths
  Interval = 1
  EndTime = 3
  StopTime = 5
  EveryEpoch = TRUE
CHECK_DEADLOCK FALSE
INVARIANT LastRouteCleared
