SPECIFICATION Spec
CONSTANTS
  a = a  b = b  c = c  d = d  st1 = st1  st2 = st2
  Sat = {a, b, c, d}
  Gap = Gap
  StationOrder <- Stations
  Role <- Roles
  InView <- Views
  Interval = 1
  EndTime = 3
  StopTime = 4
  EveryEpoch = FALSE
  Null = Null
  Path <- Paths
  Consumer = st1
  Producer = st2
CHECK_DEADLOCK FALSE
INVARIANTS Attached RouteFollowsStation AwakeAtHandover
  StaleRemembered PathJoinsStations
