SPECIFICATION Spec
CONSTANTS
  NUM_ORBITS = 2
  NUM_SATS_PER_ORBIT = 3
  Dist = {0, 1, 2}
  MAX_DISTANCE = 2
  None = None
INVARIANTS ActiveNearest OrbitLazyVisible
PROPERTY OrbitLazyKeeps
