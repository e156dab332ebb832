SPECIFICATION FairSpec
CONSTANTS
  f1 = f1  f2 = f2  f3 = f3  app = app
  Name <- Names
  Face = {f1, f2, f3}
  Origin = {app}
  Cost = {1}
  Event = {1, 2}
  None = None  Keep = Keep  Removal = Removal
  Usage <- NestedUse
  Mortal = {f3}
  MaxQueue = 1
CHECK_DEADLOCK FALSE
PROPERTY RefusedNotApplied
