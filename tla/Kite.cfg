SPECIFICATION FairSpec
CONSTANTS
  c = c  p = p  r = r  x = x  s1 = s1  s2 = s2  app = app
  Node = {c, p, r, x, s1, s2}
  App = app
  Link <- Links
  Consumer = c  Producer = p  OldSat = s1  NewSat = s2
  Rv = r
  Up <- ToRv
  MaxNonce = 4
  MaxRequest = 3
  None = None
CHECK_DEADLOCK FALSE
INVARIANTS PathTraced NoneMissed NoneStranded
PROPERTY ConsumerServed
