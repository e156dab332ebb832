SPECIFICATION FairSpec
CONSTANTS
  c = c  s1 = s1  s2 = s2  s3 = s3  s4 = s4  p = p  app = app
  Node = {c, s1, s2, s3, s4, p}
  App = app
  Link <- Links
  Hosts = {c, p}
  Consumer = c  Producer = p  Mobile = c  OldSat = s1  NewSat = s2
  NextHops <- Before
  NewHops <- After
  HintHops <- ToOldSat
  Strategies = {"multicast", "retx", "hint"}
  MaxNonce = 4
  None = None
CHECK_DEADLOCK FALSE
INVARIANTS NoneStranded NoInterestTwice FlowBalance
PROPERTY ConsumerServed
