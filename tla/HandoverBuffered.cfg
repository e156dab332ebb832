SPECIFICATION Spec
CONSTANTS
  a = a  b = b  c = c  d = d  e = e
  ab = ab  bc = bc  cd = cd  da = da  ce = ce
  Sat <- PairSat
  Isl <- PairIsl
  IslEnds <- PairEnds
  Station = {st1}
  Mobile = {st1}
  HopLimit = 2
  MaxLink = 2
  MaxSend = 1
  Null = Null
  Absent = Absent
INVARIANT BufferedNotLost
