SPECIFICATION Spec
CONSTANTS
  a = a  b = b  c = c  d = d  e = e
  ab = ab  bc = bc  cd = cd  da = da  ce = ce
  Sat <- RingSat
  Isl <- RingIsl
  IslEnds <- RingEnds
  Station = {st1}
  Mobile = {st1}
  HopLimit = 3
  MaxLink = 2
  MaxSend = 1
  Null = Null
  Absent = Absent
INVARIANTS TypeOK RequestAnswered TunnelJoinsEnds OnlyBufferedLost PayloadHasDevice
PROPERTIES TunnelNeverRerouted
SYMMETRY Reflections
