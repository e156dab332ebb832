SPECIFICATION FairSpec
CONSTANTS
  a = a  b = b
  End = {a, b}
  Traffic <- Patterns
  MaxPacket = 2
  MaxRetx = 1
  SeqNumLossThreshold = 1
  AckRoom = 1
  SeqRange = 12
  LastTxSeqNo = {9}
  MaxSwitch <- Switches
  None = None
CHECK_DEADLOCK FALSE
INVARIANTS TypeOK NeverAborts WindowStart AckedReceived CountedOnce HandedUpBounded
PROPERTY PacketsEnd
