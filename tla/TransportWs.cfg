CONSTANTS
  Modulus = 8
  MaxSeq = 2
  MaxConn = 1
  Callers = {r1, r2}
  PushSeqs = {2}
  FramesPerPacket = {1}
SPECIFICATION FairSpec
INVARIANTS TypeOK NoAnswerMissed OneDestination
PROPERTY ImplementsRequestResponse
CHECK_DEADLOCK FALSE
