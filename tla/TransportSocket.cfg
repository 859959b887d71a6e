CONSTANTS
  Modulus = 2
  MaxSeq = 3
  MaxConn = 1
  Callers = {r1, r2}
  PushSeqs = {2}
  FramesPerPacket = {0, 2}
SPECIFICATION Spec
SYMMETRY CallerSymmetry
INVARIANT OwnAnswer
PROPERTY CancelledOnlyOnLoss
CHECK_DEADLOCK FALSE
