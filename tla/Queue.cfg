CONSTANTS
  Messages = {m1, m2, m3}
  NoMessage = NoMessage
  Capacity = 2
  MaxRetries = 2
  Threshold = 3
SPECIFICATION FairSpec
INVARIANTS TypeOK OnePlace DroppedOnlyWhenExhausted BreakerAgrees
PROPERTY SettlesUnlessFull
CHECK_DEADLOCK FALSE
