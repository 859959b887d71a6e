CONSTANTS
  Transports = {t1, t2, t3}
  MaxFaults = 2
  MaxEvents = 3
  Capacity = 1
SPECIFICATION FairSpec
INVARIANTS TypeOK OneDispatcher ServingIsHeard
PROPERTY KeepsServing
CHECK_DEADLOCK FALSE
