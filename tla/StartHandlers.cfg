CONSTANTS
  Transports = {t1, t2, t3}
  MaxFaults = 2
  MaxEvents = 3
  Capacity = 1
SPECIFICATION Spec
INVARIANT HandlersKept
CHECK_DEADLOCK FALSE
