CONSTANTS
  Transports = {t1, t2, t3}
  MaxFaults = 1
  Requesters = {r1}
  NoOne = NoOne
  App = App
  Loop = Loop
SPECIFICATION Spec
INVARIANT ConnectedIsHeard
CHECK_DEADLOCK FALSE
