CONSTANTS
  Transports = {t1, t2, t3, t4, t5}
  MaxFaults = 2
  Requesters = {r1}
  NoOne = NoOne
  App = App
  Loop = Loop
SPECIFICATION FairSpec
INVARIANTS TypeOK RowsOfThisSession
PROPERTIES EndsUpConnected CallsReturn
CHECK_DEADLOCK FALSE
