CONSTANTS
  ChatIds = {1, 2, 3, 4}
  TypesOf <- Typings
  PageSize = 2
  SyncCount = 1
  MaxPages = 3
  MaxClock = 6
  MaxJoins = 1
SPECIFICATION Spec
INVARIANTS TypeOK RowsOnce LeftStaysGone
PROPERTY LoadLeavesNoHole
