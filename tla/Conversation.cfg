CONSTANTS
  MaxMessages = 3
  MaxChanges = 1
  MaxUnderWay = 2
  Page = 1
  Limit = 2
VIEW Seen
SPECIFICATION Spec
INVARIANTS TypeOK DuplicateOnlyOfOwnSend NothingLost 
