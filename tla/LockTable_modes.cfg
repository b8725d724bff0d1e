SPECIFICATION LockSpec
CONSTANTS
  Threads = {1, 2, 3}
  Wants <- Mixed
  NoWait = {"AccessShare"}
  Cancels = {1}
  Asserts = FALSE
  MaxTwice = 1
  MaxHolds = 2
  MaxRefs = 4
INVARIANTS NoConflictingHolders EntryOutlivesUsers
CHECK_DEADLOCK FALSE
