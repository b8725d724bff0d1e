SPECIFICATION LockSpec
CONSTANTS
  Threads = {1, 2, 3}
  Wants <- Readers
  NoWait = {}
  Cancels = {1}
  Asserts = FALSE
  MaxTwice = 1
  MaxHolds = 1
  MaxRefs = 4
INVARIANT NoConflictingModes
CHECK_DEADLOCK FALSE
