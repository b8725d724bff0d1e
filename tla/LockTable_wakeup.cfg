SPECIFICATION LockSpec
CONSTANTS
  Threads = {1, 2, 3}
  Wants <- Readers
  NoWait = {}
  Cancels = {}
  Asserts = TRUE
  MaxTwice = 0
  MaxHolds = 1
  MaxRefs = 4
INVARIANT NoSleeperOnFreeLock
