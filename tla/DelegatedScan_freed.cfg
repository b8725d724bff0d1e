SPECIFICATION Spec
CONSTANTS
  MAX_HELPERS = 2
  TransferMax = 2
  NTuples <- MCNTuples
  Fails = TRUE
  Cancels = TRUE
  MaxScans = 2
INVARIANTS NothingFreed
CHECK_DEADLOCK FALSE
