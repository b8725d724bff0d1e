SPECIFICATION Spec
CONSTANTS
  MAX_HELPERS = 2
  TransferMax = 2
  NTuples <- MCNTuples
  Fails = FALSE
  Cancels = FALSE
  MaxScans = 2
INVARIANTS ArgsOutlive
CHECK_DEADLOCK FALSE
