SPECIFICATION FairSpec
CONSTANTS
  MAX_HELPERS = 2
  TransferMax = 2
  NTuples <- MCNTuples
  Fails = TRUE
  Cancels = TRUE
  MaxScans = 2
INVARIANTS ScanExact DelegateOutlives HelpersStopped
PROPERTIES ExecutorReturns StopReturns HelpersJoined
CHECK_DEADLOCK FALSE
