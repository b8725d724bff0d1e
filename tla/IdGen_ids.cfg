CONSTANTS
  Threads = {t1, t2}
  NoThread = NoThread
  StartPrefetch <- MCStartPrefetch
  RunPrefetch <- MCRunPrefetch
  BootstrapObjectIdData = 2
  FirstTransactionId = 1
  MaxId = 5
  MaxGeneration = 2
  MaxGranted = 5
SPECIFICATION FairSpec
INVARIANTS IdsIncrease IndInv
PROPERTIES FetchCompletes
