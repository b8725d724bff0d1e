CONSTANTS
  x1 = x1
  x2 = x2
  Xids <- MCXids
  NumPages = 2
  Writes <- MCWrites
  CommitTypes <- MCTypes
  Logging = TRUE
  MaxLogCount = 0
  FirstGeneration = 1
  OpenFiles = {}
  MaxFlushes = 1
  MaxEvictions = 1
  MaxCrashes = 1
  Junk = Junk
  None = None
SPECIFICATION Spec
INVARIANT CommitDurable
