CONSTANTS
  x1 = x1
  x2 = x2
  Xids <- MCXids
  NumPages = 1
  Writes <- MCReader
  CommitTypes <- MCCareful
  Logging = TRUE
  MaxLogCount = 2
  FirstGeneration = 1
  OpenFiles = {1}
  MaxFlushes = 1
  MaxEvictions = 0
  MaxCrashes = 0
  Junk = Junk
  None = None
SPECIFICATION FairSpec
PROPERTY CommitAnswered
