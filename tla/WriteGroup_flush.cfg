SPECIFICATION Spec
CONSTANTS
  Threads = {b1, b2}
  CommitTypes = {"careful", "soft"}
  MaxTrans = 2
  MaxLogCount = 2
  Spurious = FALSE
  MaxTxns = 1
  MaxFlushes = 1
PROPERTIES
  FlushWrites
