SPECIFICATION Spec
CONSTANTS
  Threads = {b1, b2}
  CommitTypes = {"careful", "soft"}
  MaxTrans = 1
  MaxLogCount = 0
  Spurious = FALSE
  MaxTxns = 2
  MaxFlushes = 1
INVARIANTS AssertionsHold NoLostWakeup ShutdownHardens
PROPERTIES NoCommitDropped NoStrayReset
