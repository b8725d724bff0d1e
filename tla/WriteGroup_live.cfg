SPECIFICATION FairSpec
CONSTANTS
  Threads = {b1, b2}
  CommitTypes = {"careful", "synced"}
  MaxTrans = 2
  MaxLogCount = 1
  Spurious = FALSE
  MaxTxns = 1
  MaxFlushes = 1
INVARIANTS AnsweredRecorded
PROPERTIES RequestsAnswered ShutdownCompletes
