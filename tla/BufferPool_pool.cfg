SPECIFICATION Spec
CONSTANTS
  Threads = {1, 2, 3}
  NBuffers = 3
  Blocks = {1, 2, 3, 4}
  Warm <- Warm3
  Wants <- Locks
  Writers = {1, 2}
  Biasers = {2}
  Failing = {2}
  Droppers = {3}
  Dropped = {2}
  Lingering = TRUE
  MaxReads <- Reads
  MaxBias = 1
INVARIANTS ReadsItsBlock PoolSound RegisteredKept LockExclusion NoLostWakeup
CHECK_DEADLOCK FALSE
