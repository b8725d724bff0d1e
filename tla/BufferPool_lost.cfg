SPECIFICATION Spec
CONSTANTS
  Threads = {1, 2}
  NBuffers = 2
  Blocks = {1, 2, 3, 4}
  Warm <- Warm2
  Wants <- NoLocks
  Writers = {}
  Biasers = {}
  Failing = {}
  Droppers = {}
  Dropped = {}
  Lingering = FALSE
  MaxReads <- ReadsLost
  MaxBias = 0
INVARIANT NoBufferLost
CHECK_DEADLOCK FALSE
