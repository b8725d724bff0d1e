CONSTANTS
  Pages = {p1, p2}
  IndexPages = {p1}
  MaxBlocks = 1
  Deferred = FALSE
  MaxLogs = 2
  MaxCrashes = 2
  MaxShutdowns = 1
  Torn = Torn
SPECIFICATION Spec
INVARIANT RecoveryComplete
