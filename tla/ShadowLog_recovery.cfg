CONSTANTS
  Pages = {p1, p2}
  IndexPages = {p1}
  MaxBlocks = 1
  Deferred = TRUE
  MaxLogs = 3
  MaxCrashes = 2
  MaxShutdowns = 1
  Torn = Torn
SPECIFICATION Spec
INVARIANTS RecoveryRestores RiskyIndexListed WriteAhead
