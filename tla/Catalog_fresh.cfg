SPECIFICATION Spec
CONSTANTS
  Threads = {1, 2}
  Wants <- Mixed
  NoWait = {"ShareUpdateExclusive"}
  Cancels = {2}
  Asserts = FALSE
  MaxTwice = 1
  MaxHolds = 1
  MaxRefs = 4
  Backends <- MCBackends
  Messages = {"rel", "sys"}
  MAXNUMMESSAGES = 3
  MSGNUMWRAPAROUND = 3
  MaxVersion = 3
  MaxXacts <- Counts
INVARIANTS CatalogFresh UnreadKept
CHECK_DEADLOCK FALSE
