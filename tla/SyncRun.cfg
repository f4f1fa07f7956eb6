SPECIFICATION FairSpec
CONSTANTS
  Sessions = {1}
  Limit = 2
  MaxStream = 3
  MaxRuns = 2
  Msgs = {m1, m2}
  MaxName = 1
  MaxClock = 1
  PendingLimit = 1
  MaxRestart = 1
  MaxChunks = 2
  MaxRead = 2
  MaxAttempts = 3
INVARIANTS TypeOK NothingSkipped  KeyInTimeDecrypts
PROPERTIES CacheKept EventuallyHandled
\* The last run may end, and then nothing runs; the cache's rooms and restarts are bounded.
CHECK_DEADLOCK FALSE
