CONSTANTS
  NumRooms = 2
  MaxMessages = 2
  MaxRetry = 2
  MaxBatch = 2
SPECIFICATION FairSpec
INVARIANTS
  QueueConsistent
PROPERTIES
  ImplementsOutbox
  WaitsEnd
  QueueDrains
\* The user may leave, and then nothing runs.
CHECK_DEADLOCK FALSE
