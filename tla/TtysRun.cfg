CONSTANTS
  Requests = {r1, r2}
  Sessions = {s1}
  None = None
  Dtor = Dtor
  MaxEvents = 1
SPECIFICATION FairSpec
INVARIANTS
  TypeOK
  OnePassAtATime
  SyncingHasAnOwner
  SyncedMeansAPassEnded
  
PROPERTIES
  EveryWaitEnds
\* The server may be stopped, and then nothing runs.
CHECK_DEADLOCK FALSE
