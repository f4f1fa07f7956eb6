CONSTANTS
  Requests = {r1}
  Sessions = {s1}
  None = None
  Dtor = Dtor
  MaxEvents = 1
SPECIFICATION Spec
INVARIANTS
  SyncedEventsAreCached
\* The server may be stopped, and then nothing runs.
CHECK_DEADLOCK FALSE
