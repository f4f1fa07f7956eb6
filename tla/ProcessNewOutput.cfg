CONSTANTS
  Turns = {t1}
  Procs = {p1}
  Nobody = Nobody
  Cap = 2
  Chunk = 2
  MaxNesting = 0
  MaxOutput = 4
SPECIFICATION Spec
INVARIANTS
  NewOutputIsDelivered
