CONSTANTS
  Turns = {t1}
  Procs = {p1}
  Nobody = Nobody
  Cap = 3
  Chunk = 2
  MaxNesting = 1
  MaxOutput = 8
SPECIFICATION FairSpec
INVARIANTS
  TypeOK
  DeliveredOnce
  ExitAfterLastByte
PROPERTIES
  CleanedUpIsReaped
