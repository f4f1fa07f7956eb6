CONSTANTS
  Turns = {t1}
  Procs = {p1, p2}
  Nobody = Nobody
  Cap = 1
  Chunk = 1
  MaxNesting = 1
  MaxOutput = 1
SPECIFICATION Spec
SYMMETRY Symmetric
INVARIANTS
  
  DescriptorsAccountedFor
