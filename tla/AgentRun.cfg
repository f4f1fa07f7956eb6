CONSTANTS
  read = read
  git = git
  task = task
  ReadOnly = {read}
  Shell = {git}
  Files = {}
  Tasks = {task}
  Verdict <- MCVerdict
  Covers <- MCCovers
  MaxIterations = 3
  MinIterations = 1
  MaxDepth = 1
  DoomLimit = 3
  Keep = 3
  MaxCalls = 2
  MaxAnswers = 2
  MaxOpen = 2
SPECIFICATION FairSpec
INVARIANTS
  TypeOK
  EveryCallAnswered
  IdenticalCallsAreRefused
  RunsWereApproved
PROPERTIES
  NoCommandAfterInterrupt
  InterruptEndsTurn
