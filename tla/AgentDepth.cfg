CONSTANTS
  read = read
  git = git
  task = task
  ReadOnly = {read}
  Shell = {git}
  Files = {}
  Tasks = {task}
  Verdict <- MCVerdict
  Covers <- MCCovers
  MaxIterations = 3
  MinIterations = 1
  MaxDepth = 1
  DoomLimit = 3
  Keep = 3
  MaxCalls = 1
  MaxAnswers = 2
  MaxOpen = 3
SPECIFICATION Spec
INVARIANT DepthIsLimited
