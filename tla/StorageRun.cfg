SPECIFICATION Spec
CONSTANTS
  r1 = r1
  r2 = r2
  Rooms = {r1, r2}
  Own = {a, b}
  Foreign = {f}
  RoomOf <- MCRoomOf
  RotateAfter = 2
  Terminals = {p, q}
  Names = {Chat}
  Unclean = {}
  Chat = Chat
  NoFile = NoFile
  Cut = Cut
  Over = 4
  TailKept = 2
  HeadPinned = 0
  Keep = 2
  MaxTurns = 3
  MaxStarts = 3
  LlmClock = 2
  Tabs = {a, b}
  Main = Main
  Saves = {Last}
  Last = Last
  Outside = Outside
  KeepTail = 2
  Calls = {2}
  MaxRuns = 2
  MaxAnswers = 1
  MaxCommands = 3
  Idle = Idle
  Delay = 1
  Date = 1
  Marks = {1, 2}
  Fallback = 2
  Horizon = 2
  MaxJobs = 2
  MaxChecks = 2
  Goals = {g, h}
  Subgoals = {s}
  NoGoal = NoGoal
  MaxGoalCommands = 5
  Values = {v}
  MaxConfigCommands = 2
  Runs = {a, b}
  Torn = Torn
  Texts = {"x", "xx"}
  Twice = {"xx"}
  Budget = 14
  MaxBatches = 3
  Commands = {k, l, m}
  Files = {plan, w}
  PlanFile = plan
  Dangerous = {m}
  Prefixes <- MCPrefixes
  Globs <- MCGlobs
  RuleTools = {"*", "shell", "edit"}
  MaxChanges = 2
  MaxClients = 3
  MaxFrames = 2
  Txns = {t1, t2}
  Procs = {p1, p2}
  MaxLogins = 2
  MaxBegun = 3
  Sizes = {1, 3}
  Chunks = {0, 2, 3}
  SendPresets = {"original", "compact"}
  MaxSends = 2
  MaxHeld = 3
  Times = {1, 2, 3}
  People = {i, j}
  Limits <- MCLimits
  Filters <- MCFilters
  Given <- MCGiven
  Paths = {src, doc}
  Disks <- MCDisks
  NoText = NoText
  Bodies <- MCBodies
  Parts <- MCParts
  ReadLimit = 3
  Devices = {d1, d2}
  Members = {u1, u2}
  Founder = u1
  Pinnable = {e1, e2}
  MaxOrders = 3
\* What is one of many alike may change places.
SYMMETRY Symmetry
INVARIANTS TypeOK 
PROPERTIES   PolicyDecides
\* What the parts may do is bounded, and then nothing is left to do.
CHECK_DEADLOCK FALSE
