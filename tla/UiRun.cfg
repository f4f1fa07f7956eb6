SPECIFICATION Spec
CONSTANTS
  a = a
  b = b
  r1 = r1
  sp = sp
  Raw = Raw
  None = None
  Procs = {p, q}
  Names = {n}
  FlagsTried = {"rows"}
  ByName <- Two
  Limit = 2
  Wide = 4
  Scan = 3
  MaxEvents = 4
  Caches <- Start
  Widths = {66, 130}
  PanelWidths <- PanelSizes
  RuleValues = {80}
  RowWidths = {5, 90}
  Rooms = {r1, r2}
  Spaces <- MCSpaces
  SpaceOf <- MCSpaceOf
  Timelines <- MCTimelines
  Corners <- MCCorners
  Heights = {1, 4}
  Counts = {0, 5}
  Lead = 2
  MaxScroll = 6
  First = 5
  Width = 3
  MaxRead = 8
  MaxRuns = 2
  MaxIterations = 2
  MaxKeys = 1
  MaxCommands = 2
  RoomIds <- ChatRooms
  Old = 1
  Starts <- ChatStarts
  Cap = 3
  Trim = 1
  RoomLines = 1
  MessageLines = 1
  Page = 1
  MaxInputs = 3
SYMMETRY Symmetry
INVARIANTS TypeOK ShownTogether FrameFits TextKept
PROPERTIES RestoredAtStart JumpShowsEvent StopsWhenTold
\* Commands are bounded, and then nothing is left to do.
CHECK_DEADLOCK FALSE
