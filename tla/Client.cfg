SPECIFICATION ClientSpec
CONSTANTS
  L1 = L1  L2 = L2  e = e  a = a  i1 = i1  i2 = i2  s1 = s1  s2 = s2  r1 = r1  r2 = r2  r3 = r3
  None = None  Nil = Nil  Off = Off  NoView = NoView
  Libs = {L1, L2}  DefaultLib = L1  FirstLib = L2  X = x
  Values = {e, a}  Empty = e  Inputs = {i1, i2}
  MaxEdits = 2  MaxOps = 2  MaxGestures = 3  MaxFaults = 1
  Documents <- MCDocuments
  HistoryCap = 2  Sides = {"inputs"}  Slots = {s1}
  MaxCommands = 3  MaxTurns = 2  MaxActs = 4  MaxNodes = 3  MaxOpened = 1
  Sessions = {s1, s2}  SRuns = {r1, r2, r3}  SessionOf <- MCSessionOf
  MaxCalls = 3  MaxMoves = 1
  Watched = {r1, r2}  Gates = 2
  MaxReads = 2  MaxClicks = 2  MaxLoads = 2  MaxSteps = 2
INVARIANTS WorkspaceKept CanvasKept ViewsKept
PROPERTIES PictureSteps HistoryIsLinear
SYMMETRY Interchangeable
CHECK_DEADLOCK FALSE
