SPECIFICATION HostSpec
CONSTANTS
  n1 = n1  lead = lead  mate = mate  x = x  w1 = w1  w2 = w2  w3 = w3  m1 = m1  m2 = m2
  None = None  Nobody = Nobody
  Nodes = {n1}
  Human = {}
  Team = {n1}
  Branches = {}
  Decisions = {}
  Effects <- MCEffects
  Members = {lead, mate}
  Declared <- MCDeclared
  Values = {x}
  Tools = {"complete", "message"}
  MaxRev = 2
  Rooms <- MCRooms
  Writers = {w1, w2, w3}
  RunOf <- Fence_Run
  HostOf <- Fence_Host
  KindOf <- Fence_Kind
  MaxTools = 1
  MaxOutside = 1
  MaxCrashes = 1
  Letters = {m1}
  MaxAsks = 2
  MaxTurns = 2
  Depth = 2
  MaxCrash = 1
INVARIANTS NodeWorkKept FenceInv ChildInv
PROPERTIES NodeSteps
CHECK_DEADLOCK FALSE
