SPECIFICATION FairSpec
CONSTANTS
  Nodes = {"a1", "a2", "j"}
  Human = {}
  Team = {}
  Branches = {"yes"}
  Decisions = {}
  Effects = {}
  None = None
  Agents = {"a1", "a2"}
  Condition = {}
  Join = {"j"}
  Data <- ParallelData
  Control = {}
  Capacity = 2
  MaxExits = 1
  MaxFaults = 0
  FaultyRequests = {"cancel"}
PROPERTY CancelSettles
CHECK_DEADLOCK FALSE
