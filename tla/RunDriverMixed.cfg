SPECIFICATION Spec
CONSTANTS
  Nodes = {"c", "a", "h", "j"}
  Human = {"h"}
  Team = {}
  Branches = {"yes", "no"}
  Decisions = {"d"}
  Effects = {}
  None = None
  Agents = {"a"}
  Condition = {"c"}
  Join = {"j"}
  Data = {}
  Control <- MixedControl
  Capacity = 2
  MaxExits = 1
  MaxFaults = 1
  FaultyRequests = {"cancel"}
INVARIANTS SucceededOnSelectedPaths WaitsAlone NeverStranded
CHECK_DEADLOCK FALSE
