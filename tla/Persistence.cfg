SPECIFICATION PersistenceSpec
CONSTANTS
  p1 = p1  p2 = p2  p3 = p3  k1 = k1  k2 = k2  f1 = f1  f2 = f2
  r1 = r1  r2 = r2  n = n  c1 = c1  c2 = c2  h1 = h1
  None = None  NoOwner = NoOwner  Nothing = Nothing  NoExport = NoExport  NoContent = NoContent
  Keys = {k1, k2}
  Prints = {f1, f2}
  RunIds = {r1, r2}
  Nodes = {n}
  Human = {}
  Team = {}
  Branches = {}
  Decisions = {}
  Effects = {}
  MaxFaults = 1
  MaxExits = 1
  Procs = {p1, p2, p3}
  PidOf <- OwnPids
  MaxCrashes = 1
  LinkSupported = FALSE
  GuardAges = FALSE
  Hosts = {h1}
  Definition <- ThreeDefinitions
  Paths = {"p", "q"}
  Retained = 2
  Slack = 0
  MaxRequests = 3
  DefFaults = 1
  Uploads <- OneUpload
  Callers = {c1, c2}
  MaxExported = 1
  Requests <- MCRequests
  Reviews <- MCReviews
  Feedbacks <- MCFeedbacks
  Scopes <- MCScopes
  DedupeKey <- MCDedupeKey
  Queries <- MCQueries
INVARIANTS
  AdmissionInv LeaseInv DefInv MemInv
PROPERTY StoreSteps
SYMMETRY Alike
CHECK_DEADLOCK FALSE
