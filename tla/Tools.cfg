SPECIFICATION ToolsSpec
CONSTANTS
  s1 = s1  s2 = s2  ca = ca  exec = exec  exec2 = exec2  pipe = pipe  ses = ses
  k1 = k1  k2 = k2  c1 = c1  c2 = c2  r1 = r1  r2 = r2  o1 = o1  o2 = o2
  None = None  NoSession = NoSession
  ArtProcs = {s1, s2}  Writers = {1, 2}  Limits = {1, 2}
  OwnerOf <- MCOwnerOf  ContentOf <- MCContentOf  SizeOf <- MCSizeOf
  ExecCalls = {exec, exec2, pipe}  Sessions = {ses}  Closers = {k1, k2}  Stubborn = {exec2}
  StagesOf <- MCStagesOf  SessionOf <- MCSessionOf  Together <- MCTogether
  Requests = {r1, r2}  Calls = {c1, c2}  MaxActive = 1  MaxRetained = 2  MaxEvents = 2  MaxWork = 4
  Ops = {o1, o2}  MaxLost = 1
INVARIANTS ArtifactsKept CallersKept BridgeInv
PROPERTIES RetentionKept ToolSteps
SYMMETRY Interchangeable
CHECK_DEADLOCK FALSE
