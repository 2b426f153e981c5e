SPECIFICATION ToolsSpec
CONSTANTS
  p1 = p1  p2 = p2  c1 = c1  r1 = r1  o1 = o1  exec1 = exec1  exec2 = exec2  pipe = pipe
  ses = ses  k1 = k1  None = None  NoOwner = NoOwner  NoSession = NoSession
PROPERTIES StopsWhenTold WaitsEnd
CHECK_DEADLOCK FALSE
