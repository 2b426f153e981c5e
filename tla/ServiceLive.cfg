SPECIFICATION ServiceSpec
CONSTANTS p1 = p1  n1 = n1  m1 = m1  None = None
PROPERTIES CancelledWorkEnds EndIsHeard
CHECK_DEADLOCK FALSE
