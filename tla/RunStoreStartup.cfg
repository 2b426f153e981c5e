SPECIFICATION Spec
CONSTANTS
  a = a
  h = h
  t = t
  yes = yes
  d1 = d1
  e1 = e1
  None = None
  Nodes <- MCNodes
  Human <- MCHuman
  Team <- MCTeam
  Branches <- MCBranches
  Decisions <- MCDecisions
  Effects <- MCEffects
  MaxSeq = 7
INVARIANTS
  StartupSettles
CHECK_DEADLOCK FALSE
