CHECK_DEADLOCK FALSE
SPECIFICATION FairSpec
CONSTANTS
  a = a  b = b  c = c
  Nodes = {a, b}
  Near <- MCPair
  Ids = {1, 2, 3, 4, 5, 6, 7, 8, 9, 10}
  Meshes = {1, 2}
  Settings <- MCFull
PROPERTIES HalfOpenEnds
