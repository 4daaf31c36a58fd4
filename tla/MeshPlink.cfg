CHECK_DEADLOCK FALSE
SPECIFICATION Spec
CONSTANTS
  a = a  b = b  c = c
  Nodes = {a, b, c}
  Near <- MCNear
  Ids = {1, 2, 3, 4, 5, 6, 7, 8, 9, 10}
  Meshes = {1, 2}
  Settings <- MCSafety
INVARIANTS TypeOK EstabCounted TimerKept LinksAgree
PROPERTIES IdsKept
