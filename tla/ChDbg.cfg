SPECIFICATION Spec
CONSTANTS
  Writers = {w1, w2}
  MAX_LINES = 3
  MAX_LINE_LEN = 3
  MaxCalls = 4
INVARIANTS TypeOK ReadKeepsEveryLine
PROPERTY KeepsNewest
CHECK_DEADLOCK FALSE
