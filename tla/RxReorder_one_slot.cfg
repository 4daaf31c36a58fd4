SPECIFICATION Spec
CONSTANTS
  BufSize = 1
  SnMod = 4
  Timeout = 1
  MaxSub = 1
  Events = {}
INVARIANTS NewFrameInRange
