SPECIFICATION Spec
CONSTANTS
  Callers = {"c1"}
  MaxWaiting = 2
  MaxOverflow = 3
  Segments = 2
  Window = 4
  HighMark = 2
  LowMark = 2
  Reserve = 1
  Events = {"redirect"}
INVARIANT NoneHanging
