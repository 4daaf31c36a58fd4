SPECIFICATION FairSpec
CONSTANTS
  Callers = {"c1", "c2"}
  MaxWaiting = 2
  MaxOverflow = 3
  Segments = 2
  Window = 4
  HighMark = 2
  LowMark = 2
  Reserve = 1
  Events = {"alloc_fail", "redirect"}
INVARIANTS TypeOK OneTransmitter NoneForgotten StopsAgree
PROPERTY Served
