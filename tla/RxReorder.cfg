SPECIFICATION FairSpec
CONSTANTS
  BufSize = 2
  SnMod = 6
  Timeout = 1
  MaxSub = 1
  Events = {"bar", "filter", "timeout"}
INVARIANTS TypeOK BufferTended
PROPERTIES InOrder MarksAreCurrent HeadMoves
