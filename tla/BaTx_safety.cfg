SPECIFICATION Spec
CONSTANTS
  MaxStarts = 2
  TokenMod = 256
  SeqMod = 3
  HT_AGG_MAX_RETRIES = 1
  Events = {"fragment", "stop", "timeout", "delba", "block", "destroy"}
CHECK_DEADLOCK FALSE
INVARIANTS TypeOK SsnAnnounced OwnResponse QuietAfterEnd
PROPERTIES NoHalfOpen DriverContract
