SPECIFICATION FairSpec
CONSTANTS
  MaxStarts = 2
  TokenMod = 256
  SeqMod = 2
  HT_AGG_MAX_RETRIES = 0
  Events = {"stop", "timeout", "delba", "destroy"}
CHECK_DEADLOCK FALSE
PROPERTIES StartCollected TxqReleased SessionResolved
