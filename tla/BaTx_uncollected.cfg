SPECIFICATION FairSpec
CONSTANTS
  MaxStarts = 1
  TokenMod = 256
  SeqMod = 2
  HT_AGG_MAX_RETRIES = 1
  Events = {"block"}
CHECK_DEADLOCK FALSE
PROPERTY StartCollected
