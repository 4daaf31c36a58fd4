SPECIFICATION Spec
CONSTANTS
  MaxStarts = 1
  TokenMod = 256
  SeqMod = 2
  HT_AGG_MAX_RETRIES = 1
  Events = {"fragment", "delba"}
CHECK_DEADLOCK FALSE
INVARIANT NoStalledTxq
