SPECIFICATION Spec
CONSTANTS
  BufSize = 3
  SnMod = 9
  Timeout = 0
  MaxSub = 1
  Events = {"amsdu", "bar", "auto_seq"}
INVARIANT TimerArmed
