SPECIFICATION Spec
CONSTANTS
  BufSize = 2
  SnMod = 6
  Timeout = 0
  MaxSub = 1
  Events = {"bar", "timeout"}
INVARIANT SessionTimerGone
