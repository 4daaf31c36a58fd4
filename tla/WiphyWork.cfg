SPECIFICATION FairSpec
CONSTANTS
  Works = {w1, w2, d1}
  Delayed = {d1}
  NoWork = NoWork
  MaxPosters = 2
INVARIANTS TypeOK NoLostWakeup CancelHolds FlushRuns
PROPERTY WorkRuns
