CONSTANTS
  main = main
  w1 = w1
  a1 = a1
  a2 = a2
  none = none
  LoopThread = main
  Others = {w1}
  Addr = {a1, a2}
  Free = none
  Stamps = {0, 2}
  Intervals = {1}
  Jumps <- BackOne
  Callers = {TRUE, FALSE}
  MaxTimers = 2
  MaxTime = 2
  MaxJumps = 1
SPECIFICATION Spec
INVARIANTS TypeOK OneOwner KeyIsStamp ArmedForEarliest CarefulCancelIsFinal
PROPERTIES TimersExpire CarefulCancelHits
CHECK_DEADLOCK FALSE
