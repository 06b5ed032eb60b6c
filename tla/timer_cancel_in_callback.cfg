CONSTANTS
  main = main
  w1 = w1
  a1 = a1
  a2 = a2
  none = none
  LoopThread = main
  Others = {}
  Addr = {a1, a2}
  Free = none
  Stamps = {2}
  Intervals = {1}
  Jumps <- BackOne
  Callers = {FALSE}
  MaxTimers = 1
  MaxTime = 4
  MaxJumps = 0
SPECIFICATION SafeSpec
INVARIANTS CancelledNotRestarted
CHECK_DEADLOCK FALSE
