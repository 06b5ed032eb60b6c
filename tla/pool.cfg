CONSTANTS
  t1 = t1
  t2 = t2
  t3 = t3
  none = none
  numThreads = 3
  Unstartable = {2}
  Task = {t1, t2, t3}
  NoTask = none
SPECIFICATION Spec
INVARIANTS TypeOK NobodySleepsOnWork OneWorkerPerTask
PROPERTIES StartsAll EveryTaskReturns
CHECK_DEADLOCK FALSE
