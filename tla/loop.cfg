CONSTANTS
  main = main
  w1 = w1
  w2 = w2
  t1 = t1
  t2 = t2
  t3 = t3
  c1 = c1
  efd = efd
  LoopThread = main
  Others = {w1, w2}
  Task = {t1, t2, t3}
  SetupTasks = {}
  Channels = {c1}
  EfdChannel = efd
  MaxEvents = 2
  EventfdMax = 2
SPECIFICATION Spec
INVARIANTS NoLostWakeup QuitWakes InOrder
PROPERTIES ImplementsTaskQueue QuitStopsLoop RoundIsCompleted
CHECK_DEADLOCK FALSE
