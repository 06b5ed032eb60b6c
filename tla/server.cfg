CONSTANTS
  Sizes = {0, 2}
  MayFail = TRUE
  MaxConns = 2
SPECIFICATION Spec
INVARIANTS TypeOK LoopsServe OpenIsKept ToldInOrder
PROPERTIES StartReturns AcceptedIsEstablished StopReleasesAll
CHECK_DEADLOCK FALSE
