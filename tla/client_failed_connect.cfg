CONSTANTS
  Callers = {TRUE}
  MaxAttempts = 1
SPECIFICATION Spec
INVARIANT OnlyConnectedIsReported
CHECK_DEADLOCK FALSE
