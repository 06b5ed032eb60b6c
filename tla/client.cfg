CONSTANTS
  Callers = {TRUE, FALSE}
  MaxAttempts = 3
SPECIFICATION Spec
INVARIANTS TypeOK EpollFindsChannel
PROPERTIES ConnectedIsTold DeadIsDropped
CHECK_DEADLOCK FALSE
