CONSTANTS
  m1 = m1
  m2 = m2
  Pools = {TRUE, FALSE}
  Message = {m1, m2}
  MessageSize = 2
  MaxRoom = 2
  MaxInput = 1
SPECIFICATION Spec
INVARIANTS StreamInOrder WatchedWhileWaiting CompletionFollows ClosedForGood RegisteredIsAlive OneLoopForgets
PROPERTIES AcceptedIsWritten PeerGoneIsNoticed
CHECK_DEADLOCK FALSE
