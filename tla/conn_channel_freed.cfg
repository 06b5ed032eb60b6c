CONSTANTS
  m1 = m1
  m2 = m2
  Pools = {FALSE}
  Message = {m1}
  MessageSize = 2
  MaxRoom = 2
  MaxInput = 1
SPECIFICATION SafeSpec
INVARIANTS ChannelOutlivesEvent
CHECK_DEADLOCK FALSE
