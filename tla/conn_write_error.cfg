CONSTANTS
  m1 = m1
  m2 = m2
  Pools = {FALSE}
  Message = {m1, m2}
  MessageSize = 2
  MaxRoom = 2
  MaxInput = 1
SPECIFICATION SafeSpec
INVARIANTS WriteGoesOn
CHECK_DEADLOCK FALSE
