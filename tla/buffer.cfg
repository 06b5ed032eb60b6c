CONSTANTS
  kCheapPrepend = 2
  initialSize = 2
  ExtraBuf = 2
  Byte = {0, 1}
  Zero = 0
  MaxLen = 3
  MaxSize = 7
SPECIFICATION Spec
INVARIANTS TypeOK
PROPERTIES ImplementsByteQueue GrowsOnlyWhenFull
CHECK_DEADLOCK FALSE
