\* Two publishing threads and no overflow.
CONSTANTS
  N = 4
  Producers = {p1, p2}
  Null = Null
  MaxMsgs = 3
SPECIFICATION Spec
CHECK_DEADLOCK FALSE
INVARIANT NoNullMessage
