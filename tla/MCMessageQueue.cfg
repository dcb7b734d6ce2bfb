\* Two publishing threads and one subscriber: safety, refinement, delivery.
CONSTANTS
  N = 3
  Producers = {p1, p2}
  Null = Null
  MaxMsgs = 6
SPECIFICATION FairSpec
CHECK_DEADLOCK FALSE
INVARIANTS InOrder NoNullWithinLimits
PROPERTIES ImplementsFifo Delivered
