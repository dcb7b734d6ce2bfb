\* One tracked person and two requests of one kind; the worker and the perception
\* thread step by step.
CONSTANTS
  Names = {bo, torn}
  NoName = NoName
  NoFace = NoFace
  Torn = torn
  Stored = {}
  LOSE_COUNTER = 2
  LOCK_COUNTER = 2
  SIGHTINGS_TO_LOCK = 1
  MaxId = 1
  MaxKnown = 3
  FrameMask = 3
  PerceptMask = 3
  LearnIds = {1}
  MaxRequests = 2
  MaxKinds = 1
SPECIFICATION AsyncFairSpec
CHECK_DEADLOCK FALSE
INVARIANT HandoversWhole
PROPERTIES  ShutdownReturns
