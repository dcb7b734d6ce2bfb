\* Two persons, one name, one marker, one camera that may be calibrated again.
CONSTANTS
  Ids = {1, 2}
  Names = {anna}
  NoName = NoName
  Markers = {1}
  Sources = {0}
  Active = {0}
  SIGHTINGS_TO_LOCK = 2
  TIMEOUT_LOCK = 2
  TIMEOUT_LOSE = 1
  SAMPLES = 1
  MaxObjects = 2
  MaxMessages = 2
  MaxRecalibrations = 1
SPECIFICATION WorldFairSpec
INVARIANTS WorldSound CalibratedOnSamples
PROPERTIES EventsAlternate HypothesesResolve
