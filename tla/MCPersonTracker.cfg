\* The tracker by itself: three persons, two names, one of them stored.
CONSTANTS
  Names = {anna, bo}
  NoName = NoName
  NoFace = NoFace
  Stored = {anna}
  LOSE_COUNTER = 2
  LOCK_COUNTER = 3
  SIGHTINGS_TO_LOCK = 2
  MaxId = 3
  MaxKnown = 2
SPECIFICATION TrackerSpec
INVARIANTS IdentitiesSound LearnedFromOnePerson
