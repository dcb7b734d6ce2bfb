\* One person, who may be named; the ticks at which the states act are small.
CONSTANTS
  Ids = {1}
  Names = {anna}
  NoName = NoName
  REQUEST_AT = 1
  RESUME_AT = 2
  MOVE_AT = 3
  SHAKE_AT = 1
  NAME_AFTER = 1
  SWITCH_AFTER = 0
  POINT_AT = 1
  REST_AT = 2
  BACK_AT = 3
  MaxInbox = 2
SPECIFICATION ExecutorFairSpec
INVARIANTS RaisedArmIsLowered NameOfThisGreeting MovesFromKnownPosition
PROPERTY CalibrationCompletes
