\* A cube, a thing used with it, two boxes and a person who comes and goes.
CONSTANTS
  red = red
  Cubes = {red}
  knife = knife
  Things = {knife}
  Matching <- MCMatching
  Boxes = {b1, b2}
  People = {anna}
  None = None
  MaxEvents = 2
  MaxSessions = 2
SPECIFICATION ObservingSpec
SYMMETRY MCSymmetry
CHECK_DEADLOCK FALSE
INVARIANTS RobotKnowsPlace PresentAgentsKnow FailsOnlyWhen
PROPERTY InformingHelps
