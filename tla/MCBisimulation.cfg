\* Small states, chains of three worlds and the states of Environment_Loader.
CONSTANTS
  Pepper = Pepper
  L = L
  Agents = {Pepper, L}
  Props <- MCProps
  Spelling <- MCSpelling
  Pairs <- MCPairs
  Library <- MCLibrary
SPECIFICATION BisimSpec
CHECK_DEADLOCK FALSE
INVARIANTS BlocksAreBisimilarity AnswersSound ShiftIsLocal
PROPERTY ComparisonEnds
