\* All domains of two open states, one goal, two actions, up to two outcomes.
\* The root index is right or wrong.
CONSTANTS
  s1 = s1
  s2 = s2
  goal = goal
  States = {s1, s2, goal}
  Initial = s1
  Goals = {goal}
  Actions <- MCActions
  Outcomes <- MCOutcomes
  Roots = {1, 2, 3}
  MaxNodes = 24
SPECIFICATION SearchSpec
CHECK_DEADLOCK FALSE
INVARIANTS SearchSound PolicyClosed
