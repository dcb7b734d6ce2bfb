\* A ring of four slots, five sentences; trajectories of two joints and three
\* timepoints, the last of which is one too many for the index of a joint.
CONSTANTS
  Mask = 3
  Actuators = {HeadYaw, RHand}
  IdxRange = 2
  MaxPoints = 3
  MaxValues = 2
  MaxPuts = 5
SPECIFICATION NaoSpec
CHECK_DEADLOCK FALSE
INVARIANT TrajectoryFollowed
PROPERTIES SentencesKeepOrder SentenceSaid
