\* Both operators may press Ctrl-C, modules may fail to initialise, one may not
\* return from its shutdown, packets of a finished process may be lost.
CONSTANTS
  Leader = leader
  Field = field
  Modules = {perception, attention}
  MayInterrupt = {leader, field}
  MayFail = TRUE
  MayHang = {perception}
  MayLose = TRUE
SPECIFICATION FairSpec
CHECK_DEADLOCK FALSE
INVARIANTS NoTickBeforeAllReady NoWorkerOutlivesSpin StartsConnected
PROPERTIES HaltTerminates StartReachesBoth TeardownReachesPeer
