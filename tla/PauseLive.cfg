\* Sleeps that outlast wakeups, and polling that does not give up.
SPECIFICATION FairSpec
CONSTANTS
  N = 3
  Links <- RowLinks
  SleepsEnough = TRUE
  SpuriousWakeups = FALSE
  GivesUp = FALSE
INVARIANTS
  NeverFails
  NoLostWakeup
PROPERTY ControlReturns
