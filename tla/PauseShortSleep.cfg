\* A sleep between Unpause and Pause that a thread's wakeup may outlast.
SPECIFICATION FairSpec
CONSTANTS
  N = 2
  Links = {{1, 2}}
  SleepsEnough = FALSE
  SpuriousWakeups = FALSE
  GivesUp = FALSE
PROPERTY RunWakesInner
