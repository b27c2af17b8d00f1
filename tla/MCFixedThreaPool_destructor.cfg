SPECIFICATION FairSpec
CONSTANTS
  Size = 1
  HardwareThreads = 4
  Tasks = {t1}
  Submitters = {s1}
  NoTask = NoTask
PROPERTY
  DestructorReturns
CHECK_DEADLOCK FALSE
