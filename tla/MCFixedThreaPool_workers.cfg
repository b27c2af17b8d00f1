SPECIFICATION FairSpec
CONSTANTS
  Size = 2
  HardwareThreads = 4
  Tasks = {t1, t2, t3}
  Submitters = {s1, s2}
  NoTask = NoTask
INVARIANTS
  TypeOK
  NoIdleWhileQueued
  TaskInOnePlace
PROPERTIES
  QueuedTaskRuns
CHECK_DEADLOCK FALSE
