SPECIFICATION Spec
CONSTANTS
  app = app
  loop = loop
  Cap = 3
  Producers = {app}
  Loop = loop
  Messages = {m1, m2}
  NoMessage = NoMessage
  MaxPosts = 3
  MaxWrites = 3
  MaxLosses = 1
CHECK_DEADLOCK FALSE
INVARIANT
  BusyWhileWriting
