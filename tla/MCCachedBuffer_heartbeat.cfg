SPECIFICATION Spec
CONSTANTS
  app = app
  loop = loop
  Cap = 3
  Producers = {app, loop}
  Loop = loop
  Messages = {m1, m2}
  NoMessage = NoMessage
  MaxPosts = 3
  MaxWrites = 4
  MaxLosses = 0
CHECK_DEADLOCK FALSE
PROPERTY
  RingIsFifo
