SPECIFICATION FairSpec
CONSTANTS
  app = app
  loop = loop
  Cap = 3
  Producers = {app}
  Loop = loop
  Messages = {m1, m2}
  NoMessage = NoMessage
  MaxPosts = 6
  MaxWrites = 6
  MaxLosses = 1
CHECK_DEADLOCK FALSE
INVARIANTS
  WriteUndisturbed
PROPERTIES
  RingIsFifo
  AcceptedDelivered
