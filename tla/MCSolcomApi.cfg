SPECIFICATION FairSpec
CONSTANTS
  beat = beat
  test = test
  HeadLen = 2
  MaxBody = 2
  Messages <- TwoMessages
  BodyLen <- Lengths
  Garbage = Garbage
  Crash = Crash
  Posts = {p1}
  Heartbeat = beat
  CacheSize = 2
  MaxWriteIdle = 0
  MaxSent = 2
  MaxLosses = 2
CHECK_DEADLOCK FALSE
INVARIANTS Framed NeverStranded HandleDiscipline
PROPERTIES StopReturns PostedWritten MessageReported
