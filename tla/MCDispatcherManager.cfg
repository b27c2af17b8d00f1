SPECIFICATION FairSpec
CONSTANTS
  a1 = a1
  a2 = a2
  u1 = u1
  NoAddr = NoAddr
  NoId = NoId
  Torn = Torn
  NoElement = NoElement
  Addrs <- TwoAddrs
  Users <- OneUser
  Requests <- SomeRequests
  Elements <- OneElement
  MaxRows = 2
  MaxPushes = 1
  MaxCalls = 4
  MaxLinks = 1
CHECK_DEADLOCK FALSE
INVARIANT TypeOK SafeReopen EndpointPolled KeepAliveIdentified
PROPERTY MessageDispatched RequestForwarded CloseReturns StatusCatchesUp
