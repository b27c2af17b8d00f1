SPECIFICATION Spec
CONSTANTS
  RowKeys = {1, 2}
  Vectors <- MCVectors
  MaxOps = 2
  MaxClients = 3
  HbtLimit = 1
  Talking = {1}
  Threads = {"a", "b"}
  Fds = {1, 2}
  MaxAddrs = 2
  MaxCalls = 2
  TcpClients = {1, 2}
  Rounds = 2
  MaxRuns = 2
  Turns = 3
  Instruments = {1, 2}
  Files <- MCFiles
  Capacity = 3
  Requesters = {1, 2}
  Workers = {1, 2}
  Requests = 2
  Senders = {1, 2}
  MaxSends = 2
  Arrays <- MCArrays
  Elements = {1, 2, 3, 4}
  Codes <- MCCodes
  MaxSteps = 3
INVARIANTS
  ResourcesOwned
  DataIntact
  ExercisesRight
PROPERTY
  ProgramsEnd
CHECK_DEADLOCK FALSE
