SPECIFICATION FairSpec
CONSTANTS
  Objects = {o1, o2}
  Keys = {k1}
  Tasks = {t1, t2}
  PoolSize = 2
  MaxStarts = 2
  NoObject = NoObject
CHECK_DEADLOCK FALSE
INVARIANTS SendBufferOwned ClientsOwned
PROPERTIES  AnswerWritten ClientReaped StopReturns
