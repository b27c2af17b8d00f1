SPECIFICATION FairSpec
CONSTANTS
  adm = adm
  usr = usr
  r1 = r1
  r2 = r2
  Users = {adm, usr}
  Routers = {r1, r2}
  Workers = {w1, w2}
  NoRouter = NoRouter
  Requests <- CacheRequests
  MaxReq = 3
  Seed = {adm}
  DbFaults = FALSE
INVARIANTS
  TypeOK
  AcknowledgedUserIdentified
PROPERTIES
  TaskAnswered
  CacheConverges
  SilentSessionEnds
