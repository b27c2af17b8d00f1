SPECIFICATION ScenarioSpec
CONSTANTS
  adm = adm
  usr = usr
  r1 = r1
  r2 = r2
  Users = {adm, usr}
  Routers = {r1, r2}
  Workers = {w1, w2}
  NoRouter = NoRouter
  Requests <- AllRequests
  MaxReq = 4
  MaxSessions = 4
  MaxCommands = 3
  Seed = {adm}
  DbFaults = TRUE
SYMMETRY Symmetry
INVARIANTS
  ResponseToRequester
  AnsweredOnce
  CacheStaleOnlyIfNoted
PROPERTY
  SessionOwned
