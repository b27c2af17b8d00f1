SPECIFICATION Spec
CONSTANTS
  adm = adm
  usr = usr
  r1 = r1
  r2 = r2
  Users = {adm, usr}
  Routers = {r1, r2}
  Workers = {w1, w2}
  NoRouter = NoRouter
  Requests <- PartialRequests
  MaxReq = 2
  Seed = {adm}
  DbFaults = FALSE
SYMMETRY Symmetry
INVARIANT
  ModificationFlagged
