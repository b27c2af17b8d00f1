------------------------- MODULE MCDispatcherService -------------------------
(***************************************************************************)
(* Model checking of DispatcherService.  Each set of requests is a small    *)
(* scenario; the clients may send its members in any order, also more than  *)
(* once, up to MaxReq messages in all.                                      *)
(***************************************************************************)
EXTENDS DispatcherService, TLC

CONSTANTS adm, usr, r1, r2

Req(u, r, c, e, ns) == [user |-> u, router |-> r, cmd |-> c, ele |-> e, names |-> ns]

\* The administrator adds and removes a user, who logs in; logs in on two
\* connections, answers pushes, logs out, and asks for what the service skips.
CacheRequests ==
  {Req(adm, r1, "Login", "Unknown", <<>>),
   Req(adm, r1, "Insert", "ManageUser", <<usr>>),
   Req(adm, r1, "Delete", "ManageUser", <<usr>>),
   Req(usr, r2, "Login", "Unknown", <<>>),
   Req(adm, r2, "Login", "Unknown", <<>>),
   Req(adm, r1, "KeepAlive", "Unknown", <<>>),
   Req(adm, r1, "Logout", "Unknown", <<>>),
   Req(adm, r1, "Deploy", "Unknown", <<>>)}

\* One user, two connections, a slow request between logins and logouts.
SessionRequests ==
  {Req(adm, r1, "Login", "Unknown", <<>>),
   Req(adm, r2, "Login", "Unknown", <<>>),
   Req(adm, r1, "Logout", "Unknown", <<>>),
   Req(adm, r2, "KeepAlive", "Unknown", <<>>),
   Req(adm, r1, "Query", "Config", <<>>)}

\* Every database command, with insertions that fail half way and SQLite errors.
FaultRequests ==
  {Req(adm, r1, "Login", "Unknown", <<>>),
   Req(adm, r1, "Insert", "ManageUser", <<usr, adm>>),
   Req(adm, r1, "Delete", "ManageUser", <<usr>>),
   Req(adm, r1, "DelByCol", "ManageUser", <<>>),
   Req(adm, r1, "Update", "ManageUser", <<usr>>),
   Req(adm, r1, "Query", "ManageUser", <<>>),
   Req(adm, r1, "Insert", "Config", <<usr>>),
   Req(adm, r1, "Insert", "Unknown", <<>>),
   Req(adm, r1, "Deploy", "Unknown", <<>>)}

\* The administrator inserts a new name together with one that exists.
PartialRequests ==
  {Req(adm, r1, "Login", "Unknown", <<>>),
   Req(adm, r1, "Insert", "ManageUser", <<usr, adm>>)}

Symmetry == Permutations(Workers)
=============================================================================
