------------------------- MODULE MCDispatcherManager -------------------------
(***************************************************************************)
(* Instances of DispatcherManager for TLC.                                  *)
(***************************************************************************)
EXTENDS DispatcherManager

CONSTANTS a1, a2, u1

\* The addresses and the users of the runs.
OneAddr  == {a1}
TwoAddrs == {a1, a2}
OneUser  == {u1}

\* What the application requests.
SomeRequests == {"TLogin", "TLogout", "TQuery", "TDeploy"}

OneElement == {"TManageUser"}
TwoElements == {"TManageUser", "TServerConfig"}
=============================================================================
