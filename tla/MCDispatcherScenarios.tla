------------------------ MODULE MCDispatcherScenarios ------------------------
(***************************************************************************)
(* Two scenarios of DispatcherService in one run, chosen at the start: a    *)
(* dispute of two connections over a session, and every database command.   *)
(* SQLite may fail in both.                                                 *)
(***************************************************************************)
EXTENDS MCDispatcherService

CONSTANTS MaxSessions, MaxCommands   \* bounds on the messages of each scenario

VARIABLE scenario

\* What the clients send in a scenario, and how much of it.
ScenarioRequests == IF scenario = "sessions" THEN SessionRequests ELSE FaultRequests
ScenarioBound == IF scenario = "sessions" THEN MaxSessions ELSE MaxCommands

ScenarioInit == Init /\ scenario \in {"sessions", "commands"}

ScenarioNext ==
  /\ UNCHANGED scenario
  /\ \/ sent < ScenarioBound /\ \E q \in ScenarioRequests : ClientSend(q)
     \/ UNCHANGED sent /\ Next

ScenarioSpec == ScenarioInit /\ [][ScenarioNext]_<<vars, scenario>>

AllRequests == SessionRequests \cup FaultRequests
=============================================================================
