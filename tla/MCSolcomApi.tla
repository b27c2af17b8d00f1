----------------------------- MODULE MCSolcomApi -----------------------------
(* An instance of SolcomApi for TLC: a heartbeat and a longer command.      *)
EXTENDS SolcomApi

CONSTANTS beat, test

TwoMessages == {beat, test}
Lengths == [m \in TwoMessages |-> IF m = beat THEN 1 ELSE 2]
=============================================================================
