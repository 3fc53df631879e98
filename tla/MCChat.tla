------------------------------- MODULE MCChat -------------------------------
(* Chat for a crew of two: a turn can go to one agent or to both in order,  *)
(* and a second turn or socket can meet what is left of the first.          *)
EXTENDS Chat

MCRoles == <<"auditor", "coder">>

MCAskable == {"coder"}
EveryFault == AllFaults
Disconnects == {"drop"}
=============================================================================
