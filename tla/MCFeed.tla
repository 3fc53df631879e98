------------------------------- MODULE MCFeed -------------------------------
(* Feed with a client of the dashboard and a subscriber to one topic, on   *)
(* queues of two, and an energy counter of two values.                   *)
EXTENDS Feed, TLC

CONSTANTS s1, s2, tasks, metrics

MCSubs == {s1, s2}
MCTopics == {tasks, metrics}
MCTopicOf == s1 :> tasks @@ s2 :> Wildcard
=============================================================================
