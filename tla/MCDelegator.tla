---------------------------- MODULE MCDelegator ----------------------------
(* Delegator with two tasks, each in a process of its own, and a registry  *)
(* without the auditor's agent.                                            *)
EXTENDS Delegator

CONSTANTS t1, t2

MCTasks == {t1, t2}
OneTask == {t1}

\* Some of either category stay local and some are escalated.
Hits(category) == [c \in ToSet(Priority) |-> IF c = category THEN 1 ELSE 0]
MCTexts ==
    [hits : {Hits("coding"), Hits("audit")}, forties : {0, 5}, markers : {1, 3}]

WithoutAuditor == {"coder", "sec_defensive", "sec_offensive"}
PlanFaults == {"claude", "local"}
=============================================================================
