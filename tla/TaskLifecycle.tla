--------------------------- MODULE TaskLifecycle ---------------------------
(***************************************************************************)
(* What delegating promises of a task, whatever breaks on the way: what is *)
(* stored of it goes from nothing over "in progress" to an outcome and     *)
(* never back; a task that nobody worked on can only have failed; and what *)
(* everybody is told, once, is the outcome that is stored.                 *)
(***************************************************************************)
CONSTANT Tasks

VARIABLES stored, told

Outcomes == {"completed", "failed"}

Init ==
    /\ stored = [t \in Tasks |-> "none"]
    /\ told = [t \in Tasks |-> "none"]

Start(t) ==
    /\ stored[t] = "none"
    /\ stored' = [stored EXCEPT ![t] = "in_progress"]
    /\ told' = told

End(t, outcome) ==
    /\ stored[t] = "in_progress" \/ (stored[t] = "none" /\ outcome = "failed")
    /\ stored' = [stored EXCEPT ![t] = outcome]
    /\ told' = told

Tell(t) ==
    /\ stored[t] \in Outcomes
    /\ told[t] = "none"
    /\ told' = [told EXCEPT ![t] = stored[t]]
    /\ stored' = stored

Next == \E t \in Tasks : Start(t) \/ Tell(t) \/ \E outcome \in Outcomes : End(t, outcome)

Spec == Init /\ [][Next]_<<stored, told>>
=============================================================================
