----------------------------- MODULE Delegator -----------------------------
(***************************************************************************)
(* orchestration/delegator.py: tasks on their way through delegate(), with *)
(* the Tier-2 supervisor (supervisor_tier2.py) that plans the escalated    *)
(* ones, the agent that handles them and the store (sqlite_store.py) that  *)
(* the dashboard reads.  Each await is a place (pc) where a task can fail  *)
(* or stop; what comes between two awaits is one step.                     *)
(*                                                                         *)
(* Every delegate is a process of its own (crew run), with its connection  *)
(* to the one database.  Of a task, the model keeps its status and whether *)
(* its result holds the Tier-2 plan; the agent's success is an input.      *)
(***************************************************************************)
EXTENDS Tier1

CONSTANTS
    Tasks,
    NoRow,          \* no row in the tasks table
    Texts,          \* the descriptions that occur
    Registered,     \* the roles in the registry
    HasClaude,      \* an Anthropic client is configured
    HasLocal,       \* a model manager is configured
    Faults          \* the faults of this instance, a subset of AllFaults

\* "claude", "local": the planner raises.  "agent": handle_task raises.
\* "audit", "store": an append or a save raises.  "stop": the coroutine is
\* cancelled or the process dies.
AllFaults == {"claude", "local", "agent", "audit", "store", "stop"}

Row == [status : {"in_progress", "completed", "failed"}, plan : BOOLEAN]

ASSUME ConstantsAssumption ==
    /\ NoRow \notin Row
    /\ Texts \subseteq Descriptions
    /\ Registered \subseteq {RoleOf(c) : c \in Categories}
    /\ HasClaude \in BOOLEAN
    /\ HasLocal \in BOOLEAN
    /\ Faults \subseteq AllFaults

VARIABLES
    pc,             \* what each delegate() is awaiting
    escalate,       \* routing.escalate_to_t2
    known,          \* an agent is registered for routing.target_role
    task,           \* assigned, done or failed: the task as it stands
    row,            \* its row in the store, as committed
    pending,        \* the row that its connection has written, not committed
    events,         \* the types of its audit events, in order
    announced       \* the status published on the bus, or "none"

vars == <<pc, escalate, known, task, row, pending, events, announced>>

AuditPlaces == {"auditing_route", "auditing_plan", "auditing_final"}
WritePlaces == {"saving", "saving_final"}
CommitPlaces == {"committing", "committing_final"}
PlanPlaces == {"asking_claude", "asking_local"}

\* Left by an exception: of the planner (raised), of the store or the audit log
\* (broken).  Stopped from outside: stopped.
Broken == {"broken", "stopped"}
Running == AuditPlaces \cup WritePlaces \cup CommitPlaces \cup PlanPlaces \cup {"handling"}

TypeOK ==
    /\ pc \in [Tasks -> Running \cup {"new", "done", "raised", "broken", "stopped"}]
    /\ escalate \in [Tasks -> BOOLEAN]
    /\ known \in [Tasks -> BOOLEAN]
    /\ task \in [Tasks -> Row \cup {NoRow}]
    /\ row \in [Tasks -> Row \cup {NoRow}]
    /\ pending \in [Tasks -> Row \cup {NoRow}]
    /\ events \in [Tasks -> Seq({"assigned", "completed", "failed"})]
    /\ announced \in [Tasks -> {"none", "completed", "failed"}]

Init ==
    /\ pc = [t \in Tasks |-> "new"]
    /\ escalate = [t \in Tasks |-> FALSE]
    /\ known = [t \in Tasks |-> FALSE]
    /\ task = [t \in Tasks |-> NoRow]
    /\ row = [t \in Tasks |-> NoRow]
    /\ pending = [t \in Tasks |-> NoRow]
    /\ events = [t \in Tasks |-> <<>>]
    /\ announced = [t \in Tasks |-> "none"]

-----------------------------------------------------------------------------
Goto(t, place) == pc' = [pc EXCEPT ![t] = place]
Becomes(t, status, plan) ==
    task' = [task EXCEPT ![t] = [status |-> status, plan |-> plan]]
Logged(t, type) == events' = [events EXCEPT ![t] = Append(@, type)]

\* _t1.route, then the audit of its verdict.
Route(t, text) ==
    /\ pc[t] = "new"
    /\ Goto(t, "auditing_route")
    /\ escalate' = [escalate EXCEPT ![t] = Escalates(text)]
    /\ known' = [known EXCEPT ![t] = TargetRole(text) \in Registered]
    /\ UNCHANGED <<task, row, pending, events, announced>>

\* After routing and planning: the task is assigned, or has nobody to go to.
Assign(t) ==
    IF known[t]
      THEN Becomes(t, "in_progress", escalate[t]) /\ Goto(t, "saving")
      ELSE Becomes(t, "failed", FALSE) /\ Goto(t, "saving_final")

\* SupervisorT2.plan, up to its first await.
Plan(t) ==
    /\ Goto(t, IF HasClaude THEN "asking_claude"
               ELSE IF HasLocal THEN "asking_local" ELSE "raised")
    /\ task' = task

RouteAudited(t) ==
    /\ pc[t] = "auditing_route"
    /\ Logged(t, "assigned")
    /\ IF escalate[t] THEN Plan(t) ELSE Assign(t)
    /\ UNCHANGED <<escalate, known, row, pending, announced>>

\* WRONG: the plan goes unaudited.
WrongPlanMade(t) ==
    /\ pc[t] \in PlanPlaces
    /\ Assign(t)
    /\ UNCHANGED <<escalate, known, row, pending, events, announced>>

\* Either planner's text is the plan.
PlanMade(t) ==
    /\ pc[t] \in PlanPlaces
    /\ Goto(t, "auditing_plan")
    /\ UNCHANGED <<escalate, known, task, row, pending, events, announced>>

\* A failure of Claude falls back to the local model, if there is one; a
\* failure of that leaves plan and delegate.
ClaudeFails(t) ==
    /\ "claude" \in Faults
    /\ pc[t] = "asking_claude"
    /\ Goto(t, IF HasLocal THEN "asking_local" ELSE "raised")
    /\ UNCHANGED <<escalate, known, task, row, pending, events, announced>>

LocalFails(t) ==
    /\ "local" \in Faults
    /\ pc[t] = "asking_local"
    /\ Goto(t, "raised")
    /\ UNCHANGED <<escalate, known, task, row, pending, events, announced>>

PlanAudited(t) ==
    /\ pc[t] = "auditing_plan"
    /\ Logged(t, "assigned")
    /\ Assign(t)
    /\ UNCHANGED <<escalate, known, row, pending, announced>>

-----------------------------------------------------------------------------
(* save_task                                                               *)

\* The statement begins a transaction; SQLite has one writer at a time, and the
\* others wait for it (or give up: StoreFails).
Write(t) ==
    /\ pc[t] \in WritePlaces
    /\ \A u \in Tasks : pending[u] = NoRow
    /\ pending' = [pending EXCEPT ![t] = task[t]]
    /\ Goto(t, IF pc[t] = "saving" THEN "committing" ELSE "committing_final")
    /\ UNCHANGED <<escalate, known, task, row, events, announced>>

Commit(t) ==
    /\ row' = [row EXCEPT ![t] = pending[t]]
    /\ pending' = [pending EXCEPT ![t] = NoRow]

\* WRONG: the agent does not wait for the commit.
WrongSaved(t) ==
    /\ pc[t] = "committing"
    /\ Goto(t, "handling")
    /\ UNCHANGED <<escalate, known, task, row, pending, events, announced>>

\* The agent is called as soon as the row is there.
Saved(t) ==
    /\ pc[t] = "committing"
    /\ Commit(t)
    /\ Goto(t, "handling")
    /\ UNCHANGED <<escalate, known, task, events, announced>>

\* Every agent returns the task completed, with a result of its own in the
\* place of the one it was given.
Handled(t) ==
    /\ pc[t] = "handling"
    /\ Becomes(t, "completed", FALSE)
    /\ Goto(t, "saving_final")
    /\ UNCHANGED <<escalate, known, row, pending, events, announced>>

\* WRONG: the failure is published before it is saved.
WrongAgentFailsEarly(t) ==
    /\ "agent" \in Faults
    /\ pc[t] = "handling"
    /\ Becomes(t, "failed", task[t].plan)
    /\ announced' = [announced EXCEPT ![t] = "failed"]
    /\ Goto(t, "saving_final")
    /\ UNCHANGED <<escalate, known, row, pending, events>>

\* WRONG: the agent's exception leaves delegate.
WrongAgentFailsOut(t) ==
    /\ "agent" \in Faults
    /\ pc[t] = "handling"
    /\ Goto(t, "raised")
    /\ UNCHANGED <<escalate, known, task, row, pending, events, announced>>

\* An agent's exception becomes the task's failure.
AgentFails(t) ==
    /\ "agent" \in Faults
    /\ pc[t] = "handling"
    /\ Becomes(t, "failed", task[t].plan)
    /\ Goto(t, "saving_final")
    /\ UNCHANGED <<escalate, known, row, pending, events, announced>>

\* WRONG: the outcome is audited before it is committed.
WrongFinalSaved(t) ==
    /\ pc[t] = "committing_final"
    /\ Goto(t, "auditing_final")
    /\ UNCHANGED <<escalate, known, task, row, pending, events, announced>>

\* The outcome is committed; then it is audited.
FinalSaved(t) ==
    /\ pc[t] = "committing_final"
    /\ Commit(t)
    /\ Goto(t, "auditing_final")
    /\ UNCHANGED <<escalate, known, task, events, announced>>

\* WRONG: every outcome is published as completed.
WrongFinalAudited(t) ==
    /\ pc[t] = "auditing_final"
    /\ Logged(t, task[t].status)
    /\ announced' = [announced EXCEPT ![t] = "completed"]
    /\ Goto(t, "done")
    /\ UNCHANGED <<escalate, known, task, row, pending>>

\* The bus takes the message without waiting, and delegate returns.
FinalAudited(t) ==
    /\ pc[t] = "auditing_final"
    /\ Logged(t, task[t].status)
    /\ announced' = [announced EXCEPT ![t] = task[t].status]
    /\ Goto(t, "done")
    /\ UNCHANGED <<escalate, known, task, row, pending>>

-----------------------------------------------------------------------------
\* The record of the append under way may have reached the disk, or not.
MayBeLogged(t) ==
    \/ Logged(t, IF pc[t] = "auditing_final" THEN task[t].status ELSE "assigned")
    \/ events' = events

\* An append, a statement or a commit that raises takes delegate with it: an
\* append may raise when its record has been written.
AuditFails(t) ==
    /\ "audit" \in Faults
    /\ pc[t] \in AuditPlaces
    /\ Goto(t, "broken")
    /\ MayBeLogged(t)
    /\ UNCHANGED <<escalate, known, task, row, pending, announced>>

StoreFails(t) ==
    /\ "store" \in Faults
    /\ pc[t] \in WritePlaces \cup CommitPlaces
    /\ Goto(t, "broken")
    /\ UNCHANGED <<escalate, known, task, row, pending, events, announced>>

\* Stopped while it awaits an append or a commit, a delegate does not know whether
\* the thread still does it.
Stop(t) ==
    /\ "stop" \in Faults
    /\ pc[t] \in Running
    /\ Goto(t, "stopped")
    /\ \/ pc[t] \in CommitPlaces /\ Commit(t)
       \/ UNCHANGED <<row, pending>>
    /\ IF pc[t] \in AuditPlaces THEN MayBeLogged(t) ELSE events' = events
    /\ UNCHANGED <<escalate, known, task, announced>>

\* The end of the process closes its connection, which rolls back.
Close(t) ==
    /\ pc[t] \in Broken
    /\ pending[t] # NoRow
    /\ pending' = [pending EXCEPT ![t] = NoRow]
    /\ UNCHANGED <<pc, escalate, known, task, row, events, announced>>

Proceed(t) ==
    \/ RouteAudited(t) \/ PlanMade(t) \/ ClaudeFails(t) \/ LocalFails(t)
    \/ PlanAudited(t) \/ Write(t) \/ Saved(t) \/ Handled(t) \/ AgentFails(t)
    \/ FinalSaved(t) \/ FinalAudited(t) \/ Close(t)

Next ==
    \E t \in Tasks :
        \/ \E text \in Texts : Route(t, text)
        \/ Proceed(t)
        \/ AuditFails(t) \/ StoreFails(t) \/ Stop(t)

Spec == Init /\ [][Next]_vars

\* Every await ends: model and Claude calls time out, disk writes return.
FairSpec == Spec /\ \A t \in Tasks : WF_vars(Proceed(t))

-----------------------------------------------------------------------------
(* What the dashboard reads over a connection of its own                   *)

\* list_tasks: the committed tasks with one of these statuses.
Listed(statuses) == {t \in Tasks : row[t] # NoRow /\ row[t].status \in statuses}

\* get_status
Health == IF Listed({"in_progress"}) # {} THEN "running" ELSE "idle"

-----------------------------------------------------------------------------
(* Properties                                                              *)

Final == {"completed", "failed"}
StatusIn(r) == IF r = NoRow THEN "none" ELSE r.status

\* Nobody hears of an outcome before it is on disk: what is published is what
\* the row and the last audit event say.
AnnouncedIsRecorded ==
    \A t \in Tasks :
        announced[t] # "none" =>
            /\ StatusIn(row[t]) = announced[t]
            /\ Last(events[t]) = announced[t]

\* And an outcome is in the audit log only when it is in the store, whatever
\* fails on the way.
AuditedIsStored ==
    \A t \in Tasks :
        \A i \in DOMAIN events[t] : events[t][i] \in Final => StatusIn(row[t]) = events[t][i]

\* No agent starts on a task before its routing is in the audit log, and its
\* plan too when Tier 1 asked for one.
AssignedFirst ==
    \A t \in Tasks :
        row[t] # NoRow =>
            /\ Len(events[t]) >= (IF escalate[t] THEN 2 ELSE 1)
            /\ \A i \in 1..(IF escalate[t] THEN 2 ELSE 1) : events[t][i] = "assigned"

\* The dashboard says "running" as long as an agent is at work, and a task it
\* shows in progress is one whose delegate is at work on it, or was stopped or
\* lost its store or audit log: what an agent does cannot leave such a row.
RunningIsShown ==
    /\ (\E t \in Tasks : pc[t] = "handling") => Health = "running"
    /\ \A t \in Listed({"in_progress"}) :
          pc[t] \in {"handling", "saving_final", "committing_final"} \cup Broken

\* The store and the bus as a task's lifecycle: a committed status never goes
\* back, whoever stops or fails where, and the outcome told is the one stored.
Stored == [t \in Tasks |-> StatusIn(row[t])]
Lifecycle == INSTANCE TaskLifecycle WITH stored <- Stored, told <- announced

LifecycleSpec == Lifecycle!Spec

\* Every task that is assigned comes to an announced end, unless its delegate
\* is broken off.
AssignedEnds ==
    \A t \in Tasks : pc[t] = "saving" ~> (announced[t] \in Final \/ pc[t] \in Broken)

-----------------------------------------------------------------------------
(* Of the routing, which depends on the description alone: stated of the    *)
(* initial state, for every description within the bounds.                 *)

NothingYet == \A t \in Tasks : pc[t] = "new"

\* "Order of _PRIORITY breaks ties": no category has more hits than the one a
\* task is given to, nor as many if it is more sensitive, which is to say more
\* complex to begin with; only a text with no hit at all is general.
MostSensitiveWins ==
    NothingYet =>
    \A text \in [hits : [ToSet(Priority) -> 0..MaxHits], forties : {0}, markers : {0}] :
        LET c == Classify(text) IN
        IF c = "general" THEN Range(text.hits) = {0}
        ELSE /\ text.hits[c] > 0
             /\ \A d \in DOMAIN text.hits \ {c} :
                    \/ text.hits[d] < text.hits[c]
                    \/ text.hits[d] = text.hits[c] /\ BaseComplexity(d) < BaseComplexity(c)

\* "Its escalation cost is predictable": what is added to a description that
\* stays in its category never takes an escalation back, and length alone brings
\* one about only for an offensive task.
EscalationIsEarned ==
    NothingYet =>
    \A c \in Categories, f1, f2 \in 0..MaxForties, m1, m2 \in 0..MaxMarkers :
        LET ScoreOf(f, m) == Score([forties |-> f, markers |-> m], c) IN
        ScoreOf(f1, m1) >= Threshold =>
            /\ f1 <= f2 /\ m1 <= m2 => ScoreOf(f2, m2) >= Threshold
            /\ m1 = 0 => c = "security_offensive"

-----------------------------------------------------------------------------
\* "The task's final state is persisted and a lifecycle event is published":
\* delegate never leaves a task otherwise.
OutcomePersisted ==
    \A t \in Tasks :
        pc[t] \in {"done", "raised"} => StatusIn(row[t]) \in Final /\ announced[t] \in Final
=============================================================================
