-------------------------- MODULE DelegatorProofs --------------------------
(***************************************************************************)
(* The life of a task for any number of delegates, whatever descriptions,  *)
(* registry and clients, and whatever fails on the way; and the routing,   *)
(* for descriptions of any length.                                         *)
(***************************************************************************)
EXTENDS Delegator, SequenceTheorems, TLAPS

\* What a task's audit holds before its outcome.
Trail(t) == IF escalate[t] THEN <<"assigned", "assigned">> ELSE <<"assigned">>

BeforeSaved == {"new", "auditing_route", "auditing_plan", "raised", "saving", "committing"} \cup PlanPlaces
Assigned == {"saving", "committing", "handling"}
Decided == {"saving_final", "committing_final", "auditing_final", "done"}

\* Up to its assignment a task stands nowhere; then it is in progress until its
\* agent returned, or could not be found.
TaskFollows(t) ==
    /\ pc[t] \in Assigned => task[t] \in Row /\ task[t].status = "in_progress"
    /\ pc[t] \in Decided => task[t] \in Row /\ task[t].status \in Final

OutcomeLogged(t) ==
    /\ row[t] = task[t] /\ task[t] \in Row /\ task[t].status \in Final
    /\ events[t] = Append(Trail(t), task[t].status)

\* The audit has the routing, then the plan, and the outcome at the very end.
\* A delegate that is broken off has one of these beginnings behind it, or the
\* outcome as well, which was committed by then.
EventsFollow(t) ==
    /\ pc[t] \in {"new", "auditing_route"} => events[t] = <<>>
    /\ pc[t] \in PlanPlaces \cup {"auditing_plan", "raised"} => escalate[t] /\ events[t] = <<"assigned">>
    /\ pc[t] \in (Assigned \cup Decided) \ {"done"} => events[t] = Trail(t)
    /\ pc[t] = "done" => events[t] = Append(Trail(t), task[t].status)
    /\ pc[t] \in Broken => events[t] \in {<<>>, <<"assigned">>, Trail(t)} \/ OutcomeLogged(t)

\* The row lags behind the task by the write under way, which its connection
\* holds; a task with a row has its whole trail in the audit.
RowFollows(t) ==
    /\ pc[t] \in BeforeSaved => row[t] = NoRow
    /\ pc[t] \in {"handling", "auditing_final", "done"} => row[t] = task[t]
    /\ pc[t] \in {"saving_final", "committing_final"} =>
          IF row[t] = NoRow THEN task[t].status = "failed" ELSE row[t].status = "in_progress"
    /\ pc[t] \in CommitPlaces => pending[t] = task[t]
    /\ pc[t] \in Broken /\ row[t] # NoRow => events[t] = Trail(t) \/ OutcomeLogged(t)

\* Only a delegate that has returned has announced anything.
AnnouncedLast(t) ==
    announced[t] # "none" => pc[t] = "done" /\ announced[t] = task[t].status

Follows(t) == TaskFollows(t) /\ EventsFollow(t) /\ RowFollows(t) /\ AnnouncedLast(t)

IInv == TypeOK /\ \A t \in Tasks : Follows(t)
-----------------------------------------------------------------------------
\* Appending to a sequence of one gives the pair.
LEMMA AppendToOne ==
    ASSUME NEW S, NEW x \in S, NEW y \in S
    PROVE  Append(<<x>>, y) = <<x, y>>
<1>1. <<x>> \in Seq(S) /\ <<x, y>> \in Seq(S) /\ Len(<<x>>) = 1 /\ Len(<<x, y>>) = 2
  OBVIOUS
<1>2. Append(<<x>>, y) \in Seq(S) /\ Len(Append(<<x>>, y)) = 2
  BY <1>1, AppendProperties
<1>3. \A i \in 1..Len(Append(<<x>>, y)) : Append(<<x>>, y)[i] = <<x, y>>[i]
  BY <1>1, <1>2, AppendProperties
<1> QED BY <1>1, <1>2, <1>3, SeqEqual

LEMMA InitIInv == Init => IInv
  BY ConstantsAssumption
     DEF Init, IInv, TypeOK, Follows, TaskFollows, EventsFollow, RowFollows, AnnouncedLast,
         BeforeSaved, Assigned, Decided, Broken, PlanPlaces, CommitPlaces

Types == {"assigned", "completed", "failed"}

\* One event more is what an audit append does.
LEMMA LoggedOne ==
    ASSUME TypeOK, NEW t \in Tasks, NEW type \in Types, Logged(t, type)
    PROVE  /\ events' \in [Tasks -> Seq(Types)]
           /\ events'[t] = Append(events[t], type)
           /\ \A u \in Tasks \ {t} : events'[u] = events[u]
  BY DEF Logged, TypeOK, Types

\* An assignment gives the task to its agent, or ends it without one.
LEMMA AssignOne ==
    ASSUME TypeOK, NEW t \in Tasks, Assign(t)
    PROVE  /\ task' \in [Tasks -> Row \cup {NoRow}]
           /\ pc' = [pc EXCEPT ![t] = IF known[t] THEN "saving" ELSE "saving_final"]
           /\ task'[t] \in Row
           /\ task'[t].status = IF known[t] THEN "in_progress" ELSE "failed"
           /\ \A u \in Tasks \ {t} : task'[u] = task[u]
<1> DEFINE r == IF known[t] THEN [status |-> "in_progress", plan |-> escalate[t]]
                            ELSE [status |-> "failed", plan |-> FALSE]
<1>1. task' = [task EXCEPT ![t] = r]
  BY DEF Assign, Becomes
<1>2. r \in Row /\ r.status = IF known[t] THEN "in_progress" ELSE "failed"
  BY DEF TypeOK, Row
<1>3. pc' = [pc EXCEPT ![t] = IF known[t] THEN "saving" ELSE "saving_final"]
  BY DEF Assign, Goto
<1> HIDE DEF r
<1> QED BY <1>1, <1>2, <1>3 DEF TypeOK

\* No step breaks the types: a status is read from a task that has one.
LEMMA TypeOKStep ==
    ASSUME IInv, [Next]_vars
    PROVE  TypeOK'
<1> USE ConstantsAssumption
<1>0. TypeOK /\ \A t \in Tasks : TaskFollows(t)
  BY DEF IInv, Follows
<1>a. ASSUME NEW t \in Tasks, NEW type \in Types, Logged(t, type)
      PROVE  events' \in [Tasks -> Seq(Types)]
  BY <1>0, <1>a, LoggedOne
<1> USE DEF TypeOK, Types, Row, Running, AuditPlaces, WritePlaces, CommitPlaces, PlanPlaces, Goto
<1>1. ASSUME NEW t \in Tasks, NEW text \in Texts, Route(t, text) PROVE TypeOK'
  BY <1>0, <1>1, SMTT(60) DEF Route, Escalates
<1>2. ASSUME NEW t \in Tasks, RouteAudited(t) PROVE TypeOK'
  <2>1. events' \in [Tasks -> Seq(Types)]
    BY <1>2, <1>a DEF RouteAudited
  <2>2. CASE escalate[t]
    BY <1>0, <1>2, <2>1, <2>2, ZenonT(60) DEF RouteAudited, Plan
  <2>3. CASE ~escalate[t]
    <3>1. Assign(t)
      BY <1>2, <2>3 DEF RouteAudited
    <3> QED BY <1>0, <1>2, <2>1, <3>1, AssignOne DEF RouteAudited
  <2> QED BY <2>2, <2>3
<1>3. ASSUME NEW t \in Tasks, PlanMade(t) PROVE TypeOK'
  BY <1>0, <1>3 DEF PlanMade
<1>4. ASSUME NEW t \in Tasks, ClaudeFails(t) PROVE TypeOK'
  BY <1>0, <1>4 DEF ClaudeFails
<1>5. ASSUME NEW t \in Tasks, LocalFails(t) PROVE TypeOK'
  BY <1>0, <1>5 DEF LocalFails
<1>6. ASSUME NEW t \in Tasks, PlanAudited(t) PROVE TypeOK'
  <2>1. events' \in [Tasks -> Seq(Types)]
    BY <1>6, <1>a DEF PlanAudited
  <2> QED BY <1>0, <1>6, <2>1, AssignOne DEF PlanAudited
<1>7. ASSUME NEW t \in Tasks, Write(t) PROVE TypeOK'
  BY <1>0, <1>7 DEF Write
<1>8. ASSUME NEW t \in Tasks, Saved(t) PROVE TypeOK'
  BY <1>0, <1>8 DEF Saved, Commit
<1>9. ASSUME NEW t \in Tasks, Handled(t) PROVE TypeOK'
  BY <1>0, <1>9 DEF Handled, Becomes
<1>10. ASSUME NEW t \in Tasks, AgentFails(t) PROVE TypeOK'
  BY <1>0, <1>10 DEF AgentFails, Becomes, TaskFollows, Assigned
<1>11. ASSUME NEW t \in Tasks, FinalSaved(t) PROVE TypeOK'
  BY <1>0, <1>11 DEF FinalSaved, Commit
<1>12. ASSUME NEW t \in Tasks, FinalAudited(t) PROVE TypeOK'
  <2>1. task[t] \in Row /\ task[t].status \in Final
    BY <1>0, <1>12 DEF FinalAudited, TaskFollows, Decided
  <2>2. events' \in [Tasks -> Seq(Types)]
    BY <1>12, <1>a, <2>1 DEF FinalAudited, Final
  <2> QED BY <1>0, <1>12, <2>1, <2>2 DEF FinalAudited, Final
<1>13. ASSUME NEW t \in Tasks, Close(t) PROVE TypeOK'
  BY <1>0, <1>13 DEF Close
<1>b. ASSUME NEW t \in Tasks, pc[t] \in AuditPlaces, MayBeLogged(t)
      PROVE  events' \in [Tasks -> Seq(Types)]
  <2>1. pc[t] = "auditing_final" => task[t] \in Row /\ task[t].status \in Final
    BY <1>0 DEF TaskFollows, Decided
  <2>2. (IF pc[t] = "auditing_final" THEN task[t].status ELSE "assigned") \in Types
    BY <2>1 DEF Final
  <2> QED BY <1>0, <1>a, <1>b, <2>2 DEF MayBeLogged
<1>14. ASSUME NEW t \in Tasks, AuditFails(t) PROVE TypeOK'
  <2>1. events' \in [Tasks -> Seq(Types)]
    BY <1>b, <1>14 DEF AuditFails
  <2> QED BY <1>0, <1>14, <2>1 DEF AuditFails
<1>15. ASSUME NEW t \in Tasks, StoreFails(t) PROVE TypeOK'
  BY <1>0, <1>15 DEF StoreFails
<1>16. ASSUME NEW t \in Tasks, Stop(t) PROVE TypeOK'
  <2>1. events' \in [Tasks -> Seq(Types)]
    BY <1>0, <1>b, <1>16 DEF Stop
  <2> QED BY <1>0, <1>16, <2>1 DEF Stop, Commit
<1>17. CASE UNCHANGED vars
  BY <1>0, <1>17 DEF vars
<1> HIDE DEF TypeOK
<1> QED
  BY <1>1, <1>2, <1>3, <1>4, <1>5, <1>6, <1>7, <1>8, <1>9, <1>10, <1>11, <1>12, <1>13,
     <1>14, <1>15, <1>16, <1>17
     DEF Next, Proceed

\* A delegate moves its own task and leaves the others where they are.
OnlyMoves(t) ==
    \A u \in Tasks \ {t} :
        /\ pc'[u] = pc[u] /\ escalate'[u] = escalate[u] /\ task'[u] = task[u]
        /\ row'[u] = row[u] /\ pending'[u] = pending[u]
        /\ events'[u] = events[u] /\ announced'[u] = announced[u]

Kept(t) == Follows(t)' /\ OnlyMoves(t)

LEMMA IInvStep ==
    ASSUME IInv, [Next]_vars
    PROVE  IInv'
<1>0. TypeOK /\ \A t \in Tasks : Follows(t)
  BY DEF IInv
<1>a. ASSUME NEW t \in Tasks, Kept(t) PROVE IInv'
  BY <1>0, <1>a, TypeOKStep
     DEF Kept, IInv, OnlyMoves, Follows, TaskFollows, EventsFollow, RowFollows, AnnouncedLast, Trail,
         OutcomeLogged
<1>b. /\ Append(<<>>, "assigned") = <<"assigned">>
      /\ Append(<<"assigned">>, "assigned") = <<"assigned", "assigned">>
  <2>1. "assigned" \in Types
    BY DEF Types
  <2>2. Append(<<"assigned">>, "assigned") = <<"assigned", "assigned">>
    BY <2>1, AppendToOne
  <2> QED BY <2>2
<1>c. ASSUME NEW t \in Tasks, NEW type \in Types, Logged(t, type)
      PROVE  /\ events'[t] = Append(events[t], type)
             /\ \A u \in Tasks \ {t} : events'[u] = events[u]
  BY <1>0, <1>c, LoggedOne
\* An append broken off leaves one of the beginnings, or the outcome as well.
<1>d. ASSUME NEW t \in Tasks, pc[t] \in AuditPlaces, MayBeLogged(t), UNCHANGED <<escalate, task>>,
             row'[t] = row[t]
      PROVE  /\ \A u \in Tasks \ {t} : events'[u] = events[u]
             /\ events'[t] \in {<<>>, <<"assigned">>, Trail(t)'} \/ OutcomeLogged(t)'
             /\ row'[t] # NoRow => events'[t] = Trail(t)' \/ OutcomeLogged(t)'
  <2>0. Follows(t) /\ Trail(t)' = Trail(t)
    BY <1>0, <1>d DEF Trail
  <2>1. CASE events' = events
    BY <2>0, <2>1, <1>d
       DEF Follows, EventsFollow, RowFollows, AuditPlaces, BeforeSaved, Decided, PlanPlaces, Trail
  <2>2. CASE pc[t] = "auditing_route" /\ Logged(t, "assigned")
    <3>1. events[t] = <<>> /\ row[t] = NoRow
      BY <2>0, <2>2 DEF Follows, EventsFollow, RowFollows, BeforeSaved
    <3> QED BY <1>b, <1>c, <1>d, <2>2, <3>1 DEF Types
  <2>3. CASE pc[t] = "auditing_plan" /\ Logged(t, "assigned")
    <3>1. events[t] = <<"assigned">> /\ row[t] = NoRow /\ escalate[t]
      BY <2>0, <2>3 DEF Follows, EventsFollow, RowFollows, BeforeSaved
    <3> QED BY <1>b, <1>c, <1>d, <2>0, <2>3, <3>1 DEF Types, Trail
  <2>4. CASE pc[t] = "auditing_final" /\ Logged(t, task[t].status)
    <3>1. /\ events[t] = Trail(t) /\ row[t] = task[t]
          /\ task[t] \in Row /\ task[t].status \in Final
      BY <2>0, <2>4 DEF Follows, TaskFollows, EventsFollow, RowFollows, Decided
    <3>2. /\ events'[t] = Append(Trail(t), task[t].status)
          /\ \A u \in Tasks \ {t} : events'[u] = events[u]
      BY <1>c, <2>4, <3>1 DEF Types, Final
    <3>3. OutcomeLogged(t)'
      BY <1>d, <2>0, <3>1, <3>2 DEF OutcomeLogged
    <3> QED BY <3>2, <3>3
  <2> QED BY <1>d, <2>1, <2>2, <2>3, <2>4 DEF MayBeLogged, AuditPlaces
<1> USE ConstantsAssumption
    DEF Kept, OnlyMoves, TypeOK, Row, Follows, TaskFollows, EventsFollow, RowFollows, AnnouncedLast,
        Trail, BeforeSaved, Assigned, Decided, Broken, Running, AuditPlaces, WritePlaces,
        CommitPlaces, PlanPlaces, Final, Goto
<1>1. ASSUME NEW t \in Tasks, NEW text \in Texts, Route(t, text) PROVE Kept(t)
  BY <1>0, <1>1 DEF Route
<1>2. ASSUME NEW t \in Tasks, RouteAudited(t) PROVE Kept(t)
  <2>1. events[t] = <<>> /\ row[t] = NoRow /\ announced[t] = "none"
    BY <1>0, <1>2 DEF RouteAudited
  <2>2. events'[t] = <<"assigned">> /\ \A u \in Tasks \ {t} : events'[u] = events[u]
    BY <1>b, <1>c, <1>2, <2>1 DEF RouteAudited, Types
  <2>3. CASE escalate[t]
    BY <1>0, <1>2, <2>1, <2>2, <2>3 DEF RouteAudited, Plan
  <2>4. CASE ~escalate[t]
    <3>1. Assign(t)
      BY <1>2, <2>4 DEF RouteAudited
    <3> QED BY <1>0, <1>2, <2>1, <2>2, <2>4, <3>1, AssignOne DEF RouteAudited
  <2> QED BY <2>3, <2>4
<1>3. ASSUME NEW t \in Tasks, PlanMade(t) PROVE Kept(t)
  BY <1>0, <1>3 DEF PlanMade
<1>4. ASSUME NEW t \in Tasks, ClaudeFails(t) PROVE Kept(t)
  BY <1>0, <1>4 DEF ClaudeFails
<1>5. ASSUME NEW t \in Tasks, LocalFails(t) PROVE Kept(t)
  BY <1>0, <1>5 DEF LocalFails
<1>6. ASSUME NEW t \in Tasks, PlanAudited(t) PROVE Kept(t)
  <2>1. escalate[t] /\ events[t] = <<"assigned">> /\ row[t] = NoRow /\ announced[t] = "none"
    BY <1>0, <1>6 DEF PlanAudited
  <2>2. events'[t] = <<"assigned", "assigned">> /\ \A u \in Tasks \ {t} : events'[u] = events[u]
    BY <1>b, <1>c, <1>6, <2>1 DEF PlanAudited, Types
  <2> QED BY <1>0, <1>6, <2>1, <2>2, AssignOne DEF PlanAudited
<1>7. ASSUME NEW t \in Tasks, Write(t) PROVE Kept(t)
  BY <1>0, <1>7 DEF Write
<1>8. ASSUME NEW t \in Tasks, Saved(t) PROVE Kept(t)
  BY <1>0, <1>8 DEF Saved, Commit
<1>9. ASSUME NEW t \in Tasks, Handled(t) PROVE Kept(t)
  BY <1>0, <1>9 DEF Handled, Becomes
<1>10. ASSUME NEW t \in Tasks, AgentFails(t) PROVE Kept(t)
  BY <1>0, <1>10 DEF AgentFails, Becomes
<1>11. ASSUME NEW t \in Tasks, FinalSaved(t) PROVE Kept(t)
  BY <1>0, <1>11 DEF FinalSaved, Commit
<1>12. ASSUME NEW t \in Tasks, FinalAudited(t) PROVE Kept(t)
  <2>1. /\ events[t] = Trail(t) /\ announced[t] = "none"
        /\ task[t] \in Row /\ task[t].status \in Final /\ row[t] = task[t]
    BY <1>0, <1>12 DEF FinalAudited
  <2>2. /\ events'[t] = Append(Trail(t), task[t].status)
        /\ \A u \in Tasks \ {t} : events'[u] = events[u]
    <3>1. Logged(t, task[t].status) /\ task[t].status \in Types
      BY <1>12, <2>1 DEF FinalAudited, Types
    <3> QED BY <1>c, <2>1, <3>1
  <2> QED BY <1>0, <1>12, <2>1, <2>2 DEF FinalAudited
<1>13. ASSUME NEW t \in Tasks, Close(t) PROVE Kept(t)
  BY <1>0, <1>13 DEF Close, OutcomeLogged
<1>14. ASSUME NEW t \in Tasks, AuditFails(t) PROVE Kept(t)
  <2>1. announced[t] = "none"
    BY <1>0, <1>14 DEF AuditFails
  <2>2. /\ \A u \in Tasks \ {t} : events'[u] = events[u]
        /\ events'[t] \in {<<>>, <<"assigned">>, Trail(t)'} \/ OutcomeLogged(t)'
        /\ row'[t] # NoRow => events'[t] = Trail(t)' \/ OutcomeLogged(t)'
    BY <1>d, <1>14 DEF AuditFails
  <2> HIDE DEF Trail
  <2> QED BY <1>0, <1>14, <2>1, <2>2 DEF AuditFails
<1>15. ASSUME NEW t \in Tasks, StoreFails(t) PROVE Kept(t)
  BY <1>0, <1>15 DEF StoreFails
<1>16. ASSUME NEW t \in Tasks, Stop(t) PROVE Kept(t)
  <2>1. announced[t] = "none"
    BY <1>0, <1>16 DEF Stop
  <2>2. CASE pc[t] \in CommitPlaces /\ Commit(t)
    <3>1. events[t] = Trail(t) /\ events' = events
      BY <1>0, <1>16, <2>2 DEF Stop
    <3> QED BY <1>0, <1>16, <2>1, <2>2, <3>1 DEF Stop, Commit
  <2>3. CASE UNCHANGED <<row, pending>> /\ pc[t] \in AuditPlaces
    <3>1. /\ \A u \in Tasks \ {t} : events'[u] = events[u]
          /\ events'[t] \in {<<>>, <<"assigned">>, Trail(t)'} \/ OutcomeLogged(t)'
          /\ row'[t] # NoRow => events'[t] = Trail(t)' \/ OutcomeLogged(t)'
      BY <1>d, <1>16, <2>3 DEF Stop
    <3> HIDE DEF Trail
    <3> QED BY <1>0, <1>16, <2>1, <2>3, <3>1 DEF Stop
  <2>4. CASE UNCHANGED <<row, pending>> /\ pc[t] \notin AuditPlaces
    <3>1. events' = events
      BY <1>16, <2>4 DEF Stop
    <3>2. /\ row[t] # NoRow => events[t] = Trail(t)
          /\ events[t] \in {<<>>, <<"assigned">>, Trail(t)}
      BY <1>0, <1>16, <2>4 DEF Stop
    <3> QED BY <1>0, <1>16, <2>1, <2>4, <3>1, <3>2 DEF Stop
  <2> QED BY <1>16, <2>2, <2>3, <2>4 DEF Stop
<1>17. CASE UNCHANGED vars
  BY <1>0, <1>17 DEF vars, IInv, OutcomeLogged
<1> HIDE DEF Kept
<1> QED
  BY <1>a, <1>1, <1>2, <1>3, <1>4, <1>5, <1>6, <1>7, <1>8, <1>9, <1>10, <1>11, <1>12, <1>13,
     <1>14, <1>15, <1>16, <1>17
     DEF Next, Proceed

LEMMA IInvHolds == Spec => []IInv
  BY InitIInv, IInvStep, PTL DEF Spec

-----------------------------------------------------------------------------
\* A trail holds one event, or two, and nothing else.
LEMMA TrailAssigns ==
    ASSUME NEW t \in Tasks
    PROVE  /\ Trail(t) \in Seq({"assigned"}) /\ Trail(t) \in Seq(Types)
           /\ Len(Trail(t)) = IF escalate[t] THEN 2 ELSE 1
           /\ \A i \in 1..Len(Trail(t)) : Trail(t)[i] = "assigned"
<1>1. CASE escalate[t]
  BY <1>1 DEF Trail, Types
<1>2. CASE ~escalate[t]
  BY <1>2 DEF Trail, Types
<1> QED BY <1>1, <1>2

\* TypeOK: every variable keeps its type, whatever fails.
THEOREM TypeCorrect == Spec => []TypeOK
<1>1. IInv => TypeOK
  BY DEF IInv
<1> QED BY <1>1, IInvHolds, PTL

\* AnnouncedIsRecorded: nobody hears of an outcome before it is committed and
\* the last audit event of its task, for any number of delegates on one store.
THEOREM AnnouncementsRecorded == Spec => []AnnouncedIsRecorded
<1>1. ASSUME IInv PROVE AnnouncedIsRecorded
  <2>1. ASSUME NEW t \in Tasks, announced[t] # "none"
        PROVE  StatusIn(row[t]) = announced[t] /\ Last(events[t]) = announced[t]
    <3>1. /\ task[t] \in Row /\ row[t] = task[t] /\ task[t].status = announced[t]
          /\ task[t].status \in Final
          /\ events[t] = Append(Trail(t), task[t].status)
      BY <1>1, <2>1 DEF IInv, Follows, AnnouncedLast, TaskFollows, EventsFollow, RowFollows, Decided
    <3>2. Trail(t) \in Seq(Types) /\ task[t].status \in Types
      BY <3>1, TrailAssigns DEF Types, Final
    <3>3. Last(events[t]) = task[t].status
      BY <3>1, <3>2 DEF Last
    <3> QED BY <3>1, <3>3, ConstantsAssumption DEF StatusIn
  <2> QED BY <2>1 DEF AnnouncedIsRecorded
<1> QED BY <1>1, IInvHolds, PTL

\* AuditedIsStored: an outcome is in the audit log only when it is in the store,
\* whatever fails on the way.
THEOREM AuditedOutcomesStored == Spec => []AuditedIsStored
<1>1. ASSUME IInv PROVE AuditedIsStored
  <2> SUFFICES ASSUME NEW t \in Tasks, NEW i \in DOMAIN events[t], events[t][i] \in Final
               PROVE  StatusIn(row[t]) = events[t][i]
    BY DEF AuditedIsStored
  <2>1. Trail(t) \in Seq({"assigned"})
    BY TrailAssigns
  <2>2. CASE pc[t] = "done" \/ OutcomeLogged(t)
    <3>1. /\ task[t] \in Row /\ row[t] = task[t]
          /\ events[t] = Append(Trail(t), task[t].status)
      BY <1>1, <2>2 DEF IInv, Follows, TaskFollows, EventsFollow, RowFollows, Decided, OutcomeLogged
    <3>2. events[t][i] = task[t].status
      BY <2>1, <3>1 DEF Final
    <3> QED BY <3>1, <3>2, ConstantsAssumption DEF StatusIn
  <2>3. CASE pc[t] # "done" /\ ~OutcomeLogged(t)
    <3>1. events[t] \in {<<>>, <<"assigned">>, Trail(t)}
      BY <1>1, <2>3
         DEF IInv, TypeOK, Follows, EventsFollow, Running, AuditPlaces, WritePlaces, CommitPlaces,
             PlanPlaces, Assigned, Decided, Broken
    <3>2. events[t] \in Seq({"assigned"})
      <4>1. <<>> \in Seq({"assigned"}) /\ <<"assigned">> \in Seq({"assigned"})
        OBVIOUS
      <4> QED BY <2>1, <3>1, <4>1
    <3> QED BY <3>2 DEF Final
  <2> QED BY <2>2, <2>3
<1> QED BY <1>1, IInvHolds, PTL

\* AssignedFirst: a task has a row only after its routing, and its plan where
\* Tier 1 asked for one, are in the audit log.
THEOREM AssignmentsAudited == Spec => []AssignedFirst
<1>1. ASSUME IInv PROVE AssignedFirst
  <2> SUFFICES ASSUME NEW t \in Tasks, row[t] # NoRow
               PROVE  /\ Len(events[t]) >= (IF escalate[t] THEN 2 ELSE 1)
                      /\ \A i \in 1..(IF escalate[t] THEN 2 ELSE 1) : events[t][i] = "assigned"
    BY DEF AssignedFirst
  <2> DEFINE n == IF escalate[t] THEN 2 ELSE 1
  <2>0. n \in 1..2 /\ Len(Trail(t)) = n /\ \A i \in 1..n : Trail(t)[i] = "assigned"
    BY TrailAssigns
  <2> HIDE DEF n
  <2> SUFFICES Len(events[t]) >= n /\ \A i \in 1..n : events[t][i] = "assigned"
    BY DEF n
  <2>1. CASE pc[t] = "done" \/ OutcomeLogged(t)
    <3>1. events[t] = Append(Trail(t), task[t].status)
      BY <1>1, <2>1 DEF IInv, Follows, EventsFollow, OutcomeLogged
    <3>2. task[t].status \in Types
      BY <1>1, <2>1 DEF IInv, Follows, TaskFollows, Decided, Types, Final, OutcomeLogged
    <3>3. /\ Len(events[t]) = Len(Trail(t)) + 1
          /\ \A i \in 1..Len(Trail(t)) : events[t][i] = Trail(t)[i]
      BY <3>1, <3>2, TrailAssigns, AppendProperties
    <3> QED BY <2>0, <3>3
  <2>2. CASE pc[t] # "done" /\ ~OutcomeLogged(t)
    <3>1. events[t] = Trail(t)
      BY <1>1, <2>2
         DEF IInv, TypeOK, Follows, EventsFollow, RowFollows, Running, AuditPlaces, WritePlaces,
             CommitPlaces, PlanPlaces, BeforeSaved, Assigned, Decided, Broken
    <3> QED BY <2>0, <3>1
  <2> QED BY <2>1, <2>2
<1> QED BY <1>1, IInvHolds, PTL

\* RunningIsShown: the dashboard shows a task in progress while an agent is at
\* work on it, and no agent leaves such a row behind.
THEOREM WorkIsShown == Spec => []RunningIsShown
<1>1. ASSUME IInv PROVE RunningIsShown
  <2>1. ASSUME NEW t \in Tasks, pc[t] = "handling" PROVE t \in Listed({"in_progress"})
    BY <1>1, <2>1, ConstantsAssumption DEF IInv, Follows, TaskFollows, RowFollows, Assigned, Listed
  <2>2. ASSUME NEW t \in Listed({"in_progress"})
        PROVE  pc[t] \in {"handling", "saving_final", "committing_final"} \cup Broken
    BY <1>1, <2>2
       DEF IInv, TypeOK, Follows, TaskFollows, RowFollows, Listed, Running, AuditPlaces, WritePlaces,
           CommitPlaces, PlanPlaces, BeforeSaved, Assigned, Decided, Broken, Final
  <2> QED BY <2>1, <2>2 DEF RunningIsShown, Health
<1> QED BY <1>1, IInvHolds, PTL

-----------------------------------------------------------------------------
(* The lifecycle                                                           *)

\* A step of a delegate is a step of its task's lifecycle, or leaves it alone.
LEMMA LifecycleStep ==
    ASSUME IInv, [Next]_vars
    PROVE  [Lifecycle!Next]_<<Stored, announced>>
<1> USE ConstantsAssumption
<1>0. TypeOK /\ \A t \in Tasks : Follows(t)
  BY DEF IInv
<1>a. ASSUME row' = row, announced' = announced PROVE UNCHANGED <<Stored, announced>>
  BY <1>a DEF Stored
<1>b. ASSUME NEW t \in Tasks, pc[t] \in CommitPlaces, Commit(t), announced' = announced
      PROVE  Lifecycle!Next
  <2>1. row' = [row EXCEPT ![t] = task[t]] /\ task[t] \in Row
    BY <1>0, <1>b DEF Commit, CommitPlaces, Follows, TaskFollows, RowFollows, Assigned, Decided
  <2>2. Stored' = [Stored EXCEPT ![t] = task[t].status]
    BY <1>0, <2>1 DEF TypeOK, Stored, StatusIn
  <2>3. CASE pc[t] = "committing"
    <3>1. Stored[t] = "none" /\ task[t].status = "in_progress"
      BY <1>0, <2>3 DEF Follows, TaskFollows, RowFollows, BeforeSaved, Assigned, Stored, StatusIn
    <3> QED BY <1>b, <2>2, <3>1 DEF Lifecycle!Next, Lifecycle!Start
  <2>4. CASE pc[t] = "committing_final"
    <3>1. /\ task[t].status \in Lifecycle!Outcomes
          /\ \/ Stored[t] = "in_progress"
             \/ Stored[t] = "none" /\ task[t].status = "failed"
      BY <1>0, <2>4
         DEF Follows, TaskFollows, RowFollows, Decided, Final, Lifecycle!Outcomes, Stored, StatusIn
    <3> QED BY <1>b, <2>2, <3>1 DEF Lifecycle!Next, Lifecycle!End
  <2> QED BY <1>b, <2>3, <2>4 DEF CommitPlaces
<1>1. ASSUME NEW t \in Tasks, Saved(t) \/ FinalSaved(t) PROVE Lifecycle!Next
  BY <1>b, <1>1 DEF Saved, FinalSaved, CommitPlaces
<1>2. ASSUME NEW t \in Tasks, Stop(t) PROVE Lifecycle!Next \/ UNCHANGED <<Stored, announced>>
  BY <1>a, <1>b, <1>2 DEF Stop
<1>3. ASSUME NEW t \in Tasks, FinalAudited(t) PROVE Lifecycle!Next
  <2>1. /\ row[t] = task[t] /\ task[t] \in Row /\ task[t].status \in Lifecycle!Outcomes
        /\ announced[t] = "none"
    BY <1>0, <1>3
       DEF FinalAudited, Follows, TaskFollows, RowFollows, AnnouncedLast, Decided, Final,
           Lifecycle!Outcomes
  <2>2. Stored[t] = task[t].status /\ Stored' = Stored
    BY <1>3, <2>1 DEF FinalAudited, Stored, StatusIn
  <2> QED BY <1>3, <2>1, <2>2 DEF FinalAudited, Lifecycle!Next, Lifecycle!Tell
<1>4. ASSUME NEW t \in Tasks,
             \/ \E text \in Texts : Route(t, text)
             \/ RouteAudited(t) \/ PlanMade(t) \/ ClaudeFails(t) \/ LocalFails(t) \/ PlanAudited(t)
             \/ Write(t) \/ Handled(t) \/ AgentFails(t) \/ Close(t) \/ AuditFails(t) \/ StoreFails(t)
      PROVE  UNCHANGED <<Stored, announced>>
  BY <1>a, <1>4
     DEF Route, RouteAudited, PlanMade, ClaudeFails, LocalFails, PlanAudited, Write, Handled,
         AgentFails, Close, AuditFails, StoreFails
<1>5. CASE UNCHANGED vars
  BY <1>a, <1>5 DEF vars
<1> QED BY <1>1, <1>2, <1>3, <1>4, <1>5 DEF Next, Proceed

\* LifecycleSpec: store and bus implement the lifecycle: no committed status goes
\* back, and the outcome that is published is the one that is stored.
THEOREM ImplementsLifecycle == Spec => LifecycleSpec
<1>1. Init => Lifecycle!Init
  BY DEF Init, Lifecycle!Init, Stored, StatusIn
<1> QED BY <1>1, LifecycleStep, IInvHolds, PTL DEF Spec, LifecycleSpec, Lifecycle!Spec
-----------------------------------------------------------------------------
(* The routing                                                             *)

LEMMA MinOfTwo ==
    ASSUME NEW a \in Nat, NEW b \in Nat
    PROVE  Min({a, b}) = IF a <= b THEN a ELSE b
<1>1. \E x \in {a, b} : \A y \in {a, b} : x <= y
  OBVIOUS
<1>2. Min({a, b}) \in {a, b} /\ \A y \in {a, b} : Min({a, b}) <= y
  BY <1>1 DEF Min
<1> QED BY <1>2

\* The categories by priority, and what a description of each begins with.
LEMMA Ranks ==
    /\ DOMAIN Priority = 1..4 /\ Len(Priority) = 4
    /\ \A i \in 1..4 : Priority[i] \in ToSet(Priority) /\ Priority[i] # "general"
    /\ \A c \in ToSet(Priority) : \E i \in 1..4 : c = Priority[i]
    /\ \A i \in 1..4 : BaseComplexity(Priority[i]) = 4 - i
<1>1. DOMAIN Priority = 1..4 /\ Len(Priority) = 4
  BY DEF Priority
<1>2. ToSet(Priority) = {Priority[i] : i \in 1..4}
  BY <1>1 DEF ToSet
<1>3. /\ Priority[1] = "security_offensive" /\ Priority[2] = "audit"
      /\ Priority[3] = "security_defensive" /\ Priority[4] = "coding"
  BY DEF Priority
<1>4. \A i \in 1..4 : BaseComplexity(Priority[i]) = 4 - i
  BY <1>3 DEF BaseComplexity
<1> QED BY <1>1, <1>2, <1>3, <1>4

\* The most hits of a description are those of some category.
LEMMA MostHits ==
    ASSUME NEW hits \in [ToSet(Priority) -> 0..MaxHits]
    PROVE  /\ \E c \in ToSet(Priority) : hits[c] = Max(Range(hits))
           /\ \A c \in ToSet(Priority) : hits[c] <= Max(Range(hits))
<1>1. \A i \in 1..4 : hits[Priority[i]] \in Nat
  BY Ranks, Tier1Assumption
<1>2. \E i \in 1..4 : \A j \in 1..4 : hits[Priority[j]] <= hits[Priority[i]]
  <2>1. \E i \in {1, 2} : hits[Priority[1]] <= hits[Priority[i]] /\ hits[Priority[2]] <= hits[Priority[i]]
    BY <1>1
  <2>2. \E i \in {3, 4} : hits[Priority[3]] <= hits[Priority[i]] /\ hits[Priority[4]] <= hits[Priority[i]]
    BY <1>1
  <2> QED BY <1>1, <2>1, <2>2
<1>3. Range(hits) = {hits[c] : c \in ToSet(Priority)}
  BY DEF Range
<1>4. \E x \in Range(hits) : \A y \in Range(hits) : x >= y
  BY <1>1, <1>2, <1>3, Ranks
<1>5. Max(Range(hits)) \in Range(hits) /\ \A y \in Range(hits) : Max(Range(hits)) >= y
  BY <1>4 DEF Max
<1> QED BY <1>1, <1>3, <1>5, Ranks

\* The first of the categories that pass a test.
LEMMA FirstOfFour ==
    ASSUME NEW I \in SUBSET (1..4), I # {}
    PROVE  Min(I) \in I /\ \A j \in I : Min(I) <= j
<1>1. \E i \in I : \A j \in I : i <= j
  <2>1. CASE 1 \in I
    BY <2>1
  <2>2. CASE 1 \notin I /\ 2 \in I
    BY <2>2
  <2>3. CASE 1 \notin I /\ 2 \notin I /\ 3 \in I
    BY <2>3
  <2>4. CASE 1 \notin I /\ 2 \notin I /\ 3 \notin I
    <3>1. PICK i \in I : TRUE
      OBVIOUS
    <3>2. \A j \in I : j = 4
      <4>1. \A j \in I : j \in Int /\ 1 <= j /\ j <= 4 /\ j # 1 /\ j # 2 /\ j # 3
        BY <2>4
      <4> QED BY <4>1
    <3>3. i = 4
      BY <3>2
    <3> QED BY <3>2, <3>3
  <2> QED BY <2>1, <2>2, <2>3, <2>4
<1> QED BY <1>1 DEF Min

\* MostSensitiveWins: ties between categories go to the more sensitive one, for
\* descriptions with any number of hits.
THEOREM TiesGoToSensitive == Spec => []MostSensitiveWins
<1>1. MostSensitiveWins
  <2> SUFFICES ASSUME NEW text \in [hits : [ToSet(Priority) -> 0..MaxHits], forties : {0}, markers : {0}]
               PROVE  LET c == Classify(text) IN
                      IF c = "general" THEN Range(text.hits) = {0}
                      ELSE /\ text.hits[c] > 0
                           /\ \A d \in DOMAIN text.hits \ {c} :
                                  \/ text.hits[d] < text.hits[c]
                                  \/ text.hits[d] = text.hits[c] /\ BaseComplexity(d) < BaseComplexity(c)
    BY DEF MostSensitiveWins
  <2> DEFINE hits == text.hits
             best == Max(Range(text.hits))
             I == {i \in 1..4 : hits[Priority[i]] = best}
  <2>1. hits \in [ToSet(Priority) -> 0..MaxHits] /\ \A c \in ToSet(Priority) : hits[c] \in Nat
    BY Tier1Assumption
  <2>2. /\ \E c \in ToSet(Priority) : hits[c] = best
        /\ \A c \in ToSet(Priority) : hits[c] <= best
    BY <2>1, MostHits
  <2>3. Classify(text) = IF best = 0 THEN "general" ELSE Priority[Min(I)]
    <3>1. I # {}
      BY <2>2, Ranks
    <3>2. SelectInSeq(Priority, LAMBDA c : text.hits[c] = best) = Min(I)
      BY <3>1, Ranks DEF SelectInSeq
    <3> QED BY <3>2 DEF Classify
  <2>4. I # {} /\ Min(I) \in I /\ \A j \in I : Min(I) <= j
    <3>1. I # {} /\ I \in SUBSET (1..4)
      BY <2>2, Ranks
    <3> QED BY <3>1, FirstOfFour
  <2>5. CASE best = 0
    <3>1. \A c \in ToSet(Priority) : hits[c] = 0
      BY <2>1, <2>2, <2>5
    <3>2. Range(hits) = {0}
      BY <2>1, <2>2, <3>1 DEF Range
    <3> QED BY <2>3, <2>5, <3>2
  <2>6. CASE best # 0
    <3> DEFINE k == Min(I)
    <3>1. k \in 1..4 /\ hits[Priority[k]] = best /\ best > 0
      BY <2>1, <2>2, <2>4, <2>6
    <3>2. ASSUME NEW d \in ToSet(Priority), d # Priority[k]
          PROVE  \/ hits[d] < best
                 \/ hits[d] = best /\ BaseComplexity(d) < BaseComplexity(Priority[k])
      <4>1. PICK j \in 1..4 : d = Priority[j]
        BY Ranks
      <4>2. hits[d] = best => j \in I /\ k < j
        <5>1. hits[d] = best => j \in I
          BY <4>1
        <5>2. hits[d] = best => k <= j
          BY <2>4, <5>1
        <5>3. j # k
          BY <3>2, <4>1
        <5> HIDE DEF k, I, best, hits
        <5> QED BY <3>1, <5>1, <5>2, <5>3
      <4> HIDE DEF k
      <4>3. hits[d] = best => BaseComplexity(d) < BaseComplexity(Priority[k])
        BY <3>1, <4>1, <4>2, Ranks
      <4> QED BY <2>1, <2>2, <3>1, <4>3
    <3>3. Classify(text) = Priority[k] /\ Priority[k] # "general"
      BY <2>3, <2>6, <3>1, Ranks
    <3> HIDE DEF k, best
    <3> QED BY <2>1, <3>1, <3>2, <3>3
  <2> QED BY <2>5, <2>6
<1> QED BY <1>1, PTL

\* The score in closed form.
LEMMA ScoreIs ==
    ASSUME NEW f \in Nat, NEW m \in Nat, NEW c \in Categories
    PROVE  /\ BaseComplexity(c) \in 0..3
           /\ BaseComplexity(c) = 3 <=> c = "security_offensive"
           /\ Score([forties |-> f, markers |-> m], c) >= Threshold
                  <=> BaseComplexity(c) + (IF 4 <= f THEN 4 ELSE f) + m >= 7
<1>1. BaseComplexity(c) \in 0..3 /\ (BaseComplexity(c) = 3 <=> c = "security_offensive")
  <2>1. Categories = {"security_offensive", "audit", "security_defensive", "coding", "general"}
    BY DEF Categories, ToSet, Priority
  <2> QED BY <2>1 DEF BaseComplexity
<1>2. Min({4, f}) = (IF 4 <= f THEN 4 ELSE f) /\ Min({4, f}) \in Nat
  BY MinOfTwo
<1> DEFINE sum == BaseComplexity(c) + Min({4, f}) + m
<1>3. sum \in Nat
  BY <1>1, <1>2
<1>4. Min({10, sum}) = IF 10 <= sum THEN 10 ELSE sum
  <2> HIDE DEF sum
  <2> QED BY <1>3, MinOfTwo
<1>5. Score([forties |-> f, markers |-> m], c) = Min({10, sum})
  BY DEF Score, MaxComplexity
<1>6. Score([forties |-> f, markers |-> m], c) >= Threshold <=> sum >= 7
  <2> HIDE DEF sum
  <2> QED BY <1>3, <1>4, <1>5 DEF Threshold
<1> QED BY <1>1, <1>2, <1>6

\* EscalationIsEarned: what is added to a description in its category never takes
\* an escalation back, and length alone escalates only an offensive task.
THEOREM EscalationMonotone == Spec => []EscalationIsEarned
<1>1. EscalationIsEarned
  <2> DEFINE Reaches(c, f, m) == Score([forties |-> f, markers |-> m], c) >= Threshold
  <2>1. ASSUME NEW c \in Categories, NEW f1 \in 0..MaxForties, NEW f2 \in 0..MaxForties,
               NEW m1 \in 0..MaxMarkers, NEW m2 \in 0..MaxMarkers, Reaches(c, f1, m1)
        PROVE  /\ f1 <= f2 /\ m1 <= m2 => Reaches(c, f2, m2)
               /\ m1 = 0 => c = "security_offensive"
    <3>1. f1 \in Nat /\ f2 \in Nat /\ m1 \in Nat /\ m2 \in Nat
      BY Tier1Assumption
    <3> QED BY <2>1, <3>1, ScoreIs
  <2> QED BY <2>1 DEF EscalationIsEarned
<1> QED BY <1>1, PTL
=============================================================================
