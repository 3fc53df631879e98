----------------------------- MODULE FeedProofs -----------------------------
(***************************************************************************)
(* What the message bus and the dashboard's feed guarantee for any number  *)
(* of subscriptions and topics, any bound on the queues and any counter.   *)
(***************************************************************************)
EXTENDS Feed, SequenceTheorems, TLAPS

\* A consumer is there from the subscription on; a registered subscription is
\* open and its consumer still at it.
Lives ==
    /\ \A s \in registered : s \notin closed /\ pump[s] \in {"waiting", "sending"}
    /\ \A s \in closed : pump[s] # "new"
    /\ evicted \subseteq closed

\* The sentinel is the last thing in the queue of a closed subscription.
SentinelLast ==
    /\ \A s \in Subs : \A i \in DOMAIN queue[s] :
          queue[s][i] = Closed => i = Len(queue[s]) /\ s \in closed
    /\ \A s \in closed : pump[s] # "ended" => queue[s] # <<>> /\ queue[s][Len(queue[s])] = Closed

\* What was taken and what waits, one behind the other, in the order it was
\* published, and part of what was due.
Ordered(s) ==
    /\ \A i, j \in DOMAIN taken[s] : i < j => taken[s][i] < taken[s][j]
    /\ \A i, j \in DOMAIN queue[s] : i < j /\ queue[s][j] # Closed => queue[s][i] < queue[s][j]
    /\ \A i \in DOMAIN taken[s], j \in DOMAIN queue[s] :
          queue[s][j] # Closed => taken[s][i] < queue[s][j]
    /\ \A i \in DOMAIN taken[s] : taken[s][i] <= published /\ taken[s][i] \in ToSet(due[s])
    /\ \A i \in DOMAIN queue[s] : queue[s][i] # Closed =>
          queue[s][i] <= published /\ queue[s][i] \in ToSet(due[s])

Marked(s) == queue[s] # <<>> /\ queue[s][Len(queue[s])] = Closed
Behind(s) == IF Marked(s) THEN 1 ELSE 0
Evicted(s) == IF s \in evicted THEN 1 ELSE 0

\* What was due was taken, waits, was dropped, or made room for the sentinel.
Counted(s) ==
    Len(due[s]) + Behind(s) = Len(taken[s]) + Len(queue[s]) + dropped[s] + Evicted(s)

BusInv ==
    /\ TypeOK
    /\ Lives
    /\ SentinelLast
    /\ \A s \in Subs : Ordered(s)
    /\ \A s \in Subs : Counted(s)
-----------------------------------------------------------------------------
(* What a step does to the queue of one subscription                       *)

\* Nothing, or only a message of another topic was published.
Spared(s) ==
    /\ UNCHANGED <<queue[s], taken[s], due[s], dropped[s]>>
    /\ s \in evicted' <=> s \in evicted
    /\ s \in closed' <=> s \in closed

\* A message due to it, which is queued or dropped.
Due(s, m) ==
    /\ s \in registered
    /\ m = published + 1 /\ published' = m
    /\ due'[s] = Append(due[s], m)
    /\ UNCHANGED <<taken[s], registered, closed, evicted>>

Received(s, m) == Due(s, m) /\ ~Full(s) /\ queue'[s] = Append(queue[s], m) /\ dropped'[s] = dropped[s]
Dropped(s, m) == Due(s, m) /\ Full(s) /\ queue'[s] = queue[s] /\ dropped'[s] = dropped[s] + 1

\* Its consumer takes what is first.
Taken(s) ==
    /\ queue[s] # <<>> /\ queue'[s] = Tail(queue[s])
    /\ IF Head(queue[s]) = Closed THEN taken'[s] = taken[s] /\ pump'[s] = "ended"
                                  ELSE taken'[s] = Append(taken[s], Head(queue[s]))
    /\ UNCHANGED <<due[s], dropped[s], registered, closed, evicted>>

\* It is closed.
ClosedNow(s) ==
    /\ s \notin closed /\ s \in closed'
    /\ queue'[s] = WithSentinel(s)
    /\ s \in evicted' <=> Full(s)
    /\ UNCHANGED <<taken[s], due[s], dropped[s]>>

Moved(s) == Spared(s) \/ Taken(s) \/ ClosedNow(s) \/ \E m \in Messages : Received(s, m) \/ Dropped(s, m)

LEMMA Moves ==
    ASSUME BusInv, [Next]_vars, NEW s \in Subs
    PROVE  Moved(s) /\ published <= published' /\ published' \in 0..MaxMessages
<1> USE ConstantsAssumption
<1>0. TypeOK /\ Lives
  BY DEF BusInv
<1>1. ASSUME NEW u \in Subs, Subscribe(u) \/ Sent(u) PROVE Spared(s) /\ published' = published
  BY <1>1 DEF Subscribe, Sent, Spared
<1>2. ASSUME NEW u \in Subs, Take(u) \/ TakeClosed(u) PROVE (Spared(s) \/ Taken(s)) /\ published' = published
  <2>1. published' = published
    BY <1>2 DEF Take, TakeClosed
  <2>2. CASE s = u
    <3>1. Taken(s)
      BY <1>0, <1>2, <2>2 DEF Take, TakeClosed, Taken, TypeOK
    <3> QED BY <2>1, <3>1
  <2>3. CASE s # u
    <3>1. Spared(s)
      BY <1>0, <1>2, <2>3 DEF Take, TakeClosed, Spared, TypeOK
    <3> QED BY <2>1, <3>1
  <2> QED BY <2>2, <2>3
<1>3. ASSUME NEW ss \in SUBSET Subs, CloseAll(ss), UNCHANGED <<taken, due, dropped>>
      PROVE  Spared(s) \/ ClosedNow(s)
  <2>1. CASE s \in ss \ closed
    <3>1. ClosedNow(s)
      BY <1>0, <1>3, <2>1 DEF CloseAll, ClosedNow, Lives
    <3> QED BY <3>1
  <2>2. CASE s \notin ss \ closed
    <3>1. Spared(s)
      BY <1>0, <1>3, <2>2 DEF CloseAll, Spared, TypeOK
    <3> QED BY <3>1
  <2> QED BY <2>1, <2>2
<1>4. ASSUME NEW topic \in Topics \cup {Wildcard}, Publish(topic)
      PROVE  Moved(s) /\ published' = published + 1 /\ published < MaxMessages
  <2> DEFINE m == published + 1
             target == s \in registered /\ TopicOf[s] \in {topic, Wildcard}
  <2>1. published' = m /\ published < MaxMessages /\ m \in Messages
    BY <1>0, <1>4 DEF Publish, Messages, TypeOK
  <2>2. /\ queue'[s] = IF target /\ ~Full(s) THEN Append(queue[s], m) ELSE queue[s]
        /\ dropped'[s] = IF target /\ Full(s) THEN dropped[s] + 1 ELSE dropped[s]
        /\ due'[s] = IF target THEN Append(due[s], m) ELSE due[s]
        /\ UNCHANGED <<registered, closed, taken, evicted>>
    BY <1>4 DEF Publish, Offer, Targets
  <2> HIDE DEF m
  <2>3. CASE ~target
    <3>1. Spared(s)
      BY <2>2, <2>3 DEF Spared
    <3> QED BY <2>1, <3>1 DEF Moved, m
  <2>4. CASE target /\ ~Full(s)
    <3>1. Received(s, m)
      BY <2>1, <2>2, <2>4 DEF Received, Due, m
    <3> QED BY <2>1, <3>1 DEF Moved, m
  <2>5. CASE target /\ Full(s)
    <3>1. Dropped(s, m)
      BY <2>1, <2>2, <2>5 DEF Dropped, Due, m
    <3> QED BY <2>1, <3>1 DEF Moved, m
  <2> QED BY <2>3, <2>4, <2>5
<1>5. ASSUME NEW u \in Subs, Quit(u) PROVE (Spared(s) \/ ClosedNow(s)) /\ published' = published
  BY <1>3, <1>5 DEF Quit
<1>6. CASE CloseBus
  BY <1>0, <1>3, <1>6 DEF CloseBus, Moved, TypeOK
<1>7. CASE UNCHANGED vars
  BY <1>0, <1>7 DEF vars, Spared, Moved, TypeOK
<1>8. published \in Nat /\ MaxMessages \in Nat /\ published <= MaxMessages
  BY <1>0 DEF TypeOK
<1> QED BY <1>1, <1>2, <1>4, <1>5, <1>6, <1>7, <1>8 DEF Next, Pump, Moved
-----------------------------------------------------------------------------
(* The bus                                                                 *)

LEMMA InitBus == Init => BusInv
<1> SUFFICES ASSUME Init PROVE BusInv
  OBVIOUS
<1> USE ConstantsAssumption DEF Init
<1>1. TypeOK
  BY DEF TypeOK, Messages
<1>2. \A s \in Subs : DOMAIN queue[s] = {} /\ DOMAIN taken[s] = {}
  OBVIOUS
<1>3. Lives /\ SentinelLast
  BY <1>2 DEF Lives, SentinelLast
<1>4. ASSUME NEW s \in Subs PROVE Ordered(s) /\ Counted(s)
  BY <1>2 DEF Ordered, Counted, Marked, Behind, Evicted
<1> QED BY <1>1, <1>3, <1>4 DEF BusInv

\* The queue of one subscription stays in its bound.
LEMMA QueueTyped ==
    ASSUME BusInv, NEW s \in Subs, Moved(s)
    PROVE  /\ queue'[s] \in Seq(Messages \cup {Closed}) /\ Len(queue'[s]) <= MaxQueue
           /\ taken'[s] \in Seq(Messages) /\ due'[s] \in Seq(Messages)
           /\ dropped'[s] \in Nat
<1> USE ConstantsAssumption
<1>0. /\ queue[s] \in Seq(Messages \cup {Closed}) /\ Len(queue[s]) <= MaxQueue
      /\ taken[s] \in Seq(Messages) /\ due[s] \in Seq(Messages)
      /\ dropped[s] \in Nat /\ Len(queue[s]) \in Nat
  BY DEF BusInv, TypeOK
<1>1. CASE Spared(s)
  BY <1>0, <1>1 DEF Spared
<1>2. CASE Taken(s)
  <2>1. /\ Tail(queue[s]) \in Seq(Messages \cup {Closed}) /\ Len(Tail(queue[s])) = Len(queue[s]) - 1
        /\ Head(queue[s]) \in Messages \cup {Closed}
    BY <1>0, <1>2, HeadTailProperties DEF Taken
  <2>2. taken'[s] \in Seq(Messages)
    <3>1. CASE Head(queue[s]) = Closed
      BY <1>0, <1>2, <3>1 DEF Taken
    <3>2. CASE Head(queue[s]) # Closed
      <4>1. taken'[s] = Append(taken[s], Head(queue[s])) /\ Head(queue[s]) \in Messages
        BY <1>2, <2>1, <3>2 DEF Taken
      <4> QED BY <1>0, <4>1, AppendProperties
    <3> QED BY <3>1, <3>2
  <2> QED BY <1>0, <1>2, <2>1, <2>2 DEF Taken
<1>3. CASE ClosedNow(s)
  <2>1. CASE Full(s)
    <3>1. queue[s] # <<>>
      BY <1>0, <2>1 DEF Full
    <3>2. Tail(queue[s]) \in Seq(Messages \cup {Closed}) /\ Len(Tail(queue[s])) = Len(queue[s]) - 1
      BY <1>0, <3>1, HeadTailProperties
    <3>3. queue'[s] = Append(Tail(queue[s]), Closed)
      BY <1>3, <2>1 DEF ClosedNow, WithSentinel
    <3> QED BY <1>0, <1>3, <3>2, <3>3, AppendProperties DEF ClosedNow
  <2>2. CASE ~Full(s)
    <3>1. queue'[s] = Append(queue[s], Closed)
      BY <1>3, <2>2 DEF ClosedNow, WithSentinel
    <3> QED BY <1>0, <1>3, <2>2, <3>1, AppendProperties DEF ClosedNow, Full
  <2> QED BY <2>1, <2>2
<1>4. ASSUME NEW m \in Messages, Received(s, m) \/ Dropped(s, m)
      PROVE  /\ queue'[s] \in Seq(Messages \cup {Closed}) /\ Len(queue'[s]) <= MaxQueue
             /\ taken'[s] \in Seq(Messages) /\ due'[s] \in Seq(Messages)
             /\ dropped'[s] \in Nat
  <2>1. due'[s] \in Seq(Messages) /\ taken'[s] = taken[s]
    <3>1. due'[s] = Append(due[s], m) /\ taken'[s] = taken[s]
      BY <1>4 DEF Received, Dropped, Due
    <3> QED BY <1>0, <3>1, AppendProperties
  <2>2. CASE Received(s, m)
    BY <1>0, <2>1, <2>2, AppendProperties DEF Received, Full
  <2>3. CASE Dropped(s, m)
    BY <1>0, <2>1, <2>3 DEF Dropped
  <2> QED BY <1>4, <2>2, <2>3
<1> QED BY <1>1, <1>2, <1>3, <1>4 DEF Moved

LEMMA TypesStep ==
    ASSUME BusInv, [Next]_vars
    PROVE  TypeOK'
<1>0. TypeOK /\ \A s \in Subs : Moved(s)
  BY Moves DEF BusInv
<1> DEFINE Shaped ==
         /\ queue' = [s \in Subs |-> queue'[s]] /\ dropped' = [s \in Subs |-> dropped'[s]]
         /\ due' = [s \in Subs |-> due'[s]] /\ taken' = [s \in Subs |-> taken'[s]]
         /\ pump' \in [Subs -> {"new", "waiting", "sending", "ended"}]
         /\ registered' \subseteq Subs /\ closed' \subseteq Subs /\ evicted' \subseteq Subs
         /\ published' \in 0..MaxMessages
<1>1. Shaped
  <2> USE <1>0, ConstantsAssumption DEF TypeOK
  <2>1. ASSUME NEW u \in Subs, Subscribe(u) \/ Pump(u) \/ Quit(u) PROVE Shaped
    <3>1. CASE Subscribe(u)
      BY <3>1 DEF Subscribe
    <3>2. CASE Take(u) \/ Sent(u)
      BY <3>2 DEF Take, Sent
    <3>3. CASE TakeClosed(u) \/ Quit(u)
      BY <3>3, ZenonT(60) DEF TakeClosed, Quit, CloseAll
    <3> QED BY <2>1, <3>1, <3>2, <3>3 DEF Pump
  <2>2. ASSUME NEW topic, Publish(topic) PROVE Shaped
    BY <2>2 DEF Publish, Offer
  <2>3. CASE CloseBus
    BY <2>3 DEF CloseBus, CloseAll
  <2>4. CASE UNCHANGED vars
    BY <2>4 DEF vars
  <2> QED BY <2>1, <2>2, <2>3, <2>4 DEF Next
<1> QED BY <1>0, <1>1, QueueTyped DEF TypeOK

LEMMA LivesStep ==
    ASSUME BusInv, [Next]_vars
    PROVE  Lives'
<1>0. TypeOK /\ Lives /\ SentinelLast
  BY DEF BusInv
<1> USE <1>0 DEF TypeOK, Lives
<1>1. ASSUME NEW u \in Subs, Subscribe(u) \/ Take(u) \/ Sent(u) PROVE Lives'
  BY <1>1 DEF Subscribe, Take, Sent
<1>2. ASSUME NEW u \in Subs, TakeClosed(u) PROVE Lives'
  <2>1. u \in closed
    <3>1. 1 \in DOMAIN queue[u] /\ queue[u][1] = Closed
      BY <1>2 DEF TakeClosed
    <3> QED BY <3>1 DEF SentinelLast
  <2> QED BY <1>2, <2>1 DEF TakeClosed
<1>3. ASSUME NEW u \in Subs, Quit(u) PROVE Lives'
  BY <1>3 DEF Quit, CloseAll
<1>4. ASSUME NEW topic, Publish(topic) PROVE Lives'
  BY <1>4 DEF Publish
<1>5. CASE CloseBus
  BY <1>5 DEF CloseBus, CloseAll
<1>6. CASE UNCHANGED vars
  BY <1>6 DEF vars
<1> QED BY <1>1, <1>2, <1>3, <1>4, <1>5, <1>6 DEF Next, Pump

\* A consumer that has ended does not come back.
LEMMA EndedStays ==
    ASSUME TypeOK, [Next]_vars, NEW s \in Subs, pump[s] = "ended"
    PROVE  pump'[s] = "ended"
  BY DEF TypeOK, Next, vars, Subscribe, Pump, Take, TakeClosed, Sent, Quit, Publish, CloseBus

\* What WithSentinel makes of a queue: the sentinel behind all but, perhaps, the
\* first of what was there.
LEMMA SentinelBehind ==
    ASSUME NEW s \in Subs, queue[s] \in Seq(Messages \cup {Closed})
    PROVE  /\ WithSentinel(s) \in Seq(Messages \cup {Closed})
           /\ Len(WithSentinel(s)) = IF Full(s) THEN Len(queue[s]) ELSE Len(queue[s]) + 1
           /\ WithSentinel(s) # <<>>
           /\ WithSentinel(s)[Len(WithSentinel(s))] = Closed
           /\ \A i \in 1..(Len(WithSentinel(s)) - 1) :
                 WithSentinel(s)[i] = queue[s][IF Full(s) THEN i + 1 ELSE i]
<1> USE ConstantsAssumption
<1>0. Len(queue[s]) \in Nat
  OBVIOUS
<1>1. CASE Full(s)
  <2>1. queue[s] # <<>>
    BY <1>0, <1>1 DEF Full
  <2>2. /\ Tail(queue[s]) \in Seq(Messages \cup {Closed})
        /\ Len(Tail(queue[s])) = Len(queue[s]) - 1
        /\ \A i \in 1..Len(Tail(queue[s])) : Tail(queue[s])[i] = queue[s][i + 1]
    BY <2>1, HeadTailProperties
  <2>3. WithSentinel(s) = Append(Tail(queue[s]), Closed)
    BY <1>1 DEF WithSentinel
  <2> QED BY <1>0, <1>1, <2>2, <2>3, AppendProperties
<1>2. CASE ~Full(s)
  <2>1. WithSentinel(s) = Append(queue[s], Closed)
    BY <1>2 DEF WithSentinel
  <2> QED BY <1>0, <1>2, <2>1, AppendProperties
<1> QED BY <1>1, <1>2

LEMMA SentinelStep ==
    ASSUME BusInv, [Next]_vars
    PROVE  SentinelLast'
<1> USE ConstantsAssumption
<1> SUFFICES ASSUME NEW s \in Subs
             PROVE  /\ \A i \in DOMAIN queue'[s] :
                          queue'[s][i] = Closed => i = Len(queue'[s]) /\ s \in closed'
                    /\ s \in closed' /\ pump'[s] # "ended" =>
                          queue'[s] # <<>> /\ queue'[s][Len(queue'[s])] = Closed
  <2>1. closed' \subseteq Subs
    BY TypesStep DEF TypeOK
  <2> QED BY <2>1 DEF SentinelLast
<1> DEFINE Fine == /\ \A i \in DOMAIN queue'[s] :
                          queue'[s][i] = Closed => i = Len(queue'[s]) /\ s \in closed'
                   /\ s \in closed' /\ pump'[s] # "ended" =>
                          queue'[s] # <<>> /\ queue'[s][Len(queue'[s])] = Closed
<1>0. /\ Moved(s)
      /\ pump'[s] # "ended" => pump[s] # "ended"
      /\ queue[s] \in Seq(Messages \cup {Closed}) /\ DOMAIN queue[s] = 1..Len(queue[s])
      /\ Len(queue[s]) \in Nat
      /\ \A i \in DOMAIN queue[s] : queue[s][i] = Closed => i = Len(queue[s]) /\ s \in closed
      /\ s \in closed /\ pump[s] # "ended" => queue[s] # <<>> /\ queue[s][Len(queue[s])] = Closed
      /\ s \in registered => s \notin closed
  <2>1. pump[s] = "ended" => pump'[s] = "ended"
    BY EndedStays DEF BusInv
  <2>2. queue[s] \in Seq(Messages \cup {Closed})
    BY DEF BusInv, TypeOK
  <2> QED BY <2>1, <2>2, Moves DEF BusInv, SentinelLast, Lives
<1>1. CASE Spared(s)
  BY <1>0, <1>1 DEF Spared
<1>2. CASE Taken(s)
  <2>1. /\ queue'[s] \in Seq(Messages \cup {Closed}) /\ Len(queue'[s]) = Len(queue[s]) - 1
        /\ \A i \in 1..Len(queue'[s]) : queue'[s][i] = queue[s][i + 1]
        /\ DOMAIN queue'[s] = 1..Len(queue'[s]) /\ Len(queue'[s]) \in Nat
    BY <1>0, <1>2, HeadTailProperties DEF Taken
  <2>2. closed' = closed /\ queue[s] # <<>> /\ Head(queue[s]) = queue[s][1]
    BY <1>0, <1>2 DEF Taken
  <2>3. \A i \in DOMAIN queue'[s] : queue'[s][i] = Closed => i = Len(queue'[s]) /\ s \in closed'
    <3> SUFFICES ASSUME NEW i \in 1..Len(queue'[s]), queue'[s][i] = Closed
                 PROVE  i = Len(queue'[s]) /\ s \in closed'
      BY <2>1
    <3>1. i + 1 \in DOMAIN queue[s] /\ queue[s][i + 1] = Closed
      BY <1>0, <2>1
    <3>2. i + 1 = Len(queue[s]) /\ s \in closed
      BY <1>0, <3>1
    <3> QED BY <1>0, <2>1, <2>2, <3>2
  <2>4. ASSUME s \in closed', pump'[s] # "ended"
        PROVE  queue'[s] # <<>> /\ queue'[s][Len(queue'[s])] = Closed
    <3>1. queue[s][1] # Closed
      BY <1>2, <2>2, <2>4 DEF Taken
    <3>2. queue[s][Len(queue[s])] = Closed
      BY <1>0, <2>2, <2>4
    <3>3. Len(queue[s]) > 1
      BY <1>0, <2>2, <3>1, <3>2
    <3> QED BY <1>0, <2>1, <3>2, <3>3
  <2> QED BY <2>3, <2>4
<1>3. CASE ClosedNow(s)
  <2> DEFINE q == WithSentinel(s)
  <2>1. queue'[s] = q /\ s \in closed' /\ s \notin closed
    BY <1>3 DEF ClosedNow
  <2>2. /\ q \in Seq(Messages \cup {Closed}) /\ q # <<>> /\ q[Len(q)] = Closed
        /\ \A i \in 1..(Len(q) - 1) : q[i] = queue[s][IF Full(s) THEN i + 1 ELSE i]
        /\ Len(q) = IF Full(s) THEN Len(queue[s]) ELSE Len(queue[s]) + 1
    BY <1>0, SentinelBehind
  <2> HIDE DEF q
  <2>3. \A i \in 1..(Len(q) - 1) : q[i] # Closed
    BY <1>0, <2>1, <2>2, SMTT(60)
  <2> QED BY <2>1, <2>2, <2>3
<1>4. ASSUME NEW m \in Messages, Received(s, m) PROVE Fine
  <2>1. /\ queue'[s] \in Seq(Messages \cup {Closed}) /\ DOMAIN queue'[s] = 1..(Len(queue[s]) + 1)
        /\ \A i \in 1..Len(queue[s]) : queue'[s][i] = queue[s][i]
        /\ queue'[s][Len(queue[s]) + 1] = m
    BY <1>0, <1>4, AppendProperties DEF Received
  <2>2. m # Closed /\ s \notin closed /\ s \notin closed'
    BY <1>0, <1>4 DEF Messages, Received, Due
  <2>3. \A i \in 1..(Len(queue[s]) + 1) : i \in 1..Len(queue[s]) \/ i = Len(queue[s]) + 1
    BY <1>0
  <2>4. \A i \in 1..(Len(queue[s]) + 1) : queue'[s][i] # Closed
    BY <1>0, <2>1, <2>2, <2>3
  <2> QED BY <2>1, <2>2, <2>4
<1>5. ASSUME NEW m \in Messages, Dropped(s, m) PROVE Fine
  BY <1>0, <1>5 DEF Dropped, Due
<1> QED BY <1>0, <1>1, <1>2, <1>3, <1>4, <1>5 DEF Moved

\* What was due stays due.
LEMMA DueGrows ==
    ASSUME BusInv, NEW s \in Subs, Moved(s)
    PROVE  /\ ToSet(due[s]) \subseteq ToSet(due'[s])
           /\ \A m \in Messages : Received(s, m) => m \in ToSet(due'[s])
<1>0. due[s] \in Seq(Messages)
  BY DEF BusInv, TypeOK
<1>1. ASSUME NEW m \in Messages, due'[s] = Append(due[s], m)
      PROVE  ToSet(due[s]) \subseteq ToSet(due'[s]) /\ m \in ToSet(due'[s])
  <2>1. /\ DOMAIN due'[s] = 1..(Len(due[s]) + 1) /\ DOMAIN due[s] = 1..Len(due[s]) /\ Len(due[s]) \in Nat
        /\ \A i \in 1..Len(due[s]) : due'[s][i] = due[s][i]
        /\ due'[s][Len(due[s]) + 1] = m
    BY <1>0, <1>1, AppendProperties
  <2> QED BY <2>1 DEF ToSet
<1>2. due'[s] = due[s] \/ \E m \in Messages : due'[s] = Append(due[s], m)
  BY DEF Moved, Spared, Taken, ClosedNow, Received, Dropped, Due
<1> QED BY <1>1, <1>2 DEF Received, Due

LEMMA OrderedStep ==
    ASSUME BusInv, [Next]_vars, NEW s \in Subs
    PROVE  Ordered(s)'
<1> USE ConstantsAssumption
<1> DEFINE q == queue[s]
           t == taken[s]
           All == ToSet(due'[s])
<1>0. /\ q \in Seq(Messages \cup {Closed}) /\ t \in Seq(Messages)
      /\ Len(q) \in Nat /\ Len(t) \in Nat /\ DOMAIN q = 1..Len(q) /\ DOMAIN t = 1..Len(t)
      /\ published \in Nat /\ published' \in Nat /\ published <= published'
      /\ Moved(s)
      /\ queue'[s] \in Seq(Messages \cup {Closed}) /\ taken'[s] \in Seq(Messages)
      /\ s \in registered => s \notin closed
  <2>1. Moved(s) /\ published <= published' /\ published' \in Nat
    BY Moves
  <2>2. queue'[s] \in Seq(Messages \cup {Closed}) /\ taken'[s] \in Seq(Messages)
    BY <2>1, QueueTyped
  <2>3. q \in Seq(Messages \cup {Closed}) /\ t \in Seq(Messages) /\ published \in Nat
    BY DEF BusInv, TypeOK
  <2>4. s \in registered => s \notin closed
    BY DEF BusInv, Lives
  <2>5. Len(q) \in Nat /\ Len(t) \in Nat /\ DOMAIN q = 1..Len(q) /\ DOMAIN t = 1..Len(t)
    BY <2>3
  <2> QED BY <2>1, <2>2, <2>3, <2>4, <2>5
<1>1. /\ \A i, j \in DOMAIN t : i < j => t[i] < t[j]
      /\ \A i, j \in DOMAIN q : i < j /\ q[j] # Closed => q[i] < q[j]
      /\ \A i \in DOMAIN t, j \in DOMAIN q : q[j] # Closed => t[i] < q[j]
      /\ \A i \in DOMAIN t : t[i] <= published /\ t[i] <= published' /\ t[i] \in All
      /\ \A i \in DOMAIN q : q[i] # Closed => q[i] <= published /\ q[i] <= published' /\ q[i] \in All
      /\ \A i \in DOMAIN q : q[i] = Closed => i = Len(q) /\ s \in closed
      /\ \A i \in DOMAIN t : t[i] \in Nat
      /\ \A i \in DOMAIN q : q[i] # Closed => q[i] \in Nat
  <2>1. ToSet(due[s]) \subseteq All
    BY <1>0, DueGrows
  <2>2. Ordered(s) /\ SentinelLast
    BY DEF BusInv
  <2>3. /\ \A i \in DOMAIN t : t[i] \in Nat
        /\ \A i \in DOMAIN q : q[i] # Closed => q[i] \in Nat
    <3>1. Messages \subseteq Nat
      BY DEF Messages
    <3>2. (\A i \in DOMAIN t : t[i] \in Messages) /\ \A i \in DOMAIN q : q[i] \in Messages \cup {Closed}
      BY <1>0
    <3> HIDE DEF q, t
    <3> QED BY <3>1, <3>2
  <2>4. /\ \A i \in DOMAIN t : t[i] <= published /\ t[i] <= published' /\ t[i] \in All
        /\ \A i \in DOMAIN q : q[i] # Closed => q[i] <= published /\ q[i] <= published' /\ q[i] \in All
    BY <1>0, <2>1, <2>2, <2>3 DEF Ordered
  <2> QED BY <2>2, <2>3, <2>4 DEF Ordered, SentinelLast
<1>2. CASE Spared(s)
  <2>1. queue'[s] = q /\ taken'[s] = t
    BY <1>2 DEF Spared
  <2> HIDE DEF q, t
  <2> QED BY <1>1, <2>1 DEF Ordered
<1>3. ASSUME NEW m \in Messages, Dropped(s, m) PROVE Ordered(s)'
  <2>1. queue'[s] = q /\ taken'[s] = t
    BY <1>3 DEF Dropped, Due
  <2> HIDE DEF q, t
  <2> QED BY <1>1, <2>1 DEF Ordered
<1>4. ASSUME NEW m \in Messages, Received(s, m) PROVE Ordered(s)'
  <2>1. queue'[s] = Append(q, m) /\ taken'[s] = t /\ m = published' /\ m = published + 1
    BY <1>4 DEF Received, Due
  <2>2. \A i \in DOMAIN q : q[i] # Closed
    BY <1>0, <1>1, <1>4 DEF Received, Due
  <2>3. m \in All
    BY <1>0, <1>4, DueGrows
  <2> HIDE DEF q, t, All
  <2>4. /\ DOMAIN queue'[s] = 1..(Len(q) + 1)
        /\ \A i \in 1..Len(q) : queue'[s][i] = q[i]
        /\ queue'[s][Len(q) + 1] = m
    BY <1>0, <2>1, AppendProperties
  <2>5. \A i, j \in DOMAIN queue'[s] : i < j => queue'[s][i] < queue'[s][j]
    BY <1>0, <1>1, <2>1, <2>2, <2>4
  <2>6. \A i \in DOMAIN taken'[s], j \in DOMAIN queue'[s] : taken'[s][i] < queue'[s][j]
    BY <1>0, <1>1, <2>1, <2>2, <2>4
  <2>7. \A i \in DOMAIN queue'[s] : queue'[s][i] <= published' /\ queue'[s][i] \in All
    BY <1>0, <1>1, <2>1, <2>2, <2>3, <2>4
  <2> QED BY <1>1, <2>1, <2>5, <2>6, <2>7 DEF Ordered, All
<1>5. CASE Taken(s)
  <2>1. /\ q # <<>> /\ queue'[s] = Tail(q) /\ 1 \in DOMAIN q
        /\ IF q[1] = Closed THEN taken'[s] = t ELSE taken'[s] = Append(t, q[1])
    BY <1>0, <1>5 DEF Taken
  <2>2. q[1] # Closed => q[1] \in Messages
    BY <1>0, <2>1
  <2> HIDE DEF q, t, All
  <2>3. /\ DOMAIN queue'[s] = 1..(Len(q) - 1)
        /\ \A i \in 1..(Len(q) - 1) : queue'[s][i] = q[i + 1] /\ i + 1 \in DOMAIN q
    BY <1>0, <2>1, HeadTailProperties
  <2>4. \A i \in DOMAIN queue'[s], j \in DOMAIN queue'[s] :
           i < j /\ queue'[s][j] # Closed => queue'[s][i] < queue'[s][j]
    <3> SUFFICES ASSUME NEW i \in 1..(Len(q) - 1), NEW j \in 1..(Len(q) - 1), i < j, queue'[s][j] # Closed
                 PROVE  queue'[s][i] < queue'[s][j]
      BY <2>3
    <3>1. i + 1 \in DOMAIN q /\ j + 1 \in DOMAIN q /\ i + 1 < j + 1 /\ q[j + 1] # Closed
      BY <2>3
    <3> QED BY <1>1, <2>3, <3>1
  <2>5. \A i \in DOMAIN queue'[s] : queue'[s][i] # Closed =>
           queue'[s][i] <= published' /\ queue'[s][i] \in All
    BY <1>1, <2>3
  <2>6. CASE q[1] = Closed
    <3>1. taken'[s] = t
      BY <2>1, <2>6
    <3>2. \A i \in DOMAIN taken'[s], j \in DOMAIN queue'[s] :
             queue'[s][j] # Closed => taken'[s][i] < queue'[s][j]
      BY <1>1, <2>3, <3>1
    <3> QED BY <1>1, <2>4, <2>5, <3>1, <3>2 DEF Ordered, All
  <2>7. CASE q[1] # Closed
    <3>1. /\ DOMAIN taken'[s] = 1..(Len(t) + 1)
          /\ \A i \in 1..Len(t) : taken'[s][i] = t[i]
          /\ taken'[s][Len(t) + 1] = q[1]
      BY <1>0, <2>1, <2>2, <2>7, AppendProperties
    <3>5. \A i \in DOMAIN taken'[s] : i \in 1..Len(t) \/ i = Len(t) + 1
      BY <1>0, <3>1
    <3>6. \A i \in 1..Len(t) : taken'[s][i] < q[1]
      BY <1>0, <1>1, <2>1, <2>7, <3>1
    <3>2. \A i, j \in DOMAIN taken'[s] : i < j => taken'[s][i] < taken'[s][j]
      <4> SUFFICES ASSUME NEW i \in DOMAIN taken'[s], NEW j \in DOMAIN taken'[s], i < j
                   PROVE  taken'[s][i] < taken'[s][j]
        OBVIOUS
      <4>1. i \in 1..Len(t)
        BY <1>0, <3>1
      <4>2. CASE j \in 1..Len(t)
        BY <1>0, <1>1, <3>1, <4>1, <4>2
      <4>3. CASE j = Len(t) + 1
        BY <3>1, <3>6, <4>1, <4>3
      <4> QED BY <3>5, <4>2, <4>3
    <3>7. \A j \in DOMAIN queue'[s] : queue'[s][j] # Closed => q[1] < queue'[s][j]
      <4> SUFFICES ASSUME NEW j \in 1..(Len(q) - 1), queue'[s][j] # Closed
                   PROVE  q[1] < queue'[s][j]
        BY <2>3
      <4>1. j + 1 \in DOMAIN q /\ 1 < j + 1 /\ q[j + 1] # Closed
        BY <1>0, <2>3
      <4> QED BY <1>1, <2>1, <2>3, <4>1
    <3>8. \A i \in 1..Len(t), j \in DOMAIN queue'[s] : queue'[s][j] # Closed => t[i] < queue'[s][j]
      <4> SUFFICES ASSUME NEW i \in 1..Len(t), NEW j \in 1..(Len(q) - 1), queue'[s][j] # Closed
                   PROVE  t[i] < queue'[s][j]
        BY <2>3
      <4>1. j + 1 \in DOMAIN q /\ q[j + 1] = queue'[s][j]
        BY <1>0, <2>3
      <4>2. i \in DOMAIN t
        BY <1>0
      <4> QED BY <1>1, <4>1, <4>2
    <3>3. \A i \in DOMAIN taken'[s], j \in DOMAIN queue'[s] :
             queue'[s][j] # Closed => taken'[s][i] < queue'[s][j]
      BY <3>1, <3>5, <3>7, <3>8
    <3>4. \A i \in DOMAIN taken'[s] : taken'[s][i] <= published' /\ taken'[s][i] \in All
      BY <1>0, <1>1, <2>1, <2>7, <3>1, SMTT(60)
    <3> QED BY <2>4, <2>5, <3>2, <3>3, <3>4 DEF Ordered, All
  <2> QED BY <2>6, <2>7
<1>6. CASE ClosedNow(s)
  <2> DEFINE r == WithSentinel(s)
  <2>1. queue'[s] = r /\ taken'[s] = t /\ s \notin closed
    BY <1>6 DEF ClosedNow
  <2>2. /\ r \in Seq(Messages \cup {Closed}) /\ r # <<>> /\ r[Len(r)] = Closed
        /\ \A i \in 1..(Len(r) - 1) : r[i] = q[IF Full(s) THEN i + 1 ELSE i]
        /\ Len(r) = IF Full(s) THEN Len(q) ELSE Len(q) + 1
    BY <1>0, SentinelBehind
  <2>3. PICK k \in {0, 1} :
           /\ Len(r) = Len(q) + 1 - k
           /\ \A i \in 1..(Len(r) - 1) : r[i] = q[i + k] /\ i + k \in DOMAIN q
    <3>1. CASE Full(s)
      BY <1>0, <2>2, <3>1
    <3>2. CASE ~Full(s)
      BY <1>0, <2>2, <3>2
    <3> QED BY <3>1, <3>2
  <2> HIDE DEF r, q, t, All
  <2>4. /\ DOMAIN r = 1..Len(r) /\ Len(r) \in Nat
        /\ \A i \in DOMAIN r : r[i] # Closed => i \in 1..(Len(r) - 1)
    BY <2>2
  <2>5. \A i, j \in DOMAIN r : i < j /\ r[j] # Closed => r[i] < r[j]
    <3> SUFFICES ASSUME NEW i \in DOMAIN r, NEW j \in DOMAIN r, i < j, r[j] # Closed
                 PROVE  r[i] < r[j]
      OBVIOUS
    <3>1. j \in 1..(Len(r) - 1) /\ i \in 1..(Len(r) - 1)
      BY <2>4
    <3>2. r[i] = q[i + k] /\ i + k \in DOMAIN q /\ r[j] = q[j + k] /\ j + k \in DOMAIN q
      BY <2>3, <3>1
    <3>3. i + k < j + k
      BY <3>1
    <3> QED BY <1>1, <3>2, <3>3
  <2>6. \A i \in DOMAIN t, j \in DOMAIN r : r[j] # Closed => t[i] < r[j]
    BY <1>0, <1>1, <2>1, <2>3, <2>4
  <2>7. \A i \in DOMAIN r : r[i] # Closed => r[i] <= published' /\ r[i] \in All
    BY <1>0, <1>1, <2>1, <2>3, <2>4
  <2> QED BY <1>1, <2>1, <2>5, <2>6, <2>7 DEF Ordered, All
<1> QED BY <1>0, <1>2, <1>3, <1>4, <1>5, <1>6 DEF Moved

LEMMA CountedStep ==
    ASSUME BusInv, [Next]_vars, NEW s \in Subs
    PROVE  Counted(s)'
<1> DEFINE q == queue[s]
<1>0. /\ Moved(s) /\ Counted(s)
      /\ q \in Seq(Messages \cup {Closed}) /\ taken[s] \in Seq(Messages) /\ due[s] \in Seq(Messages)
      /\ Len(q) \in Nat /\ Len(taken[s]) \in Nat /\ Len(due[s]) \in Nat /\ dropped[s] \in Nat
      /\ DOMAIN q = 1..Len(q)
      /\ \A i \in DOMAIN q : q[i] = Closed => i = Len(q) /\ s \in closed
      /\ s \in registered => s \notin closed
      /\ s \in evicted => s \in closed
  <2>1. Moved(s)
    BY Moves
  <2> QED BY <2>1 DEF BusInv, TypeOK, SentinelLast, Lives
<1>1. s \notin closed => ~Marked(s)
  BY <1>0 DEF Marked
<1>7. Behind(s) \in {0, 1} /\ Evicted(s) \in {0, 1}
  BY DEF Behind, Evicted
<1> DEFINE nd == Len(due[s])  nt == Len(taken[s])  nq == Len(q)
           nx == dropped[s]   nb == Behind(s)      ne == Evicted(s)
           nd1 == nd'  nt1 == nt'  nq1 == nq'  nx1 == nx'  nb1 == nb'  ne1 == ne'
<1>8. /\ nd + nb = nt + nq + nx + ne
      /\ nd \in Nat /\ nt \in Nat /\ nq \in Nat /\ nx \in Nat /\ nb \in Nat /\ ne \in Nat
  <2>1. nd + nb = nt + nq + nx + ne
    BY <1>0 DEF Counted
  <2>2. nb \in Nat /\ ne \in Nat
    BY <1>7
  <2> QED BY <1>0, <2>1, <2>2
<1>9. nd1 + nb1 = nt1 + nq1 + nx1 + ne1 => Counted(s)'
  BY DEF Counted
<1>2. CASE Spared(s)
  BY <1>0, <1>2 DEF Spared, Counted, Marked, Behind, Evicted
<1>3. ASSUME NEW m \in Messages, Dropped(s, m) PROVE Counted(s)'
  <2>1. /\ due'[s] = Append(due[s], m) /\ dropped'[s] = dropped[s] + 1
        /\ UNCHANGED <<queue[s], taken[s], evicted>>
    BY <1>3 DEF Dropped, Due
  <2>2. Len(due'[s]) = Len(due[s]) + 1
    BY <1>0, <2>1, AppendProperties
  <2>3. Behind(s)' = Behind(s) /\ Evicted(s)' = Evicted(s)
    BY <2>1 DEF Behind, Evicted, Marked
  <2>4. Len(taken'[s]) = Len(taken[s]) /\ Len(queue'[s]) = Len(q) /\ dropped'[s] = dropped[s] + 1
    BY <2>1
  <2>10. nd1 = nd + 1 /\ nt1 = nt /\ nq1 = nq /\ nx1 = nx + 1 /\ nb1 = nb /\ ne1 = ne
    BY <2>2, <2>3, <2>4
  <2> HIDE DEF nd, nt, nq, nx, nb, ne, nd1, nt1, nq1, nx1, nb1, ne1
  <2> QED BY <1>8, <1>9, <2>10
<1>4. ASSUME NEW m \in Messages, Received(s, m) PROVE Counted(s)'
  <2>1. /\ due'[s] = Append(due[s], m) /\ queue'[s] = Append(q, m)
        /\ UNCHANGED <<dropped[s], taken[s], evicted>>
        /\ s \notin closed
    BY <1>0, <1>4 DEF Received, Due
  <2>2. Len(due'[s]) = Len(due[s]) + 1 /\ Len(queue'[s]) = Len(q) + 1 /\ queue'[s][Len(q) + 1] = m
    BY <1>0, <2>1, AppendProperties
  <2>3. ~Marked(s) /\ ~Marked(s)'
    BY <1>1, <2>1, <2>2, ConstantsAssumption DEF Marked, Messages
  <2>4. Behind(s)' = 0 /\ Behind(s) = 0 /\ Evicted(s)' = Evicted(s)
    BY <2>1, <2>3 DEF Behind, Evicted
  <2>5. Len(taken'[s]) = Len(taken[s]) /\ dropped'[s] = dropped[s]
    BY <2>1
  <2>6. Len(due'[s]) = Len(due[s]) + 1 /\ Len(queue'[s]) = Len(q) + 1
    BY <2>2
  <2>10. nd1 = nd + 1 /\ nt1 = nt /\ nq1 = nq + 1 /\ nx1 = nx /\ nb1 = nb /\ ne1 = ne
    BY <2>4, <2>5, <2>6
  <2> HIDE DEF nd, nt, nq, nx, nb, ne, nd1, nt1, nq1, nx1, nb1, ne1
  <2> QED BY <1>8, <1>9, <2>10
<1>5. CASE Taken(s)
  <2>1. /\ q # <<>> /\ queue'[s] = Tail(q) /\ 1 \in DOMAIN q
        /\ IF q[1] = Closed THEN taken'[s] = taken[s] ELSE taken'[s] = Append(taken[s], q[1])
        /\ UNCHANGED <<due[s], dropped[s], evicted>>
    BY <1>0, <1>5 DEF Taken
  <2>2. /\ Len(queue'[s]) = Len(q) - 1 /\ queue'[s] \in Seq(Messages \cup {Closed})
        /\ \A i \in 1..(Len(q) - 1) : queue'[s][i] = q[i + 1]
        /\ q[1] # Closed => q[1] \in Messages
    BY <1>0, <2>1, HeadTailProperties
  <2>3. CASE q[1] = Closed
    <3>1. Len(q) = 1 /\ Marked(s) /\ taken'[s] = taken[s]
      BY <1>0, <2>1, <2>3 DEF Marked
    <3>2. queue'[s] = <<>>
      BY <2>2, <3>1
    <3>3. ~Marked(s)'
      BY <3>2 DEF Marked
    <3>4. Behind(s)' = 0 /\ Behind(s) = 1 /\ Evicted(s)' = Evicted(s)
      BY <2>1, <3>1, <3>3 DEF Behind, Evicted
    <3>5. /\ Len(taken'[s]) = Len(taken[s]) /\ Len(due'[s]) = Len(due[s]) /\ dropped'[s] = dropped[s]
          /\ Len(queue'[s]) = Len(q) - 1
      BY <2>1, <2>2, <3>1
    <3>10. nd1 = nd /\ nt1 = nt /\ nq1 = nq - 1 /\ nx1 = nx /\ nb1 = nb - 1 /\ ne1 = ne
      BY <3>4, <3>5
    <3> HIDE DEF nd, nt, nq, nx, nb, ne, nd1, nt1, nq1, nx1, nb1, ne1
    <3> QED BY <1>8, <1>9, <3>10
  <2>4. CASE q[1] # Closed
    <3>1. Len(taken'[s]) = Len(taken[s]) + 1
      BY <1>0, <2>1, <2>2, <2>4, AppendProperties
    <3>2. Marked(s)' <=> Marked(s)
      <4>1. CASE nq = 1
        <5>1. queue'[s] = <<>> /\ q[Len(q)] # Closed
          BY <2>2, <2>4, <4>1
        <5> QED BY <5>1 DEF Marked
      <4>2. CASE nq > 1
        <5>1. queue'[s] # <<>> /\ queue'[s][Len(queue'[s])] = q[Len(q)]
          <6>1. nq - 1 \in 1..(nq - 1) /\ nq - 1 + 1 = nq /\ nq - 1 # 0
            <7> HIDE DEF nq
            <7> QED BY <1>8, <4>2
          <6> QED BY <2>2, <6>1
        <5> QED BY <2>1, <5>1 DEF Marked
      <4>3. nq # 0
        BY <1>0, <2>1
      <4> HIDE DEF nq
      <4> QED BY <1>8, <4>1, <4>2, <4>3
    <3>3. Behind(s)' = Behind(s) /\ Evicted(s)' = Evicted(s)
      BY <2>1, <3>2 DEF Behind, Evicted
    <3>4. /\ Len(due'[s]) = Len(due[s]) /\ dropped'[s] = dropped[s]
          /\ Len(queue'[s]) = Len(q) - 1
      BY <2>1, <2>2
    <3>10. nd1 = nd /\ nt1 = nt + 1 /\ nq1 = nq - 1 /\ nx1 = nx /\ nb1 = nb /\ ne1 = ne
      BY <3>1, <3>3, <3>4
    <3> HIDE DEF nd, nt, nq, nx, nb, ne, nd1, nt1, nq1, nx1, nb1, ne1
    <3> QED BY <1>8, <1>9, <3>10
  <2> QED BY <2>3, <2>4
<1>6. CASE ClosedNow(s)
  <2>1. /\ queue'[s] = WithSentinel(s) /\ s \notin closed /\ s \notin evicted
        /\ s \in evicted' <=> Full(s)
        /\ UNCHANGED <<taken[s], due[s], dropped[s]>>
    BY <1>0, <1>6 DEF ClosedNow
  <2>2. /\ Len(queue'[s]) = IF Full(s) THEN Len(q) ELSE Len(q) + 1
        /\ Marked(s)'
    BY <1>0, <2>1, SentinelBehind DEF Marked
  <2>3. Behind(s)' = 1 /\ Behind(s) = 0 /\ Evicted(s) = 0 /\ Evicted(s)' = IF Full(s) THEN 1 ELSE 0
    BY <1>1, <2>1, <2>2 DEF Behind, Evicted
  <2>4. Len(taken'[s]) = Len(taken[s]) /\ Len(due'[s]) = Len(due[s]) /\ dropped'[s] = dropped[s]
    BY <2>1
  <2>5. Len(queue'[s]) = IF Full(s) THEN Len(q) ELSE Len(q) + 1
    BY <2>2
  <2>10. /\ nd1 = nd /\ nt1 = nt /\ nx1 = nx /\ nb1 = nb + 1
         /\ ne = 0
         /\ \/ ne1 = 1 /\ nq1 = nq
            \/ ne1 = 0 /\ nq1 = nq + 1
    BY <2>3, <2>4, <2>5
  <2> HIDE DEF nd, nt, nq, nx, nb, ne, nd1, nt1, nq1, nx1, nb1, ne1
  <2> QED BY <1>8, <1>9, <2>10
<1> QED BY <1>0, <1>2, <1>3, <1>4, <1>5, <1>6 DEF Moved

LEMMA BusInvHolds == Spec => []BusInv
<1>1. ASSUME BusInv, [Next]_vars PROVE BusInv'
  BY <1>1, TypesStep, LivesStep, SentinelStep, OrderedStep, CountedStep DEF BusInv
<1> QED BY <1>1, InitBus, PTL DEF Spec
-----------------------------------------------------------------------------
(* What follows for a subscriber                                           *)

\* The messages that wait are the queue but for a sentinel at its end.
LEMMA Waiting ==
    ASSUME BusInv, NEW s \in Subs
    PROVE  /\ InQueue(s) \in Seq(Messages)
           /\ Len(InQueue(s)) = Len(queue[s]) - Behind(s)
           /\ \A i \in DOMAIN InQueue(s) :
                 /\ i \in DOMAIN queue[s] /\ InQueue(s)[i] = queue[s][i]
                 /\ queue[s][i] # Closed
<1> DEFINE q == queue[s]
           n == Len(q)
<1>0. /\ q \in Seq(Messages \cup {Closed}) /\ n \in Nat /\ DOMAIN q = 1..n
      /\ \A i \in 1..n : q[i] \in Messages \cup {Closed}
      /\ \A i \in 1..n : q[i] = Closed => i = n
      /\ n = 0 <=> q = <<>>
  <2>1. q \in Seq(Messages \cup {Closed})
    BY DEF BusInv, TypeOK
  <2> QED BY <2>1 DEF BusInv, SentinelLast
<1>1. CASE Marked(s)
  <2>1. InQueue(s) = SubSeq(q, 1, n - 1) /\ Behind(s) = 1 /\ n # 0
    BY <1>0, <1>1 DEF InQueue, Marked, Behind, Last, Front
  <2>2. \A i \in 1..(n - 1) : i \in 1..n /\ q[i] # Closed
    <3> HIDE DEF n, q
    <3> QED BY <1>0
  <2>3. n - 1 \in Int /\ n - 1 - 1 + 1 = n - 1 /\ (IF 1 <= n - 1 THEN n - 1 - 1 + 1 ELSE 0) = n - 1
    <3> HIDE DEF n
    <3> QED BY <1>0, <2>1
  <2>4. \A i \in 1..(n - 1) : q[i] \in Messages
    BY <1>0, <2>2
  <2> HIDE DEF n
  <2>5. /\ SubSeq(q, 1, n - 1) \in Seq(Messages)
        /\ Len(SubSeq(q, 1, n - 1)) = n - 1
        /\ \A i \in 1..(n - 1) : SubSeq(q, 1, n - 1)[i] = q[1 + i - 1]
    BY <2>3, <2>4, SubSeqProperties
  <2>6. \A i \in 1..(n - 1) : 1 + i - 1 = i
    BY <1>0
  <2>7. DOMAIN InQueue(s) = 1..(n - 1)
    BY <2>1, <2>5
  <2> QED BY <1>0, <2>1, <2>2, <2>5, <2>6, <2>7 DEF n
<1>2. CASE ~Marked(s)
  <2>1. InQueue(s) = q /\ Behind(s) = 0
    BY <1>2 DEF InQueue, Marked, Behind, Last
  <2>2. \A i \in 1..n : q[i] # Closed
    BY <1>0, <1>2 DEF Marked
  <2>3. q \in Seq(Messages)
    BY <1>0, <2>2
  <2>4. n - 0 = n
    <3> HIDE DEF n
    <3> QED BY <1>0
  <2> QED BY <1>0, <2>1, <2>2, <2>3, <2>4
<1> QED BY <1>1, <1>2

\* Kept is what was taken, then what waits.
LEMMA KeptIs ==
    ASSUME BusInv, NEW s \in Subs
    PROVE  /\ Kept(s) \in Seq(Messages)
           /\ Len(Kept(s)) = Len(taken[s]) + Len(InQueue(s))
           /\ \A i \in DOMAIN Kept(s) :
                 \/ i \in DOMAIN taken[s] /\ Kept(s)[i] = taken[s][i]
                 \/ /\ i - Len(taken[s]) \in DOMAIN InQueue(s) /\ i > Len(taken[s])
                    /\ Kept(s)[i] = InQueue(s)[i - Len(taken[s])]
<1> DEFINE t == taken[s]
           w == InQueue(s)
           nt == Len(t)
           nw == Len(w)
<1>1. t \in Seq(Messages) /\ w \in Seq(Messages)
  BY Waiting DEF BusInv, TypeOK
<1>2. nt \in Nat /\ nw \in Nat /\ DOMAIN t = 1..nt /\ DOMAIN w = 1..nw
  BY <1>1
<1>3. Kept(s) = t \o w
  BY DEF Kept
<1> HIDE DEF t, w
<1>4. /\ t \o w \in Seq(Messages) /\ Len(t \o w) = nt + nw
      /\ \A i \in 1..(nt + nw) : (t \o w)[i] = IF i <= nt THEN t[i] ELSE w[i - nt]
  BY <1>1, ConcatProperties
<1>5. DOMAIN (t \o w) = 1..(nt + nw)
  BY <1>4
<1> HIDE DEF nt, nw
<1>6. \A i \in 1..(nt + nw) : IF i <= nt THEN i \in 1..nt ELSE i - nt \in 1..nw /\ i > nt
  BY <1>2
<1>7. \A i \in DOMAIN (t \o w) :
         \/ i \in DOMAIN t /\ (t \o w)[i] = t[i]
         \/ i - nt \in DOMAIN w /\ i > nt /\ (t \o w)[i] = w[i - nt]
  BY <1>2, <1>4, <1>5, <1>6
<1> QED BY <1>3, <1>4, <1>7 DEF t, w, nt, nw

LEMMA BusInvIsInOrder == BusInv => InOrder
<1> SUFFICES ASSUME BusInv, NEW s \in Subs
             PROVE  /\ \A i, j \in DOMAIN Kept(s) : i < j => Kept(s)[i] < Kept(s)[j]
                    /\ ToSet(Kept(s)) \subseteq ToSet(due[s])
  BY DEF InOrder
<1> DEFINE t == taken[s]
           w == InQueue(s)
           k == Kept(s)
           n == Len(t)
<1>1. /\ \A i, j \in DOMAIN t : i < j => t[i] < t[j]
      /\ \A i \in DOMAIN t : t[i] \in ToSet(due[s])
      /\ \A i \in DOMAIN w : w[i] \in ToSet(due[s])
      /\ \A i, j \in DOMAIN w : i < j => w[i] < w[j]
      /\ \A i \in DOMAIN t, j \in DOMAIN w : t[i] < w[j]
  BY Waiting DEF BusInv, Ordered
<1>2. /\ \A i \in DOMAIN k :
            \/ i \in DOMAIN t /\ k[i] = t[i]
            \/ i - n \in DOMAIN w /\ i > n /\ k[i] = w[i - n]
      /\ DOMAIN t = 1..n /\ n \in Nat /\ DOMAIN k \subseteq Nat
  <2>1. k \in Seq(Messages) /\ t \in Seq(Messages)
    BY KeptIs DEF BusInv, TypeOK
  <2> QED BY <2>1, KeptIs
<1> HIDE DEF t, w, k, n
<1>3. ASSUME NEW i \in DOMAIN k, NEW j \in DOMAIN k, i < j PROVE k[i] < k[j]
  <2>1. CASE j \in DOMAIN t /\ k[j] = t[j]
    <3>1. ~(i > n)
      BY <1>2, <1>3, <2>1
    <3> QED BY <1>1, <1>2, <1>3, <2>1, <3>1
  <2>2. CASE j - n \in DOMAIN w /\ k[j] = w[j - n]
    <3>1. CASE i \in DOMAIN t /\ k[i] = t[i]
      BY <1>1, <2>2, <3>1
    <3>2. CASE i - n \in DOMAIN w /\ k[i] = w[i - n]
      <4>1. i - n < j - n
        BY <1>2, <1>3
      <4> QED BY <1>1, <2>2, <3>2, <4>1
    <3> QED BY <1>2, <3>1, <3>2
  <2> QED BY <1>2, <2>1, <2>2
<1>4. ToSet(k) \subseteq ToSet(due[s])
  BY <1>1, <1>2 DEF ToSet
<1> QED BY <1>3, <1>4 DEF k

LEMMA BusInvIsLossCounted == BusInv => LossCounted
<1> SUFFICES ASSUME BusInv, NEW s \in Subs
             PROVE  Len(due[s]) - Len(Kept(s)) = dropped[s] + (IF s \in evicted THEN 1 ELSE 0)
  BY DEF BusInv, TypeOK, LossCounted
<1> DEFINE nd == Len(due[s])  nt == Len(taken[s])  nq == Len(queue[s])
           nx == dropped[s]   nb == Behind(s)      nk == Len(Kept(s))
           e == IF s \in evicted THEN 1 ELSE 0
<1>1. nd + nb = nt + nq + nx + e
  BY DEF BusInv, Counted, Evicted
<1>2. nk = nt + (nq - nb)
  BY KeptIs, Waiting
<1>3. nd \in Nat /\ nt \in Nat /\ nq \in Nat /\ nx \in Nat /\ e \in Nat
  BY DEF BusInv, TypeOK
<1>4. nb \in Nat
  BY DEF Behind
<1> HIDE DEF nd, nt, nq, nx, nb, nk, e
<1>5. nd - nk = nx + e
  BY <1>1, <1>2, <1>3, <1>4
<1> QED BY <1>5 DEF nd, nk, nx, e

LEMMA BusInvIsSentinelWaits == BusInv => SentinelWaits
  BY DEF BusInv, Lives, SentinelLast, SentinelWaits, Last
-----------------------------------------------------------------------------
(* The feed                                                                *)

\* A reading that is not below the last one differs from it by what was used:
\* the counter has wrapped at most once, and a wrap shows.
LEMMA CounterWraps ==
    ASSUME NEW p \in Usage, NEW u \in Usage
    PROVE  /\ (p + u) % Wrap \in Usage
           /\ (p + u) % Wrap >= p => ((p + u) % Wrap) - p = u
  BY FeedAssumption DEF Usage

FeedInv ==
    /\ FeedTypeOK
    /\ SnapshotPrimed
    /\ WattsAreTrue

\* The bus knows nothing of who uses it: to it, the dashboard is one more
\* subscriber.
LEMMA FeedUsesBus == FeedSpec => Spec
<1>1. FeedInit => Init
  BY DEF FeedInit
<1>2. [FeedNext]_feedVars => [Next]_vars
  <2>1. ASSUME NEW u \in Usage, NEW reading \in Readings(u), NEW elapsed \in BOOLEAN,
               Prime(u, reading, elapsed) \/ Sampled(u, reading, elapsed)
        PROVE  UNCHANGED vars
    BY <2>1 DEF Prime, Sampled
  <2>2. ASSUME Startup \/ PrimeFails \/ Shutdown \/ Wake \/ SampleFails \/ LoopCancelled
        PROVE  UNCHANGED vars
    BY <2>2 DEF Startup, PrimeFails, Shutdown, Wake, SampleFails, LoopCancelled
  <2>3. ASSUME NEW s \in Clients, Greet(s) PROVE UNCHANGED vars
    BY <2>3 DEF Greet
  <2>4. ASSUME NEW s \in Subs, Join(s) PROVE Next
    BY <2>4 DEF Join, Next
  <2>5. UNCHANGED feedVars => UNCHANGED vars
    BY DEF feedVars
  <2> QED BY <2>1, <2>2, <2>3, <2>4, <2>5 DEF FeedNext, LoopStep, Next
<1> QED BY <1>1, <1>2, PTL DEF FeedSpec, Spec

LEMMA InitFeedInv == FeedInit => FeedInv
<1> SUFFICES ASSUME FeedInit PROVE FeedInv
  OBVIOUS
<1>1. TypeOK
  BY InitBus DEF FeedInit, BusInv
<1>2. 0 \in Usage
  BY FeedAssumption DEF Usage
<1>3. FeedTypeOK
  BY <1>1, <1>2 DEF FeedInit, FeedTypeOK
<1>4. SnapshotPrimed /\ WattsAreTrue
  BY DEF FeedInit, SnapshotPrimed, WattsAreTrue
<1> QED BY <1>3, <1>4 DEF FeedInv

\* What a sample leaves: a snapshot, true to what was used.
LEMMA SampleIsTrue ==
    ASSUME FeedInv, NEW u \in Usage, NEW reading \in Readings(u), NEW elapsed \in BOOLEAN,
           TakeSample(u, reading, elapsed)
    PROVE  /\ prev' \in {Unknown} \cup 0..Wrap - 1
           /\ snapshot' # {} /\ snapshot' \in {{Unknown}} \cup {{watts} : watts \in Usage}
           /\ used' \in Usage
           /\ WattsAreTrue'
<1> USE FeedAssumption
<1> DEFINE watts == CpuWatts(reading, elapsed)
<1>0. prev \in {Unknown} \cup Usage
  BY DEF FeedInv, FeedTypeOK, Usage
<1>1. reading \in {Unknown} \cup Usage
  <2>1. CASE prev = Unknown
    BY <2>1 DEF Readings, Usage
  <2>2. CASE prev # Unknown
    BY <1>0, <2>2, CounterWraps DEF Readings
  <2> QED BY <2>1, <2>2
<1>2. watts = Unknown \/ watts = u
  <2>1. CASE Unknown \in {reading, prev} \/ ~elapsed \/ reading < prev
    BY <2>1 DEF CpuWatts
  <2>2. CASE ~(Unknown \in {reading, prev} \/ ~elapsed \/ reading < prev)
    <3>1. reading = (prev + u) % Wrap /\ prev \in Usage /\ reading \in Usage
      BY <1>0, <1>1, <2>2 DEF Readings
    <3>2. reading >= prev
      BY <2>2, <3>1 DEF Usage
    <3>3. reading - prev = u
      BY <3>1, <3>2, CounterWraps
    <3> QED BY <2>2, <3>3 DEF CpuWatts
  <2> QED BY <2>1, <2>2
<1>3. snapshot' = {watts} /\ prev' = reading /\ used' = IF watts = Unknown THEN 0 ELSE u
  BY DEF TakeSample
<1> HIDE DEF watts
<1>4. 0 \in Usage
  BY DEF Usage
<1> QED BY <1>1, <1>2, <1>3, <1>4 DEF WattsAreTrue, Usage

LEMMA FeedInvStep ==
    ASSUME FeedInv, TypeOK', [FeedNext]_feedVars
    PROVE  FeedInv'
<1> USE FeedAssumption
<1>0. FeedTypeOK /\ SnapshotPrimed /\ WattsAreTrue
  BY DEF FeedInv
<1>1. ASSUME NEW u \in Usage, NEW reading \in Readings(u), NEW elapsed \in BOOLEAN,
             Prime(u, reading, elapsed) \/ Sampled(u, reading, elapsed)
      PROVE  FeedInv'
  <2>1. TakeSample(u, reading, elapsed)
    BY <1>1 DEF Prime, Sampled
  <2>2. /\ app' = "serving" /\ loop' \in {"none", "sleeping", "probing"}
        /\ UNCHANGED <<running, frame>>
    BY <1>1 DEF Prime, Sampled, LoopOn
  <2> QED BY <1>0, <2>1, <2>2, SampleIsTrue DEF FeedInv, FeedTypeOK, SnapshotPrimed
<1>2. ASSUME Startup \/ PrimeFails \/ Shutdown \/ Wake \/ SampleFails \/ LoopCancelled
      PROVE  FeedInv'
  BY <1>0, <1>2 DEF FeedInv, FeedTypeOK, SnapshotPrimed, WattsAreTrue,
                    Startup, PrimeFails, Shutdown, Wake, SampleFails, LoopCancelled, SampleRaises, LoopOn
<1>3. ASSUME NEW s \in Clients, Greet(s) PROVE FeedInv'
  <2>1. frame' = [frame EXCEPT ![s] = "snapshot"]
    BY <1>0, <1>3 DEF Greet, SnapshotPrimed
  <2>2. UNCHANGED samplerVars
    BY <1>3 DEF Greet
  <2> QED BY <1>0, <2>1, <2>2 DEF FeedInv, FeedTypeOK, SnapshotPrimed, WattsAreTrue, samplerVars
<1>4. ASSUME UNCHANGED <<samplerVars, frame>> PROVE FeedInv'
  BY <1>0, <1>4 DEF FeedInv, FeedTypeOK, SnapshotPrimed, WattsAreTrue, samplerVars
<1>5. ASSUME NEW s \in Subs, Join(s) PROVE FeedInv'
  BY <1>4, <1>5 DEF Join
<1>6. CASE UNCHANGED feedVars
  BY <1>4, <1>6 DEF feedVars
<1> QED BY <1>1, <1>2, <1>3, <1>4, <1>5, <1>6 DEF FeedNext, LoopStep

LEMMA FeedInvHolds == FeedSpec => [](BusInv /\ FeedInv)
<1>1. BusInv => TypeOK
  BY DEF BusInv
<1>2. FeedInv /\ TypeOK' /\ [FeedNext]_feedVars => FeedInv'
  BY FeedInvStep
<1> QED BY <1>1, <1>2, InitFeedInv, FeedUsesBus, BusInvHolds, PTL DEF FeedSpec
-----------------------------------------------------------------------------
\* InOrder: whatever the topics, the bound on the queues and the number of
\* subscribers, each gets its own messages once and in the order of Publish,
\* across the drops of _offer and the sentinel of close.
THEOREM DeliveryInOrder == FeedSpec => []InOrder
  BY FeedInvHolds, BusInvIsInOrder, PTL

\* LossCounted: a message due to a subscriber that it does not get is counted in
\* dropped, save the one that close takes from a full queue.
THEOREM LossesAreCounted == FeedSpec => []LossCounted
  BY FeedInvHolds, BusInvIsLossCounted, PTL

\* SentinelWaits: a consumer of a closed subscription has the sentinel before it,
\* even if its queue was full.
THEOREM CloseReachesConsumer == FeedSpec => []SentinelWaits
  BY FeedInvHolds, BusInvIsSentinelWaits, PTL

\* SnapshotPrimed: whoever connects while the application serves is sent a
\* snapshot first, as start has primed one.
THEOREM GreetingHasSnapshot == FeedSpec => []SnapshotPrimed
<1>1. FeedInv => SnapshotPrimed
  BY DEF FeedInv
<1> QED BY <1>1, FeedInvHolds, PTL

\* WattsAreTrue: for a counter of any range, the power that _compute_cpu_watts
\* reports is what was used between its two readings.
THEOREM PowerIsTrue == FeedSpec => []WattsAreTrue
<1>1. FeedInv => WattsAreTrue
  BY DEF FeedInv
<1> QED BY <1>1, FeedInvHolds, PTL
=============================================================================
