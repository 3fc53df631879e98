----------------------------- MODULE MessageBus -----------------------------
(***************************************************************************)
(* orchestration/bus.py with the consumers of web/ws.py: subscriptions     *)
(* with bounded queues, publishers that never wait, and for each           *)
(* subscription one pump that takes a message and sends it to its client.  *)
(*                                                                         *)
(* The bus's lock is never held across an await, so publish, subscribe and *)
(* close are a step each.  Messages are numbered as they are published.    *)
(***************************************************************************)
EXTENDS Naturals, SequencesExt

CONSTANTS
    Subs,           \* Subscription objects
    Topics,
    Wildcard,       \* "*"
    TopicOf,        \* the topic each subscribes to
    MaxQueue,       \* max_queue
    MaxMessages,    \* how many messages are published in all
    Closed          \* the sentinel _CLOSED

ASSUME ConstantsAssumption ==
    /\ Wildcard \notin Topics
    /\ TopicOf \in [Subs -> Topics \cup {Wildcard}]
    /\ MaxQueue \in Nat \ {0}
    /\ MaxMessages \in Nat
    /\ Closed \notin Nat

VARIABLES
    registered,     \* the subscriptions in self._subs
    queue,          \* _queue of each
    dropped,        \* dropped of each
    closed,         \* the subscriptions whose _closed is set
    pump,           \* where each consumer is
    published,      \* messages so far
    due,            \* what was published to each while registered (history)
    taken,          \* what each consumer took from its queue (history)
    evicted         \* subscriptions whose close discarded a message (history)

vars == <<registered, queue, dropped, closed, pump, published, due, taken, evicted>>

Messages == 1..MaxMessages

TypeOK ==
    /\ registered \subseteq Subs
    /\ queue \in [Subs -> Seq(Messages \cup {Closed})]
    /\ \A s \in Subs : Len(queue[s]) <= MaxQueue
    /\ dropped \in [Subs -> Nat]
    /\ closed \subseteq Subs
    /\ pump \in [Subs -> {"new", "waiting", "sending", "ended"}]
    /\ published \in 0..MaxMessages
    /\ due \in [Subs -> Seq(Messages)]
    /\ taken \in [Subs -> Seq(Messages)]
    /\ evicted \subseteq Subs

Init ==
    /\ registered = {}
    /\ queue = [s \in Subs |-> <<>>]
    /\ dropped = [s \in Subs |-> 0]
    /\ closed = {}
    /\ pump = [s \in Subs |-> "new"]
    /\ published = 0
    /\ due = [s \in Subs |-> <<>>]
    /\ taken = [s \in Subs |-> <<>>]
    /\ evicted = {}

-----------------------------------------------------------------------------
Full(s) == Len(queue[s]) >= MaxQueue

Subscribe(s) ==
    /\ pump[s] = "new"
    /\ pump' = [pump EXCEPT ![s] = "waiting"]
    /\ registered' = registered \cup {s}
    /\ UNCHANGED <<queue, dropped, closed, published, due, taken, evicted>>

\* WRONG: a message goes to every subscriber, whatever its topic.
WrongTargets(topic) == registered

\* Who a message on a topic goes to.
Targets(topic) == {s \in registered : TopicOf[s] \in {topic, Wildcard}}

\* WRONG: a full queue makes room by forgetting its oldest message.
WrongOffer(ss, m) ==
    /\ queue' = [s \in Subs |->
                    IF s \notin ss THEN queue[s]
                    ELSE IF Full(s) THEN Append(Tail(queue[s]), m)
                    ELSE Append(queue[s], m)]
    /\ dropped' = dropped

\* _offer, on every target: a full queue drops the message.
Offer(ss, m) ==
    /\ queue' = [s \in Subs |->
                    IF s \in ss /\ ~Full(s) THEN Append(queue[s], m) ELSE queue[s]]
    /\ dropped' = [s \in Subs |->
                    IF s \in ss /\ Full(s) THEN dropped[s] + 1 ELSE dropped[s]]

Publish(topic) ==
    LET m == published + 1 IN
    /\ published < MaxMessages
    /\ published' = m
    /\ Offer(Targets(topic), m)
    /\ due' = [s \in Subs |->
                    IF s \in registered /\ TopicOf[s] \in {topic, Wildcard}
                      THEN Append(due[s], m) ELSE due[s]]
    /\ UNCHANGED <<registered, closed, pump, taken, evicted>>

-----------------------------------------------------------------------------
(* Closing                                                                 *)

\* WRONG: a full queue leaves no room for the sentinel.
WrongWithSentinel(s) == IF Full(s) THEN queue[s] ELSE Append(queue[s], Closed)

\* The sentinel takes the place of the oldest message in a full queue.
WithSentinel(s) ==
    Append(IF Full(s) THEN Tail(queue[s]) ELSE queue[s], Closed)

\* WRONG: closed subscriptions stay on the bus.
WrongCloseAll(ss) ==
    LET open == ss \ closed IN
    /\ closed' = closed \cup open
    /\ registered' = registered
    /\ queue' = [s \in Subs |-> IF s \in open THEN WithSentinel(s) ELSE queue[s]]
    /\ evicted' = evicted \cup {s \in open : Full(s)}

\* Subscription.close, on each of a set; one closed already is left alone.
CloseAll(ss) ==
    LET open == ss \ closed IN
    /\ closed' = closed \cup open
    /\ registered' = registered \ open
    /\ queue' = [s \in Subs |-> IF s \in open THEN WithSentinel(s) ELSE queue[s]]
    /\ evicted' = evicted \cup {s \in open : Full(s)}

\* MessageBus.close
CloseBus ==
    /\ registered # {}
    /\ CloseAll(registered)
    /\ UNCHANGED <<dropped, pump, published, due, taken>>

-----------------------------------------------------------------------------
(* The pump of a subscription                                              *)

\* __anext__ returns a message, which goes to the client next.
Take(s) ==
    /\ pump[s] = "waiting"
    /\ queue[s] # <<>> /\ Head(queue[s]) # Closed
    /\ queue' = [queue EXCEPT ![s] = Tail(@)]
    /\ taken' = [taken EXCEPT ![s] = Append(@, Head(queue[s]))]
    /\ pump' = [pump EXCEPT ![s] = "sending"]
    /\ UNCHANGED <<registered, dropped, closed, published, due, evicted>>

\* __anext__ meets the sentinel: StopAsyncIteration ends the pump.
TakeClosed(s) ==
    /\ pump[s] = "waiting"
    /\ queue[s] # <<>> /\ Head(queue[s]) = Closed
    /\ queue' = [queue EXCEPT ![s] = Tail(@)]
    /\ pump' = [pump EXCEPT ![s] = "ended"]
    /\ UNCHANGED <<registered, dropped, closed, published, due, taken, evicted>>

Sent(s) ==
    /\ pump[s] = "sending"
    /\ pump' = [pump EXCEPT ![s] = "waiting"]
    /\ UNCHANGED <<registered, queue, dropped, closed, published, due, taken, evicted>>

\* The client is gone, which a send tells, or the endpoint is cancelled: its
\* finally block closes the subscription.
Quit(s) ==
    /\ pump[s] \in {"waiting", "sending"}
    /\ CloseAll({s})
    /\ pump' = [pump EXCEPT ![s] = "ended"]
    /\ UNCHANGED <<dropped, published, due, taken>>

Pump(s) == Take(s) \/ TakeClosed(s) \/ Sent(s)

Next ==
    \/ \E s \in Subs : Subscribe(s) \/ Pump(s) \/ Quit(s)
    \/ \E topic \in Topics \cup {Wildcard} : Publish(topic)
    \/ CloseBus

Spec == Init /\ [][Next]_vars

\* The event loop runs every pump that can go on, and a send returns or raises.
FairSpec == Spec /\ \A s \in Subs : WF_vars(Pump(s))

-----------------------------------------------------------------------------
(* Properties                                                              *)

\* The messages that wait in a queue: only the sentinel is behind them.
InQueue(s) ==
    IF queue[s] # <<>> /\ Last(queue[s]) = Closed THEN Front(queue[s]) ELSE queue[s]

Kept(s) == taken[s] \o InQueue(s)

\* What a subscriber gets, it gets in the order it was published, each message
\* once, and only what was published on its topic while it was subscribed.
InOrder ==
    \A s \in Subs :
        /\ \A i, j \in DOMAIN Kept(s) : i < j => Kept(s)[i] < Kept(s)[j]
        /\ ToSet(Kept(s)) \subseteq ToSet(due[s])

\* What it does not get is in its dropped counter, but for the one message a
\* close on a full queue discards; and no queue outgrows its bound.
LossCounted ==
    \A s \in Subs :
        /\ Len(queue[s]) <= MaxQueue
        /\ Len(due[s]) - Len(Kept(s)) = dropped[s] + (IF s \in evicted THEN 1 ELSE 0)

\* A closed subscription whose consumer is still there holds the sentinel, at
\* the end of its queue, and nobody offers it anything more.
SentinelWaits ==
    \A s \in closed :
        /\ s \notin registered
        /\ pump[s] # "ended" => queue[s] # <<>> /\ Last(queue[s]) = Closed

\* So every consumer of a closed subscription comes to its end.
ClosedEnds == \A s \in Subs : s \in closed ~> pump[s] = "ended"
=============================================================================
