-------------------------------- MODULE Chat --------------------------------
(***************************************************************************)
(* The Team Chat, end to end: one browser tab (web/static/js/dashboard.js),*)
(* its chat sockets (web/chat.py), ChatService.handle behind each of them  *)
(* (orchestration/chat.py) and the transcript and audit log it leaves.     *)
(*                                                                         *)
(* The tab has one socket at a time; a closed one is replaced by the next. *)
(* The handler of a closed socket works on until it tries to send and      *)
(* finds out, so several handlers may be at work.  What the models say is  *)
(* reduced to whether a reply showed any token.  Frames carry their turn   *)
(* only for the properties' sake.                                          *)
(***************************************************************************)
EXTENDS Integers, Sequences

CONSTANTS
    Roles,          \* ChatService.available_roles(): a sequence
    Askable,        \* bound on the agents that are asked alone
    MaxTurns,       \* bound on the prompts sent
    MaxSockets,     \* bound on the sockets opened
    Faults          \* the faults of this instance, a subset of AllFaults

\* "drop": the connection is lost.  "cancel": the user stops the turn.
\* "model": the stream raises a CrewOSError.  "store", "audit": a save or an
\* append raises.  "limit": the rate limiter refuses.
AllFaults == {"drop", "cancel", "model", "store", "audit", "limit"}

ASSUME ConstantsAssumption ==
    /\ Roles \in Seq(STRING \ {"user", "system"}) /\ Roles # <<>>
    /\ \A m, n \in DOMAIN Roles : Roles[m] = Roles[n] => m = n
    /\ Askable \subseteq {Roles[i] : i \in DOMAIN Roles}
    /\ MaxTurns \in Nat /\ MaxSockets \in Nat
    /\ Faults \subseteq AllFaults

Agents == {Roles[i] : i \in DOMAIN Roles}
Turns == 1..MaxTurns
Sockets == 1..MaxSockets
Request == [turn : Turns, to : Agents \cup {"crew", "nobody"}]
Frame == [type : {"user", "start", "token", "done", "error"},
          agent : Agents \cup {"user", "system"}, turn : Turns]

VARIABLES
    \* the tab
    knowsAgents,    \* chatAgents has been fetched (it is empty before)
    ws,             \* the number of chatWs
    open,           \* chatWs.readyState is OPEN
    busy,           \* chatBusy
    pending,        \* chatPending
    turns,          \* prompts sent so far
    sentOn,         \* the socket the last of them went out on
    bubbles,        \* chatBubbles: the replies on display, until they end
    miscounted,     \* a crew's answers were not counted right on this socket (history)
    \* the connections
    requests,       \* prompts on their way, by socket
    frames,         \* frames on their way back, by socket
    \* the server
    handler,        \* the handler of each socket
    messages,       \* the transcript: [turn, by]
    audited         \* the entries of the audit log: [turn, by]

tab == <<knowsAgents, ws, open, busy, pending, turns, sentOn, bubbles, miscounted>>
vars == <<tab, requests, frames, handler, messages, audited>>

Entry == [turn : Turns, by : Agents \cup {"user"}]
Places == {"auditing_limit", "saving_prompt", "auditing_prompt",
           "opening", "streaming", "saving_reply", "auditing_reply",
           "auditing_error"}

\* What a handler awaits, the turn it is at, whether that is for a single agent
\* (which is told the history), the roles still to answer, the present one
\* first, and whether the present reply has shown a token.
Idle(place) == [pc |-> place, turn |-> 0, single |-> FALSE, todo |-> <<>>, spoke |-> FALSE]
Waiting == Idle("receiving")
Ended == Idle("ended")
Handler ==
    {Waiting, Ended} \cup
    [pc : Places, turn : Turns, single : BOOLEAN, todo : Seq(Agents), spoke : BOOLEAN]

TypeOK ==
    /\ knowsAgents \in BOOLEAN /\ open \in BOOLEAN /\ busy \in BOOLEAN
    /\ ws \in 0..MaxSockets /\ sentOn \in 0..MaxSockets
    /\ pending \in 0..Len(Roles) /\ (busy <=> pending > 0)
    /\ turns \in 0..MaxTurns
    /\ bubbles \in [Agents -> {"none", "typing", "text"}]
    /\ miscounted \in BOOLEAN
    /\ requests \in [Sockets -> Seq(Request)]
    /\ frames \in [Sockets -> Seq(Frame)]
    /\ handler \in [Sockets -> Handler]
    /\ messages \in Seq(Entry)
    /\ audited \subseteq Entry

Init ==
    /\ knowsAgents = FALSE /\ miscounted = FALSE
    /\ ws = 0 /\ open = FALSE /\ busy = FALSE /\ pending = 0
    /\ turns = 0 /\ sentOn = 0
    /\ bubbles = [a \in Agents |-> "none"]
    /\ requests = [s \in Sockets |-> <<>>]
    /\ frames = [s \in Sockets |-> <<>>]
    /\ handler = [s \in Sockets |-> Waiting]
    /\ messages = <<>> /\ audited = {}

-----------------------------------------------------------------------------
(* The tab                                                                 *)

server == <<handler, messages, audited>>

\* The list of agents is asked for once, when the page loads, beside the socket:
\* it comes at any time, in the middle of a turn too, or, the fetch failing, never.
AgentsFetched ==
    /\ ~knowsAgents
    /\ knowsAgents' = TRUE
    /\ UNCHANGED <<ws, open, busy, pending, turns, sentOn, bubbles, miscounted, requests, frames, server>>

Connect ==
    /\ ~open /\ ws < MaxSockets
    /\ ws' = ws + 1
    /\ open' = TRUE
    /\ miscounted' = FALSE
    /\ UNCHANGED <<knowsAgents, busy, pending, turns, sentOn, bubbles, requests, frames, server>>

\* Without the list of agents a single-agent prompt names nobody, and one answer
\* is expected of the crew.
SendChat(to) ==
    /\ open /\ ~busy /\ turns < MaxTurns
    /\ to \in Agents => knowsAgents
    /\ to = "nobody" => ~knowsAgents
    /\ pending' = IF to = "crew" /\ knowsAgents THEN Len(Roles) ELSE 1
    /\ busy' = TRUE
    /\ miscounted' = (miscounted \/ (to = "crew" /\ pending' # Len(Roles)))
    /\ turns' = turns + 1
    /\ sentOn' = ws
    /\ requests' = [requests EXCEPT ![ws] = Append(@, [turn |-> turns', to |-> to])]
    /\ UNCHANGED <<knowsAgents, ws, open, bubbles, frames, server>>

\* WRONG: an agent that fails is not counted off.
WrongLeftStuck(f) ==
    IF f.type = "error" /\ f.agent = "system" THEN 0
    ELSE IF f.type = "done" /\ pending > 0 THEN pending - 1
    ELSE pending

\* A system error ends the turn, an agent's done or error its own part of it.
Left(f) ==
    IF f.type = "error" /\ f.agent = "system" THEN 0
    ELSE IF f.type \in {"done", "error"} /\ pending > 0 THEN pending - 1
    ELSE pending

Displayed(f) ==
    CASE f.type = "start" -> [bubbles EXCEPT ![f.agent] = "typing"]
      [] f.type = "token" -> [bubbles EXCEPT ![f.agent] = IF @ = "none" THEN @ ELSE "text"]
      [] f.type \in {"done", "error"} /\ f.agent \in Agents ->
           [bubbles EXCEPT ![f.agent] = "none"]
      [] OTHER -> bubbles

HandleFrame ==
    /\ open /\ frames[ws] # <<>>
    /\ LET f == Head(frames[ws]) IN
         /\ bubbles' = Displayed(f)
         /\ pending' = Left(f)
         /\ busy' = (busy /\ pending' > 0)
    /\ frames' = [frames EXCEPT ![ws] = Tail(@)]
    /\ UNCHANGED <<knowsAgents, ws, open, turns, sentOn, miscounted, requests, server>>

\* The socket is gone, with what was on its way to the tab.
Closed ==
    /\ open' = FALSE
    /\ frames' = [s \in Sockets |-> IF s = ws THEN <<>> ELSE frames[s]]

\* onclose leaves chatBusy and chatPending alone; the prompt may be lost too.
OnClose ==
    /\ open
    /\ Closed
    /\ \/ "drop" \in Faults /\ requests' \in {requests, [requests EXCEPT ![ws] = <<>>]}
       \/ handler[ws] = Ended /\ frames[ws] = <<>> /\ requests' = requests
    /\ UNCHANGED <<knowsAgents, ws, busy, pending, turns, sentOn, bubbles, miscounted, server>>

\* WRONG: the turn is over for the tab, but its socket stays open.
WrongCancelChat ==
    /\ "cancel" \in Faults
    /\ busy
    /\ pending' = 0 /\ busy' = FALSE
    /\ UNCHANGED <<knowsAgents, ws, open, turns, sentOn, bubbles, miscounted, requests, frames, server>>

\* The user stops the turn: the socket is closed to abort the server's stream.
CancelChat ==
    /\ "cancel" \in Faults
    /\ busy
    /\ pending' = 0 /\ busy' = FALSE
    /\ bubbles' = [a \in Agents |-> "none"]
    /\ IF open THEN Closed ELSE UNCHANGED <<open, frames>>
    /\ UNCHANGED <<knowsAgents, ws, turns, sentOn, miscounted, requests, server>>

-----------------------------------------------------------------------------
(* The handler of a socket                                                 *)

At(s, places) == handler[s].pc \in places
Becomes(s, h) == handler' = [handler EXCEPT ![s] = h]
Goto(s, place) == Becomes(s, [handler[s] EXCEPT !.pc = place])

Gone(s) == s < ws \/ (s = ws /\ ~open)

\* A send to a socket that is gone is lost, or raises WebSocketDisconnect and
\* ends the handler with whatever generator it was in.
SendFrame(s, t, type, agent, h) ==
    IF Gone(s)
      THEN frames' = frames /\ (Becomes(s, h) \/ Becomes(s, Ended))
      ELSE /\ frames' = [frames EXCEPT ![s] =
                           Append(@, [type |-> type, agent |-> agent, turn |-> t])]
           /\ Becomes(s, h)

Stored(t, by) == \E i \in DOMAIN messages : messages[i] = [turn |-> t, by |-> by]
AddMessage(t, by) == messages' = Append(messages, [turn |-> t, by |-> by])
Audit(t, by) == audited' = audited \cup {[turn |-> t, by |-> by]}

Targets(to) == IF to = "crew" THEN Roles ELSE IF to = "nobody" THEN <<>> ELSE <<to>>

\* The next request is taken; a refused or unanswerable one leaves no trace in
\* the transcript.
Receive(s) ==
    LET request == Head(requests[s])
        taken(place) == [pc |-> place, turn |-> request.turn,
                         single |-> request.to # "crew",
                         todo |-> Targets(request.to), spoke |-> FALSE]
    IN
    /\ At(s, {"receiving"}) /\ requests[s] # <<>>
    /\ requests' = [requests EXCEPT ![s] = Tail(@)]
    /\ \/ "limit" \in Faults /\ Becomes(s, taken("auditing_limit")) /\ frames' = frames
       \/ /\ Targets(request.to) = <<>>
          /\ SendFrame(s, request.turn, "error", "system", Waiting)
       \/ /\ Targets(request.to) # <<>>
          /\ Becomes(s, taken("saving_prompt")) /\ frames' = frames
    /\ UNCHANGED <<tab, messages, audited>>

LimitAudited(s) ==
    /\ At(s, {"auditing_limit"})
    /\ SendFrame(s, handler[s].turn, "error", "system", Waiting)
    /\ UNCHANGED <<tab, requests, messages, audited>>

PromptSaved(s) ==
    /\ At(s, {"saving_prompt"})
    /\ AddMessage(handler[s].turn, "user")
    /\ Goto(s, "auditing_prompt")
    /\ UNCHANGED <<tab, requests, frames, audited>>

\* The prompt is echoed once it is saved and audited.
PromptAudited(s) ==
    /\ At(s, {"auditing_prompt"})
    /\ Audit(handler[s].turn, "user")
    /\ SendFrame(s, handler[s].turn, "user", "user", [handler[s] EXCEPT !.pc = "opening"])
    /\ UNCHANGED <<tab, requests, messages>>

\* A frame of the present role.
Say(s, type, h) == SendFrame(s, handler[s].turn, type, Head(handler[s].todo), h)

\* _stream_role, up to its first frame.
StartRole(s) ==
    /\ At(s, {"opening"})
    /\ Say(s, "start", [handler[s] EXCEPT !.pc = "streaming"])
    /\ UNCHANGED <<tab, requests, messages, audited>>

\* Further tokens do what the first does, unless they find the socket gone.
Token(s) ==
    /\ At(s, {"streaming"}) /\ (~handler[s].spoke \/ Gone(s))
    /\ Say(s, "token", [handler[s] EXCEPT !.spoke = TRUE])
    /\ UNCHANGED <<tab, requests, messages, audited>>

StreamEnds(s) ==
    /\ At(s, {"streaming"})
    /\ Goto(s, "saving_reply")
    /\ UNCHANGED <<tab, requests, frames, messages, audited>>

StreamFails(s) ==
    /\ "model" \in Faults
    /\ At(s, {"streaming"})
    /\ Goto(s, "auditing_error")
    /\ UNCHANGED <<tab, requests, frames, messages, audited>>

\* WRONG: the last frame is sent before the reply is saved.
WrongReplySaved(s) ==
    /\ At(s, {"saving_reply"})
    /\ Say(s, "done", [handler[s] EXCEPT !.pc = "auditing_reply"])
    /\ AddMessage(handler[s].turn, Head(handler[s].todo))
    /\ UNCHANGED <<tab, requests, audited>>

ReplySaved(s) ==
    /\ At(s, {"saving_reply"})
    /\ AddMessage(handler[s].turn, Head(handler[s].todo))
    /\ Goto(s, "auditing_reply")
    /\ UNCHANGED <<tab, requests, frames, audited>>

\* A role is done or has failed: the next one, or the next request.
RoleLeft(s, type) ==
    /\ Say(s, type,
           IF Len(handler[s].todo) > 1
             THEN [handler[s] EXCEPT !.pc = "opening", !.todo = Tail(@), !.spoke = FALSE]
             ELSE Waiting)
    /\ UNCHANGED <<tab, requests, messages>>

ReplyAudited(s) ==
    /\ At(s, {"auditing_reply"})
    /\ Audit(handler[s].turn, Head(handler[s].todo))
    /\ RoleLeft(s, "done")

ErrorAudited(s) ==
    /\ At(s, {"auditing_error"})
    /\ RoleLeft(s, "error")
    /\ UNCHANGED audited

UsesStore(s) ==
    \/ At(s, {"saving_prompt", "saving_reply"})
    \/ At(s, {"opening"}) /\ handler[s].single

\* WRONG: a failed save of the prompt is passed over.
WrongStoreFails(s) ==
    /\ "store" \in Faults
    /\ UsesStore(s)
    /\ IF At(s, {"saving_prompt"}) THEN Goto(s, "auditing_prompt") ELSE Becomes(s, Ended)
    /\ UNCHANGED <<tab, requests, frames, messages, audited>>

\* Whose row or record the handler is at.
Author(s) == IF At(s, {"saving_prompt", "auditing_prompt"}) THEN "user" ELSE Head(handler[s].todo)

\* An exception of the store or the audit log leaves the handler, and the
\* server closes the socket.  What add_message raises after its INSERT leaves
\* the row in the connection that all handlers share.
StoreFails(s) ==
    /\ "store" \in Faults
    /\ UsesStore(s)
    /\ Becomes(s, Ended)
    /\ \/ messages' = messages
       \/ ~At(s, {"opening"}) /\ AddMessage(handler[s].turn, Author(s))
    /\ UNCHANGED <<tab, requests, frames, audited>>

\* An append may raise with its record on disk.
AuditFails(s) ==
    /\ "audit" \in Faults
    /\ At(s, {"auditing_limit", "auditing_prompt", "auditing_reply", "auditing_error"})
    /\ Becomes(s, Ended)
    /\ \/ audited' = audited
       \/ At(s, {"auditing_prompt", "auditing_reply"}) /\ Audit(handler[s].turn, Author(s))
    /\ UNCHANGED <<tab, requests, frames, messages>>

\* receive_text raises once what came before the close is taken.
Disconnected(s) ==
    /\ At(s, {"receiving"}) /\ requests[s] = <<>>
    /\ Gone(s)
    /\ Becomes(s, Ended)
    /\ UNCHANGED <<tab, requests, frames, messages, audited>>

Handle(s) ==
    \/ Receive(s) \/ LimitAudited(s) \/ PromptSaved(s) \/ PromptAudited(s)
    \/ StartRole(s) \/ Token(s) \/ StreamEnds(s) \/ StreamFails(s)
    \/ ReplySaved(s) \/ ReplyAudited(s) \/ ErrorAudited(s)
    \/ StoreFails(s) \/ AuditFails(s) \/ Disconnected(s)

Next ==
    \/ AgentsFetched \/ Connect \/ HandleFrame \/ OnClose \/ CancelChat
    \/ \E to \in Askable \cup {"crew", "nobody"} : SendChat(to)
    \/ \E s \in Sockets : Handle(s)

Spec == Init /\ [][Next]_vars

\* What is due by itself: a handler's next step, the delivery of a frame, the
\* close the browser notices.
Due == HandleFrame \/ (OnClose /\ handler[ws] = Ended) \/ \E s \in Sockets : Handle(s)

\* The event loop and the browser do not stop while something is due; every
\* stream ends, the client's timeout sees to it.
FairSpec == Spec /\ WF_vars(Due)

-----------------------------------------------------------------------------
(* Properties                                                              *)

\* What the tab shows as said is on record before it is shown, and the record
\* only grows: the frame that comes next, if it echoes a prompt or finishes a
\* reply, has its row in the transcript and its entry in the audit log, through
\* every failure, cancellation and lost connection.
ShownIsRecorded ==
    open /\ frames[ws] # <<>> =>
        LET f == Head(frames[ws]) IN
        f.type \in {"user", "done"} =>
            Stored(f.turn, f.agent) /\ [turn |-> f.turn, by |-> f.agent] \in audited

\* The transcript of a turn is its prompt followed by its replies, each once
\* and in the order of the roles, however many handlers write to it.
TurnsInOrder ==
    /\ \A i, j \in DOMAIN messages :
         messages[i] = messages[j] => i = j
    /\ \A i \in DOMAIN messages :
         messages[i].by # "user" =>
             \E j \in 1..(i - 1) : messages[j] = [turn |-> messages[i].turn, by |-> "user"]
    /\ \A i, j \in DOMAIN messages : \A m, n \in DOMAIN Roles :
         (/\ messages[i] = [turn |-> messages[j].turn, by |-> Roles[m]]
          /\ messages[j].by = Roles[n] /\ m < n) => i < j

\* A tab that accepts a prompt has its socket to itself: nothing of an earlier
\* turn is on its way, and the handler waits, whenever the list of agents comes
\* and however turns end.  What breaks it, and nothing else does, is a prompt to
\* the crew on this socket before that list was there.
FreeIsQuiet ==
    open /\ ~busy /\ ~miscounted =>
        handler[ws] \in {Waiting, Ended} /\ requests[ws] = <<>> /\ frames[ws] = <<>>

\* A prompt comes to its end in the tab, with every agent's answer or error,
\* unless its socket is lost.
TurnEnds == busy ~> (~busy \/ ~open \/ ws # sentOn)

\* "every turn is persisted and audited" (web/chat.py): of a reply the tab has
\* on display something is in the transcript, or its handler is still at it.
EveryTurnPersisted ==
    \A a \in Agents :
        bubbles[a] = "text" =>
            Stored(turns, a) \/ \E s \in Sockets : handler[s].turn = turns
=============================================================================
