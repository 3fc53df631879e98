----------------------------- MODULE ChatProofs -----------------------------
(***************************************************************************)
(* What the Team Chat guarantees for any crew, any number of prompts and   *)
(* of sockets, and any faults.                                             *)
(***************************************************************************)
EXTENDS Chat, FiniteSetTheorems, SequenceTheorems, TLAPS

Working(s) == handler[s].pc \in Places

\* Before the prompt of a turn is saved nothing of the turn is.
Unwritten == {"auditing_limit", "saving_prompt"}

Ascends(todo) ==
    \A i, j \in DOMAIN todo : \A m, n \in DOMAIN Roles :
        i < j /\ todo[i] = Roles[m] /\ todo[j] = Roles[n] => m < n

\* The roles still to answer, in their order; none is left only of a request
\* that the limiter refused.
TodoInOrder ==
    \A s \in Sockets : handler[s].pc \in Places \ {"auditing_limit"} =>
        handler[s].todo # <<>> /\ Ascends(handler[s].todo)

\* A turn is in one place: one request on its way, or one handler.
TurnsOwned ==
    /\ \A s \in Sockets : \A i \in DOMAIN requests[s] :
          /\ requests[s][i].turn <= turns
          /\ \A u \in Sockets : handler[u].turn # requests[s][i].turn
          /\ \A k \in DOMAIN messages : messages[k].turn # requests[s][i].turn
    /\ \A s, u \in Sockets : \A i \in DOMAIN requests[s], j \in DOMAIN requests[u] :
          requests[s][i].turn = requests[u][j].turn => s = u /\ i = j
    /\ \A s, u \in Sockets : handler[s].turn = handler[u].turn /\ s # u => handler[s].turn = 0
    /\ \A s \in Sockets : handler[s].turn <= turns
    /\ \A k \in DOMAIN messages : messages[k].turn <= turns

\* What the transcript has of the turn of a handler: nothing, or the prompt and
\* replies of roles before those that are still to answer.
Written(s) ==
    LET h == handler[s] IN
    /\ h.pc \in Unwritten => \A k \in DOMAIN messages : messages[k].turn # h.turn
    /\ h.pc \in Places \ Unwritten =>
          /\ Stored(h.turn, "user")
          /\ \A k \in DOMAIN messages, j \in DOMAIN h.todo : \A m, n \in DOMAIN Roles :
                messages[k] = [turn |-> h.turn, by |-> Roles[m]] /\ h.todo[j] = Roles[n] =>
                    m < n \/ (m = n /\ j = 1 /\ h.pc = "auditing_reply")
    /\ h.pc = "auditing_reply" => Stored(h.turn, Head(h.todo))

\* What is on its way to the tab to be shown is on record.
Recorded(f) ==
    f.type \in {"user", "done"} =>
        Stored(f.turn, f.agent) /\ [turn |-> f.turn, by |-> f.agent] \in audited
FramesRecorded == \A s \in Sockets : \A i \in DOMAIN frames[s] : Recorded(frames[s][i])

\* A socket that is not yet opened.
Fresh ==
    /\ open => ws # 0
    /\ \A s \in Sockets : s > ws => handler[s] = Waiting /\ requests[s] = <<>> /\ frames[s] = <<>>

Ends(f) == f.type \in {"done", "error"}
Ending(q) == Cardinality({i \in DOMAIN q : Ends(q[i])})

\* What its socket can still bring a tab that waits for p more ends of replies,
\* given the handler, the requests and the frames on their way: an end for every
\* one of the p, or less if the socket is about to close.
Expected(p, h, r, f) ==
    /\ p = 0 => h \in {Waiting, Ended} /\ r = <<>> /\ f = <<>>
    /\ r # <<>> => /\ Len(r) = 1 /\ f = <<>> /\ h \in {Waiting, Ended}
                   /\ p >= Len(Targets(r[1].to))
    /\ h.pc = "auditing_limit" => f = <<>>
    /\ \A i \in DOMAIN f : f[i].type = "error" /\ f[i].agent = "system" =>
          Len(f) = 1 /\ h = Waiting
    /\ h.pc \in Places \ {"auditing_limit"} => p >= Ending(f) + Len(h.todo)
    /\ h = Ended => p > Ending(f) \/ p = 0
    /\ h = Waiting => p >= Ending(f) /\ (f # <<>> => Ends(f[Len(f)]))

\* A tab that has counted right counts on no more than its socket can bring.
Awaited == open /\ ~miscounted => Expected(pending, handler[ws], requests[ws], frames[ws])

IInv ==
    /\ TypeOK
    /\ TodoInOrder
    /\ TurnsOwned
    /\ \A s \in Sockets : Written(s)
    /\ TurnsInOrder
    /\ FramesRecorded
    /\ Fresh
    /\ Awaited
-----------------------------------------------------------------------------
(* Types                                                                   *)

LEMMA Crew ==
    /\ Roles \in Seq(Agents) /\ Roles # <<>> /\ Len(Roles) \in Nat \ {0}
    /\ "user" \notin Agents /\ "system" \notin Agents
    /\ \A a \in Agents : \E m \in DOMAIN Roles : a = Roles[m]
    /\ Askable \subseteq Agents
<1>1. Roles \in Seq(STRING \ {"user", "system"}) /\ Roles # <<>>
  BY ConstantsAssumption
<1>2. DOMAIN Roles = 1..Len(Roles) /\ \A m \in DOMAIN Roles : Roles[m] \in STRING \ {"user", "system"}
  BY <1>1
<1>3. Roles \in Seq(Agents)
  BY <1>1, <1>2 DEF Agents
<1>4. Len(Roles) \in Nat \ {0}
  BY <1>1
<1> QED BY <1>1, <1>2, <1>3, <1>4, ConstantsAssumption DEF Agents

LEMMA TargetsTyped ==
    ASSUME NEW to \in Agents \cup {"crew", "nobody"}
    PROVE  Targets(to) \in Seq(Agents)
<1>1. to \in Agents => <<to>> \in Seq(Agents)
  OBVIOUS
<1> QED BY <1>1, Crew DEF Targets

\* A handler at work is at a turn; the others are at none.
LEMMA Handlers ==
    ASSUME TypeOK, NEW s \in Sockets
    PROVE  /\ handler[s] \in {Waiting, Ended} <=> ~Working(s)
           /\ handler[s].pc = "receiving" <=> handler[s] = Waiting
           /\ handler[s].turn \in Nat
           /\ handler[s] \in {Waiting, Ended} => handler[s].turn = 0
           /\ Working(s) => /\ handler[s].turn \in Turns /\ handler[s].turn # 0
                            /\ handler[s].todo \in Seq(Agents)
                            /\ handler[s] \in [pc : Places, turn : Turns, single : BOOLEAN,
                                               todo : Seq(Agents), spoke : BOOLEAN]
<1>1. handler[s] \in Handler
  BY DEF TypeOK
<1>2. Waiting.pc = "receiving" /\ Ended.pc = "ended" /\ Waiting.turn = 0 /\ Ended.turn = 0
  BY DEF Waiting, Ended, Idle
<1>3. "receiving" \notin Places /\ "ended" \notin Places
  BY DEF Places
<1>4. \A t \in Turns : t \in Nat /\ t # 0
  BY ConstantsAssumption DEF Turns
<1> QED BY <1>1, <1>2, <1>3, <1>4 DEF Handler, Working

\* What an appended frame does to the types.
LEMMA Sends ==
    ASSUME TypeOK, NEW s \in Sockets, NEW t \in Turns,
           NEW type \in {"user", "start", "token", "done", "error"},
           NEW agent \in Agents \cup {"user", "system"}, NEW h \in Handler,
           SendFrame(s, t, type, agent, h)
    PROVE  /\ handler'[s] \in {h, Ended} /\ handler' = [handler EXCEPT ![s] = handler'[s]]
           /\ frames' \in [Sockets -> Seq(Frame)]
           /\ \/ frames' = frames /\ Gone(s)
              \/ /\ handler'[s] = h /\ ~Gone(s)
                 /\ frames' = [frames EXCEPT ![s] =
                                  Append(@, [type |-> type, agent |-> agent, turn |-> t])]
<1>1. [type |-> type, agent |-> agent, turn |-> t] \in Frame
  BY DEF Frame
<1>2. ASSUME NEW f \in Frame PROVE Append(frames[s], f) \in Seq(Frame)
  <2>1. frames[s] \in Seq(Frame)
    BY DEF TypeOK
  <2> QED BY <2>1, AppendProperties
<1>3. handler \in [Sockets -> Handler] /\ frames \in [Sockets -> Seq(Frame)]
  BY DEF TypeOK
<1>4. CASE Gone(s)
  BY <1>3, <1>4 DEF SendFrame, Becomes
<1>5. CASE ~Gone(s)
  BY <1>1, <1>2, <1>3, <1>5 DEF SendFrame, Becomes
<1> QED BY <1>4, <1>5
-----------------------------------------------------------------------------
(* What a handler's step does to its place and to the transcript           *)

\* It rests: it waits for the next request, or has ended.
Rested(s) ==
    /\ handler'[s] \in {Waiting, Ended}
    /\ UNCHANGED <<requests, messages>>

\* It takes a request, which it may turn down at once.
Took(s) ==
    /\ handler[s] = Waiting /\ requests[s] # <<>>
    /\ requests' = [requests EXCEPT ![s] = Tail(@)] /\ messages' = messages
    /\ \/ handler'[s] \in {Waiting, Ended}
       \/ /\ handler'[s].pc \in Unwritten
          /\ handler'[s].turn = Head(requests[s]).turn
          /\ handler'[s].todo = Targets(Head(requests[s]).to)
          /\ handler'[s].pc = "saving_prompt" => handler'[s].todo # <<>>

\* It goes on with its turn ...
Stays(s) ==
    /\ Working(s) /\ handler'[s].pc \in Places \ Unwritten
    /\ handler'[s].turn = handler[s].turn
    /\ requests' = requests

\* ... with nothing to write,
Advanced(s) ==
    /\ Stays(s) /\ handler[s].pc \notin Unwritten
    /\ "auditing_reply" \notin {handler[s].pc, handler'[s].pc}
    /\ handler'[s].todo = handler[s].todo
    /\ messages' = messages

WrotePrompt(s) ==
    /\ Stays(s) /\ handler[s].pc = "saving_prompt" /\ handler'[s].pc = "auditing_prompt"
    /\ handler'[s].todo = handler[s].todo
    /\ AddMessage(handler[s].turn, "user")

WroteReply(s) ==
    /\ Stays(s) /\ handler[s].pc = "saving_reply" /\ handler'[s].pc = "auditing_reply"
    /\ handler'[s].todo = handler[s].todo
    /\ AddMessage(handler[s].turn, Head(handler[s].todo))

\* or to the next role.
WentOn(s) ==
    /\ Stays(s) /\ handler[s].pc \in {"auditing_reply", "auditing_error"} /\ handler'[s].pc = "opening"
    /\ Len(handler[s].todo) > 1 /\ handler'[s].todo = Tail(handler[s].todo)
    /\ messages' = messages

\* It ends at a write that failed with its row in the transcript.
WroteLast(s) ==
    /\ Working(s) /\ handler'[s] = Ended
    /\ requests' = requests
    /\ \/ handler[s].pc = "saving_prompt" /\ AddMessage(handler[s].turn, "user")
       \/ handler[s].pc = "saving_reply" /\ AddMessage(handler[s].turn, Head(handler[s].todo))

Moved(s) ==
    \/ Rested(s) \/ Took(s) \/ Advanced(s) \/ WrotePrompt(s) \/ WroteReply(s) \/ WentOn(s)
    \/ WroteLast(s)

LEMMA Places1 ==
    /\ Waiting \in Handler /\ Ended \in Handler
    /\ \A h \in [pc : Places, turn : Turns, single : BOOLEAN, todo : Seq(Agents), spoke : BOOLEAN] :
          /\ h \in Handler
          /\ \A place \in Places : [h EXCEPT !.pc = place] \in Handler
          /\ [h EXCEPT !.spoke = TRUE] \in Handler
          /\ h.todo # <<>> => [h EXCEPT !.pc = "opening", !.todo = Tail(@), !.spoke = FALSE] \in Handler
<1>1. ASSUME NEW q \in Seq(Agents), q # <<>> PROVE Tail(q) \in Seq(Agents)
  BY <1>1, HeadTailProperties
<1> QED BY <1>1 DEF Handler, Places

\* A frame of the present role is typed.
LEMMA Says ==
    ASSUME TypeOK, TodoInOrder, NEW s \in Sockets, Working(s), handler[s].pc # "auditing_limit",
           NEW type \in {"user", "start", "token", "done", "error"}, NEW h \in Handler,
           Say(s, type, h)
    PROVE  /\ Head(handler[s].todo) \in Agents
           /\ handler'[s] \in {h, Ended} /\ handler' = [handler EXCEPT ![s] = handler'[s]]
           /\ frames' \in [Sockets -> Seq(Frame)]
           /\ \/ frames' = frames /\ Gone(s)
              \/ /\ handler'[s] = h /\ ~Gone(s)
                 /\ frames' = [frames EXCEPT ![s] =
                       Append(@, [type |-> type, agent |-> Head(handler[s].todo), turn |-> handler[s].turn])]
<1>1. handler[s].todo \in Seq(Agents) /\ handler[s].todo # <<>> /\ handler[s].turn \in Turns
  BY Handlers DEF TodoInOrder, Working
<1>2. Head(handler[s].todo) \in Agents
  BY <1>1, HeadTailProperties
<1> QED BY <1>1, <1>2, Sends DEF Say

LEMMA Handled ==
    ASSUME TypeOK, TodoInOrder, NEW s \in Sockets, Handle(s)
    PROVE  /\ UNCHANGED tab
           /\ handler'[s] \in Handler /\ handler' = [handler EXCEPT ![s] = handler'[s]]
           /\ frames' \in [Sockets -> Seq(Frame)]
           /\ Moved(s)
<1> DEFINE h == handler[s]
           Fine == /\ UNCHANGED tab
                   /\ handler'[s] \in Handler /\ handler' = [handler EXCEPT ![s] = handler'[s]]
                   /\ frames' \in [Sockets -> Seq(Frame)]
                   /\ Moved(s)
<1>0. /\ handler \in [Sockets -> Handler] /\ frames \in [Sockets -> Seq(Frame)]
      /\ requests \in [Sockets -> Seq(Request)]
      /\ Waiting \in Handler /\ Ended \in Handler
      /\ \A g \in Handler : [handler EXCEPT ![s] = g][s] = g
  BY Places1 DEF TypeOK
<1>1. Working(s) => /\ h.turn \in Turns /\ h.todo \in Seq(Agents)
                    /\ \A place \in Places : [h EXCEPT !.pc = place] \in Handler
                    /\ [h EXCEPT !.spoke = TRUE] \in Handler
                    /\ h.todo # <<>> => [h EXCEPT !.pc = "opening", !.todo = Tail(@), !.spoke = FALSE] \in Handler
                    /\ h \in [pc : Places, turn : Turns, single : BOOLEAN, todo : Seq(Agents), spoke : BOOLEAN]
  BY Handlers, Places1
<1>2. CASE Receive(s)
  <2> DEFINE request == Head(requests[s])
             taken(place) == [pc |-> place, turn |-> request.turn, single |-> request.to # "crew",
                              todo |-> Targets(request.to), spoke |-> FALSE]
  <2>1. /\ handler[s] = Waiting /\ requests[s] # <<>>
        /\ requests' = [requests EXCEPT ![s] = Tail(@)] /\ messages' = messages /\ UNCHANGED tab
    BY <1>2, Handlers DEF Receive, At
  <2>2. request.turn \in Turns /\ Targets(request.to) \in Seq(Agents)
    <3>1. request \in Request
      BY <1>0, <2>1, HeadTailProperties
    <3> QED BY <3>1, TargetsTyped DEF Request
  <2> HIDE DEF request
  <2>3. \A place \in Unwritten : taken(place) \in Handler
    BY <2>2 DEF Handler, Places, Unwritten
  <2>4. CASE Becomes(s, taken("auditing_limit")) /\ frames' = frames
    <3>1. handler'[s] = taken("auditing_limit") /\ handler' = [handler EXCEPT ![s] = handler'[s]]
      BY <1>0, <2>3, <2>4 DEF Becomes, Unwritten
    <3>2. Took(s)
      BY <2>1, <3>1 DEF Took, Unwritten, request
    <3> QED BY <1>0, <2>1, <2>3, <2>4, <3>1, <3>2 DEF Moved, Unwritten
  <2>5. CASE SendFrame(s, request.turn, "error", "system", Waiting)
    <3>1. /\ handler'[s] \in {Waiting, Ended} /\ handler' = [handler EXCEPT ![s] = handler'[s]]
          /\ frames' \in [Sockets -> Seq(Frame)]
      BY <1>0, <2>2, <2>5, Sends
    <3>2. Took(s)
      BY <2>1, <3>1 DEF Took
    <3> QED BY <1>0, <2>1, <3>1, <3>2 DEF Moved
  <2>6. CASE Targets(request.to) # <<>> /\ Becomes(s, taken("saving_prompt")) /\ frames' = frames
    <3>1. handler'[s] = taken("saving_prompt") /\ handler' = [handler EXCEPT ![s] = handler'[s]]
      BY <1>0, <2>3, <2>6 DEF Becomes, Unwritten
    <3>2. Took(s)
      BY <2>1, <2>6, <3>1 DEF Took, Unwritten, request
    <3> QED BY <1>0, <2>1, <2>3, <2>6, <3>1, <3>2 DEF Moved, Unwritten
  <2> QED BY <1>2, <2>4, <2>5, <2>6 DEF Receive, request
<1>3. CASE LimitAudited(s)
  <2>1. Working(s)
    BY <1>3 DEF LimitAudited, At, Working, Places
  <2>2. /\ handler'[s] \in {Waiting, Ended} /\ handler' = [handler EXCEPT ![s] = handler'[s]]
        /\ frames' \in [Sockets -> Seq(Frame)]
    BY <1>0, <1>1, <1>3, <2>1, Sends DEF LimitAudited
  <2>3. Rested(s) /\ UNCHANGED tab
    BY <1>3, <2>2 DEF LimitAudited, Rested
  <2> QED BY <1>0, <2>2, <2>3 DEF Moved
<1>4. CASE PromptSaved(s)
  <2>1. Working(s) /\ "auditing_prompt" \in Places
    BY <1>4 DEF PromptSaved, At, Working, Places
  <2>2. /\ handler'[s] = [h EXCEPT !.pc = "auditing_prompt"] /\ handler' = [handler EXCEPT ![s] = handler'[s]]
        /\ frames' = frames /\ UNCHANGED tab
    BY <1>0, <1>1, <1>4, <2>1 DEF PromptSaved, Goto, Becomes
  <2>3. /\ handler'[s].pc = "auditing_prompt" /\ handler'[s].turn = h.turn /\ handler'[s].todo = h.todo
        /\ handler'[s] \in Handler
    BY <1>1, <2>1, <2>2
  <2>4. WrotePrompt(s)
    BY <1>4, <2>1, <2>3 DEF WrotePrompt, PromptSaved, Stays, At, Places, Unwritten
  <2> QED BY <1>0, <2>2, <2>3, <2>4 DEF Moved
<1>5. CASE ReplySaved(s)
  <2>1. Working(s) /\ "auditing_reply" \in Places
    BY <1>5 DEF ReplySaved, At, Working, Places
  <2>2. /\ handler'[s] = [h EXCEPT !.pc = "auditing_reply"] /\ handler' = [handler EXCEPT ![s] = handler'[s]]
        /\ frames' = frames /\ UNCHANGED tab
    BY <1>0, <1>1, <1>5, <2>1 DEF ReplySaved, Goto, Becomes
  <2>3. /\ handler'[s].pc = "auditing_reply" /\ handler'[s].turn = h.turn /\ handler'[s].todo = h.todo
        /\ handler'[s] \in Handler
    BY <1>1, <2>1, <2>2
  <2>4. WroteReply(s)
    BY <1>5, <2>1, <2>3 DEF WroteReply, ReplySaved, Stays, At, Places, Unwritten
  <2> QED BY <1>0, <2>2, <2>3, <2>4 DEF Moved
<1>6. ASSUME Working(s), h.pc \notin Unwritten \cup {"auditing_reply"}, NEW g \in Handler,
             g.pc \in Places \ (Unwritten \cup {"auditing_reply"}), g.turn = h.turn, g.todo = h.todo,
             handler'[s] \in {g, Ended}, handler' = [handler EXCEPT ![s] = handler'[s]],
             frames' \in [Sockets -> Seq(Frame)], UNCHANGED <<tab, requests, messages>>
      PROVE  Fine
  <2>1. CASE handler'[s] = g
    <3>1. Advanced(s)
      BY <1>6, <2>1 DEF Advanced, Stays
    <3> QED BY <1>6, <2>1, <3>1 DEF Moved
  <2>2. CASE handler'[s] = Ended
    <3>1. Rested(s)
      BY <1>6, <2>2 DEF Rested
    <3> QED BY <1>0, <1>6, <2>2, <3>1 DEF Moved
  <2> QED BY <1>6, <2>1, <2>2
<1>7. CASE PromptAudited(s)
  <2> DEFINE g == [h EXCEPT !.pc = "opening"]
  <2>1. Working(s) /\ h.pc = "auditing_prompt" /\ "opening" \in Places
    BY <1>7 DEF PromptAudited, At, Working, Places
  <2>2. g \in Handler /\ g.pc = "opening" /\ g.turn = h.turn /\ g.todo = h.todo
    BY <1>1, <2>1
  <2>3. UNCHANGED <<tab, requests, messages>> /\ SendFrame(s, h.turn, "user", "user", g)
    BY <1>7 DEF PromptAudited
  <2> HIDE DEF g
  <2>4. /\ handler'[s] \in {g, Ended} /\ handler' = [handler EXCEPT ![s] = handler'[s]]
        /\ frames' \in [Sockets -> Seq(Frame)]
    BY <1>1, <2>1, <2>2, <2>3, Sends
  <2> QED BY <1>6, <2>1, <2>2, <2>3, <2>4 DEF Unwritten
<1>8. CASE StartRole(s)
  <2> DEFINE g == [h EXCEPT !.pc = "streaming"]
  <2>1. Working(s) /\ h.pc = "opening" /\ "streaming" \in Places
    BY <1>8 DEF StartRole, At, Working, Places
  <2>2. g \in Handler /\ g.pc = "streaming" /\ g.turn = h.turn /\ g.todo = h.todo
    BY <1>1, <2>1
  <2>3. UNCHANGED <<tab, requests, messages>> /\ Say(s, "start", g)
    BY <1>8 DEF StartRole
  <2> HIDE DEF g
  <2>4. /\ handler'[s] \in {g, Ended} /\ handler' = [handler EXCEPT ![s] = handler'[s]]
        /\ frames' \in [Sockets -> Seq(Frame)]
    BY <2>1, <2>2, <2>3, Says
  <2> QED BY <1>6, <2>1, <2>2, <2>3, <2>4 DEF Unwritten
<1>9. CASE Token(s)
  <2> DEFINE g == [h EXCEPT !.spoke = TRUE]
  <2>1. Working(s) /\ h.pc = "streaming" /\ "streaming" \in Places
    BY <1>9 DEF Token, At, Working, Places
  <2>2. g \in Handler /\ g.pc = "streaming" /\ g.turn = h.turn /\ g.todo = h.todo
    BY <1>1, <2>1
  <2>3. UNCHANGED <<tab, requests, messages>> /\ Say(s, "token", g)
    BY <1>9 DEF Token
  <2> HIDE DEF g
  <2>4. /\ handler'[s] \in {g, Ended} /\ handler' = [handler EXCEPT ![s] = handler'[s]]
        /\ frames' \in [Sockets -> Seq(Frame)]
    BY <2>1, <2>2, <2>3, Says
  <2> QED BY <1>6, <2>1, <2>2, <2>3, <2>4 DEF Unwritten
<1>10. ASSUME NEW place \in {"saving_reply", "auditing_error"}, At(s, {"streaming"}), Goto(s, place),
              UNCHANGED <<tab, requests, frames, messages>>
       PROVE  Fine
  <2> DEFINE g == [h EXCEPT !.pc = place]
  <2>1. Working(s) /\ h.pc = "streaming" /\ place \in Places
    BY <1>10 DEF At, Working, Places
  <2>2. g \in Handler /\ g.pc = place /\ g.turn = h.turn /\ g.todo = h.todo
    BY <1>1, <2>1
  <2>3. handler' = [handler EXCEPT ![s] = g]
    BY <1>10 DEF Goto, Becomes
  <2> HIDE DEF g
  <2> QED BY <1>0, <1>6, <1>10, <2>1, <2>2, <2>3 DEF Unwritten, Places
<1>11. CASE ReplyAudited(s) \/ ErrorAudited(s)
  <2> DEFINE g == [h EXCEPT !.pc = "opening", !.todo = Tail(@), !.spoke = FALSE]
  <2>1. Working(s) /\ h.pc \in {"auditing_reply", "auditing_error"} /\ "opening" \in Places /\ h.todo # <<>>
    BY <1>11 DEF ReplyAudited, ErrorAudited, At, Working, Places, TodoInOrder
  <2>2. g \in Handler /\ g.pc = "opening" /\ g.turn = h.turn /\ g.todo = Tail(h.todo)
    BY <1>1, <2>1
  <2>3. PICK type \in {"done", "error"} : RoleLeft(s, type)
    BY <1>11 DEF ReplyAudited, ErrorAudited
  <2>4. UNCHANGED <<tab, requests, messages>> /\ Say(s, type, IF Len(h.todo) > 1 THEN g ELSE Waiting)
    BY <2>3 DEF RoleLeft
  <2> HIDE DEF g
  <2>5. /\ handler'[s] \in {IF Len(h.todo) > 1 THEN g ELSE Waiting, Ended}
        /\ handler' = [handler EXCEPT ![s] = handler'[s]]
        /\ frames' \in [Sockets -> Seq(Frame)]
    <3>1. (IF Len(h.todo) > 1 THEN g ELSE Waiting) \in Handler
      BY <1>0, <2>2
    <3>2. type \in {"user", "start", "token", "done", "error"}
      BY <2>3
    <3> QED BY <2>1, <2>4, <3>1, <3>2, Says, ZenonT(60)
  <2>6. CASE handler'[s] \in {Waiting, Ended}
    <3>1. Rested(s)
      BY <2>4, <2>6 DEF Rested
    <3> QED BY <1>0, <2>4, <2>5, <2>6, <3>1 DEF Moved
  <2>7. CASE Len(h.todo) > 1 /\ handler'[s] = g
    <3>1. WentOn(s)
      BY <2>1, <2>2, <2>4, <2>7 DEF WentOn, Stays, Unwritten
    <3> QED BY <2>2, <2>4, <2>5, <2>7, <3>1 DEF Moved
  <2> QED BY <2>5, <2>6, <2>7
<1>12. ASSUME Becomes(s, Ended), UNCHANGED <<tab, requests, frames, messages>>
       PROVE  Fine
  <2>1. handler'[s] = Ended /\ handler' = [handler EXCEPT ![s] = Ended]
    BY <1>0, <1>12 DEF Becomes
  <2>2. Rested(s)
    BY <1>12, <2>1 DEF Rested
  <2> QED BY <1>0, <1>12, <2>1, <2>2 DEF Moved
<1>13. CASE StreamEnds(s) \/ StreamFails(s)
  BY <1>10, <1>13 DEF StreamEnds, StreamFails
<1>14. CASE AuditFails(s) \/ Disconnected(s)
  BY <1>12, <1>14 DEF AuditFails, Disconnected
<1>15. CASE StoreFails(s)
  <2>1. Becomes(s, Ended) /\ UNCHANGED <<tab, requests, frames>>
    BY <1>15 DEF StoreFails
  <2>2. CASE messages' = messages
    BY <1>12, <2>1, <2>2
  <2>3. CASE ~At(s, {"opening"}) /\ AddMessage(h.turn, Author(s))
    <3>1. h.pc \in {"saving_prompt", "saving_reply"} /\ Working(s)
      BY <1>15, <2>3 DEF StoreFails, UsesStore, At, Working, Places
    <3>2. handler'[s] = Ended /\ handler' = [handler EXCEPT ![s] = Ended]
      BY <1>0, <2>1 DEF Becomes
    <3>3. WroteLast(s)
      BY <2>1, <2>3, <3>1, <3>2 DEF WroteLast, Author, At
    <3> QED BY <1>0, <2>1, <3>2, <3>3 DEF Moved
  <2> QED BY <1>15, <2>2, <2>3 DEF StoreFails
<1> QED BY <1>2, <1>3, <1>4, <1>5, <1>7, <1>8, <1>9, <1>11, <1>13, <1>14, <1>15 DEF Handle
-----------------------------------------------------------------------------
LEMMA AuditGrows ==
    ASSUME TypeOK, TodoInOrder, NEW s \in Sockets, Handle(s)
    PROVE  audited \subseteq audited' /\ audited' \subseteq Entry
<1>0. audited \subseteq Entry
  BY DEF TypeOK
<1>1. ASSUME At(s, {"auditing_prompt"}), Audit(handler[s].turn, "user")
      PROVE  audited \subseteq audited' /\ audited' \subseteq Entry
  <2>1. handler[s].turn \in Turns
    BY <1>1, Handlers DEF At, Working, Places
  <2> QED BY <1>0, <1>1, <2>1 DEF Audit, Entry
<1>2. ASSUME At(s, {"auditing_reply"}), Audit(handler[s].turn, Head(handler[s].todo))
      PROVE  audited \subseteq audited' /\ audited' \subseteq Entry
  <2>1. Working(s) /\ handler[s].pc # "auditing_limit"
    BY <1>2 DEF At, Working, Places
  <2>2. handler[s].turn \in Turns /\ Head(handler[s].todo) \in Agents
    BY <2>1, Handlers, HeadTailProperties DEF TodoInOrder, Working
  <2> QED BY <1>0, <1>2, <2>2 DEF Audit, Entry
<1>3. CASE UNCHANGED audited
  BY <1>0, <1>3
<1>5. CASE AuditFails(s)
  BY <1>1, <1>2, <1>3, <1>5 DEF AuditFails, Author, At
<1>6. CASE PromptAudited(s) \/ ReplyAudited(s)
  BY <1>1, <1>2, <1>6 DEF PromptAudited, ReplyAudited
<1>4. \/ PromptAudited(s) \/ ReplyAudited(s) \/ AuditFails(s) \/ UNCHANGED audited
  BY DEF Handle, Receive, LimitAudited, PromptSaved, StartRole, Token, StreamEnds, StreamFails,
         ReplySaved, ErrorAudited, StoreFails, Disconnected
<1> QED BY <1>3, <1>4, <1>5, <1>6

\* The transcript grows by an entry of the handler's turn, or not at all.
LEMMA TranscriptGrows ==
    ASSUME TypeOK, TodoInOrder, NEW s \in Sockets, Moved(s)
    PROVE  /\ messages' \in Seq(Entry)
           /\ \/ messages' = messages
              \/ \E e \in Entry : /\ messages' = Append(messages, e)
                                 /\ Working(s) /\ e.turn = handler[s].turn
<1>0. messages \in Seq(Entry)
  BY DEF TypeOK
<1> DEFINE Grown == /\ messages' \in Seq(Entry)
                    /\ \/ messages' = messages
                       \/ \E e \in Entry : /\ messages' = Append(messages, e)
                                          /\ Working(s) /\ e.turn = handler[s].turn
<1>1. ASSUME Working(s), AddMessage(handler[s].turn, "user") PROVE Grown
  <2>1. handler[s].turn \in Turns
    BY <1>1, Handlers
  <2> DEFINE e == [turn |-> handler[s].turn, by |-> "user"]
  <2>2. e \in Entry /\ e.turn = handler[s].turn
    BY <2>1 DEF Entry
  <2>3. messages' = Append(messages, e) /\ Working(s)
    BY <1>1 DEF AddMessage
  <2> HIDE DEF e
  <2> QED BY <1>0, <2>2, <2>3, AppendProperties
<1>2. ASSUME Working(s), handler[s].pc = "saving_reply",
             AddMessage(handler[s].turn, Head(handler[s].todo))
      PROVE  Grown
  <2>1. Working(s) /\ handler[s].pc # "auditing_limit"
    BY <1>2
  <2>2. handler[s].turn \in Turns /\ Head(handler[s].todo) \in Agents
    BY <2>1, Handlers, HeadTailProperties DEF TodoInOrder, Working
  <2> DEFINE e == [turn |-> handler[s].turn, by |-> Head(handler[s].todo)]
  <2>3. e \in Entry /\ e.turn = handler[s].turn
    BY <2>2 DEF Entry
  <2>4. messages' = Append(messages, e) /\ Working(s)
    BY <1>2 DEF AddMessage
  <2> HIDE DEF e
  <2> QED BY <1>0, <2>3, <2>4, AppendProperties
<1>3. CASE messages' = messages
  BY <1>0, <1>3
<1>4. CASE WrotePrompt(s) \/ WroteReply(s) \/ WroteLast(s)
  BY <1>1, <1>2, <1>4 DEF WrotePrompt, WroteReply, WroteLast, Stays
<1> QED BY <1>3, <1>4 DEF Moved, Rested, Took, Advanced, WentOn

LEMMA TabTypes ==
    ASSUME IInv, UNCHANGED server,
           AgentsFetched \/ Connect \/ HandleFrame \/ OnClose \/ CancelChat
           \/ \E to \in Askable \cup {"crew", "nobody"} : SendChat(to)
    PROVE  TypeOK'
<1> USE ConstantsAssumption
<1>0. TypeOK /\ Fresh
  BY DEF IInv
<1>1. Len(Roles) \in Nat \ {0}
  BY Crew
<1>2. <<>> \in Seq(Frame) /\ <<>> \in Seq(Request)
  OBVIOUS
<1> HIDE ConstantsAssumption
<1>10. MaxTurns \in Nat /\ MaxSockets \in Nat /\ turns \in Nat /\ ws \in Nat
  BY <1>0, ConstantsAssumption DEF TypeOK
<1>3. CASE Connect
  <2>1. ws' \in 0..MaxSockets
    <3>1. ws' = ws + 1 /\ ws < MaxSockets
      BY <1>3 DEF Connect
    <3> QED BY <1>10, <3>1
  <2>3. open' \in BOOLEAN /\ miscounted' \in BOOLEAN
    BY <1>3, Zenon DEF Connect
  <2>2. UNCHANGED <<knowsAgents, busy, pending, turns, sentOn, bubbles, requests, frames, server>>
    BY <1>3 DEF Connect
  <2> QED BY <1>0, <2>1, <2>2, <2>3 DEF TypeOK, server
<1>8. CASE AgentsFetched
  <2>1. /\ knowsAgents' \in BOOLEAN
        /\ UNCHANGED <<ws, open, busy, pending, turns, sentOn, bubbles, miscounted, requests, frames, server>>
    BY <1>8 DEF AgentsFetched
  <2> QED BY <1>0, <2>1 DEF TypeOK, server
<1>4. ASSUME NEW to \in Askable \cup {"crew", "nobody"}, SendChat(to) PROVE TypeOK'
  <2> DEFINE request == [turn |-> turns', to |-> to]
  <2>1. turns' \in Turns /\ ws \in Sockets
    BY <1>0, <1>4, <1>10 DEF SendChat, Turns, Sockets, Fresh, TypeOK
  <2>2. request \in Request
    BY <2>1, Crew DEF Request
  <2>3. requests[ws] \in Seq(Request)
    BY <1>0, <2>1 DEF TypeOK
  <2> HIDE DEF request
  <2>4. Append(requests[ws], request) \in Seq(Request)
    BY <2>2, <2>3, AppendProperties
  <2>5. requests' = [requests EXCEPT ![ws] = Append(@, request)]
    BY <1>4 DEF SendChat, request
  <2>6. requests' \in [Sockets -> Seq(Request)]
    BY <1>0, <2>1, <2>4, <2>5 DEF TypeOK
  <2>7. pending' \in 0..Len(Roles) /\ pending' > 0 /\ busy' = TRUE
    BY <1>1, <1>4 DEF SendChat
  <2>8. turns' \in 0..MaxTurns /\ sentOn' \in 0..MaxSockets
    BY <1>0, <1>4, <1>10 DEF SendChat, TypeOK
  <2>10. miscounted' \in BOOLEAN
    BY <1>4 DEF SendChat
  <2>9. UNCHANGED <<knowsAgents, ws, open, bubbles, frames, server>>
    BY <1>4 DEF SendChat
  <2> QED BY <1>0, <2>6, <2>7, <2>8, <2>9, <2>10 DEF TypeOK, server
<1>5. CASE HandleFrame
  <2> DEFINE f == Head(frames[ws])
  <2>1. ws \in Sockets /\ frames[ws] # <<>>
    BY <1>0, <1>5, <1>10 DEF HandleFrame, Sockets, Fresh, TypeOK
  <2>2. frames[ws] \in Seq(Frame)
    BY <1>0, <2>1 DEF TypeOK
  <2>3. f \in Frame /\ Tail(frames[ws]) \in Seq(Frame)
    BY <2>1, <2>2, HeadTailProperties
  <2>4. /\ bubbles' = Displayed(f)
        /\ pending' = Left(f)
        /\ busy' = (busy /\ pending' > 0)
        /\ frames' = [frames EXCEPT ![ws] = Tail(@)]
        /\ UNCHANGED <<knowsAgents, ws, open, turns, sentOn, miscounted, requests, server>>
    BY <1>5 DEF HandleFrame
  <2> HIDE DEF f
  <2>5. bubbles' \in [Agents -> {"none", "typing", "text"}]
    BY <1>0, <2>3, <2>4 DEF TypeOK, Displayed
  <2>6. pending' \in 0..Len(Roles) /\ (pending' > 0 => pending > 0)
    BY <1>0, <1>1, <2>4 DEF TypeOK, Left
  <2>7. busy' \in BOOLEAN /\ (busy' <=> pending' > 0)
    BY <1>0, <2>4, <2>6 DEF TypeOK
  <2>8. frames' \in [Sockets -> Seq(Frame)]
    BY <1>0, <2>1, <2>3, <2>4 DEF TypeOK
  <2> QED BY <1>0, <2>3, <2>4, <2>5, <2>6, <2>7, <2>8 DEF TypeOK, server
<1>6. CASE OnClose
  <2>1. requests' \in [Sockets -> Seq(Request)] /\ frames' \in [Sockets -> Seq(Frame)] /\ open' = FALSE
    BY <1>0, <1>2, <1>6 DEF OnClose, Closed, TypeOK
  <2>2. UNCHANGED <<knowsAgents, ws, busy, pending, turns, sentOn, bubbles, miscounted, server>>
    BY <1>6 DEF OnClose
  <2> QED BY <1>0, <2>1, <2>2 DEF TypeOK, server
<1>7. CASE CancelChat
  <2>1. frames' \in [Sockets -> Seq(Frame)] /\ open' \in BOOLEAN
    BY <1>0, <1>2, <1>7 DEF CancelChat, Closed, TypeOK
  <2>2. /\ UNCHANGED <<knowsAgents, ws, turns, sentOn, miscounted, requests, server>>
        /\ pending' = 0 /\ busy' = FALSE /\ bubbles' = [a \in Agents |-> "none"]
    BY <1>7 DEF CancelChat
  <2>3. 0 \in 0..Len(Roles) /\ ~(0 > 0)
    BY <1>1
  <2>4. pending' \in 0..Len(Roles) /\ busy' \in BOOLEAN /\ (busy' <=> pending' > 0)
    BY <2>2, <2>3
  <2>5. bubbles' \in [Agents -> {"none", "typing", "text"}]
    BY <2>2
  <2> QED BY <1>0, <2>1, <2>2, <2>4, <2>5 DEF TypeOK, server
<1> QED BY <1>3, <1>4, <1>5, <1>6, <1>7, <1>8

LEMMA TypesStep ==
    ASSUME IInv, [Next]_vars
    PROVE  TypeOK'
<1>0. TypeOK /\ TodoInOrder
  BY DEF IInv
<1>1. ASSUME NEW s \in Sockets, Handle(s) PROVE TypeOK'
  <2>1. /\ UNCHANGED tab
        /\ handler'[s] \in Handler /\ handler' = [handler EXCEPT ![s] = handler'[s]]
        /\ frames' \in [Sockets -> Seq(Frame)]
        /\ messages' \in Seq(Entry) /\ audited' \subseteq Entry
    BY <1>0, <1>1, Handled, AuditGrows, TranscriptGrows
  <2>2. handler' \in [Sockets -> Handler]
    BY <1>0, <2>1 DEF TypeOK
  <2>3. requests' \in [Sockets -> Seq(Request)]
    <3>1. CASE Took(s)
      <4>1. requests[s] \in Seq(Request) /\ requests[s] # <<>>
        BY <1>0, <3>1 DEF TypeOK, Took
      <4>2. Tail(requests[s]) \in Seq(Request)
        BY <4>1, HeadTailProperties
      <4> QED BY <1>0, <3>1, <4>2 DEF Took, TypeOK
    <3>2. CASE requests' = requests
      BY <1>0, <3>2 DEF TypeOK
    <3> QED BY <1>0, <1>1, <3>1, <3>2, Handled DEF Moved, Rested, Stays, Advanced, WrotePrompt, WroteReply, WentOn, WroteLast
  <2> QED BY <1>0, <2>1, <2>2, <2>3 DEF TypeOK, tab
<1>2. CASE UNCHANGED vars
  BY <1>0, <1>2 DEF vars, tab, TypeOK
<1>3. CASE AgentsFetched \/ Connect \/ HandleFrame \/ OnClose \/ CancelChat
           \/ \E to \in Askable \cup {"crew", "nobody"} : SendChat(to)
  <2>1. UNCHANGED server
    BY <1>3 DEF AgentsFetched, Connect, HandleFrame, OnClose, CancelChat, SendChat, server
  <2> QED BY <1>3, <2>1, TabTypes
<1> QED BY <1>1, <1>2, <1>3 DEF Next
-----------------------------------------------------------------------------
(* Turns and the transcript                                                *)

\* The tab touches neither the handlers nor the transcript.
LEMMA TabOrServer ==
    ASSUME [Next]_vars
    PROVE  \/ UNCHANGED server
           \/ \E s \in Sockets : Handle(s)
  BY DEF Next, vars, AgentsFetched, Connect, HandleFrame, OnClose, CancelChat, SendChat, server

LEMMA TargetsAscend ==
    ASSUME NEW to \in Agents \cup {"crew", "nobody"}
    PROVE  Ascends(Targets(to))
<1>1. Ascends(Roles)
  BY ConstantsAssumption DEF Ascends
<1>2. ASSUME NEW q, Len(q) = 1, q \in Seq(Agents) PROVE Ascends(q)
  BY <1>2 DEF Ascends
<1>3. Ascends(<<>>)
  BY DEF Ascends
<1>4. to \in Agents => Ascends(<<to>>)
  <2>1. to \in Agents => Len(<<to>>) = 1 /\ <<to>> \in Seq(Agents)
    OBVIOUS
  <2> QED BY <1>2, <2>1
<1> QED BY <1>1, <1>3, <1>4 DEF Targets

LEMMA TodoStep ==
    ASSUME IInv, [Next]_vars
    PROVE  TodoInOrder'
<1>0. TypeOK /\ TodoInOrder
  BY DEF IInv
<1>1. CASE UNCHANGED server
  BY <1>0, <1>1 DEF server, TodoInOrder
<1>2. ASSUME NEW s \in Sockets, Handle(s) PROVE TodoInOrder'
  <2> DEFINE todo == handler'[s].todo
  <2>1. handler' = [handler EXCEPT ![s] = handler'[s]] /\ Moved(s) /\ handler \in [Sockets -> Handler]
    BY <1>0, <1>2, Handled DEF TypeOK
  <2>2. SUFFICES ASSUME handler'[s].pc \in Places \ {"auditing_limit"}
                 PROVE  todo # <<>> /\ Ascends(todo)
    <3>1. \A u \in Sockets : u # s => handler'[u] = handler[u]
      BY <2>1
    <3> QED BY <1>0, <3>1 DEF TodoInOrder
  <2>3. handler'[s] \notin {Waiting, Ended}
    BY <2>2 DEF Waiting, Ended, Idle, Places
  <2>4. CASE Took(s)
    <3>1. requests[s] \in Seq(Request) /\ requests[s] # <<>>
      BY <1>0, <2>4 DEF TypeOK, Took
    <3>2. Head(requests[s]).to \in Agents \cup {"crew", "nobody"}
      <4>1. Head(requests[s]) \in Request
        BY <3>1, HeadTailProperties
      <4> QED BY <4>1 DEF Request
    <3>3. todo = Targets(Head(requests[s]).to) /\ todo # <<>>
      BY <2>2, <2>3, <2>4 DEF Took, Unwritten
    <3> QED BY <3>2, <3>3, TargetsAscend
  <2>5. CASE Stays(s) /\ handler[s].pc # "auditing_limit" /\ todo = handler[s].todo
    BY <1>0, <2>5 DEF Stays, Working, TodoInOrder
  <2>6. CASE WentOn(s)
    <3> DEFINE q == handler[s].todo
    <3>1. q \in Seq(Agents) /\ q # <<>> /\ todo = Tail(q) /\ Len(q) > 1 /\ Ascends(q)
      BY <1>0, <2>6, Handlers DEF WentOn, Stays, Working, TodoInOrder
    <3> HIDE DEF q, todo
    <3>2. /\ todo \in Seq(Agents) /\ Len(todo) = Len(q) - 1 /\ DOMAIN todo = 1..(Len(q) - 1)
          /\ \A i \in 1..(Len(q) - 1) : todo[i] = q[i + 1] /\ i + 1 \in DOMAIN q
      BY <3>1, HeadTailProperties
    <3>3. ASSUME NEW i \in DOMAIN todo, NEW j \in DOMAIN todo, NEW m \in DOMAIN Roles, NEW n \in DOMAIN Roles,
                 i < j, todo[i] = Roles[m], todo[j] = Roles[n]
          PROVE  m < n
      <4>1. /\ i + 1 \in DOMAIN q /\ j + 1 \in DOMAIN q
            /\ i + 1 < j + 1 /\ q[i + 1] = Roles[m] /\ q[j + 1] = Roles[n]
        BY <3>2, <3>3
      <4> QED BY <3>1, <4>1 DEF Ascends
    <3>4. todo # <<>>
      <4> DEFINE k == Len(q)
      <4>1. k \in Nat
        BY <3>1
      <4>2. 1 \in 1..(k - 1)
        <5> HIDE DEF k
        <5> QED BY <3>1, <4>1 DEF k
      <4> QED BY <3>2, <4>2
    <3> QED BY <3>3, <3>4 DEF Ascends
  <2> QED BY <2>1, <2>3, <2>4, <2>5, <2>6
          DEF Moved, Rested, Advanced, WrotePrompt, WroteReply, WentOn, WroteLast, Unwritten
<1> QED BY <1>1, <1>2, TabOrServer

\* The transcript but for its new entry, if there is one.
LEMMA Entries ==
    ASSUME TypeOK, NEW e \in Entry, messages' = Append(messages, e)
    PROVE  /\ DOMAIN messages = 1..Len(messages) /\ Len(messages) \in Nat
           /\ DOMAIN messages' = 1..(Len(messages) + 1)
           /\ \A k \in DOMAIN messages : k \in DOMAIN messages' /\ messages'[k] = messages[k]
           /\ Len(messages) + 1 \in DOMAIN messages' /\ messages'[Len(messages) + 1] = e
           /\ \A k \in DOMAIN messages' : k \in DOMAIN messages \/ k = Len(messages) + 1
<1>1. messages \in Seq(Entry)
  BY DEF TypeOK
<1>2. /\ Len(Append(messages, e)) = Len(messages) + 1 /\ Append(messages, e) \in Seq(Entry)
      /\ \A i \in 1..Len(messages) : Append(messages, e)[i] = messages[i]
      /\ Append(messages, e)[Len(messages) + 1] = e
  BY <1>1, AppendProperties
<1>3. Len(messages) \in Nat /\ DOMAIN messages = 1..Len(messages)
  BY <1>1
<1> QED BY <1>2, <1>3

LEMMA StoredStays ==
    ASSUME TypeOK, NEW t, NEW by, Stored(t, by),
           messages' = messages \/ \E e \in Entry : messages' = Append(messages, e)
    PROVE  Stored(t, by)'
<1>1. CASE messages' = messages
  BY <1>1 DEF Stored
<1>2. ASSUME NEW e \in Entry, messages' = Append(messages, e) PROVE Stored(t, by)'
  BY <1>2, Entries DEF Stored
<1> QED BY <1>1, <1>2

\* A request stays where it is, moves up, or is new and of a new turn.
LEMMA OwnedStep ==
    ASSUME IInv, [Next]_vars
    PROVE  TurnsOwned'
<1>0. TypeOK /\ TodoInOrder /\ TurnsOwned
  BY DEF IInv
<1>1. /\ turns \in Nat /\ ws \in Nat
      /\ \A s \in Sockets : /\ requests[s] \in Seq(Request) /\ handler[s].turn \in Nat
                            /\ \A i \in DOMAIN requests[s] : requests[s][i].turn \in Nat \ {0}
      /\ \A k \in DOMAIN messages : messages[k].turn \in Nat
  <2>1. /\ \A s \in Sockets : requests[s] \in Seq(Request) /\ handler[s].turn \in Nat
        /\ turns \in Nat /\ ws \in Nat /\ messages \in Seq(Entry)
    BY <1>0, Handlers, ConstantsAssumption DEF TypeOK
  <2>2. \A t \in Turns : t \in Nat \ {0}
    BY ConstantsAssumption DEF Turns
  <2>3. ASSUME NEW s \in Sockets, NEW i \in DOMAIN requests[s] PROVE requests[s][i].turn \in Turns
    <3>1. requests[s][i] \in Request
      BY <2>1
    <3> QED BY <3>1 DEF Request
  <2>4. ASSUME NEW k \in DOMAIN messages PROVE messages[k].turn \in Turns
    <3>1. messages[k] \in Entry
      BY <2>1
    <3> QED BY <3>1 DEF Entry
  <2> QED BY <2>1, <2>2, <2>3, <2>4
<1>2. ASSUME NEW s \in Sockets, Handle(s) PROVE TurnsOwned'
  <2>0. /\ handler' = [handler EXCEPT ![s] = handler'[s]] /\ Moved(s) /\ handler \in [Sockets -> Handler]
        /\ turns' = turns /\ handler'[s] \in Handler
    BY <1>0, <1>2, Handled DEF TypeOK, tab
  <2>1. \A u \in Sockets : u # s => handler'[u] = handler[u]
    BY <2>0
  <2>2. handler'[s] \in {Waiting, Ended} => handler'[s].turn = 0
    BY DEF Waiting, Ended, Idle
  <2>3. CASE ~Took(s)
    <3>1. handler'[s].turn \in {0, handler[s].turn} /\ requests' = requests
      BY <2>0, <2>2, <2>3 DEF Moved, Rested, Stays, Advanced, WrotePrompt, WroteReply, WentOn, WroteLast
    <3>4. /\ \A u \in Sockets : handler'[u].turn = handler[u].turn \/ (u = s /\ handler'[u].turn = 0)
          /\ \A a \in Sockets : \A i \in DOMAIN requests[a] : requests[a][i].turn # 0
          /\ 0 <= turns
      BY <1>1, <2>1, <3>1
    <3>5. /\ \A a \in Sockets : \A i \in DOMAIN requests'[a] :
               /\ requests'[a][i].turn <= turns'
               /\ \A u \in Sockets : handler'[u].turn # requests'[a][i].turn
          /\ \A a, u \in Sockets : \A i \in DOMAIN requests'[a], j \in DOMAIN requests'[u] :
               requests'[a][i].turn = requests'[u][j].turn => a = u /\ i = j
      BY <1>0, <2>0, <3>1, <3>4 DEF TurnsOwned
    <3>6. \A a, u \in Sockets : handler'[a].turn = handler'[u].turn /\ a # u => handler'[a].turn = 0
      BY <1>0, <3>4 DEF TurnsOwned
    <3>7. \A a \in Sockets : handler'[a].turn <= turns'
      BY <1>0, <2>0, <3>4 DEF TurnsOwned
    <3>2. CASE messages' = messages
      BY <1>0, <2>0, <3>1, <3>2, <3>5, <3>6, <3>7 DEF TurnsOwned
    <3>3. ASSUME NEW e \in Entry, messages' = Append(messages, e), Working(s), e.turn = handler[s].turn
          PROVE  TurnsOwned'
      <4>1. \A k \in DOMAIN messages' : \/ k \in DOMAIN messages /\ messages'[k] = messages[k]
                                        \/ messages'[k].turn = handler[s].turn
        BY <1>0, <3>3, Entries
      <4>2. \A a \in Sockets : \A i \in DOMAIN requests[a], k \in DOMAIN messages' :
               messages'[k].turn # requests[a][i].turn
        BY <1>0, <4>1 DEF TurnsOwned
      <4>3. \A k \in DOMAIN messages' : messages'[k].turn <= turns
        BY <1>0, <4>1 DEF TurnsOwned
      <4> QED BY <2>0, <3>1, <3>5, <3>6, <3>7, <4>2, <4>3 DEF TurnsOwned
    <3> QED BY <1>0, <2>0, <3>2, <3>3, TranscriptGrows
  <2>4. CASE Took(s)
    <3> DEFINE q == requests[s]
    <3>1. q \in Seq(Request) /\ q # <<>> /\ requests' = [requests EXCEPT ![s] = Tail(q)] /\ messages' = messages
      BY <1>0, <2>4 DEF Took, TypeOK
    <3>2. /\ Len(Tail(q)) = Len(q) - 1 /\ Tail(q) \in Seq(Request)
          /\ \A i \in 1..Len(Tail(q)) : Tail(q)[i] = q[i + 1]
          /\ Len(q) \in Nat /\ DOMAIN q = 1..Len(q) /\ 1 \in DOMAIN q /\ Head(q) = q[1]
      BY <3>1, HeadTailProperties
    <3>3. DOMAIN requests'[s] = 1..(Len(q) - 1) /\ \A i \in DOMAIN requests'[s] : requests'[s][i] = q[i + 1]
      BY <1>0, <3>1, <3>2 DEF TypeOK
    <3>4. \A a \in Sockets : \A i \in DOMAIN requests'[a] : \E i0 \in DOMAIN requests[a] :
             /\ requests'[a][i] = requests[a][i0]
             /\ i0 = IF a = s THEN i + 1 ELSE i
             /\ i \in Nat \ {0}
      <4>1. ASSUME NEW a \in Sockets, a # s PROVE requests'[a] = requests[a]
        BY <1>0, <3>1, <4>1 DEF TypeOK
      <4>2. ASSUME NEW i \in DOMAIN requests'[s]
            PROVE  i + 1 \in DOMAIN q /\ requests'[s][i] = q[i + 1] /\ i \in Nat \ {0}
        BY <3>2, <3>3
      <4>3. ASSUME NEW a \in Sockets, NEW i \in DOMAIN requests[a] PROVE i \in Nat \ {0}
        BY <1>1
      <4> QED BY <4>1, <4>2, <4>3
    <3>5. handler'[s].turn = 0 \/ handler'[s].turn = requests[s][1].turn
      BY <2>2, <2>4, <3>2 DEF Took
    <3>6. \A a \in Sockets : \A i \in DOMAIN requests'[a] : requests'[a][i].turn # requests[s][1].turn
      <4> SUFFICES ASSUME NEW a \in Sockets, NEW i \in DOMAIN requests'[a],
                          requests'[a][i].turn = requests[s][1].turn
                   PROVE  FALSE
        OBVIOUS
      <4>1. PICK i0 \in DOMAIN requests[a] : /\ requests'[a][i] = requests[a][i0]
                                             /\ i0 = IF a = s THEN i + 1 ELSE i
                                             /\ i \in Nat \ {0}
        BY <3>4
      <4>2. a = s /\ i0 = 1
        BY <1>0, <3>2, <4>1 DEF TurnsOwned
      <4> QED BY <4>1, <4>2
    <3>7. \A a \in Sockets : \A i \in DOMAIN requests'[a] :
             /\ requests'[a][i].turn <= turns
             /\ \A u \in Sockets : handler'[u].turn # requests'[a][i].turn
             /\ \A k \in DOMAIN messages : messages[k].turn # requests'[a][i].turn
      <4> SUFFICES ASSUME NEW a \in Sockets, NEW i \in DOMAIN requests'[a]
                   PROVE  /\ requests'[a][i].turn <= turns
                          /\ \A u \in Sockets : handler'[u].turn # requests'[a][i].turn
                          /\ \A k \in DOMAIN messages : messages[k].turn # requests'[a][i].turn
        OBVIOUS
      <4>1. PICK i0 \in DOMAIN requests[a] : requests'[a][i] = requests[a][i0]
        BY <3>4
      <4>2. requests'[a][i].turn # 0 /\ requests'[a][i].turn <= turns
        BY <1>0, <1>1, <4>1 DEF TurnsOwned
      <4>3. handler'[s].turn # requests'[a][i].turn
        BY <3>5, <3>6, <4>2
      <4> QED BY <1>0, <2>1, <4>1, <4>2, <4>3 DEF TurnsOwned
    <3>8. \A a, b \in Sockets : \A i \in DOMAIN requests'[a], j \in DOMAIN requests'[b] :
             requests'[a][i].turn = requests'[b][j].turn => a = b /\ i = j
      <4> SUFFICES ASSUME NEW a \in Sockets, NEW b \in Sockets, NEW i \in DOMAIN requests'[a],
                          NEW j \in DOMAIN requests'[b], requests'[a][i].turn = requests'[b][j].turn
                   PROVE  a = b /\ i = j
        OBVIOUS
      <4>1. PICK i0 \in DOMAIN requests[a] : /\ requests'[a][i] = requests[a][i0]
                                             /\ i0 = IF a = s THEN i + 1 ELSE i
                                             /\ i \in Nat \ {0}
        BY <3>4
      <4>2. PICK j0 \in DOMAIN requests[b] : /\ requests'[b][j] = requests[b][j0]
                                             /\ j0 = IF b = s THEN j + 1 ELSE j
                                             /\ j \in Nat \ {0}
        BY <3>4
      <4>3. a = b /\ i0 = j0
        BY <1>0, <4>1, <4>2 DEF TurnsOwned
      <4> QED BY <4>1, <4>2, <4>3
    <3>9. \A a, u \in Sockets : handler'[a].turn = handler'[u].turn /\ a # u => handler'[a].turn = 0
      <4>1. \A u \in Sockets : handler[u].turn # requests[s][1].turn
        BY <1>0, <3>2 DEF TurnsOwned
      <4> QED BY <1>0, <2>1, <3>5, <4>1 DEF TurnsOwned
    <3>10. \A a \in Sockets : handler'[a].turn <= turns
      <4>1. 0 <= turns /\ requests[s][1].turn <= turns
        BY <1>0, <1>1, <3>2 DEF TurnsOwned
      <4> QED BY <1>0, <2>1, <3>5, <4>1 DEF TurnsOwned
    <3> QED BY <1>0, <2>0, <3>1, <3>7, <3>8, <3>9, <3>10 DEF TurnsOwned
  <2> QED BY <2>0, <2>3, <2>4 DEF Moved, Rested, Stays, Advanced, WrotePrompt, WroteReply, WentOn, WroteLast
<1>3. ASSUME UNCHANGED server, turns' = turns,
             \A s \in Sockets : requests'[s] \in {requests[s], <<>>}
      PROVE  TurnsOwned'
  <2>1. \A s \in Sockets : \A i \in DOMAIN requests'[s] :
           i \in DOMAIN requests[s] /\ requests'[s][i] = requests[s][i]
    <3>1. DOMAIN <<>> = {}
      OBVIOUS
    <3> QED BY <1>3, <3>1
  <2> QED BY <1>0, <1>3, <2>1 DEF TurnsOwned, server
<1>4. ASSUME NEW to \in Askable \cup {"crew", "nobody"}, SendChat(to) PROVE TurnsOwned'
  <2> DEFINE q == requests[ws]
             r == [turn |-> turns', to |-> to]
  <2>1. /\ turns' = turns + 1 /\ UNCHANGED server
        /\ requests' = [requests EXCEPT ![ws] = Append(q, r)]
    BY <1>4 DEF SendChat
  <2>2. ws \in Sockets
    BY <1>0, <1>1, <1>4 DEF SendChat, IInv, Fresh, Sockets, TypeOK
  <2>3. r \in Request /\ r.turn = turns + 1
    <3>1. turns' \in Turns
      BY <1>1, <1>4, ConstantsAssumption DEF SendChat, Turns
    <3> QED BY <2>1, <3>1, Crew DEF Request
  <2> HIDE DEF r
  <2>4. /\ DOMAIN requests'[ws] = 1..(Len(q) + 1) /\ DOMAIN q = 1..Len(q) /\ Len(q) \in Nat
        /\ \A i \in 1..Len(q) : requests'[ws][i] = q[i]
        /\ requests'[ws][Len(q) + 1] = r
    <3>1. q \in Seq(Request)
      BY <1>1, <2>2
    <3>2. requests'[ws] = Append(q, r)
      BY <1>0, <2>1, <2>2 DEF TypeOK
    <3> QED BY <2>3, <3>1, <3>2, AppendProperties
  <2>5. \A a \in Sockets : \A i \in DOMAIN requests'[a] :
           \/ i \in DOMAIN requests[a] /\ requests'[a][i] = requests[a][i]
           \/ a = ws /\ i = Len(q) + 1 /\ requests'[a][i].turn = turns + 1
    <3>1. ASSUME NEW a \in Sockets, a # ws PROVE requests'[a] = requests[a]
      BY <1>0, <2>1, <3>1 DEF TypeOK
    <3>2. ASSUME NEW i \in DOMAIN requests'[ws] PROVE i \in 1..Len(q) \/ i = Len(q) + 1
      BY <2>4
    <3> QED BY <2>3, <2>4, <3>1, <3>2
  <2>6. /\ \A s \in Sockets : \A i \in DOMAIN requests[s] :
              requests[s][i].turn <= turns /\ requests[s][i].turn <= turns' /\ requests[s][i].turn # turns + 1
        /\ \A s \in Sockets : handler[s].turn <= turns' /\ handler[s].turn # turns + 1
        /\ \A k \in DOMAIN messages : messages[k].turn <= turns' /\ messages[k].turn # turns + 1
        /\ turns + 1 <= turns'
    BY <1>0, <1>1, <2>1 DEF TurnsOwned
  <2>7. \A a \in Sockets : \A i \in DOMAIN requests'[a] :
          /\ requests'[a][i].turn <= turns'
          /\ \A u \in Sockets : handler[u].turn # requests'[a][i].turn
          /\ \A k \in DOMAIN messages : messages[k].turn # requests'[a][i].turn
    BY <1>0, <2>5, <2>6 DEF TurnsOwned
  <2>8. \A a, b \in Sockets : \A i \in DOMAIN requests'[a], j \in DOMAIN requests'[b] :
             requests'[a][i].turn = requests'[b][j].turn => a = b /\ i = j
    BY <1>0, <2>5, <2>6 DEF TurnsOwned
  <2> QED BY <1>0, <2>1, <2>6, <2>7, <2>8 DEF TurnsOwned, server
<1>5. CASE AgentsFetched \/ Connect \/ HandleFrame \/ OnClose \/ CancelChat \/ UNCHANGED vars
  <2>1. /\ UNCHANGED server /\ turns' = turns
        /\ requests' = requests \/ requests' = [requests EXCEPT ![ws] = <<>>]
    BY <1>5 DEF AgentsFetched, Connect, HandleFrame, OnClose, CancelChat, vars, tab, server
  <2> QED BY <1>0, <1>3, <2>1 DEF TypeOK
<1> QED BY <1>2, <1>4, <1>5 DEF Next

LEMMA EntriesTyped ==
    ASSUME TypeOK, NEW k \in DOMAIN messages
    PROVE  /\ messages[k] \in Entry /\ messages[k].turn \in Turns /\ k \in Nat
           /\ messages[k] = [turn |-> messages[k].turn, by |-> messages[k].by]
<1>1. messages \in Seq(Entry)
  BY DEF TypeOK
<1>2. messages[k] \in Entry /\ k \in Nat
  BY <1>1
<1> QED BY <1>2 DEF Entry

\* The transcript of a turn grows by its own handler only.
LEMMA WrittenStep ==
    ASSUME IInv, [Next]_vars, NEW u \in Sockets
    PROVE  Written(u)'
<1>0. TypeOK /\ TodoInOrder /\ TurnsOwned /\ Written(u)
  BY DEF IInv
<1>1. CASE UNCHANGED server
  BY <1>0, <1>1 DEF server, Written, Stored
<1>2. ASSUME NEW s \in Sockets, Handle(s) PROVE Written(u)'
  <2> DEFINE h == handler[s]
             g == handler'[s]
  <2>0. /\ handler' = [handler EXCEPT ![s] = handler'[s]] /\ Moved(s) /\ handler \in [Sockets -> Handler]
        /\ messages' \in Seq(Entry)
        /\ \/ messages' = messages
           \/ \E e \in Entry : messages' = Append(messages, e) /\ Working(s) /\ e.turn = h.turn
    BY <1>0, <1>2, Handled, TranscriptGrows DEF TypeOK
  <2>1. \A t, by : Stored(t, by) => Stored(t, by)'
    BY <1>0, <2>0, StoredStays
  <2>2. CASE u # s
    <3>1. handler'[u] = handler[u]
      BY <2>0, <2>2
    <3>2. CASE ~Working(u)
      BY <3>1, <3>2 DEF Working, Written, Unwritten, Places
    <3>3. CASE Working(u) /\ messages' = messages
      BY <1>0, <3>1, <3>3 DEF Written, Stored
    <3>4. ASSUME NEW e \in Entry, messages' = Append(messages, e), Working(s), e.turn = h.turn, Working(u)
          PROVE  Written(u)'
      <4>1. e.turn # handler[u].turn
        BY <1>0, <2>2, <3>4, Handlers DEF TurnsOwned
      <4>2. \A k \in DOMAIN messages' : messages'[k].turn = handler[u].turn =>
               k \in DOMAIN messages /\ messages'[k] = messages[k]
        BY <1>0, <3>4, <4>1, Entries
      <4> QED BY <1>0, <2>1, <3>1, <4>2 DEF Written
    <3> QED BY <2>0, <3>2, <3>3, <3>4
  <2>3. CASE u = s
    <3>0. Written(s) /\ h.pc \in {"receiving", "ended"} \cup Places
      BY <1>0, <2>3, Handlers DEF Working, Waiting, Ended, Idle
    <3>1. CASE g.pc \notin Places
      BY <2>3, <3>1 DEF Written, Unwritten, Places
    <3>2. CASE Took(s) /\ g.pc \in Unwritten
      <4>1. requests[s] # <<>> /\ messages' = messages
            /\ (g \in {Waiting, Ended} \/ g.turn = Head(requests[s]).turn)
        BY <3>2 DEF Took
      <4>2. g \notin {Waiting, Ended}
        BY <3>2 DEF Waiting, Ended, Idle, Unwritten
      <4>3. 1 \in DOMAIN requests[s] /\ Head(requests[s]) = requests[s][1]
        <5>1. requests[s] \in Seq(Request)
          BY <1>0 DEF TypeOK
        <5> QED BY <4>1, <5>1
      <4>4. \A k \in DOMAIN messages' : messages'[k].turn # g.turn
        BY <1>0, <4>1, <4>2, <4>3 DEF TurnsOwned
      <4>5. g.pc # "auditing_reply" /\ g.pc \notin Places \ Unwritten
        BY <3>2 DEF Unwritten
      <4> QED BY <2>3, <4>4, <4>5 DEF Written
    <3>3. CASE Advanced(s)
      BY <2>3, <3>0, <3>3 DEF Advanced, Stays, Written, Unwritten, Working, Stored
    <3>4. CASE WrotePrompt(s)
      <4> DEFINE e == [turn |-> h.turn, by |-> "user"]
      <4>1. Working(s) /\ h.pc = "saving_prompt" /\ g.pc = "auditing_prompt" /\ g.turn = h.turn
        BY <3>4 DEF WrotePrompt, Stays
      <4>2. e \in Entry /\ messages' = Append(messages, e) /\ e.by = "user"
        BY <1>0, <3>4, <4>1, Handlers DEF WrotePrompt, AddMessage, Entry
      <4> HIDE DEF e
      <4>7. \E k \in DOMAIN messages' : messages'[k] = e
        BY <1>0, <4>2, Entries
      <4>3. Stored(h.turn, "user")'
        BY <4>1, <4>7 DEF Stored, e
      <4>4. \A k \in DOMAIN messages' : messages'[k].turn = h.turn => messages'[k].by = "user"
        BY <1>0, <3>0, <4>1, <4>2, Entries DEF Written, Unwritten
      <4>5. \A m \in DOMAIN Roles : Roles[m] # "user"
        BY Crew DEF Agents
      <4>6. \A k \in DOMAIN messages', m \in DOMAIN Roles : messages'[k] # [turn |-> h.turn, by |-> Roles[m]]
        BY <4>4, <4>5
      <4> QED BY <2>3, <4>1, <4>3, <4>6 DEF Written, Unwritten
    <3>5. CASE WroteReply(s)
      <4> DEFINE todo == h.todo
                 e == [turn |-> h.turn, by |-> Head(todo)]
      <4>1. Working(s) /\ h.pc = "saving_reply" /\ g.pc = "auditing_reply" /\ g.turn = h.turn /\ g.todo = todo
        BY <3>5 DEF WroteReply, Stays
      <4>2. todo \in Seq(Agents) /\ todo # <<>> /\ Ascends(todo)
        BY <1>0, <4>1, Handlers DEF TodoInOrder, Working
      <4>3. 1 \in DOMAIN todo /\ Head(todo) = todo[1] /\ DOMAIN todo \subseteq Nat \ {0} /\ Head(todo) \in Agents
        BY <4>2
      <4>4. e \in Entry /\ messages' = Append(messages, e) /\ e.by = Head(todo)
        BY <1>0, <3>5, <4>1, <4>3, Handlers DEF WroteReply, AddMessage, Entry
      <4> HIDE DEF e
      <4>8. \E k \in DOMAIN messages' : messages'[k] = e
        BY <1>0, <4>4, Entries
      <4>5. Stored(h.turn, Head(todo))'
        BY <4>1, <4>8 DEF Stored, e
      <4>6. Stored(h.turn, "user")'
        BY <2>1, <3>0, <4>1 DEF Written, Unwritten, Places
      <4>7. ASSUME NEW k \in DOMAIN messages', NEW j \in DOMAIN todo, NEW m \in DOMAIN Roles, NEW n \in DOMAIN Roles,
                   messages'[k] = [turn |-> h.turn, by |-> Roles[m]], todo[j] = Roles[n]
            PROVE  m < n \/ (m = n /\ j = 1)
        <5>1. CASE k \in DOMAIN messages /\ messages'[k] = messages[k]
          BY <3>0, <4>1, <4>7, <5>1 DEF Written, Unwritten, Places
        <5>2. CASE messages'[k] = e
          <6>1. Roles[m] = todo[1]
            BY <4>3, <4>4, <4>7, <5>2
          <6>2. CASE j = 1
            BY <4>7, <6>1, <6>2, ConstantsAssumption
          <6>3. CASE j # 1
            <7>1. 1 < j
              BY <4>3, <6>3
            <7> QED BY <4>2, <4>3, <4>7, <6>1, <7>1 DEF Ascends
          <6> QED BY <6>2, <6>3
        <5> QED BY <1>0, <4>4, <5>1, <5>2, Entries
      <4> QED BY <2>3, <4>1, <4>5, <4>6, <4>7 DEF Written, Unwritten
    <3>6. CASE WentOn(s)
      <4> DEFINE todo == h.todo
      <4>1. /\ Working(s) /\ h.pc \in {"auditing_reply", "auditing_error"} /\ g.pc = "opening" /\ g.turn = h.turn
            /\ g.todo = Tail(todo) /\ messages' = messages
        BY <3>6 DEF WentOn, Stays
      <4>2. todo \in Seq(Agents) /\ todo # <<>>
        BY <1>0, <4>1, Handlers DEF TodoInOrder, Working
      <4>3. \A j \in DOMAIN g.todo : j + 1 \in DOMAIN todo /\ g.todo[j] = todo[j + 1] /\ j + 1 # 1
        <5> DEFINE tail == Tail(todo)
        <5>1. /\ tail \in Seq(Agents) /\ Len(tail) = Len(todo) - 1 /\ Len(todo) \in Nat
              /\ \A i \in 1..Len(tail) : tail[i] = todo[i + 1]
          BY <4>2, HeadTailProperties
        <5> HIDE DEF tail
        <5>2. DOMAIN tail = 1..(Len(todo) - 1) /\ DOMAIN todo = 1..Len(todo)
          BY <4>2, <5>1
        <5>3. \A j \in 1..(Len(todo) - 1) : j + 1 \in 1..Len(todo) /\ j + 1 # 1
          BY <5>1
        <5> QED BY <4>1, <5>1, <5>2, <5>3 DEF tail
      <4>4. Stored(h.turn, "user")'
        BY <2>1, <3>0, <4>1 DEF Written, Unwritten, Places
      <4>5. ASSUME NEW k \in DOMAIN messages, NEW j \in DOMAIN g.todo, NEW m \in DOMAIN Roles, NEW n \in DOMAIN Roles,
                   messages[k] = [turn |-> h.turn, by |-> Roles[m]], g.todo[j] = Roles[n]
            PROVE  m < n
        BY <3>0, <4>1, <4>3, <4>5 DEF Written, Unwritten, Places
      <4> QED BY <2>3, <4>1, <4>4, <4>5 DEF Written, Unwritten
    <3>7. Rested(s) \/ WroteLast(s) \/ (Took(s) /\ g.pc \notin Unwritten) => g.pc \notin Places
      BY DEF Rested, WroteLast, Took, Waiting, Ended, Idle, Places
    <3> QED BY <2>0, <3>1, <3>2, <3>3, <3>4, <3>5, <3>6, <3>7 DEF Moved
  <2> QED BY <2>2, <2>3
<1> QED BY <1>1, <1>2, TabOrServer

LEMMA OrderStep ==
    ASSUME IInv, [Next]_vars
    PROVE  TurnsInOrder'
<1>0. TypeOK /\ TodoInOrder /\ TurnsInOrder /\ \A s \in Sockets : Written(s)
  BY DEF IInv
<1>1. CASE messages' = messages
  BY <1>0, <1>1 DEF TurnsInOrder
<1> DEFINE New == Len(messages) + 1
           Old(k) == k \in DOMAIN messages /\ messages'[k] = messages[k] /\ k < New
<1>2. ASSUME NEW e \in Entry, messages' = Append(messages, e),
             \A k \in DOMAIN messages : messages[k] # e,
             e.by # "user" => Stored(e.turn, "user"),
             \A k \in DOMAIN messages, m, n \in DOMAIN Roles :
                e.by = Roles[m] /\ messages[k] = [turn |-> e.turn, by |-> Roles[n]] => ~(m < n)
      PROVE  TurnsInOrder'
  <2>1. /\ DOMAIN messages' = 1..New /\ DOMAIN messages = 1..Len(messages)
        /\ \A k \in DOMAIN messages' : Old(k) \/ (k = New /\ messages'[k] = e)
        /\ \A k \in DOMAIN messages : Old(k) /\ k \in DOMAIN messages'
        /\ Len(messages) \in Nat
    <3>1. \A k \in 1..Len(messages) : k < New
      BY <1>0, <1>2, Entries
    <3> QED BY <1>0, <1>2, <3>1, Entries
  <2>2. \A i, j \in DOMAIN messages' : messages'[i] = messages'[j] => i = j
    BY <1>0, <1>2, <2>1 DEF TurnsInOrder
  <2>3. ASSUME NEW i \in DOMAIN messages', messages'[i].by # "user"
        PROVE  \E j \in 1..(i - 1) : messages'[j] = [turn |-> messages'[i].turn, by |-> "user"]
    <3>1. CASE Old(i)
      <4>1. PICK j \in 1..(i - 1) : messages[j] = [turn |-> messages[i].turn, by |-> "user"]
        BY <1>0, <2>3, <3>1 DEF TurnsInOrder
      <4>2. j \in DOMAIN messages
        BY <2>1, <3>1, <4>1
      <4> QED BY <2>1, <3>1, <4>1, <4>2
    <3>2. CASE i = New /\ messages'[i] = e
      <4>1. PICK j \in DOMAIN messages : messages[j] = [turn |-> e.turn, by |-> "user"]
        BY <1>2, <2>3, <3>2 DEF Stored
      <4>2. j \in 1..(i - 1)
        BY <2>1, <3>2, <4>1
      <4> QED BY <2>1, <3>2, <4>1, <4>2
    <3> QED BY <2>1, <3>1, <3>2
  <2>4. ASSUME NEW i \in DOMAIN messages', NEW j \in DOMAIN messages', NEW m \in DOMAIN Roles, NEW n \in DOMAIN Roles,
               messages'[i] = [turn |-> messages'[j].turn, by |-> Roles[m]], messages'[j].by = Roles[n], m < n
        PROVE  i < j
    <3>1. CASE Old(i) /\ Old(j)
      BY <1>0, <2>4, <3>1 DEF TurnsInOrder
    <3>2. CASE Old(i) /\ j = New
      BY <3>2
    <3>3. CASE i = New /\ messages'[i] = e /\ Old(j)
      <4>1. e.turn = messages[j].turn /\ e.by = Roles[m]
        BY <2>4, <3>3
      <4>2. messages[j] = [turn |-> e.turn, by |-> Roles[n]]
        BY <1>0, <2>4, <3>3, <4>1, EntriesTyped
      <4> QED BY <1>2, <2>4, <3>3, <4>1, <4>2
    <3>4. CASE i = New /\ j = New
      <4>1. Roles[m] = Roles[n]
        BY <2>4, <3>4
      <4>2. m \in Nat /\ m = n
        BY <4>1, Crew, ConstantsAssumption
      <4> QED BY <2>4, <4>2
    <3> QED BY <2>1, <3>1, <3>2, <3>3, <3>4
  <2> QED BY <2>2, <2>3, <2>4 DEF TurnsInOrder
<1>3. ASSUME NEW s \in Sockets, Working(s), handler[s].pc = "saving_prompt",
             AddMessage(handler[s].turn, "user")
      PROVE  TurnsInOrder'
  <2> DEFINE t == handler[s].turn
             e == [turn |-> t, by |-> "user"]
  <2>1. t \in Turns /\ handler[s].pc \in Unwritten /\ messages' = Append(messages, e)
    BY <1>0, <1>3, Handlers DEF AddMessage, Unwritten
  <2>2. e \in Entry /\ e.turn = t /\ e.by = "user"
    BY <2>1 DEF Entry
  <2> HIDE DEF e
  <2>3. \A k \in DOMAIN messages : messages[k] # e
    BY <1>0, <2>1, <2>2 DEF Written
  <2>4. \A m \in DOMAIN Roles : Roles[m] # "user"
    BY Crew DEF Agents
  <2> QED BY <1>2, <2>1, <2>2, <2>3, <2>4
<1>4. ASSUME NEW s \in Sockets, Working(s), handler[s].pc = "saving_reply",
             AddMessage(handler[s].turn, Head(handler[s].todo))
      PROVE  TurnsInOrder'
  <2> DEFINE t == handler[s].turn
             todo == handler[s].todo
             e == [turn |-> t, by |-> Head(todo)]
  <2>1. /\ Working(s) /\ handler[s].pc = "saving_reply" /\ t \in Turns /\ messages' = Append(messages, e)
        /\ todo \in Seq(Agents) /\ todo # <<>>
    BY <1>0, <1>4, Handlers DEF AddMessage, Working, TodoInOrder
  <2>2. 1 \in DOMAIN todo /\ Head(todo) = todo[1] /\ todo[1] \in Agents
    BY <2>1
  <2>3. e \in Entry /\ e.turn = t /\ e.by = todo[1]
    BY <2>1, <2>2 DEF Entry
  <2> HIDE DEF e
  <2>4. PICK n1 \in DOMAIN Roles : todo[1] = Roles[n1]
    BY <2>2, Crew
  <2>5. \A k \in DOMAIN messages, m \in DOMAIN Roles :
           messages[k] = [turn |-> t, by |-> Roles[m]] => m < n1
    BY <1>0, <2>1, <2>2, <2>4 DEF Written, Unwritten, Places
  <2>6. n1 \in Nat /\ DOMAIN Roles \subseteq Nat
    BY Crew
  <2>7. \A k \in DOMAIN messages : messages[k] # e
    <3>1. e = [turn |-> t, by |-> Roles[n1]]
      BY <2>2, <2>4 DEF e
    <3> QED BY <2>5, <2>6, <3>1
  <2>8. Stored(t, "user")
    BY <1>0, <2>1 DEF Written, Unwritten, Places
  <2>9. \A k \in DOMAIN messages, m, n \in DOMAIN Roles :
           e.by = Roles[m] /\ messages[k] = [turn |-> e.turn, by |-> Roles[n]] => ~(m < n)
    <3> SUFFICES ASSUME NEW k \in DOMAIN messages, NEW m \in DOMAIN Roles, NEW n \in DOMAIN Roles,
                        e.by = Roles[m], messages[k] = [turn |-> e.turn, by |-> Roles[n]]
                 PROVE  ~(m < n)
      OBVIOUS
    <3>1. m = n1 /\ n < n1
      BY <2>3, <2>4, <2>5, ConstantsAssumption
    <3> QED BY <2>6, <3>1
  <2> QED BY <1>2, <2>1, <2>3, <2>7, <2>8, <2>9
<1>5. ASSUME NEW s \in Sockets, Handle(s) PROVE TurnsInOrder'
  <2>1. CASE WrotePrompt(s) \/ WroteReply(s) \/ WroteLast(s)
    BY <1>3, <1>4, <2>1 DEF WrotePrompt, WroteReply, WroteLast, Stays
  <2> QED BY <1>0, <1>1, <1>5, <2>1, Handled DEF Moved, Rested, Took, Advanced, WentOn
<1> QED BY <1>1, <1>5, TabOrServer DEF server
-----------------------------------------------------------------------------
(* What the tab is shown                                                   *)

\* A handler sends nothing that is to be shown before it is on record.
LEMMA FramesSent ==
    ASSUME TypeOK, TodoInOrder, NEW s \in Sockets, Written(s), Handle(s)
    PROVE  \/ frames' = frames
           \/ \E f \in Frame : frames' = [frames EXCEPT ![s] = Append(@, f)] /\ Recorded(f)'
<1> DEFINE h == handler[s]
           Fine == \/ frames' = frames
                   \/ \E f \in Frame : frames' = [frames EXCEPT ![s] = Append(@, f)] /\ Recorded(f)'
           F(type, agent, t) == [type |-> type, agent |-> agent, turn |-> t]
<1>0. Waiting \in Handler /\ (Working(s) => h.turn \in Turns)
  BY Handlers, Places1
<1>1. ASSUME NEW t \in Turns, NEW type \in {"start", "token", "error"}, NEW agent \in Agents \cup {"user", "system"},
             frames' = [frames EXCEPT ![s] = Append(@, F(type, agent, t))]
      PROVE  Fine
  <2>1. F(type, agent, t) \in Frame /\ F(type, agent, t).type \notin {"user", "done"}
    BY DEF Frame
  <2> HIDE DEF F
  <2>2. Recorded(F(type, agent, t))'
    BY <2>1 DEF Recorded
  <2> QED BY <1>1, <2>1, <2>2
<1>2. CASE Receive(s)
  <2> DEFINE request == Head(requests[s])
  <2>1. request.turn \in Turns
    <3>1. requests[s] \in Seq(Request) /\ requests[s] # <<>>
      BY <1>2 DEF TypeOK, Receive
    <3>2. request \in Request
      BY <3>1, HeadTailProperties
    <3> QED BY <3>2 DEF Request
  <2>2. frames' = frames \/ SendFrame(s, request.turn, "error", "system", Waiting)
    BY <1>2 DEF Receive
  <2> HIDE DEF request
  <2>3. \/ frames' = frames
        \/ frames' = [frames EXCEPT ![s] = Append(@, F("error", "system", request.turn))]
    BY <1>0, <2>1, <2>2, Sends
  <2> QED BY <1>1, <2>1, <2>3
<1>3. CASE LimitAudited(s)
  <2>1. Working(s)
    BY <1>3 DEF LimitAudited, At, Working, Places
  <2>2. SendFrame(s, h.turn, "error", "system", Waiting)
    BY <1>3 DEF LimitAudited
  <2>3. \/ frames' = frames
        \/ frames' = [frames EXCEPT ![s] = Append(@, F("error", "system", h.turn))]
    BY <1>0, <2>1, <2>2, Sends
  <2> QED BY <1>0, <1>1, <2>1, <2>3
<1>4. CASE PromptAudited(s)
  <2> DEFINE g == [h EXCEPT !.pc = "opening"]
  <2>1. Working(s) /\ h.pc = "auditing_prompt" /\ h.pc \in Places \ Unwritten /\ h.turn \in Turns
    BY <1>0, <1>4 DEF PromptAudited, At, Working, Places, Unwritten
  <2>2. g \in Handler
    BY <2>1, Handlers, Places1 DEF Places
  <2>3. SendFrame(s, h.turn, "user", "user", g) /\ messages' = messages /\ Audit(h.turn, "user")
    BY <1>4 DEF PromptAudited
  <2> HIDE DEF g
  <2>5. PICK f \in Frame : f = F("user", "user", h.turn)
    BY <2>1 DEF Frame
  <2>4. frames' = frames \/ frames' = [frames EXCEPT ![s] = Append(@, f)]
    BY <2>1, <2>2, <2>3, <2>5, Sends
  <2>6. Stored(h.turn, "user") /\ [turn |-> h.turn, by |-> "user"] \in audited'
    BY <2>1, <2>3 DEF Written, Audit
  <2>7. Recorded(f)'
    BY <2>3, <2>5, <2>6 DEF Recorded, Stored
  <2> QED BY <2>4, <2>7
<1>5. ASSUME NEW type \in {"start", "token", "error"}, NEW g \in Handler, Say(s, type, g),
             Working(s), h.pc # "auditing_limit"
      PROVE  Fine
  <2>0. type \in {"user", "start", "token", "done", "error"}
    OBVIOUS
  <2>1. h.turn \in Turns /\ Head(h.todo) \in Agents
    BY <1>0, <1>5, <2>0, Says
  <2>2. frames' = frames \/ frames' = [frames EXCEPT ![s] = Append(@, F(type, Head(h.todo), h.turn))]
    BY <1>5, <2>0, Says, ZenonT(60)
  <2> QED BY <1>1, <2>1, <2>2
<1>6. CASE StartRole(s) \/ Token(s)
  <2>1. Working(s) /\ h.pc # "auditing_limit" /\ "streaming" \in Places
    BY <1>6 DEF StartRole, Token, At, Working, Places
  <2>2. [h EXCEPT !.pc = "streaming"] \in Handler /\ [h EXCEPT !.spoke = TRUE] \in Handler
    BY <2>1, Handlers, Places1
  <2> QED BY <1>5, <1>6, <2>1, <2>2 DEF StartRole, Token
<1>7. ASSUME Working(s), h.pc # "auditing_limit"
      PROVE  (IF Len(h.todo) > 1
               THEN [h EXCEPT !.pc = "opening", !.todo = Tail(@), !.spoke = FALSE] ELSE Waiting) \in Handler
  <2>1. h.todo # <<>>
    BY <1>7 DEF Working, TodoInOrder
  <2> QED BY <1>0, <1>7, <2>1, Handlers, Places1
<1>8. CASE ErrorAudited(s)
  <2>1. Working(s) /\ h.pc # "auditing_limit"
    BY <1>8 DEF ErrorAudited, At, Working, Places
  <2> QED BY <1>5, <1>7, <1>8, <2>1 DEF ErrorAudited, RoleLeft
<1>9. CASE ReplyAudited(s)
  <2> DEFINE g == IF Len(h.todo) > 1
                    THEN [h EXCEPT !.pc = "opening", !.todo = Tail(@), !.spoke = FALSE] ELSE Waiting
             a == Head(h.todo)
  <2>1. Working(s) /\ h.pc = "auditing_reply" /\ h.turn \in Turns
    BY <1>0, <1>9 DEF ReplyAudited, At, Working, Places
  <2>2. g \in Handler
    BY <1>7, <2>1
  <2>3. Say(s, "done", g) /\ messages' = messages /\ Audit(h.turn, a)
    BY <1>9 DEF ReplyAudited, RoleLeft
  <2> HIDE DEF g
  <2>4. /\ a \in Agents
        /\ \/ frames' = frames
           \/ frames' = [frames EXCEPT ![s] = Append(@, F("done", a, h.turn))]
    BY <2>1, <2>2, <2>3, Says
  <2>6. Stored(h.turn, a) /\ [turn |-> h.turn, by |-> a] \in audited'
    BY <2>1, <2>3 DEF Written, Audit
  <2> HIDE DEF a
  <2>5. PICK f \in Frame : f = F("done", a, h.turn)
    BY <2>1, <2>4 DEF Frame
  <2>7. Recorded(f)'
    BY <2>3, <2>5, <2>6 DEF Recorded, Stored
  <2> QED BY <2>4, <2>5, <2>7
<1>10. ASSUME ~Receive(s), ~LimitAudited(s), ~PromptAudited(s), ~StartRole(s), ~Token(s),
              ~ReplyAudited(s), ~ErrorAudited(s)
       PROVE  frames' = frames
  BY <1>10 DEF Handle, PromptSaved, ReplySaved, StreamEnds, StreamFails, StoreFails, AuditFails, Disconnected
<1> QED BY <1>2, <1>3, <1>4, <1>6, <1>8, <1>9, <1>10

LEMMA RecordedStays ==
    ASSUME TypeOK, NEW f, Recorded(f), audited \subseteq audited',
           messages' = messages \/ \E e \in Entry : messages' = Append(messages, e)
    PROVE  Recorded(f)'
<1>1. \A t, by : Stored(t, by) => Stored(t, by)'
  BY StoredStays
<1> QED BY <1>1 DEF Recorded

LEMMA ShownStep ==
    ASSUME IInv, [Next]_vars
    PROVE  FramesRecorded'
<1>0. TypeOK /\ TodoInOrder /\ FramesRecorded /\ \A s \in Sockets : Written(s)
  BY DEF IInv
<1>2. /\ messages' = messages \/ \E e \in Entry : messages' = Append(messages, e)
      /\ audited \subseteq audited'
  <2>1. ASSUME NEW s \in Sockets, Handle(s)
        PROVE  /\ messages' = messages \/ \E e \in Entry : messages' = Append(messages, e)
               /\ audited \subseteq audited'
    BY <1>0, <2>1, Handled, TranscriptGrows, AuditGrows
  <2> QED BY <2>1, TabOrServer DEF server
<1>3. \A f : Recorded(f) => Recorded(f)'
  BY <1>0, <1>2, RecordedStays
<1>4. ASSUME \A s \in Sockets : \A i \in DOMAIN frames'[s] :
                \E f : /\ f = frames'[s][i]
                       /\ Recorded(f)' \/ \E j \in DOMAIN frames[s] : f = frames[s][j]
      PROVE  FramesRecorded'
  <2> SUFFICES ASSUME NEW s \in Sockets, NEW i \in DOMAIN frames'[s] PROVE Recorded(frames[s][i])'
    BY DEF FramesRecorded
  <2>1. PICK f : /\ f = frames'[s][i]
                 /\ Recorded(f)' \/ \E j \in DOMAIN frames[s] : f = frames[s][j]
    BY <1>4
  <2>2. Recorded(f)'
    BY <1>0, <1>3, <2>1 DEF FramesRecorded
  <2> QED BY <2>1, <2>2 DEF Recorded
<1>6. ASSUME NEW s \in Sockets, Handle(s) PROVE FramesRecorded'
  <2>3. CASE frames' = frames
    BY <1>4, <2>3
  <2>4. ASSUME NEW f \in Frame, frames' = [frames EXCEPT ![s] = Append(@, f)], Recorded(f)'
        PROVE  FramesRecorded'
    <3>1. frames[s] \in Seq(Frame) /\ frames'[s] = Append(frames[s], f)
      BY <1>0, <2>4 DEF TypeOK
    <3>2. \A i \in DOMAIN frames'[s] :
             (i \in DOMAIN frames[s] /\ frames'[s][i] = frames[s][i]) \/ frames'[s][i] = f
      BY <3>1, AppendProperties
    <3>3. \A u \in Sockets : u # s => frames'[u] = frames[u]
      BY <1>0, <2>4 DEF TypeOK
    <3> QED BY <1>4, <2>4, <3>2, <3>3
  <2> QED BY <1>0, <1>6, <2>3, <2>4, FramesSent
<1>7. CASE HandleFrame
  <2> DEFINE q == frames[ws]
  <2>1. ws \in Sockets
    BY <1>7, ConstantsAssumption DEF HandleFrame, IInv, TypeOK, Fresh, Sockets
  <2>2. q \in Seq(Frame) /\ q # <<>> /\ frames' = [frames EXCEPT ![ws] = Tail(q)]
    BY <1>0, <1>7, <2>1 DEF HandleFrame, TypeOK
  <2>3. /\ DOMAIN Tail(q) = 1..(Len(q) - 1) /\ DOMAIN q = 1..Len(q) /\ Len(q) \in Nat
        /\ \A i \in 1..(Len(q) - 1) : Tail(q)[i] = q[i + 1]
        /\ 1 \in DOMAIN q /\ Head(q) = q[1]
    BY <2>2, HeadTailProperties
  <2>4. \A i \in 1..(Len(q) - 1) : i + 1 \in 1..Len(q)
    BY <2>3
  <2>5. \A i \in DOMAIN frames'[ws] : \E j \in DOMAIN frames[ws] : frames'[ws][i] = frames[ws][j]
    BY <1>0, <2>1, <2>2, <2>3, <2>4 DEF TypeOK
  <2>6. \A u \in Sockets : u # ws => frames'[u] = frames[u]
    BY <1>0, <2>2 DEF TypeOK
  <2> QED BY <1>4, <2>5, <2>6
<1>8. CASE \/ AgentsFetched \/ Connect \/ OnClose \/ CancelChat \/ UNCHANGED vars
           \/ \E to \in Askable \cup {"crew", "nobody"} : SendChat(to)
  <2>2. \A s \in Sockets : frames'[s] \in {frames[s], <<>>}
    BY <1>0, <1>8 DEF AgentsFetched, Connect, OnClose, CancelChat, SendChat, Closed, vars, TypeOK
  <2>3. DOMAIN <<>> = {}
    OBVIOUS
  <2> QED BY <1>4, <2>2, <2>3
<1> QED BY <1>6, <1>7, <1>8 DEF Next
-----------------------------------------------------------------------------
(* How many replies end                                                    *)

LEMMA EndingEmpty == Ending(<<>>) = 0
<1>1. {i \in DOMAIN <<>> : Ends(<<>>[i])} = {}
  OBVIOUS
<1> QED BY <1>1, FS_EmptySet DEF Ending

LEMMA EndingNat ==
    ASSUME NEW q \in Seq(Frame)
    PROVE  /\ IsFiniteSet({i \in DOMAIN q : Ends(q[i])}) /\ Ending(q) \in Nat
           /\ (\E i \in DOMAIN q : Ends(q[i])) => Ending(q) > 0
<1> DEFINE Ns == {i \in DOMAIN q : Ends(q[i])}
<1>1. Len(q) \in Int /\ DOMAIN q = 1..Len(q)
  OBVIOUS
<1>2. IsFiniteSet(DOMAIN q)
  BY <1>1, FS_Interval
<1>3. IsFiniteSet(Ns)
  BY <1>2, FS_Subset
<1>4. Cardinality(Ns) \in Nat /\ (Cardinality(Ns) = 0 <=> Ns = {})
  BY <1>3, FS_CardinalityType, FS_EmptySet
<1> QED BY <1>3, <1>4 DEF Ending

LEMMA EndingAppend ==
    ASSUME NEW q \in Seq(Frame), NEW f \in Frame
    PROVE  Ending(Append(q, f)) = IF Ends(f) THEN Ending(q) + 1 ELSE Ending(q)
<1> DEFINE n == Len(q)
           Ns == {i \in DOMAIN q : Ends(q[i])}
           Ms == {i \in DOMAIN Append(q, f) : Ends(Append(q, f)[i])}
<1>1. /\ n \in Nat /\ DOMAIN q = 1..n /\ DOMAIN Append(q, f) = 1..(n + 1)
      /\ Append(q, f)[n + 1] = f
      /\ \A i \in 1..n : Append(q, f)[i] = q[i]
  BY AppendProperties
<1> HIDE DEF n
<1>2. Ms = IF Ends(f) THEN Ns \cup {n + 1} ELSE Ns
  <2>1. 1..(n + 1) = 1..n \cup {n + 1}
    BY <1>1
  <2> QED BY <1>1, <2>1
<1>3. IsFiniteSet(Ns) /\ n + 1 \notin Ns
  BY <1>1, EndingNat
<1> HIDE DEF Ns, Ms
<1>4. Cardinality(Ms) = IF Ends(f) THEN Cardinality(Ns) + 1 ELSE Cardinality(Ns)
  BY <1>2, <1>3, FS_AddElement
<1> QED BY <1>4 DEF Ending, Ns, Ms

LEMMA EndingTail ==
    ASSUME NEW q \in Seq(Frame), q # <<>>
    PROVE  Ending(q) = IF Ends(Head(q)) THEN Ending(Tail(q)) + 1 ELSE Ending(Tail(q))
<1> DEFINE n == Len(q)
           t == Tail(q)
           Ns == {i \in DOMAIN q : Ends(q[i])}
           Ts == {i \in DOMAIN t : Ends(t[i])}
           g == [i \in Ts |-> i + 1]
<1>0. t \in Seq(Frame)
  BY HeadTailProperties
<1>1. /\ n \in Nat /\ n > 0 /\ DOMAIN q = 1..n /\ DOMAIN t = 1..(n - 1)
      /\ Head(q) = q[1] /\ \A i \in 1..(n - 1) : t[i] = q[i + 1]
  BY HeadTailProperties
<1>2. IsFiniteSet(Ns) /\ IsFiniteSet(Ts)
  BY <1>0, EndingNat
<1> HIDE DEF n, t
<1>3. g \in Bijection(Ts, Ns \ {1})
  <2>1. g \in [Ts -> Ns \ {1}]
    BY <1>1
  <2>2. \A i, j \in Ts : g[i] = g[j] => i = j
    BY <1>1
  <2>3. ASSUME NEW k \in Ns \ {1} PROVE \E i \in Ts : g[i] = k
    <3>1. k - 1 \in 1..(n - 1) /\ (k - 1) + 1 = k
      BY <1>1
    <3>2. k - 1 \in Ts
      BY <1>1, <3>1
    <3> QED BY <3>1, <3>2
  <2> HIDE DEF g, Ts, Ns
  <2> QED BY <2>1, <2>2, <2>3 DEF Bijection, Injection, Surjection, IsInjective
<1>4. Cardinality(Ns \ {1}) = Cardinality(Ts)
  BY <1>2, <1>3, FS_Bijection DEF ExistsBijection
<1>5. 1 \in Ns <=> Ends(Head(q))
  BY <1>1
<1> HIDE DEF Ns, Ts
<1>6. Cardinality(Ns) = IF 1 \in Ns THEN Cardinality(Ts) + 1 ELSE Cardinality(Ts)
  <2> DEFINE c == Cardinality(Ns)
             d == Cardinality(Ts)
  <2>1. c \in Nat /\ d \in Nat
    BY <1>2, FS_CardinalityType
  <2>2. d = IF 1 \in Ns THEN c - 1 ELSE c
    BY <1>2, <1>4, FS_RemoveElement
  <2> HIDE DEF c, d
  <2>3. c = IF 1 \in Ns THEN d + 1 ELSE d
    BY <2>1, <2>2
  <2> QED BY <2>3 DEF c, d
<1> QED BY <1>5, <1>6 DEF Ending, Ns, Ts, t
-----------------------------------------------------------------------------
(* What the tab waits for                                                  *)

LEMMA FreshStep ==
    ASSUME IInv, [Next]_vars
    PROVE  Fresh'
<1>0. TypeOK /\ TodoInOrder /\ Fresh
  BY DEF IInv
<1>1. ws \in Nat /\ MaxSockets \in Nat
  BY <1>0, ConstantsAssumption DEF TypeOK
<1>2. ASSUME NEW s \in Sockets, Handle(s) PROVE Fresh'
  <2>1. UNCHANGED tab /\ handler' = [handler EXCEPT ![s] = handler'[s]]
    BY <1>0, <1>2, Handled
  <2>2. CASE s > ws
    <3>1. handler[s] = Waiting /\ requests[s] = <<>> /\ Gone(s) = FALSE
      BY <1>0, <1>1, <2>2 DEF Fresh, Gone, Sockets
    <3>2. handler[s].pc = "receiving"
      BY <3>1 DEF Waiting, Idle
    <3> QED BY <1>2, <3>1, <3>2 DEF Handle, Receive, LimitAudited, PromptSaved, PromptAudited, StartRole, Token,
               StreamEnds, StreamFails, ReplySaved, ReplyAudited, ErrorAudited, UsesStore, StoreFails,
               AuditFails, Disconnected, At
  <2>3. CASE ~(s > ws)
    <3>1. frames' = frames \/ \E f \in Frame : frames' = [frames EXCEPT ![s] = Append(@, f)]
      BY <1>0, <1>2, FramesSent DEF IInv
    <3>2. requests' = requests \/ requests' = [requests EXCEPT ![s] = Tail(@)]
      BY <1>0, <1>2, Handled DEF Moved, Rested, Took, Stays, Advanced, WrotePrompt, WroteReply, WentOn, WroteLast
    <3>3. \A u \in Sockets : u # s =>
             handler'[u] = handler[u] /\ requests'[u] = requests[u] /\ frames'[u] = frames[u]
      BY <1>0, <2>1, <3>1, <3>2 DEF TypeOK
    <3> QED BY <1>0, <2>1, <2>3, <3>3 DEF Fresh, tab
  <2> QED BY <2>2, <2>3
<1>3. CASE Connect
  <2>1. ws' = ws + 1 /\ UNCHANGED <<handler, requests, frames>>
    BY <1>3 DEF Connect, server
  <2>2. ws' # 0 /\ \A s \in Sockets : s > ws' => s > ws
    BY <1>1, <2>1 DEF Sockets
  <2>3. \A s \in Sockets : s > ws' => handler'[s] = Waiting /\ requests'[s] = <<>> /\ frames'[s] = <<>>
    BY <1>0, <2>1, <2>2 DEF Fresh
  <2> QED BY <2>2, <2>3 DEF Fresh
<1>4. ASSUME NEW to \in Askable \cup {"crew", "nobody"}, SendChat(to) PROVE Fresh'
  <2>1. /\ ws' = ws /\ open' = open /\ open /\ UNCHANGED <<handler, frames>>
        /\ \E r : requests' = [requests EXCEPT ![ws] = r]
    BY <1>4 DEF SendChat, server
  <2>2. \A s \in Sockets : s > ws => requests'[s] = requests[s]
    BY <1>0, <1>1, <2>1 DEF TypeOK, Sockets
  <2> QED BY <1>0, <2>1, <2>2 DEF Fresh
<1>5. CASE HandleFrame
  BY <1>0, <1>1, <1>5 DEF HandleFrame, Fresh, server, TypeOK, Sockets
<1>6. CASE OnClose \/ CancelChat
  <2>1. ws' = ws /\ (open' => open) /\ handler' = handler
    BY <1>6 DEF OnClose, CancelChat, Closed, server
  <2>2. \A s \in Sockets : frames'[s] \in {frames[s], <<>>} /\ requests'[s] \in {requests[s], <<>>}
    BY <1>0, <1>6 DEF OnClose, CancelChat, Closed, TypeOK
  <2> QED BY <1>0, <2>1, <2>2 DEF Fresh
<1>7. CASE AgentsFetched \/ UNCHANGED vars
  BY <1>0, <1>7 DEF AgentsFetched, Fresh, server, vars, tab
<1> QED BY <1>2, <1>3, <1>4, <1>5, <1>6, <1>7 DEF Next

\* The crew's answers to a prompt, as the tab counts them when it sends it.
LEMMA ExpectedSent ==
    ASSUME NEW h \in {Waiting, Ended}, NEW request \in Request, NEW p \in Nat, p > 0,
           p = IF request.to = "crew" THEN Len(Roles) ELSE 1
    PROVE  Expected(p, h, <<request>>, <<>>)
<1>1. h.pc \notin Places
  BY DEF Waiting, Ended, Idle, Places
<1>2. "auditing_limit" \in Places
  BY DEF Places
<1>3. p >= Len(Targets(request.to))
  <2>1. Len(Targets(request.to)) \in {p, 0}
    BY DEF Targets
  <2> QED BY <2>1
<1>4. Len(<<request>>) = 1 /\ <<request>>[1] = request
  OBVIOUS
<1> QED BY <1>1, <1>2, <1>3, <1>4, EndingEmpty DEF Expected

\* A frame that ends a reply is counted off, a system error ends the turn.
LEMMA ExpectedTaken ==
    ASSUME NEW p \in Nat, NEW h, NEW r, NEW f \in Seq(Frame), f # <<>>, Expected(p, h, r, f),
           h \in {Waiting, Ended} \/ h.pc \in Places,
           h.pc \in Places \ {"auditing_limit"} => Len(h.todo) \in Nat \ {0},
           NEW q,
           q = IF Head(f).type = "error" /\ Head(f).agent = "system" THEN 0
               ELSE IF Head(f).type \in {"done", "error"} /\ p > 0 THEN p - 1 ELSE p
    PROVE  Expected(q, h, r, Tail(f))
<1> DEFINE n == Len(f)
           e == Ending(f)
           d == Ending(Tail(f))
           l == Len(h.todo)
           System(x) == x.type = "error" /\ x.agent = "system"
<1>1. Tail(f) \in Seq(Frame)
  BY HeadTailProperties
<1>2. /\ n \in Nat /\ n > 0 /\ DOMAIN f = 1..n /\ Head(f) = f[1]
      /\ Len(Tail(f)) = n - 1 /\ DOMAIN Tail(f) = 1..(n - 1)
      /\ \A i \in 1..(n - 1) : Tail(f)[i] = f[i + 1]
  <2>1. n \in Nat /\ n # 0 /\ DOMAIN f = 1..n /\ Head(f) = f[1]
    BY EmptySeq
  <2>2. Len(Tail(f)) = n - 1 /\ \A i \in 1..(n - 1) : Tail(f)[i] = f[i + 1]
    BY HeadTailProperties
  <2>3. DOMAIN Tail(f) = 1..(n - 1)
    BY <1>1, <2>2
  <2> HIDE DEF n
  <2> QED BY <2>1, <2>2, <2>3
<1>15. Tail(f) = <<>> <=> n = 1
  <2> DEFINE t == Tail(f)
  <2>1. t \in Seq(Frame) /\ Len(t) = n - 1
    BY <1>1, <1>2
  <2>2. t = <<>> <=> Len(t) = 0
    BY <2>1, EmptySeq
  <2> HIDE DEF t, n
  <2>3. t = <<>> <=> n = 1
    BY <1>2, <2>1, <2>2
  <2> QED BY <2>3 DEF t
<1>3. /\ e \in Nat /\ d \in Nat /\ e = IF Ends(f[1]) THEN d + 1 ELSE d
  BY <1>1, <1>2, EndingNat, EndingTail
<1>4. r = <<>> /\ p > 0 /\ h.pc # "auditing_limit"
  BY DEF Expected
<1>5. /\ h.pc \in Places \ {"auditing_limit"} => p >= e + l
      /\ h = Ended => p > e
      /\ h = Waiting => p >= e /\ Ends(f[n])
  BY <1>2, <1>4 DEF Expected
<1>6. \A i \in 1..n : System(f[i]) => n = 1 /\ h = Waiting
  BY <1>2 DEF Expected
<1>7. Tail(f) # <<>> => Tail(f)[n - 1] = f[n] /\ (Ends(f[n]) => d > 0)
  <2> HIDE DEF n
  <2>1. SUFFICES ASSUME Tail(f) # <<>> PROVE Tail(f)[n - 1] = f[n] /\ (Ends(f[n]) => d > 0)
    OBVIOUS
  <2>2. n - 1 \in 1..(n - 1) /\ (n - 1) + 1 = n
    BY <1>2, <1>15, <2>1
  <2>3. Tail(f)[n - 1] = f[n]
    BY <1>2, <2>2
  <2> QED BY <1>1, <1>2, <2>2, <2>3, EndingNat
<1>8. Waiting.pc \notin Places /\ Ended.pc \notin Places /\ Waiting # Ended
  BY DEF Waiting, Ended, Idle, Places
<1>9. Ends(f[1]) <=> f[1].type \in {"done", "error"}
  BY DEF Ends
<1>10. q = IF System(f[1]) THEN 0 ELSE IF Ends(f[1]) THEN p - 1 ELSE p
  BY <1>2, <1>4, <1>9
<1>11. h \in {Waiting, Ended} \/ h.pc \in Places \ {"auditing_limit"}
  BY <1>4
<1>14. h.pc \in Places \ {"auditing_limit"} => l \in Nat \ {0}
  OBVIOUS
<1> HIDE DEF n, e, d, l, System
<1>12. CASE System(f[1])
  <2>1. n = 1 /\ h = Waiting /\ Tail(f) = <<>> /\ q = 0
    BY <1>2, <1>6, <1>10, <1>12, <1>15
  <2>2. d = 0
    BY <2>1, EndingEmpty DEF d
  <2> QED BY <1>2, <1>4, <1>8, <2>1, <2>2 DEF Expected, d
<1>13. CASE ~System(f[1])
  <2>1. q \in Nat /\ (h.pc \in Places \ {"auditing_limit"} => q >= d + l /\ q > 0)
    BY <1>3, <1>4, <1>5, <1>10, <1>14, <1>13
  <2>2. h = Ended => q > d
    BY <1>3, <1>4, <1>5, <1>10, <1>13
  <2>3. h = Waiting => q >= d /\ (Tail(f) # <<>> => Ends(f[n]))
    BY <1>3, <1>4, <1>5, <1>10, <1>13
  <2>4. q = 0 => h = Waiting /\ Tail(f) = <<>>
    <3>1. SUFFICES ASSUME q = 0 PROVE h = Waiting /\ Tail(f) = <<>>
      OBVIOUS
    <3>2. h = Waiting
      BY <1>3, <1>11, <2>1, <2>2, <3>1
    <3>3. d = 0
      BY <1>3, <2>3, <3>1, <3>2
    <3>4. Tail(f) = <<>>
      BY <1>7, <2>3, <3>2, <3>3
    <3> QED BY <3>2, <3>4
  <2>5. \A i \in DOMAIN Tail(f) : ~System(Tail(f)[i])
    <3>1. ASSUME NEW i \in 1..(n - 1), System(f[i + 1]) PROVE FALSE
      <4>1. i + 1 \in 1..n /\ n # 1
        BY <1>2
      <4> QED BY <1>6, <3>1, <4>1
    <3> QED BY <1>2, <3>1 DEF System
  <2>6. Len(Tail(f)) = n - 1
    BY <1>2
  <2>7. Tail(f) # <<>> => Tail(f)[Len(Tail(f))] = f[n]
    BY <1>7, <2>6
  <2> QED BY <1>4, <2>1, <2>2, <2>3, <2>4, <2>5, <2>7 DEF Expected, System, d, l
<1> QED BY <1>12, <1>13

\* The handler goes on with the role it is at, or sends another frame of it.
LEMMA ExpectedWorking ==
    ASSUME NEW p, NEW h, NEW r, NEW f \in Seq(Frame), Expected(p, h, r, f),
           h.pc \in Places \ {"auditing_limit"},
           NEW g, g.pc \in Places \ {"auditing_limit"}, g.todo = h.todo,
           NEW b, b = f \/ \E x \in Frame : ~Ends(x) /\ b = Append(f, x)
    PROVE  Expected(p, g, r, b)
<1>1. {h.pc, g.pc} \cap {Waiting.pc, Ended.pc} = {}
  BY DEF Waiting, Ended, Idle, Places
<1>2. p # 0 /\ r = <<>> /\ p >= Ending(f) + Len(g.todo)
  BY <1>1 DEF Expected
<1>3. Ending(b) = Ending(f)
  BY EndingAppend
<1>4. \A i \in DOMAIN f : ~(f[i].type = "error" /\ f[i].agent = "system")
  BY <1>1 DEF Expected
<1>5. \A i \in DOMAIN b : ~(b[i].type = "error" /\ b[i].agent = "system")
  <2>1. CASE b = f
    BY <1>4, <2>1
  <2>2. ASSUME NEW x \in Frame, ~Ends(x), b = Append(f, x)
        PROVE  \A i \in DOMAIN b : ~(b[i].type = "error" /\ b[i].agent = "system")
    <3>1. \A i \in DOMAIN b : (i \in DOMAIN f /\ b[i] = f[i]) \/ b[i] = x
      BY <2>2, AppendProperties
    <3> QED BY <1>4, <2>2, <3>1 DEF Ends
  <2> QED BY <2>1, <2>2
<1> QED BY <1>1, <1>2, <1>3, <1>5 DEF Expected

\* The handler has the last frame of a role sent, and goes on to the next one
\* or waits.
LEMMA ExpectedLeft ==
    ASSUME NEW p \in Nat, NEW h, NEW r, NEW f \in Seq(Frame), Expected(p, h, r, f),
           h.pc \in Places \ {"auditing_limit"}, h.todo \in Seq(Agents), h.todo # <<>>,
           NEW x \in Frame, Ends(x), x.agent # "system",
           NEW g, \/ g = Waiting
                  \/ /\ g.pc \in Places \ {"auditing_limit"}
                     /\ g.todo = Tail(h.todo)
    PROVE  Expected(p, g, r, Append(f, x))
<1> DEFINE b == Append(f, x)
           e == Ending(f)
           l == Len(h.todo)
<1>1. /\ h.pc \notin {Waiting.pc, Ended.pc} /\ Waiting # Ended
      /\ Waiting.pc \notin Places /\ Ended.pc \notin Places /\ "auditing_limit" \in Places
  BY DEF Waiting, Ended, Idle, Places
<1>2. p # 0 /\ r = <<>> /\ p >= e + l
  BY <1>1 DEF Expected
<1>3. e \in Nat /\ Ending(b) = e + 1
  BY EndingAppend, EndingNat
<1>4. l \in Nat \ {0} /\ Len(Tail(h.todo)) = l - 1
  BY EmptySeq, HeadTailProperties
<1>5. \A i \in DOMAIN f : ~(f[i].type = "error" /\ f[i].agent = "system")
  BY <1>1 DEF Expected
<1>6. /\ \A i \in DOMAIN b : (i \in DOMAIN f /\ b[i] = f[i]) \/ b[i] = x
      /\ b[Len(b)] = x
  BY AppendProperties
<1>7. \A i \in DOMAIN b : ~(b[i].type = "error" /\ b[i].agent = "system")
  BY <1>5, <1>6
<1> HIDE DEF e, l, b
<1>8. p >= (e + 1) + (l - 1) /\ p >= e + 1
  BY <1>2, <1>3, <1>4
<1>9. CASE g = Waiting
  BY <1>1, <1>2, <1>3, <1>6, <1>7, <1>8, <1>9 DEF Expected, b
<1>10. CASE g.pc \in Places \ {"auditing_limit"} /\ g.todo = Tail(h.todo)
  <2>1. p >= Ending(b) + Len(g.todo)
    BY <1>3, <1>4, <1>8, <1>10
  <2> QED BY <1>1, <1>2, <1>7, <1>10, <2>1 DEF Expected, b
<1> QED BY <1>9, <1>10

\* The handler is left by an exception: the socket closes before the tab has
\* what it waits for.
LEMMA ExpectedFailed ==
    ASSUME NEW p \in Nat, NEW h, NEW r, NEW f \in Seq(Frame), Expected(p, h, r, f),
           h.pc \in Places, h.pc # "auditing_limit" => Len(h.todo) \in Nat \ {0}
    PROVE  Expected(p, Ended, r, f)
<1> DEFINE e == Ending(f)
           l == Len(h.todo)
<1>1. /\ h.pc \notin {Waiting.pc, Ended.pc} /\ Waiting # Ended
      /\ Ended.pc \notin Places /\ "auditing_limit" \in Places
  BY DEF Waiting, Ended, Idle, Places
<1>2. p # 0 /\ r = <<>>
  BY <1>1 DEF Expected
<1>3. e \in Nat
  BY EndingNat
<1>4. h.pc # "auditing_limit" => l \in Nat \ {0} /\ p >= e + l
  BY DEF Expected
<1>5. h.pc = "auditing_limit" => e = 0
  BY EndingEmpty DEF Expected
<1>6. \A i \in DOMAIN f : ~(f[i].type = "error" /\ f[i].agent = "system")
  BY <1>1 DEF Expected
<1> HIDE DEF e, l
<1>7. p > e
  BY <1>2, <1>3, <1>4, <1>5
<1> QED BY <1>1, <1>2, <1>6, <1>7 DEF Expected, e

\* A refusal, of the limiter or for want of an agent, is all that the tab hears.
LEMMA ExpectedRefused ==
    ASSUME NEW p \in Nat, p # 0, NEW x \in Frame, x.type = "error"
    PROVE  Expected(p, Waiting, <<>>, Append(<<>>, x))
<1>1. Waiting # Ended /\ Waiting.pc \notin Places /\ Waiting.pc # "auditing_limit"
  BY DEF Waiting, Ended, Idle, Places
<1>3. <<>> \in Seq(Frame)
  OBVIOUS
<1>4. Append(<<>>, x) = <<x>> /\ Len(<<x>>) = 1 /\ DOMAIN <<x>> = {1} /\ <<x>>[1] = x /\ <<x>> # <<>>
  OBVIOUS
<1>5. Ends(x)
  BY DEF Ends
<1>6. Ending(<<x>>) = 1
  <2>1. Ending(Append(<<>>, x)) = Ending(<<>>) + 1
    BY <1>3, <1>5, EndingAppend
  <2> QED BY <1>4, <2>1, EndingEmpty
<1> QED BY <1>1, <1>4, <1>5, <1>6 DEF Expected

\* A request is taken, or refused by the limiter.
LEMMA ExpectedReceived ==
    ASSUME NEW p \in Nat, NEW h, NEW r \in Seq(Request), NEW f, Expected(p, h, r, f), r # <<>>
    PROVE  /\ p # 0 /\ f = <<>> /\ Tail(r) = <<>>
           /\ \A g : \/ g.pc = "auditing_limit"
                    \/ /\ g.pc = "saving_prompt" /\ g.todo = Targets(Head(r).to)
                       /\ Targets(Head(r).to) # <<>>
                    => Expected(p, g, <<>>, <<>>)
<1>2. Len(r) = 1 /\ f = <<>> /\ p # 0 /\ p >= Len(Targets(r[1].to))
  BY DEF Expected
<1>3. Head(r) = r[1] /\ Tail(r) = <<>>
  <2>1. Tail(r) \in Seq(Request) /\ Len(Tail(r)) = 0
    BY <1>2, HeadTailProperties
  <2>2. Tail(r) = <<>>
    BY <2>1, EmptySeq
  <2>3. Head(r) = r[1]
    OBVIOUS
  <2> QED BY <2>2, <2>3
<1>4. r[1].to \in Agents \cup {"crew", "nobody"}
  <2>1. r[1] \in Request
    BY <1>2
  <2> QED BY <2>1 DEF Request
<1> DEFINE l == Len(Targets(r[1].to))
<1>5. l \in Nat
  BY <1>4, TargetsTyped
<1>6. p >= l
  BY <1>2
<1> HIDE DEF l
<1>7. p >= 0 + l
  BY <1>5, <1>6
<1>8. ASSUME NEW g,
             \/ g.pc = "auditing_limit"
             \/ /\ g.pc = "saving_prompt" /\ g.todo = Targets(Head(r).to)
                /\ Targets(Head(r).to) # <<>>
      PROVE  Expected(p, g, <<>>, <<>>)
  <2>1. g # Waiting /\ g # Ended /\ DOMAIN <<>> = {}
    BY <1>8 DEF Waiting, Ended, Idle
  <2>2. g.pc \in Places \ {"auditing_limit"} => p >= Ending(<<>>) + Len(g.todo)
    BY <1>3, <1>7, <1>8, EndingEmpty DEF l
  <2> QED BY <1>2, <2>1, <2>2 DEF Expected
<1> QED BY <1>2, <1>3, <1>8

\* A step of the handler of the open socket.
LEMMA AwaitedHandled ==
    ASSUME TypeOK, TodoInOrder, ws \in Sockets, open, Handle(ws),
           Expected(pending, handler[ws], requests[ws], frames[ws])
    PROVE  Expected(pending, handler'[ws], requests'[ws], frames'[ws])
<1> DEFINE h == handler[ws]
           f == frames[ws]
           r == requests[ws]
           F(type, agent, t) == [type |-> type, agent |-> agent, turn |-> t]
           Busy(g) == g.pc \in Places \ {"auditing_limit"}
           Goal == Expected(pending, handler'[ws], requests'[ws], frames'[ws])
<1>1. /\ handler \in [Sockets -> Handler] /\ frames \in [Sockets -> Seq(Frame)]
      /\ requests \in [Sockets -> Seq(Request)] /\ f \in Seq(Frame) /\ r \in Seq(Request)
      /\ pending \in Nat
  BY Crew DEF TypeOK
<1>2. ~Gone(ws)
  <2>1. ws \in Nat
    BY ConstantsAssumption DEF Sockets
  <2> QED BY <2>1 DEF Gone
<1>3. /\ \A g : Becomes(ws, g) => handler'[ws] = g
      /\ frames' = frames => frames'[ws] = f
      /\ requests' = requests => requests'[ws] = r
  BY <1>1 DEF Becomes
<1>4. ASSUME NEW t, NEW type, NEW agent, NEW g, SendFrame(ws, t, type, agent, g)
      PROVE  handler'[ws] = g /\ frames'[ws] = Append(f, F(type, agent, t))
  BY <1>1, <1>2, <1>3, <1>4 DEF SendFrame
<1>5. Working(ws) => /\ h.turn \in Turns /\ h.todo \in Seq(Agents)
                     /\ \A place \in Places : [h EXCEPT !.pc = place].pc = place
                                             /\ [h EXCEPT !.pc = place].todo = h.todo
                     /\ [h EXCEPT !.spoke = TRUE].pc = h.pc /\ [h EXCEPT !.spoke = TRUE].todo = h.todo
  BY Handlers
<1>6. Working(ws) /\ h.pc # "auditing_limit" =>
         h.todo # <<>> /\ Head(h.todo) \in Agents /\ Len(h.todo) \in Nat \ {0}
  <2>1. SUFFICES ASSUME Working(ws), h.pc # "auditing_limit"
                 PROVE  h.todo # <<>> /\ Head(h.todo) \in Agents /\ Len(h.todo) \in Nat \ {0}
    OBVIOUS
  <2>2. h.todo # <<>> /\ h.todo \in Seq(Agents)
    BY <1>5, <2>1 DEF TodoInOrder, Working
  <2> QED BY <2>2, HeadTailProperties, EmptySeq
<1>7. ASSUME Working(ws), h.pc # "auditing_limit", NEW place \in Places \ {"auditing_limit"},
             Goto(ws, place), UNCHANGED <<requests, frames>>
      PROVE  Goal
  <2>1. Busy(h) /\ Busy(handler'[ws]) /\ handler'[ws].todo = h.todo
    BY <1>3, <1>5, <1>7 DEF Goto, Working
  <2> QED BY <1>1, <1>3, <1>7, <2>1, ExpectedWorking
<1>8. ASSUME Working(ws), h.pc # "auditing_limit", NEW type \in {"user", "start", "token"},
             NEW agent \in Agents \cup {"user"}, NEW g, Busy(g), g.todo = h.todo,
             SendFrame(ws, h.turn, type, agent, g), UNCHANGED requests
      PROVE  Goal
  <2>1. F(type, agent, h.turn) \in Frame /\ ~Ends(F(type, agent, h.turn))
    BY <1>5, <1>8 DEF Frame, Ends
  <2>2. handler'[ws] = g /\ frames'[ws] = Append(f, F(type, agent, h.turn))
    BY <1>4, <1>8
  <2>3. Busy(h)
    BY <1>8 DEF Working
  <2> QED BY <1>1, <1>3, <1>8, <2>1, <2>2, <2>3, ExpectedWorking
<1>9. ASSUME Working(ws), Becomes(ws, Ended), UNCHANGED <<requests, frames>>
      PROVE  Goal
  <2>1. h.pc \in Places /\ (h.pc # "auditing_limit" => Len(h.todo) \in Nat \ {0})
    BY <1>6, <1>9 DEF Working
  <2> QED BY <1>1, <1>3, <1>9, <2>1, ExpectedFailed
<1>10. CASE Receive(ws)
  <2> DEFINE request == Head(r)
             taken(place) == [pc |-> place, turn |-> request.turn, single |-> request.to # "crew",
                              todo |-> Targets(request.to), spoke |-> FALSE]
             down == F("error", "system", request.turn)
  <2>1. r # <<>> /\ requests'[ws] = Tail(r)
    BY <1>1, <1>10 DEF Receive
  <2>2. pending # 0 /\ f = <<>> /\ requests'[ws] = <<>>
    BY <1>1, <2>1, ExpectedReceived
  <2>3. \/ Becomes(ws, taken("auditing_limit")) /\ frames' = frames
        \/ Targets(request.to) # <<>> /\ Becomes(ws, taken("saving_prompt")) /\ frames' = frames
        \/ SendFrame(ws, request.turn, "error", "system", Waiting)
    BY <1>10 DEF Receive
  <2>4. CASE \/ Becomes(ws, taken("auditing_limit")) /\ frames' = frames
             \/ Targets(request.to) # <<>> /\ Becomes(ws, taken("saving_prompt")) /\ frames' = frames
    <3>1. frames'[ws] = <<>>
      BY <1>3, <2>2, <2>4
    <3>2. PICK g : /\ handler'[ws] = g
                   /\ \/ g.pc = "auditing_limit"
                      \/ /\ g.pc = "saving_prompt" /\ g.todo = Targets(request.to)
                         /\ Targets(request.to) # <<>>
      BY <1>3, <2>4
    <3> QED BY <1>1, <2>1, <2>2, <3>1, <3>2, ExpectedReceived
  <2>5. CASE SendFrame(ws, request.turn, "error", "system", Waiting)
    <3>1. handler'[ws] = Waiting /\ frames'[ws] = Append(<<>>, down)
      BY <1>4, <2>2, <2>5
    <3>2. down \in Frame /\ down.type = "error"
      <4>1. request \in Request
        BY <1>1, <2>1, HeadTailProperties
      <4> QED BY <4>1 DEF Request, Frame
    <3> HIDE DEF down
    <3> QED BY <1>1, <2>2, <3>1, <3>2, ExpectedRefused
  <2> HIDE DEF request
  <2> QED BY <2>3, <2>4, <2>5
<1>11. CASE LimitAudited(ws)
  <2>1. Working(ws) /\ h.pc = "auditing_limit"
    BY <1>11 DEF LimitAudited, At, Working, Places
  <2>2. handler'[ws] = Waiting /\ frames'[ws] = Append(f, F("error", "system", h.turn)) /\ requests' = requests
    BY <1>4, <1>11 DEF LimitAudited
  <2>3. F("error", "system", h.turn) \in Frame /\ F("error", "system", h.turn).type = "error"
    BY <1>5, <2>1 DEF Frame
  <2>4. h \notin {Waiting, Ended}
    BY <2>1 DEF Waiting, Ended, Idle
  <2>5. pending # 0 /\ r = <<>> /\ f = <<>>
    BY <2>1, <2>4 DEF Expected
  <2> QED BY <1>1, <1>3, <2>2, <2>3, <2>5, ExpectedRefused
<1>12. CASE PromptSaved(ws) \/ StreamEnds(ws) \/ StreamFails(ws) \/ ReplySaved(ws)
  <2>1. Working(ws) /\ h.pc # "auditing_limit"
    BY <1>12 DEF PromptSaved, StreamEnds, StreamFails, ReplySaved, At, Working, Places
  <2>2. PICK place \in Places \ {"auditing_limit"} : Goto(ws, place)
    BY <1>12 DEF PromptSaved, StreamEnds, StreamFails, ReplySaved, Places
  <2>3. UNCHANGED <<requests, frames>>
    BY <1>12 DEF PromptSaved, StreamEnds, StreamFails, ReplySaved
  <2> QED BY <1>7, <2>1, <2>2, <2>3
<1>13. CASE PromptAudited(ws)
  <2>1. Working(ws) /\ h.pc # "auditing_limit" /\ "opening" \in Places \ {"auditing_limit"}
    BY <1>13 DEF PromptAudited, At, Working, Places
  <2> DEFINE g == [h EXCEPT !.pc = "opening"]
  <2>2. Busy(g) /\ g.todo = h.todo
    BY <1>5, <2>1
  <2>3. SendFrame(ws, h.turn, "user", "user", g) /\ UNCHANGED requests
    BY <1>13 DEF PromptAudited
  <2> HIDE DEF g
  <2> QED BY <1>8, <2>1, <2>2, <2>3
<1>14. CASE StartRole(ws) \/ Token(ws)
  <2>1. Working(ws) /\ h.pc \in Places \ {"auditing_limit"} /\ "streaming" \in Places \ {"auditing_limit"}
    BY <1>14 DEF StartRole, Token, At, Working, Places
  <2>2. PICK g \in {[h EXCEPT !.pc = "streaming"], [h EXCEPT !.spoke = TRUE]}, type \in {"start", "token"} :
           Say(ws, type, g)
    BY <1>14 DEF StartRole, Token
  <2>3. Busy(g) /\ g.todo = h.todo /\ type \in {"user", "start", "token"}
    <3>1. /\ [h EXCEPT !.pc = "streaming"].pc = "streaming" /\ [h EXCEPT !.pc = "streaming"].todo = h.todo
          /\ [h EXCEPT !.spoke = TRUE].pc = h.pc /\ [h EXCEPT !.spoke = TRUE].todo = h.todo
      BY <1>5, <2>1
    <3> QED BY <2>1, <2>2, <3>1
  <2>4. SendFrame(ws, h.turn, type, Head(h.todo), g) /\ UNCHANGED requests
    BY <1>14, <2>2 DEF StartRole, Token, Say
  <2>5. Head(h.todo) \in Agents \cup {"user"}
    BY <1>6, <2>1
  <2> QED BY <1>8, <2>1, <2>3, <2>4, <2>5
<1>15. CASE ReplyAudited(ws) \/ ErrorAudited(ws)
  <2> DEFINE n == [h EXCEPT !.pc = "opening", !.todo = Tail(@), !.spoke = FALSE]
  <2>1. Working(ws) /\ Busy(h) /\ "opening" \in Places \ {"auditing_limit"}
    BY <1>15 DEF ReplyAudited, ErrorAudited, At, Working, Places
  <2>2. n.pc = "opening" /\ n.todo = Tail(h.todo)
    BY <2>1, Handlers
  <2> HIDE DEF n
  <2>3. PICK type \in {"done", "error"}, g \in {n, Waiting} :
           SendFrame(ws, h.turn, type, Head(h.todo), g)
    BY <1>15 DEF ReplyAudited, ErrorAudited, RoleLeft, Say, n
  <2> DEFINE x == F(type, Head(h.todo), h.turn)
  <2>4. x \in Frame /\ Ends(x) /\ x.agent # "system"
    BY <1>5, <1>6, <2>1, Crew DEF Frame, Ends
  <2>5. handler'[ws] = g /\ frames'[ws] = Append(f, x)
    BY <1>4, <2>3
  <2>6. requests'[ws] = r
    BY <1>3, <1>15 DEF ReplyAudited, ErrorAudited, RoleLeft
  <2>7. g = Waiting \/ (Busy(g) /\ g.todo = Tail(h.todo))
    BY <2>1, <2>2, <2>3
  <2>8. h.todo \in Seq(Agents) /\ h.todo # <<>>
    BY <1>5, <1>6, <2>1
  <2> HIDE DEF x
  <2> QED BY <1>1, <2>1, <2>4, <2>5, <2>6, <2>7, <2>8, ExpectedLeft
<1>16. CASE StoreFails(ws) \/ AuditFails(ws)
  <2>1. Working(ws)
    BY <1>16 DEF StoreFails, AuditFails, UsesStore, At, Working, Places
  <2> QED BY <1>9, <1>16, <2>1 DEF StoreFails, AuditFails
<1>17. ~Disconnected(ws)
  BY <1>2 DEF Disconnected
<1> QED BY <1>10, <1>11, <1>12, <1>13, <1>14, <1>15, <1>16, <1>17 DEF Handle

LEMMA AwaitedStep ==
    ASSUME IInv, [Next]_vars
    PROVE  Awaited'
<1>0. TypeOK /\ TodoInOrder /\ Fresh /\ Awaited
  BY DEF IInv
<1>1. /\ ws \in Nat /\ MaxSockets \in Nat /\ pending \in Nat
      /\ open => ws \in Sockets
  BY <1>0, Crew, ConstantsAssumption DEF TypeOK, Fresh, Sockets
<1>2. ASSUME NEW s \in Sockets, Handle(s) PROVE Awaited'
  <2>1. UNCHANGED tab
    BY <1>0, <1>2, Handled
  <2>2. SUFFICES ASSUME open, ~miscounted
                 PROVE  Expected(pending, handler'[ws], requests'[ws], frames'[ws])
    BY <2>1 DEF Awaited, tab
  <2>3. CASE s = ws
    BY <1>0, <1>1, <1>2, <2>2, <2>3, AwaitedHandled DEF Awaited
  <2>4. CASE s # ws
    <3>1. handler' = [handler EXCEPT ![s] = handler'[s]]
      BY <1>0, <1>2, Handled
    <3>2. frames' = frames \/ \E f \in Frame : frames' = [frames EXCEPT ![s] = Append(@, f)]
      BY <1>0, <1>2, FramesSent DEF IInv
    <3>3. requests' = requests \/ requests' = [requests EXCEPT ![s] = Tail(@)]
      BY <1>0, <1>2, Handled DEF Moved, Rested, Took, Stays, Advanced, WrotePrompt, WroteReply, WentOn, WroteLast
    <3>4. handler'[ws] = handler[ws] /\ requests'[ws] = requests[ws] /\ frames'[ws] = frames[ws]
      BY <1>0, <1>1, <2>2, <2>4, <3>1, <3>2, <3>3 DEF TypeOK
    <3> QED BY <1>0, <2>2, <3>4 DEF Awaited
  <2> QED BY <2>3, <2>4
<1>3. CASE Connect
  <2>1. ws' \in Sockets /\ ws' > ws /\ UNCHANGED <<handler, requests, frames, pending>>
    BY <1>1, <1>3 DEF Connect, server, Sockets
  <2>2. handler[ws'] = Waiting /\ requests[ws'] = <<>> /\ frames[ws'] = <<>>
    BY <1>0, <2>1 DEF Fresh
  <2>3. Expected(pending, Waiting, <<>>, <<>>)
    <3>1. Waiting.pc \notin Places /\ Waiting # Ended /\ "auditing_limit" \in Places
      BY DEF Waiting, Ended, Idle, Places
    <3> QED BY <1>1, <3>1, EndingEmpty DEF Expected
  <2> QED BY <2>1, <2>2, <2>3 DEF Awaited
<1>4. ASSUME NEW to \in Askable \cup {"crew", "nobody"}, SendChat(to) PROVE Awaited'
  <2> DEFINE request == [turn |-> turns', to |-> to]
  <2>1. /\ open /\ ~busy /\ ws' = ws /\ open' = open
        /\ ~miscounted' => ~miscounted /\ (to = "crew" => pending' = Len(Roles))
        /\ UNCHANGED <<frames, handler>>
        /\ requests' = [requests EXCEPT ![ws] = Append(@, request)]
        /\ turns' = turns + 1 /\ turns < MaxTurns
        /\ pending' = IF to = "crew" /\ knowsAgents THEN Len(Roles) ELSE 1
    BY <1>4 DEF SendChat, server
  <2>2. SUFFICES ASSUME ~miscounted' PROVE Expected(pending', handler[ws], requests'[ws], frames[ws])
    BY <2>1 DEF Awaited
  <2>3. pending = 0
    BY <1>0, <1>1, <2>1 DEF TypeOK
  <2>4. handler[ws] \in {Waiting, Ended} /\ requests[ws] = <<>> /\ frames[ws] = <<>>
    BY <1>0, <2>1, <2>2, <2>3 DEF Awaited, Expected
  <2>5. request \in Request
    <3>1. turns' \in Turns
      BY <1>0, <2>1, ConstantsAssumption DEF TypeOK, Turns
    <3> QED BY <3>1, Crew DEF Request
  <2>6. pending' \in Nat /\ pending' > 0
    BY <2>1, Crew
  <2>7. request.to = to
    OBVIOUS
  <2> HIDE DEF request
  <2>8. requests'[ws] = <<request>>
    BY <1>0, <1>1, <2>1, <2>4 DEF TypeOK
  <2> QED BY <2>1, <2>2, <2>4, <2>5, <2>6, <2>7, <2>8, ExpectedSent
<1>5. CASE HandleFrame
  <2> DEFINE h == handler[ws]
             f == frames[ws]
             r == requests[ws]
  <2>1. /\ open /\ f # <<>> /\ pending' = Left(Head(f)) /\ frames' = [frames EXCEPT ![ws] = Tail(@)]
        /\ UNCHANGED <<miscounted, ws, open, requests, handler>>
    BY <1>5 DEF HandleFrame, server
  <2>2. f \in Seq(Frame) /\ frames'[ws] = Tail(f)
    BY <1>0, <1>1, <2>1 DEF TypeOK
  <2>3. SUFFICES ASSUME ~miscounted PROVE Expected(pending', h, r, Tail(f))
    BY <2>1, <2>2 DEF Awaited
  <2>4. Expected(pending, h, r, f)
    BY <1>0, <2>1, <2>3 DEF Awaited
  <2>5. h \in {Waiting, Ended} \/ h.pc \in Places
    BY <1>0, <1>1, <2>1, Handlers DEF Working
  <2>6. h.pc \in Places \ {"auditing_limit"} => Len(h.todo) \in Nat \ {0}
    <3>1. SUFFICES ASSUME h.pc \in Places \ {"auditing_limit"} PROVE Len(h.todo) \in Nat \ {0}
      OBVIOUS
    <3>2. h.todo \in Seq(Agents) /\ h.todo # <<>>
      BY <1>0, <1>1, <2>1, <3>1, Handlers DEF Working, TodoInOrder
    <3> QED BY <3>2, EmptySeq
  <2> HIDE DEF f, h, r
  <2> QED BY <1>1, <2>1, <2>2, <2>4, <2>5, <2>6, ExpectedTaken DEF Left
<1>6. CASE OnClose \/ CancelChat
  BY <1>6 DEF OnClose, CancelChat, Closed, Awaited
<1>7. CASE AgentsFetched \/ UNCHANGED vars
  BY <1>0, <1>7 DEF AgentsFetched, Awaited, server, vars, tab
<1> QED BY <1>2, <1>3, <1>4, <1>5, <1>6, <1>7 DEF Next
-----------------------------------------------------------------------------
(* The invariant                                                           *)

LEMMA InitIInv == Init => IInv
<1> SUFFICES ASSUME Init PROVE IInv
  OBVIOUS
<1>1. /\ MaxTurns \in Nat /\ MaxSockets \in Nat /\ Len(Roles) \in Nat
      /\ Waiting \in Handler /\ Waiting.pc \notin Places /\ Waiting.turn = 0
  BY Crew, Places1, ConstantsAssumption DEF Waiting, Idle, Places
<1>2. <<>> \in Seq(Request) /\ <<>> \in Seq(Frame) /\ <<>> \in Seq(Entry) /\ DOMAIN <<>> = {}
  OBVIOUS
<1>3. /\ handler = [s \in Sockets |-> Waiting] /\ requests = [s \in Sockets |-> <<>>]
      /\ frames = [s \in Sockets |-> <<>>] /\ messages = <<>> /\ audited = {} /\ miscounted = FALSE
      /\ open = FALSE /\ turns = 0 /\ ws = 0
  BY DEF Init
<1>4. TypeOK
  <2>1. /\ handler \in [Sockets -> Handler] /\ requests \in [Sockets -> Seq(Request)]
        /\ frames \in [Sockets -> Seq(Frame)]
    BY <1>1, <1>2, <1>3
  <2>2. bubbles \in [Agents -> {"none", "typing", "text"}]
    BY DEF Init
  <2>3. /\ knowsAgents \in BOOLEAN /\ open \in BOOLEAN /\ busy \in BOOLEAN
        /\ ws \in 0..MaxSockets /\ sentOn \in 0..MaxSockets
        /\ pending \in 0..Len(Roles) /\ (busy <=> pending > 0) /\ turns \in 0..MaxTurns
    <3> DEFINE l == Len(Roles)
    <3>1. l \in Nat
      BY <1>1
    <3> HIDE DEF l
    <3>2. pending \in 0..l
      BY <3>1 DEF Init
    <3>3. knowsAgents \in BOOLEAN /\ open \in BOOLEAN /\ busy \in BOOLEAN /\ (busy <=> pending > 0)
      <4>1. knowsAgents \in BOOLEAN /\ open \in BOOLEAN /\ busy = FALSE /\ pending = 0
        BY DEF Init
      <4>2. ~(pending > 0)
        BY <4>1
      <4> QED BY <4>1, <4>2, Zenon
    <3>4. ws \in 0..MaxSockets /\ sentOn \in 0..MaxSockets /\ turns \in 0..MaxTurns
      BY <1>1 DEF Init
    <3> QED BY <3>2, <3>3, <3>4 DEF l
  <2> QED BY <1>2, <1>3, <2>1, <2>2, <2>3 DEF TypeOK
<1>5. TodoInOrder /\ Fresh
  BY <1>1, <1>3 DEF TodoInOrder, Fresh
<1>6. TurnsOwned
  BY <1>1, <1>2, <1>3 DEF TurnsOwned
<1>7. \A s \in Sockets : Written(s)
  BY <1>1, <1>3 DEF Written, Unwritten, Places
<1>8. TurnsInOrder
  BY <1>2, <1>3 DEF TurnsInOrder
<1>9. FramesRecorded /\ Awaited
  BY <1>2, <1>3 DEF FramesRecorded, Awaited
<1> QED BY <1>4, <1>5, <1>6, <1>7, <1>8, <1>9 DEF IInv

LEMMA IInvHolds == Spec => []IInv
<1>1. IInv /\ [Next]_vars => IInv'
  <2> SUFFICES ASSUME IInv, [Next]_vars PROVE IInv'
    OBVIOUS
  <2>1. \A s \in Sockets : Written(s)'
    BY WrittenStep
  <2> QED BY <2>1, TypesStep, TodoStep, OwnedStep, OrderStep, ShownStep, FreshStep, AwaitedStep DEF IInv
<1> QED BY <1>1, InitIInv, PTL DEF Spec
-----------------------------------------------------------------------------
(* The theorems                                                            *)

\* ShownIsRecorded: whatever fails, is cancelled or cut off, and whichever
\* handlers work at the same time, a prompt the tab echoes and a reply it shows
\* as finished were saved in the transcript and recorded in the audit log.
THEOREM ShownWasRecorded == Spec => []ShownIsRecorded
<1>1. IInv => ShownIsRecorded
  <2> SUFFICES ASSUME IInv, open, frames[ws] # <<>> PROVE Recorded(Head(frames[ws]))
    BY DEF ShownIsRecorded, Recorded
  <2>1. ws \in Sockets
    BY ConstantsAssumption DEF IInv, TypeOK, Fresh, Sockets
  <2>2. frames[ws] \in Seq(Frame)
    BY <2>1 DEF IInv, TypeOK
  <2>3. 1 \in DOMAIN frames[ws] /\ Head(frames[ws]) = frames[ws][1]
    BY <2>2
  <2> QED BY <2>1, <2>3 DEF IInv, FramesRecorded
<1> QED BY <1>1, IInvHolds, PTL

\* TurnsInOrder: no handler, not even one whose socket is gone, writes out of
\* turn.  The transcript has each prompt and each reply once, the prompt before
\* its replies and the replies in the order of the roles.
THEOREM TranscriptInOrder == Spec => []TurnsInOrder
<1>1. IInv => TurnsInOrder
  BY DEF IInv
<1> QED BY <1>1, IInvHolds, PTL

\* FreeIsQuiet: a tab that takes the next prompt has nothing left of an earlier
\* turn on its socket, unless it asked the crew before it knew its agents.  It
\* counts the answers down, so no answer comes that it does not count on.
THEOREM FreeTabIsQuiet == Spec => []FreeIsQuiet
<1>1. IInv => FreeIsQuiet
  <2> SUFFICES ASSUME IInv, open, ~busy, ~miscounted
               PROVE  handler[ws] \in {Waiting, Ended} /\ requests[ws] = <<>> /\ frames[ws] = <<>>
    BY DEF FreeIsQuiet
  <2>1. pending = 0
    BY Crew DEF IInv, TypeOK
  <2> QED BY <2>1 DEF IInv, Awaited, Expected
<1> QED BY <1>1, IInvHolds, PTL
=============================================================================
