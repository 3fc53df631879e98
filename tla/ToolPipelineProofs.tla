------------------------- MODULE ToolPipelineProofs -------------------------
(***************************************************************************)
(* What tool calls and tasks of the agents guarantee for any number of     *)
(* coroutines, any calls, limits and token files, and whichever appends    *)
(* to the audit log fail.                                                  *)
(***************************************************************************)
EXTENDS ToolPipeline, TLAPS

-----------------------------------------------------------------------------
(* The limiter by itself: the bound on what a bucket grants in a window,   *)
(* for every capacity and rate, every set of costs and any number of       *)
(* threads                                                                 *)

\* What a bucket granted in the window and still holds came from its capacity
\* and the window's refill.
Balanced ==
    \A b \in Buckets : granted[b] + Available(b) <= Capacity + Rate * (now - mark)

\* Nobody has come to a bucket before it is configured.
NotYetUsed ==
    /\ \A b \in Buckets : b > current => granted[b] = 0
    /\ \A t \in Threads : found[t] <= current

IInv == TypeOK /\ Balanced /\ NotYetUsed
-----------------------------------------------------------------------------
\* A product of naturals is one, and time is credited a tick at a time.
LEMMA Credit ==
    ASSUME NEW t \in Nat, NEW s \in 0..t
    PROVE  /\ Rate * (t - s) \in Nat
           /\ Rate * (t + 1 - s) = Rate * (t - s) + Rate
           /\ Rate * (t - t) = 0
  BY ConstantsAssumption

LEMMA AvailableType ==
    ASSUME TypeOK, NEW b \in Buckets
    PROVE  Available(b) \in 0..Capacity
<1>1. Rate * (now - refilled[b]) \in Nat
  BY ConstantsAssumption, Credit DEF TypeOK
<1> QED BY <1>1, ConstantsAssumption DEF Available, Least, TypeOK

LEMMA InitIInv == Init => IInv
  BY ConstantsAssumption, Credit DEF Init, IInv, TypeOK, Balanced, NotYetUsed, Available, Least, Buckets, None

LEMMA IInvStep ==
    ASSUME IInv, [Next]_vars
    PROVE  IInv'
<1> USE ConstantsAssumption DEF IInv, TypeOK
<1>0. /\ \A b \in Buckets : Available(b) \in 0..Capacity /\ Rate * (now - refilled[b]) \in Nat
      /\ Rate * (now - mark) \in Nat
  BY AvailableType, Credit
<1>1. CASE Tick
  <2>1. TypeOK' /\ NotYetUsed'
    BY <1>1 DEF Tick, NotYetUsed
  <2>2. ASSUME NEW b \in Buckets
        PROVE  granted'[b] + Available(b)' <= Capacity + Rate * (now' - mark')
    <3>1. Rate * (now' - refilled'[b]) = Rate * (now - refilled[b]) + Rate
      BY <1>1, Credit DEF Tick
    <3>2. Rate * (now' - mark') = Rate * (now - mark) + Rate
      BY <1>1, Credit DEF Tick
    <3>3. Available(b)' <= Available(b) + Rate /\ Available(b)' \in Nat
      BY <1>0, <1>1, <3>1 DEF Tick, Available, Least
    <3> QED BY <1>0, <1>1, <3>2, <3>3 DEF Tick, Balanced
  <2> QED BY <2>1, <2>2 DEF Balanced
<1>2. CASE Watch
  <2>1. TypeOK' /\ NotYetUsed'
    BY <1>2 DEF Watch, NotYetUsed
  <2>2. Rate * (now' - mark') = 0
    BY <1>2, Credit DEF Watch
  <2>3. \A b \in Buckets : Available(b)' = Available(b)
    BY <1>2 DEF Watch, Available
  <2> QED BY <1>0, <1>2, <2>1, <2>2, <2>3 DEF Watch, Balanced
<1>3. CASE Configure
  <2>1. TypeOK' /\ NotYetUsed'
    BY <1>3 DEF Configure, NotYetUsed, Buckets
  <2>2. ASSUME NEW b \in Buckets, b = current'
        PROVE  granted'[b] = 0 /\ Available(b)' \in 0..Capacity
    BY <1>3, <2>1, <2>2, AvailableType, Credit DEF Configure, NotYetUsed, Buckets, Available, Least
  <2>3. \A b \in Buckets : b # current' => Available(b)' = Available(b) /\ granted'[b] = granted[b]
    BY <1>3 DEF Configure, Available
  <2>4. Rate * (now' - mark') = Rate * (now - mark)
    BY <1>3 DEF Configure
  <2>5. ASSUME NEW b \in Buckets
        PROVE  granted'[b] + Available(b)' <= Capacity + Rate * (now' - mark')
    <3>1. CASE b = current'
      BY <1>0, <2>2, <2>4, <3>1
    <3>2. CASE b # current'
      BY <2>3, <2>4, <3>2 DEF Balanced
    <3> QED BY <3>1, <3>2
  <2> QED BY <2>1, <2>5 DEF Balanced
<1>4. ASSUME NEW t \in Threads, Lookup(t) PROVE IInv'
  <2>1. TypeOK' /\ NotYetUsed'
    BY <1>4 DEF Lookup, NotYetUsed
  <2> QED BY <1>4, <2>1 DEF Lookup, Balanced, Available
<1>5. ASSUME NEW t \in Threads, NEW cost \in Costs, TryConsume(t, cost) PROVE IInv'
  <2>1. PICK b \in Buckets : b = found[t]
    BY <1>5 DEF TryConsume, Buckets, None
  <2>2. /\ tokens'[b] \in 0..Capacity
        /\ granted'[b] \in Nat
        /\ granted'[b] + tokens'[b] = granted[b] + Available(b)
    BY <1>0, <1>5, <2>1 DEF TryConsume
  <2>3. TypeOK' /\ NotYetUsed'
    BY <1>5, <2>1, <2>2 DEF TryConsume, NotYetUsed, None
  <2>4. Available(b)' = tokens'[b]
    <3>1. Rate * (now' - refilled'[b]) = 0
      BY <1>5, <2>1, Credit DEF TryConsume
    <3> QED BY <2>2, <3>1 DEF Available, Least
  <2>5. ASSUME NEW d \in Buckets
        PROVE  granted'[d] + Available(d)' = granted[d] + Available(d)
    <3>1. CASE d = b
      BY <2>2, <2>4, <3>1
    <3>2. CASE d # b
      BY <1>5, <2>1, <3>2 DEF TryConsume, Available
    <3> QED BY <3>1, <3>2
  <2>6. Balanced'
    BY <1>5, <2>5 DEF TryConsume, Balanced
  <2> QED BY <2>3, <2>6
<1>6. CASE UNCHANGED vars
  BY <1>6 DEF vars, Balanced, NotYetUsed, Available
<1> QED BY <1>1, <1>2, <1>3, <1>4, <1>5, <1>6 DEF Next

LEMMA IInvHolds == Spec => []IInv
  BY InitIInv, IInvStep, PTL DEF Spec

\* RateBound: in any window a bucket grants at most its capacity and what is
\* refilled in the window, however threads and reconfigurations interleave.
THEOREM GrantsBounded == Spec => []RateBound
<1>1. IInv => RateBound
  BY AvailableType, Credit, ConstantsAssumption DEF IInv, TypeOK, Balanced, RateBound
<1> QED BY <1>1, IInvHolds, PTL

-----------------------------------------------------------------------------
(* The pipeline around it                                                  *)

Granted == \E s \in Threads : <<s, "lab_mode_granted">> \in log

Undecided == {"idle", "handling", "reading", "granted", "thinking", "checking"}

\* What is on record of a call is its verdict; it is there once the tool may run
\* or is refused, and an allowed call was registered and policed in this mode.
CallStory(t) ==
    /\ place[t] # "idle" => work[t] \in Work /\ lab # "unset"
    /\ place[t] \in Undecided => verdict[t] = "none"
    /\ place[t] \in Undecided \cup {"auditing"} => \A v \in Verdicts : <<t, v>> \notin log
    /\ \A v \in Verdicts : <<t, v>> \in log => v = verdict[t]
    /\ place[t] = "auditing" => verdict[t] \in Verdicts
    /\ place[t] = "running" \/ t \in ran =>
          verdict[t] = "tool_call_allowed" /\ <<t, "tool_call_allowed">> \in log
    /\ place[t] = "refused" =>
          verdict[t] \in Verdicts \ {"tool_call_allowed"} /\ <<t, verdict[t]>> \in log
    /\ t \in ran => place[t] \in {"done", "failed"}
    /\ found[t] # None => place[t] = "checking" /\ Registered(t)
    /\ verdict[t] = "tool_call_allowed" => Registered(t) /\ Policed(t) = "tool_call_allowed"

\* The offensive agent turns to its model in LAB_MODE with a grant on record, and
\* a task that is denied ends with that.
TaskStory(t) ==
    /\ place[t] \in {"reading", "granted"} => work[t].agent = "sec_offensive" /\ lab = "on"
    /\ place[t] = "granted" => Granted
    /\ place[t] = "thinking" /\ work[t].agent = "sec_offensive" => lab = "on" /\ Granted
    /\ t \in thought /\ work[t].agent = "sec_offensive" /\ work[t].task => lab = "on" /\ Granted
    /\ place[t] \in {"idle", "handling", "reading", "granted", "thinking"} => t \notin thought
    /\ <<t, "lab_mode_denied">> \in log => place[t] = "failed" /\ t \notin thought

\* LAB_MODE came with consent, and a confirmation with a grant.
ModeStory ==
    /\ lab = "on" => consented
    /\ confirmed => Granted

PipelineInv == IInv /\ PipelineTypeOK /\ ModeStory /\ \A t \in Threads : CallStory(t) /\ TaskStory(t)
-----------------------------------------------------------------------------
(* The limiter of the pipeline is the limiter                              *)

\* A step of the agents is a step of the rate limiter, or leaves it alone.
LEMMA LimiterStep ==
    ASSUME [PipelineNext]_pipelineVars
    PROVE  [Next]_vars
<1>1. CASE UNCHANGED pipelineVars
  BY <1>1 DEF pipelineVars
<1>2. ASSUME NEW requested \in BOOLEAN, NEW token \in Tokens, Boot(requested, token)
      PROVE  [Next]_vars
  BY <1>2 DEF Boot
<1>3. ASSUME NEW t \in Threads, AgentStep(t) PROVE [Next]_vars
  <2>1. CASE FindBucket(t)
    BY <2>1 DEF FindBucket, Next
  <2>2. CASE AskBucket(t)
    BY <2>2, PipelineAssumption DEF AskBucket, Next
  <2> QED BY <1>3, <2>1, <2>2
    DEF AgentStep, Begin, HandlePlain, HandleAuditor, HandleOffensive, Confirm, Think, Unregistered,
        Unlimited, RunTool, NoTerminal, AskOperator, Answer, Record
<1>4. CASE (Tick \/ Watch \/ Configure) /\ UNCHANGED agentVars
  BY <1>4 DEF Next
<1> QED BY <1>1, <1>2, <1>3, <1>4 DEF PipelineNext

LEMMA ImplementsLimiter == PipelineSpec => Spec
<1>1. PipelineInit => Init
  BY DEF PipelineInit
<1> QED BY <1>1, LimiterStep, PTL DEF PipelineSpec, Spec

\* RateBound: whatever the agents do, their bucket grants in a window no more
\* than its capacity and the window's refill.
THEOREM ToolCallsBounded == PipelineSpec => []RateBound
  BY ImplementsLimiter, GrantsBounded, PTL
-----------------------------------------------------------------------------
(* The gates of the policy                                                 *)

\* Some rule before the last one denies.
Gated(role, manifest, on) ==
    \/ "lab" \in manifest /\ ~on
    \/ role = "sec_offensive" /\ ~on
    \/ "network" \in manifest /\ role \notin Supervisors
    \/ "dangerous" \in manifest /\ role \notin DangerousOk
    \/ "subprocess" \in manifest /\ role \notin SubprocessOk

\* Of a few rules, one is the first.
LEMMA FirstExists ==
    ASSUME NEW S \in SUBSET (1..6), 6 \in S
    PROVE  \E i \in S : \A j \in S : i <= j
<1>1. CASE 1 \in S
  BY <1>1
<1>2. CASE 1 \notin S /\ 2 \in S
  BY <1>2
<1>3. CASE 1 \notin S /\ 2 \notin S /\ 3 \in S
  BY <1>3
<1>4. CASE 1 \notin S /\ 2 \notin S /\ 3 \notin S /\ 4 \in S
  BY <1>4
<1>5. CASE 1 \notin S /\ 2 \notin S /\ 3 \notin S /\ 4 \notin S
  BY <1>5
<1> QED BY <1>1, <1>2, <1>3, <1>4, <1>5

\* Their order does not matter: the first decision is a denial when there is one.
LEMMA EvaluateIsGated ==
    ASSUME NEW role, NEW manifest, NEW on \in BOOLEAN
    PROVE  Evaluate(role, manifest, on) = IF Gated(role, manifest, on) THEN "deny" ELSE "allow"
<1> DEFINE outcome == DefaultRules(role, manifest, on)
           deciding == {i \in DOMAIN outcome : outcome[i] # "defer"}
           first == CHOOSE i \in deciding : \A j \in deciding : i <= j
<1>1. DOMAIN outcome = 1..6 /\ outcome[6] = "allow" /\ \A i \in 1..5 : outcome[i] \in {"deny", "defer"}
  BY DEF DefaultRules, DenyIf
<1>2. Gated(role, manifest, on) <=> \E i \in 1..5 : outcome[i] = "deny"
  <2>1. /\ outcome[1] = "deny" <=> "lab" \in manifest /\ ~on
        /\ outcome[2] = "deny" <=> role = "sec_offensive" /\ ~on
        /\ outcome[3] = "deny" <=> "network" \in manifest /\ role \notin Supervisors
        /\ outcome[4] = "deny" <=> "dangerous" \in manifest /\ role \notin DangerousOk
        /\ outcome[5] = "deny" <=> "subprocess" \in manifest /\ role \notin SubprocessOk
    BY DEF DefaultRules, DenyIf
  <2> HIDE DEF outcome
  <2> QED BY <2>1 DEF Gated
<1> HIDE DEF outcome
<1>3. deciding \in SUBSET (1..6) /\ 6 \in deciding
  BY <1>1
<1>4. \E i \in deciding : \A j \in deciding : i <= j
  BY <1>3, FirstExists
<1>5. first \in deciding /\ \A j \in deciding : first <= j
  BY <1>4
<1>6. Evaluate(role, manifest, on) = outcome[first]
  BY <1>3 DEF Evaluate, outcome
<1> QED BY <1>1, <1>2, <1>3, <1>5, <1>6, SMTT(60)

\* MoreEffectsNeverHelp: a denied call stays denied with more effects declared or
\* LAB_MODE off.
THEOREM GatesMonotone == PipelineSpec => []MoreEffectsNeverHelp
<1>1. MoreEffectsNeverHelp
  <2>1. ASSUME NEW role \in Roles, NEW m \in SUBSET Effects, NEW more \in SUBSET Effects,
               NEW on \in BOOLEAN, Evaluate(role, m, on) = "deny", NEW off \in {FALSE, on}
        PROVE  Evaluate(role, m \cup more, off) = "deny"
    <3>1. off \in BOOLEAN
      OBVIOUS
    <3>2. Gated(role, m, on)
      BY <2>1, EvaluateIsGated
    <3>3. Gated(role, m \cup more, off)
      BY <3>2 DEF Gated
    <3> QED BY <3>1, <3>3, EvaluateIsGated
  <2> QED BY <2>1 DEF MoreEffectsNeverHelp
<1> QED BY <1>1, PTL
-----------------------------------------------------------------------------
(* The story of every call and every task                                  *)

\* What is declared and decided of a call depends on the call and the mode alone.
LEMMA SameCall ==
    ASSUME NEW u \in Threads, work'[u] = work[u], lab' = lab
    PROVE  (Registered(u)' <=> Registered(u)) /\ Policed(u)' = Policed(u)
  BY DEF Registered, Policed, Manifest, LabOf

\* A step of one coroutine leaves the others alone, and nothing leaves the log.
Frame(t) ==
    /\ lab' = lab /\ consented' = consented
    /\ log \subseteq log'
    /\ \A u \in Threads \ {t} :
          /\ place'[u] = place[u] /\ work'[u] = work[u] /\ verdict'[u] = verdict[u]
          /\ found'[u] = found[u]
          /\ u \in thought' <=> u \in thought
          /\ u \in ran' <=> u \in ran
          /\ \A e \in Verdicts \cup LabEvents : <<u, e>> \in log' <=> <<u, e>> \in log

LEMMA Framed ==
    ASSUME PipelineTypeOK, NEW t \in Threads, AgentStep(t)
    PROVE  Frame(t)
<1> USE DEF PipelineTypeOK, TypeOK, Frame, Go, vars
<1>1. ASSUME NEW e, NEW returns, NEW reached, AppendEvent(t, e, returns, reached)
      PROVE  /\ log \subseteq log'
             /\ \A u \in Threads \ {t}, d \in Verdicts \cup LabEvents :
                   <<u, d>> \in log' <=> <<u, d>> \in log
  BY <1>1 DEF AppendEvent
<1>2. CASE \E w \in Work : Begin(t, w)
  BY <1>2 DEF Begin
<1>3. CASE HandlePlain(t) \/ HandleAuditor(t) \/ HandleOffensive(t) \/ Confirm(t)
  BY <1>3 DEF HandlePlain, HandleAuditor, HandleOffensive, Confirm
<1>4. CASE \E answers \in BOOLEAN : Think(t, answers)
  BY <1>4 DEF Think
<1>5. CASE Unregistered(t) \/ Unlimited(t) \/ FindBucket(t) \/ AskBucket(t)
  BY <1>5 DEF Unregistered, Unlimited, FindBucket, AskBucket, Decide, Lookup, TryConsume, agentVars
<1>6. CASE \E command \in Commands, outcome \in {"done", "failed"} : RunTool(t, command, outcome)
  BY <1>6 DEF RunTool
<1>7. ASSUME NEW returns \in BOOLEAN, NEW reached \in BOOLEAN,
             \/ NoTerminal(t, returns, reached) \/ AskOperator(t, returns, reached)
             \/ \E agreed \in BOOLEAN : Answer(t, agreed, returns, reached)
             \/ Record(t, returns, reached)
      PROVE  Frame(t)
  BY <1>1, <1>7 DEF NoTerminal, AskOperator, Answer, Record
<1> QED BY <1>2, <1>3, <1>4, <1>5, <1>6, <1>7 DEF AgentStep

LEMMA OthersKept ==
    ASSUME PipelineInv, NEW t \in Threads, Frame(t), NEW u \in Threads \ {t}
    PROVE  CallStory(u)' /\ TaskStory(u)'
<1>1. CallStory(u) /\ TaskStory(u) /\ (Granted => Granted')
  BY DEF PipelineInv, Frame, Granted
<1>2. (Registered(u)' <=> Registered(u)) /\ Policed(u)' = Policed(u)
  BY SameCall DEF Frame
<1>3. CallStory(u)'
  BY <1>1, <1>2 DEF Frame, CallStory
<1>4. TaskStory(u)'
  BY <1>1 DEF Frame, TaskStory, LabEvents
<1> QED BY <1>3, <1>4

LEMMA TypesStep ==
    ASSUME PipelineTypeOK, TypeOK', \A t \in Threads : CallStory(t), [PipelineNext]_pipelineVars
    PROVE  PipelineTypeOK'
<1> USE DEF PipelineTypeOK, Go
<1>0. /\ NoWork \in Work \cup {NoWork}
      /\ \A t \in Threads : Policed(t) \in Verdicts
  BY DEF Policed, Verdicts
<1>1. CASE UNCHANGED pipelineVars
  BY <1>1 DEF pipelineVars, agentVars
<1>2. ASSUME NEW requested \in BOOLEAN, NEW token \in Tokens, Boot(requested, token)
      PROVE  PipelineTypeOK'
  BY <1>2 DEF Boot, ConsentVerified
<1>3. ASSUME NEW t \in Threads, AgentStep(t) PROVE PipelineTypeOK'
  <2> USE DEF Places, Over
  <2>1. ASSUME NEW e \in Verdicts \cup LabEvents, NEW returns, NEW reached, AppendEvent(t, e, returns, reached)
        PROVE  log' \subseteq Threads \X (Verdicts \cup LabEvents)
    BY <2>1 DEF AppendEvent
  <2>2. CASE \E w \in Work : Begin(t, w)
    BY <2>2 DEF Begin
  <2>3. CASE HandlePlain(t) \/ HandleAuditor(t) \/ HandleOffensive(t) \/ Confirm(t)
    BY <2>3 DEF HandlePlain, HandleAuditor, HandleOffensive, Confirm
  <2>4. CASE \E answers \in BOOLEAN : Think(t, answers)
    BY <2>4 DEF Think
  <2>5. CASE Unregistered(t) \/ Unlimited(t)
    BY <1>0, <2>5 DEF Unregistered, Unlimited, Decide, Verdicts
  <2>6. CASE FindBucket(t)
    BY <2>6 DEF FindBucket, agentVars
  <2>7. CASE AskBucket(t)
    BY <1>0, <2>7 DEF AskBucket, Decide, Verdicts
  <2>8. CASE \E command \in Commands, outcome \in {"done", "failed"} : RunTool(t, command, outcome)
    BY <2>8 DEF RunTool
  <2>9. ASSUME NEW returns \in BOOLEAN, NEW reached \in BOOLEAN,
               \/ NoTerminal(t, returns, reached) \/ AskOperator(t, returns, reached)
               \/ \E agreed \in BOOLEAN : Answer(t, agreed, returns, reached)
        PROVE  PipelineTypeOK'
    BY <2>1, <2>9 DEF NoTerminal, AskOperator, Answer, LabEvents
  <2>10. ASSUME NEW returns \in BOOLEAN, NEW reached \in BOOLEAN, Record(t, returns, reached)
        PROVE  PipelineTypeOK'
    BY <2>1, <2>10 DEF Record, CallStory
  <2> QED BY <1>3, <2>2, <2>3, <2>4, <2>5, <2>6, <2>7, <2>8, <2>9, <2>10 DEF AgentStep
<1>4. CASE (Tick \/ Watch \/ Configure) /\ UNCHANGED agentVars
  BY <1>4 DEF agentVars
<1> QED BY <1>1, <1>2, <1>3, <1>4 DEF PipelineNext

\* The tool of a task is the coder's write_file, or it invokes none.
LEMMA TaskTools ==
    ASSUME NEW w \in Work, w.task
    PROVE  w.tool # "offensive_probe"
  BY DEF Work

\* What a coroutine's own step leaves of its story.
Kept(t) == CallStory(t)' /\ TaskStory(t)' /\ ModeStory'

LEMMA OwnStep ==
    ASSUME PipelineInv, NEW t \in Threads, AgentStep(t)
    PROVE  Kept(t)
<1> USE DEF Go
<1>0. /\ CallStory(t) /\ TaskStory(t) /\ ModeStory /\ PipelineTypeOK
      /\ Frame(t)
      /\ Granted => Granted'
      /\ work'[t] = work[t] => Policed(t)' = Policed(t) /\ (Registered(t)' <=> Registered(t))
      /\ Policed(t) \in Verdicts \ {"rate_limited"}
  BY Framed, SameCall DEF PipelineInv, Frame, Granted, Policed, Verdicts
<1>1. ASSUME NEW w \in Work, Begin(t, w) PROVE Kept(t)
  <2> USE <1>0, <1>1 DEF Begin, PipelineTypeOK, vars
  <2>1. CallStory(t)'
    BY DEF CallStory, Undecided
  <2>2. TaskStory(t)' /\ ModeStory'
    BY DEF TaskStory, ModeStory
  <2> QED BY <2>1, <2>2 DEF Kept
<1>2. CASE HandlePlain(t) \/ HandleAuditor(t) \/ HandleOffensive(t)
  <2> USE <1>0, <1>2 DEF HandlePlain, HandleAuditor, HandleOffensive, PipelineTypeOK, vars
  <2>1. CallStory(t)'
    BY DEF CallStory, Undecided
  <2>2. TaskStory(t)' /\ ModeStory'
    BY DEF TaskStory, ModeStory
  <2> QED BY <2>1, <2>2 DEF Kept
<1>11. CASE Confirm(t)
  <2> USE <1>0, <1>11 DEF Confirm, PipelineTypeOK, vars
  <2>1. CallStory(t)'
    BY DEF CallStory, Undecided
  <2>2. TaskStory(t)' /\ ModeStory'
    BY DEF TaskStory, ModeStory
  <2> QED BY <2>1, <2>2 DEF Kept
<1>3. ASSUME NEW answers \in BOOLEAN, Think(t, answers) PROVE Kept(t)
  <2> USE <1>0, <1>3 DEF Think, PipelineTypeOK, vars
  <2>1. CallStory(t)'
    BY DEF CallStory, Undecided
  <2>2. TaskStory(t)' /\ ModeStory'
    BY DEF TaskStory, ModeStory
  <2> QED BY <2>1, <2>2 DEF Kept
<1>4. CASE Unregistered(t) \/ Unlimited(t)
  <2> USE <1>0, <1>4 DEF Unregistered, Unlimited, Decide, PipelineTypeOK, vars
  <2>1. CallStory(t)'
    BY DEF CallStory, Undecided, Verdicts
  <2>2. TaskStory(t)' /\ ModeStory'
    BY DEF TaskStory, ModeStory
  <2> QED BY <2>1, <2>2 DEF Kept
<1>5. CASE FindBucket(t)
  <2> USE <1>0, <1>5 DEF FindBucket, Lookup, PipelineTypeOK, TypeOK, agentVars
  <2>1. CallStory(t)'
    BY DEF CallStory, Undecided
  <2>2. TaskStory(t)' /\ ModeStory'
    BY DEF TaskStory, ModeStory
  <2> QED BY <2>1, <2>2 DEF Kept
<1>6. CASE AskBucket(t)
  <2> USE <1>0, <1>6 DEF AskBucket, Decide, TryConsume, PipelineTypeOK, TypeOK
  <2>1. CallStory(t)'
    BY DEF CallStory, Undecided, Verdicts
  <2>2. TaskStory(t)' /\ ModeStory'
    BY DEF TaskStory, ModeStory
  <2> QED BY <2>1, <2>2 DEF Kept
<1>7. ASSUME NEW command, NEW outcome \in {"done", "failed"}, RunTool(t, command, outcome)
      PROVE  Kept(t)
  <2> USE <1>0, <1>7 DEF RunTool, PipelineTypeOK, vars
  <2>1. CallStory(t)'
    BY DEF CallStory, Undecided
  <2>2. TaskStory(t)' /\ ModeStory'
    BY TaskTools DEF TaskStory, ModeStory, Granted, CallStory, LabEvents
  <2> QED BY <2>1, <2>2 DEF Kept
<1>8. ASSUME NEW returns \in BOOLEAN, NEW reached \in BOOLEAN,
             NoTerminal(t, returns, reached) \/ AskOperator(t, returns, reached)
      PROVE  Kept(t)
  <2> USE <1>0, <1>8 DEF NoTerminal, AskOperator, MustAsk, AppendEvent, PipelineTypeOK, vars
  <2>1. CallStory(t)'
    BY DEF CallStory, Undecided, Verdicts
  <2>2. TaskStory(t)' /\ ModeStory'
    BY DEF TaskStory, ModeStory
  <2> QED BY <2>1, <2>2 DEF Kept
<1>9. ASSUME NEW returns \in BOOLEAN, NEW reached \in BOOLEAN, NEW agreed \in BOOLEAN,
             Answer(t, agreed, returns, reached)
      PROVE  Kept(t)
  <2> USE <1>0, <1>9 DEF Answer, AppendEvent, PipelineTypeOK, vars
  <2>1. CallStory(t)'
    BY DEF CallStory, Undecided, Verdicts
  <2>2. TaskStory(t)' /\ ModeStory'
    BY DEF TaskStory, ModeStory, Granted
  <2> QED BY <2>1, <2>2 DEF Kept
<1>10. ASSUME NEW returns \in BOOLEAN, NEW reached \in BOOLEAN, Record(t, returns, reached)
       PROVE  Kept(t)
  <2> DEFINE event == verdict[t]
  <2>1. /\ event \in Verdicts /\ <<t, "lab_mode_denied">> \notin log
        /\ t \notin ran /\ found[t] = None /\ work[t] \in Work /\ lab # "unset"
        /\ \A v \in Verdicts : <<t, v>> \notin log
        /\ event = "tool_call_allowed" => Registered(t) /\ Policed(t) = "tool_call_allowed"
    BY <1>0, <1>10 DEF Record, TaskStory, CallStory
  <2>2. /\ UNCHANGED <<lab, consented, work, verdict, confirmed, thought, ran, found>>
        /\ \A e : <<t, e>> \in log' => <<t, e>> \in log \/ e = event
        /\ returns => <<t, event>> \in log'
        /\ place'[t] \in {"unaudited", "running", "refused"}
        /\ place'[t] = "running" => returns /\ event = "tool_call_allowed"
        /\ place'[t] = "refused" => returns /\ event # "tool_call_allowed"
    <3>1. UNCHANGED <<lab, consented, work, verdict, confirmed, thought, ran, found>>
      BY <1>10 DEF Record, vars
    <3>2. /\ \A e : <<t, e>> \in log' => <<t, e>> \in log \/ e = event
          /\ returns => <<t, event>> \in log'
      BY <1>10 DEF Record, AppendEvent
    <3>3. CASE ~returns
      <4>1. place'[t] = "unaudited"
        BY <1>0, <1>10, <3>3 DEF Record, PipelineTypeOK
      <4> QED BY <3>1, <3>2, <3>3, <4>1
    <3>4. CASE returns /\ event = "tool_call_allowed"
      <4>1. place'[t] = "running"
        BY <1>0, <1>10, <3>4 DEF Record, PipelineTypeOK
      <4> QED BY <3>1, <3>2, <3>4, <4>1
    <3>5. CASE returns /\ event # "tool_call_allowed"
      <4>1. place'[t] = "refused"
        BY <1>0, <1>10, <3>5 DEF Record, PipelineTypeOK
      <4> QED BY <3>1, <3>2, <3>5, <4>1
    <3> QED BY <3>3, <3>4, <3>5
  <2>3. CallStory(t)'
    <3>1. (Registered(t)' <=> Registered(t)) /\ Policed(t)' = Policed(t)
      BY <1>0, <2>2
    <3> QED BY <2>1, <2>2, <3>1 DEF CallStory, Undecided
  <2>4. TaskStory(t)' /\ ModeStory'
    BY <1>0, <2>1, <2>2 DEF TaskStory, ModeStory, Verdicts
  <2> QED BY <2>3, <2>4 DEF Kept
<1> HIDE DEF Go
<1> QED BY <1>1, <1>2, <1>3, <1>4, <1>5, <1>6, <1>7, <1>8, <1>9, <1>10, <1>11 DEF AgentStep

\* Every story is kept by a step of one coroutine, by the start of the process,
\* which finds no coroutine at work, and by the limiter's clock and configuration.
LEMMA PipelineStep ==
    ASSUME PipelineInv, [PipelineNext]_pipelineVars
    PROVE  PipelineInv'
<1>0. IInv'
  BY IInvStep, LimiterStep DEF PipelineInv
<1>1. PipelineTypeOK'
  BY <1>0, TypesStep DEF PipelineInv, IInv
<1>2. CASE UNCHANGED pipelineVars
  <2>1. ModeStory'
    BY <1>2 DEF pipelineVars, agentVars, PipelineInv, ModeStory, Granted
  <2>2. ASSUME NEW t \in Threads PROVE CallStory(t)' /\ TaskStory(t)'
    <3>1. (Registered(t)' <=> Registered(t)) /\ Policed(t)' = Policed(t)
      BY <1>2, SameCall DEF pipelineVars, agentVars
    <3> QED BY <1>2, <3>1 DEF pipelineVars, agentVars, vars, PipelineInv, CallStory, TaskStory, Granted
  <2> QED BY <1>0, <1>1, <2>1, <2>2 DEF PipelineInv
<1>3. ASSUME NEW requested \in BOOLEAN, NEW token \in Tokens, Boot(requested, token)
      PROVE  PipelineInv'
  <2> USE <1>3 DEF Boot, vars
  <2>1. ModeStory'
    BY DEF PipelineInv, ModeStory, Granted
  <2>2. ASSUME NEW t \in Threads PROVE CallStory(t)' /\ TaskStory(t)'
    <3>1. CallStory(t) /\ TaskStory(t) /\ place[t] = "idle"
      BY DEF PipelineInv, CallStory
    <3>2. verdict[t] = "none" /\ t \notin thought /\ found[t] = None
      BY <3>1 DEF CallStory, TaskStory, Undecided
    <3>3. CallStory(t)'
      BY <3>1, <3>2 DEF CallStory, Undecided
    <3>4. TaskStory(t)'
      BY <3>1, <3>2 DEF TaskStory
    <3> QED BY <3>3, <3>4
  <2> QED BY <1>0, <1>1, <2>1, <2>2 DEF PipelineInv
<1>4. ASSUME NEW t \in Threads, AgentStep(t) PROVE PipelineInv'
  <2>1. Frame(t) /\ Kept(t)
    BY <1>4, Framed, OwnStep DEF PipelineInv
  <2>2. \A u \in Threads \ {t} : CallStory(u)' /\ TaskStory(u)'
    BY <2>1, OthersKept
  <2> QED BY <1>0, <1>1, <2>1, <2>2 DEF PipelineInv, Kept
<1>5. CASE (Tick \/ Watch \/ Configure) /\ UNCHANGED agentVars
  <2>1. UNCHANGED <<agentVars, found>>
    BY <1>5 DEF Tick, Watch, Configure
  <2>2. ModeStory'
    BY <2>1 DEF agentVars, PipelineInv, ModeStory, Granted
  <2>3. ASSUME NEW t \in Threads PROVE CallStory(t)' /\ TaskStory(t)'
    <3>1. (Registered(t)' <=> Registered(t)) /\ Policed(t)' = Policed(t)
      BY <2>1, SameCall DEF agentVars
    <3> QED BY <2>1, <3>1 DEF agentVars, PipelineInv, CallStory, TaskStory, Granted
  <2> QED BY <1>0, <1>1, <2>2, <2>3 DEF PipelineInv
<1> QED BY <1>2, <1>3, <1>4, <1>5 DEF PipelineNext

LEMMA PipelineInvHolds == PipelineSpec => []PipelineInv
<1>1. PipelineInit => PipelineInv
  <2> SUFFICES ASSUME PipelineInit PROVE PipelineInv
    OBVIOUS
  <2>1. IInv
    BY InitIInv DEF PipelineInit
  <2>2. PipelineTypeOK
    BY <2>1 DEF PipelineInit, PipelineTypeOK, IInv, Places
  <2>3. ModeStory
    BY DEF PipelineInit, ModeStory
  <2>4. ASSUME NEW t \in Threads PROVE CallStory(t) /\ TaskStory(t)
    BY DEF PipelineInit, Init, CallStory, TaskStory, Undecided, Verdicts
  <2> QED BY <2>1, <2>2, <2>3, <2>4 DEF PipelineInv
<1> QED BY <1>1, PipelineStep, PTL DEF PipelineSpec

\* RunsAreOnRecord: a tool that ran was registered, within its role and mode, and
\* its permission had reached the audit log.
THEOREM ToolsRunOnRecord == PipelineSpec => []RunsAreOnRecord
<1>1. PipelineInv => RunsAreOnRecord
  <2> SUFFICES ASSUME PipelineInv, NEW t \in ran
               PROVE  /\ Registered(t)
                      /\ <<t, "tool_call_allowed">> \in log
                      /\ "dangerous" \in Manifest(t) => work[t].agent \in DangerousOk
                      /\ "lab" \in Manifest(t) => lab = "on" /\ consented
    BY DEF RunsAreOnRecord
  <2>1. t \in Threads /\ CallStory(t) /\ ModeStory
    BY DEF PipelineInv, PipelineTypeOK
  <2>2. Policed(t) = "tool_call_allowed" /\ Registered(t) /\ <<t, "tool_call_allowed">> \in log
    BY <2>1 DEF CallStory
  <2>3. ~Gated(work[t].agent, Manifest(t), LabOf(work[t].agent))
    BY <2>2, EvaluateIsGated DEF Policed, LabOf
  <2> QED BY <2>1, <2>2, <2>3 DEF Gated, LabOf, ModeStory
<1> QED BY <1>1, PipelineInvHolds, PTL

\* OneVerdict: the log never holds two verdicts of a call, or one that is not what
\* became of it, and lacks none unless its append raised.
THEOREM CallsTellOneStory == PipelineSpec => []OneVerdict
<1>1. PipelineInv => OneVerdict
  <2> SUFFICES ASSUME PipelineInv, NEW t \in Threads,
                      NEW recorded, recorded = {v \in Verdicts : <<t, v>> \in log}
               PROVE  /\ place[t] \in {"idle", "handling", "thinking", "checking"} => recorded = {}
                      /\ place[t] = "refused" =>
                            recorded = {verdict[t]} /\ verdict[t] # "tool_call_allowed"
                      /\ t \in ran => recorded = {"tool_call_allowed"}
                      /\ recorded \subseteq {verdict[t]}
    BY DEF OneVerdict
  <2>1. CallStory(t)
    BY DEF PipelineInv
  <2>2. recorded \subseteq {verdict[t]}
    BY <2>1 DEF CallStory
  <2>3. place[t] \in Undecided => recorded = {}
    BY <2>1 DEF CallStory
  <2>4. place[t] = "refused" => recorded = {verdict[t]} /\ verdict[t] # "tool_call_allowed"
    BY <2>1, <2>2 DEF CallStory
  <2>5. t \in ran => recorded = {"tool_call_allowed"}
    BY <2>1, <2>2 DEF CallStory, Verdicts
  <2> QED BY <2>2, <2>3, <2>4, <2>5 DEF Undecided
<1> QED BY <1>1, PipelineInvHolds, PTL

\* OffensiveIsConfirmed: a task of the offensive agent asks its model only in
\* LAB_MODE, started with consent, and with a grant of the operator on record.
THEOREM OffensiveNeedsGrant == PipelineSpec => []OffensiveIsConfirmed
<1>1. PipelineInv => OffensiveIsConfirmed
  BY DEF PipelineInv, PipelineTypeOK, TaskStory, ModeStory, Granted, OffensiveIsConfirmed
<1> QED BY <1>1, PipelineInvHolds, PTL

\* RefusedTaskStops: the operator's refusal of a task ends that task.
THEOREM RefusalIsFinal == PipelineSpec => []RefusedTaskStops
<1>1. PipelineInv => RefusedTaskStops
  BY DEF PipelineInv, TaskStory, RefusedTaskStops
<1> QED BY <1>1, PipelineInvHolds, PTL
=============================================================================
