---------------------------- MODULE ToolPipeline ----------------------------
(***************************************************************************)
(* agents/base.py and the agents' own files: tasks and tool calls of the   *)
(* agents of one process, from the settings it starts with (config.py) to  *)
(* the rate limiter, the policy, the audit log and the tool, and the       *)
(* operator's confirmation that a task of the offensive agent needs        *)
(* (lab_gate.py, sec_offensive.py).  A thread of RateLimiter is the        *)
(* coroutine of one task or call; its key is a tool that has a limit.      *)
(***************************************************************************)
EXTENDS RateLimiter, Policy

CONSTANTS
    Calls,          \* the [agent, tool] pairs that are invoked by themselves
    LimitedCall,    \* the [agent, tool] pair whose key is ever configured
    Today,          \* the date at which the process starts
    MaxAge,         \* LAB_TOKEN_MAX_AGE
    Tokens          \* the files that may lie at LAB_TOKEN_PATH

\* What the agents register in their constructors, with the declared effects.
ToolsOf == [
    coder         |-> [write_file |-> {}, read_file |-> {}, run_tests |-> {"subprocess"}],
    sec_defensive |-> [read_file |-> {}],
    sec_offensive |-> [offensive_probe |-> {"lab", "dangerous"}],
    auditor       |-> [run_garak |-> {"subprocess"}]]

Agents == DOMAIN ToolsOf

\* invoke_tool checks with the default cost of one token.
ASSUME PipelineAssumption ==
    /\ \A c \in Calls : c.agent \in Agents
    /\ 1 \in Costs

NoWork == [agent |-> "none", tool |-> "none", task |-> FALSE]

\* A task of an agent, with the tool its handle_task invokes; or a bare call.
Work == { [agent |-> a, tool |-> IF a = "coder" THEN "write_file" ELSE "none", task |-> TRUE]
            : a \in Agents }
        \cup { [agent |-> c.agent, tool |-> c.tool, task |-> FALSE] : c \in Calls }

Verdicts == {"tool_call_allowed", "tool_call_denied", "rate_limited"}
LabEvents == {"lab_mode_requested", "lab_mode_granted", "lab_mode_denied"}
Over == {"done", "failed", "refused", "unaudited"}
Places == {"idle", "handling", "reading", "granted", "thinking", "checking", "auditing",
           "running"} \cup Over

VARIABLES
    lab,            \* settings.lab_mode: "unset" until the process has started
    consented,      \* LAB_MODE was requested then, with a valid token (history)
    place,          \* where each coroutine is
    work,           \* what it works on
    verdict,        \* what invoke_tool has decided
    confirmed,      \* SecOffensiveAgent._confirmed
    log,            \* the audit log, as <<coroutine, event>>
    thought,        \* the coroutines that asked their model (history)
    ran             \* the coroutines whose tool ran (history)

agentVars == <<lab, consented, place, work, verdict, confirmed, log, thought, ran>>
pipelineVars == <<vars, agentVars>>

PipelineTypeOK ==
    /\ TypeOK
    /\ lab \in {"unset", "off", "on"}
    /\ consented \in BOOLEAN
    /\ place \in [Threads -> Places]
    /\ work \in [Threads -> Work \cup {NoWork}]
    /\ verdict \in [Threads -> Verdicts \cup {"none"}]
    /\ confirmed \in BOOLEAN
    /\ log \subseteq Threads \X (Verdicts \cup LabEvents)
    /\ thought \subseteq Threads
    /\ ran \subseteq Threads

PipelineInit ==
    /\ Init
    /\ lab = "unset"
    /\ consented = FALSE
    /\ place = [t \in Threads |-> "idle"]
    /\ work = [t \in Threads |-> NoWork]
    /\ verdict = [t \in Threads |-> "none"]
    /\ confirmed = FALSE
    /\ log = {}
    /\ thought = {}
    /\ ran = {}

-----------------------------------------------------------------------------
(* The start of the process *)

\* _verify_lab_consent.  A stamp that is no number is 0; one that lies in the
\* future is younger than any age.
ConsentVerified(token) ==
    /\ token.exists
    /\ token.private
    /\ token.stamp # 0
    /\ Today <= token.stamp + MaxAge

\* get_settings: with LAB_MODE requested and no valid token there is no process.
Boot(requested, token) ==
    /\ lab = "unset"
    /\ requested => ConsentVerified(token)
    /\ lab' = IF requested THEN "on" ELSE "off"
    /\ consented' = (requested /\ ConsentVerified(token))
    /\ UNCHANGED <<vars, place, work, verdict, confirmed, log, thought, ran>>

\* Only the offensive agent is told of the mode by the composition root.
LabOf(agent) == agent = "sec_offensive" /\ lab = "on"

\* A task is handed to its agent, or a tool is invoked.
Begin(t, w) ==
    /\ lab # "unset"
    /\ place[t] = "idle"
    /\ work' = [work EXCEPT ![t] = w]
    /\ place' = [place EXCEPT ![t] = IF w.task THEN "handling" ELSE "checking"]
    /\ UNCHANGED <<vars, lab, consented, verdict, confirmed, log, thought, ran>>

Go(t, p) == place' = [place EXCEPT ![t] = p]

\* An append in a worker thread.  One that raises may have reached the disk.
AppendEvent(t, event, returns, reached) ==
    /\ returns => reached
    /\ log' = IF reached THEN log \cup {<<t, event>>} ELSE log

-----------------------------------------------------------------------------
(* handle_task *)

\* The coder and the defensive agent turn to their models.
HandlePlain(t) ==
    /\ place[t] = "handling"
    /\ work[t].agent \in {"coder", "sec_defensive"}
    /\ Go(t, "thinking")
    /\ UNCHANGED <<vars, lab, consented, work, verdict, confirmed, log, thought, ran>>

\* The auditor has nothing to do.
HandleAuditor(t) ==
    /\ place[t] = "handling"
    /\ work[t].agent = "auditor"
    /\ Go(t, "done")
    /\ UNCHANGED <<vars, lab, consented, work, verdict, confirmed, log, thought, ran>>

\* The offensive agent refuses without LAB_MODE, and goes on when it is confirmed.
HandleOffensive(t) ==
    /\ place[t] = "handling"
    /\ work[t].agent = "sec_offensive"
    /\ lab = "on" => confirmed
    /\ Go(t, IF lab = "on" THEN "thinking" ELSE "failed")
    /\ UNCHANGED <<vars, lab, consented, work, verdict, confirmed, log, thought, ran>>

MustAsk(t) ==
    /\ place[t] = "handling"
    /\ work[t].agent = "sec_offensive"
    /\ lab = "on"
    /\ ~confirmed

\* request_lab_confirmation in a thread, where stdin is no terminal.
NoTerminal(t, returns, reached) ==
    /\ MustAsk(t)
    /\ AppendEvent(t, "lab_mode_denied", returns, reached)
    /\ Go(t, "failed")
    /\ UNCHANGED <<vars, lab, consented, work, verdict, confirmed, thought, ran>>

\* The request is recorded, and the operator is shown the phrase to type.
AskOperator(t, returns, reached) ==
    /\ MustAsk(t)
    /\ AppendEvent(t, "lab_mode_requested", returns, reached)
    /\ Go(t, IF returns THEN "reading" ELSE "failed")
    /\ UNCHANGED <<vars, lab, consented, work, verdict, confirmed, thought, ran>>

\* WRONG: a refusal does not matter once another task has been confirmed.
WrongAnswer(t, agreed, returns, reached) ==
    /\ place[t] = "reading"
    /\ AppendEvent(t, IF agreed THEN "lab_mode_granted" ELSE "lab_mode_denied", returns, reached)
    /\ Go(t, IF returns /\ (agreed \/ confirmed) THEN "granted" ELSE "failed")
    /\ UNCHANGED <<vars, lab, consented, work, verdict, confirmed, thought, ran>>

\* WRONG: an append that raises does not keep the thread from returning True.
WrongAnswerUnlogged(t, agreed, returns, reached) ==
    /\ place[t] = "reading"
    /\ AppendEvent(t, IF agreed THEN "lab_mode_granted" ELSE "lab_mode_denied", returns, reached)
    /\ Go(t, IF agreed THEN "granted" ELSE "failed")
    /\ UNCHANGED <<vars, lab, consented, work, verdict, confirmed, thought, ran>>

\* A line or the end of the input: the answer is recorded before it counts.
Answer(t, agreed, returns, reached) ==
    /\ place[t] = "reading"
    /\ AppendEvent(t, IF agreed THEN "lab_mode_granted" ELSE "lab_mode_denied", returns, reached)
    /\ Go(t, IF returns /\ agreed THEN "granted" ELSE "failed")
    /\ UNCHANGED <<vars, lab, consented, work, verdict, confirmed, thought, ran>>

\* _ensure_confirmed after the await.
Confirm(t) ==
    /\ place[t] = "granted"
    /\ confirmed' = TRUE
    /\ Go(t, "thinking")
    /\ UNCHANGED <<vars, lab, consented, work, verdict, log, thought, ran>>

\* think: the model answers or raises.  The coder then writes what it said.
Think(t, answers) ==
    /\ place[t] = "thinking"
    /\ thought' = thought \cup {t}
    /\ Go(t, IF ~answers THEN "failed"
             ELSE IF work[t].agent = "coder" THEN "checking" ELSE "done")
    /\ UNCHANGED <<vars, lab, consented, work, verdict, confirmed, log, ran>>

-----------------------------------------------------------------------------
(* invoke_tool *)

Registered(t) == work[t].tool \in DOMAIN ToolsOf[work[t].agent]
Limited(t) == [agent |-> work[t].agent, tool |-> work[t].tool] = LimitedCall
Manifest(t) == ToolsOf[work[t].agent][work[t].tool]

Decide(t, v) ==
    /\ verdict' = [verdict EXCEPT ![t] = v]
    /\ Go(t, "auditing")
    /\ UNCHANGED <<lab, consented, work, confirmed, log, thought, ran>>

Policed(t) ==
    IF Evaluate(work[t].agent, Manifest(t), LabOf(work[t].agent)) = "allow"
      THEN "tool_call_allowed" ELSE "tool_call_denied"

Unregistered(t) ==
    /\ place[t] = "checking"
    /\ ~Registered(t)
    /\ Decide(t, "tool_call_denied")
    /\ UNCHANGED vars

\* check of a key that nobody has configured passes.
Unlimited(t) ==
    /\ place[t] = "checking"
    /\ Registered(t)
    /\ found[t] = None
    /\ Limited(t) => current = None
    /\ Decide(t, Policed(t))
    /\ UNCHANGED vars

\* check of a configured key: the bucket is looked up ...
FindBucket(t) ==
    /\ place[t] = "checking"
    /\ Registered(t)
    /\ Limited(t)
    /\ Lookup(t)
    /\ UNCHANGED agentVars

\* ... and asked for one token.
AskBucket(t) ==
    /\ place[t] = "checking"
    /\ TryConsume(t, 1)
    /\ Decide(t, IF Available(found[t]) >= 1 THEN Policed(t) ELSE "rate_limited")

\* WRONG: an append that raises does not keep the tool from running.
WrongRecord(t, returns, reached) ==
    /\ place[t] = "auditing"
    /\ AppendEvent(t, verdict[t], returns, reached)
    /\ Go(t, IF verdict[t] = "tool_call_allowed" THEN "running" ELSE "refused")
    /\ UNCHANGED <<vars, lab, consented, work, verdict, confirmed, thought, ran>>

\* WRONG: a call over its limit is recorded, and goes on.
WrongRecordTwice(t, returns, reached) ==
    /\ place[t] = "auditing"
    /\ AppendEvent(t, verdict[t], returns, reached)
    /\ Go(t, IF ~returns THEN "unaudited"
             ELSE CASE verdict[t] = "tool_call_allowed" -> "running"
                    [] verdict[t] = "rate_limited" -> "checking"
                    [] OTHER -> "refused")
    /\ UNCHANGED <<vars, lab, consented, work, verdict, confirmed, thought, ran>>

\* The verdict is appended to the audit log; all but an allowed call raise then.
Record(t, returns, reached) ==
    /\ place[t] = "auditing"
    /\ AppendEvent(t, verdict[t], returns, reached)
    /\ Go(t, IF ~returns THEN "unaudited"
             ELSE IF verdict[t] = "tool_call_allowed" THEN "running" ELSE "refused")
    /\ UNCHANGED <<vars, lab, consented, work, verdict, confirmed, thought, ran>>

\* What becomes of the command that a tool runs (run_safe, run_sandboxed).
Commands == {"invalid", "not found", "timed out", "exited"}

\* tool.func: run_garak returns a report of a failed command, the other tools raise.
\* A file tool raises on a path outside its root or an error of the file system,
\* run_garak on the name of a model or a probe, and offensive_probe asks the model.
ToolOutcomes(t, command) ==
    LET subprocess == "subprocess" \in Manifest(t) IN
    IF subprocess /\ work[t].tool # "run_garak"
      THEN {IF command = "exited" THEN "done" ELSE "failed"}
      ELSE {"done", "failed"}

RunTool(t, command, outcome) ==
    /\ place[t] = "running"
    /\ outcome \in ToolOutcomes(t, command)
    /\ ran' = ran \cup {t}
    /\ thought' = IF work[t].tool = "offensive_probe" THEN thought \cup {t} ELSE thought
    /\ Go(t, outcome)
    /\ UNCHANGED <<vars, lab, consented, work, verdict, confirmed, log>>

-----------------------------------------------------------------------------
AgentStep(t) ==
    \/ \E w \in Work : Begin(t, w)
    \/ HandlePlain(t) \/ HandleAuditor(t) \/ HandleOffensive(t)
    \/ Confirm(t)
    \/ \E answers \in BOOLEAN : Think(t, answers)
    \/ Unregistered(t) \/ Unlimited(t) \/ FindBucket(t) \/ AskBucket(t)
    \/ \E command \in Commands, outcome \in {"done", "failed"} : RunTool(t, command, outcome)
    \/ \E returns, reached \in BOOLEAN :
          \/ NoTerminal(t, returns, reached)
          \/ AskOperator(t, returns, reached)
          \/ \E agreed \in BOOLEAN : Answer(t, agreed, returns, reached)
          \/ Record(t, returns, reached)

PipelineNext ==
    \/ \E requested \in BOOLEAN, token \in Tokens : Boot(requested, token)
    \/ \E t \in Threads : AgentStep(t)
    \/ (Tick \/ Watch \/ Configure) /\ UNCHANGED agentVars

PipelineSpec == PipelineInit /\ [][PipelineNext]_pipelineVars

-----------------------------------------------------------------------------
\* The policy is made of gates: whatever the role, a call that is denied stays
\* denied when its manifest declares more effects or LAB_MODE is off.  It is the
\* order of the rules that could break this.  (The policy has no state: all its
\* inputs are compared once, before the process starts.)
MoreEffectsNeverHelp ==
    lab = "unset" =>
        \A role \in Roles, m \in SUBSET Effects, more \in SUBSET Effects, on \in BOOLEAN :
            Evaluate(role, m, on) = "deny" =>
                \A off \in {FALSE, on} : Evaluate(role, m \cup more, off) = "deny"

\* invoke_tool: a tool that ran was registered, its manifest is within what its
\* agent's role may do in this mode, and its permission is in the audit log,
\* whatever appends failed and whatever happened to the limit meanwhile.
RunsAreOnRecord ==
    \A t \in ran :
        /\ Registered(t)
        /\ <<t, "tool_call_allowed">> \in log
        /\ "dangerous" \in Manifest(t) => work[t].agent \in DangerousOk
        /\ "lab" \in Manifest(t) => lab = "on" /\ consented

\* The log tells one story of every call: never two verdicts, never one that is
\* not what became of the call, and none missing unless its append raised.
OneVerdict ==
    \A t \in Threads :
        LET recorded == {v \in Verdicts : <<t, v>> \in log} IN
        /\ place[t] \in {"idle", "handling", "thinking", "checking"} => recorded = {}
        /\ place[t] = "refused" => recorded = {verdict[t]} /\ verdict[t] # "tool_call_allowed"
        /\ t \in ran => recorded = {"tool_call_allowed"}
        /\ recorded \subseteq {verdict[t]}

\* A task of the offensive agent asks its model only in a process that was started
\* with LAB_MODE and a valid token, and after a grant of the operator is in the log.
OffensiveIsConfirmed ==
    \A t \in thought :
        work[t].agent = "sec_offensive" /\ work[t].task =>
            /\ lab = "on" /\ consented
            /\ \E s \in Threads : <<s, "lab_mode_granted">> \in log

\* A task that was itself refused by the operator does not go on, even when the
\* operator has granted another one in the meantime.
RefusedTaskStops ==
    \A t \in Threads : <<t, "lab_mode_denied">> \in log => t \notin thought
=============================================================================
