# Crew OS in TLA+

This directory models Crew OS (`src/src/crew_os`): a local multi-agent system that
routes tasks to agents, drives one Ollama server whose GPU holds one model at a time,
keeps a hash-chained audit log, and serves a dashboard with a live feed and a team chat.
Paths below are relative to `src/src/crew_os`.

A module is translated from the code, not from its documentation; comments in the modules
name the methods. `PROJECT.json` maps every definition to its source lines, lists the TLC
runs, a mutation of the code that each checked property detects, the hazards the properties
are for, and the proved theorems.

## 1. Inventory

The program is one asyncio event loop per process (`crew run`, `crew dashboard`,
`crew audit-llm`), with `asyncio.to_thread` for audit appends, probes and subprocesses.
Everything between two awaits is atomic with respect to other coroutines; threads and other
processes interleave anywhere.

| Component | State it keeps | Operations | Talks to | What is hard | What makes it correct |
|---|---|---|---|---|---|
| ModelManager (`llm/model_manager.py`) | active model, lock | generate, chat, chat_stream, unload_active, ensure_active | OllamaClient, UsageTracker | swaps race; any request fails with or without effect; cancellation; the server loads and drops models itself | one swap at a time; nothing it loaded is forgotten; the slot is empty before a load; callers get the lock |
| OllamaClient (`llm/ollama_client.py`) | an HTTP client | requests and streams | Ollama | lost answers, cut streams | each failure surfaces as an error |
| CircuitBreaker (`llm/circuit_breaker.py`) | state, failure count, time opened | call, reset | any callable | calls end in another state than they began in | state agrees with count; an open circuit recovers |
| AuditLogger (`security/audit.py`) | cached tail, lock; the file | build, append, verify | file system | threads, processes, torn or unacknowledged writes, crashes | the chain verifies; an acknowledged record is on disk |
| RateLimiter (`security/rate_limit.py`) | buckets: tokens, last refill | configure, check | chat, tools | lookup and consumption under two locks; boundaries of refill | a window's grants are bounded |
| PolicyEngine (`core/policy.py`) | none | evaluate | BaseAgent | order of rules | a call is allowed only when it clears every gate |
| BaseAgent and agents (`agents/*.py`) | tools; the offensive agent's confirmation | handle_task, invoke_tool, think | all of the above | permission, audit and use are separate steps | no tool runs that was not allowed and audited |
| LabGate (`security/lab_gate.py`) | none | request_lab_confirmation | operator, audit | prompts of several tasks | a grant is audited before the work |
| SupervisorT1/T2 (`orchestration/supervisor_tier*.py`) | none | route; plan with fallback | Anthropic, ModelManager | ties between categories, limits of the score; planner failures | the most sensitive category; a plan or an error |
| Delegator (`orchestration/delegator.py`) | none of its own | delegate | supervisors, agents, store, audit, bus | any await fails; the process stops | store, audit log and bus never contradict each other |
| SqliteStore, ChatStore (`memory/*.py`) | tables | save, get, list, update | SQLite | statement and commit are two awaits; a database shared by processes | a row is committed before anything is said of it |
| MessageBus (`orchestration/bus.py`) | subscriptions with bounded queues | publish, subscribe, close | feed | slow consumers, closing a full queue | order, counted loss, every consumer ends |
| Dashboard feed (`web/ws.py`) | one pump per client | connect, send, disconnect | bus, sampler | snapshot before subscription | a client is greeted with a snapshot; no pump outlives its subscription |
| MetricsSampler (`metrics/sampler.py`) | snapshot, task, flag, last energy | start, sample, stop | probes | failed samples at the start and later, counter wrap | a served application has a snapshot; sampling goes on; stopped means stopped; a reported power is true |
| UsageTracker (`metrics/usage.py`) | list of events | record, report | - | recorded in mid-stream, before the reply is kept | a reply counts once, with its tokens |
| ChatService (`orchestration/chat.py`), chat socket (`web/chat.py`), tab (`web/static/js/dashboard.js`) | transcript; per socket a handler; busy/pending counters | handle; send, cancel, reconnect | ModelManager, ChatStore, audit, limiter | handlers of closed sockets run on; failures mid-reply; counters on two sides | what is shown is on record; an idle tab is really idle |
| `_ThinkFilter` (`orchestration/chat.py`) | buffer, inside flag | feed, flush | ChatService | tags split anywhere | output equals the whole text stripped |
| Settings (`config.py`) | the mode, fixed at start | validation | consent token | the token's age, mode and content | LAB_MODE only with a valid token |
| Sandbox, CLI, REST routes, rendering | none | one subprocess, reads, printing | - | - | mostly outside the model, see section 7 |

## 2. Modules

| Module | Models | Kind |
|---|---|---|
| `ModelSlot` | what the manager promises of the GPU: a slot that is empty before a load | abstract specification |
| `ModelManager` | model_manager.py with the Ollama server | detailed, refines `ModelSlot` |
| `ModelManagerProofs` | four theorems about it | proofs |
| `CircuitBreakerProofs` | a theorem about it | proofs |
| `ToolPipelineProofs` | a theorem about the limiter by itself and six about the composition | proofs |
| `AuditLogProofs` | four theorems about the log | proofs |
| `FeedProofs` | five theorems about bus, greeting and sampler | proofs |
| `TaskLifecycle` | what delegating promises of a task: how its row goes forward, and what is told of it | abstract specification |
| `DelegatorProofs` | eight theorems about delegating and routing, one of them the refinement of `TaskLifecycle` | proofs |
| `ChatProofs` | three theorems about tab, handlers and transcript | proofs |
| `ReplyProofs` | four theorems about the filter and the reply, and the correctness of the filter's search and overlap against `Visible` | proofs |
| `AuditLog` | audit.py: processes, threads, the file | component |
| `CircuitBreaker` | circuit_breaker.py | component |
| `RateLimiter` | rate_limit.py, configure and check on one key | component |
| `Policy` | core/policy.py: rules, allowlists, the engine's first decision | algorithm |
| `ToolPipeline` | agents/*.py, lab_gate.py, LAB_MODE in config.py, on top of `RateLimiter` and `Policy` | composition |
| `MessageBus` | bus.py with the pumps of web/ws.py | component |
| `Feed` | sampler.py, the application's lifespan and the greeting of web/ws.py, on top of `MessageBus` | composition |
| `Tier1` | supervisor_tier1.py: categories, score, escalation | algorithm |
| `Delegator` | delegator.py with Tier 1's verdict, Tier 2's fallback, the SQLite store, audit and bus | composition, refines `TaskLifecycle` |
| `Chat` | tab, sockets, ChatService.handle, transcript and audit log | composition |
| `ThinkFilter` | `_ThinkFilter`, with a reference definition of its result | algorithm |
| `Reply` | one streamed reply: ollama_client.chat_stream, the manager's usage record, `_stream_role`, on top of `ThinkFilter` | composition |
| `MC...` | the instances for TLC | model checking |

Definitions called `Wrong...` are mutations: the change a plausible bug would make to the
definition that follows. No specification uses them.

### How the models correspond to the code

* **ModelManager.** A caller's `pc` is the await it is at: `locking` (`async with
  self._lock`), `unloading`, `warming`, `verifying` (the three requests of
  `ensure_active`), `sent` and `generating`. `asyncio.Lock` is FIFO: `holder` and `waiters`.
  `warmed` is what is in GPU memory through the manager's loads, `implicit` what Ollama loaded by
  itself. A failing request acts or not before it raises, as the real one may; a cancelled
  request leaves by the same exits. `forgotten` is a history variable: models whose load the
  manager was told had failed, or could not check in `/api/ps`. The manager cannot know of
  these, so the properties speak of `accounted == warmed \ forgotten`. `verify_loaded` is TRUE, the
  default the composition root keeps.
* **AuditLog.** `Compute` takes the lock and builds the record from the cached tail; `Write` is the
  locked write, flush and fsync; `Return` updates the cache. `WriteRefused`,
  `WriteTorn` and `WriteUnacked` raise in between. `Start` is `_read_tail`. SHA-256 is taken as
  injective: a record's hash is its number in the order of computation. `shared` and `lossy` remember
  whether two processes ever shared the file and whether a write raised after it reached the disk. A partial
  write (`WriteTorn`) leaves a last line without its newline (`ragged`): a fragment that is not JSON, or the whole record
  when only the newline was lost. Whatever is written next goes on in that line and spoils it (`Extend`).
* **CircuitBreaker.** `Admit` is `_before_call`, `Succeed`/`Fail` the handlers after the await,
  `Cancel` the CancelledError that the breaker does not see. Time stops at the recovery timeout.
* **RateLimiter.** `Lookup` (registry lock) and `TryConsume` (bucket lock) are two steps, `Configure`
  may come between. `mark` and `granted` watch an arbitrary window.
* **ToolPipeline.** A coroutine begins a task (`Begin` with `task`) or a bare call, as `crew audit-llm`
  and the tests do. `invoke_tool` is `checking` (registration, limit, policy: no await in it but the
  bucket's two locks), `auditing` (the append of the verdict, which may raise before or after it reached the
  disk) and `running`. `handle_task` of the offensive agent is `handling`, `reading` (the operator's
  terminal, in a worker thread, so that two tasks may read) and `granted` (before `_confirmed` is set). `Boot`
  is the construction of the settings: LAB_MODE with an invalid token leaves no process. `ToolsOf` is what the
  constructors register; only the offensive agent is told of the mode (`LabOf`). The program itself
  configures no limit for a tool, its tests do; the run gives one to `write_file`.
* **Policy.** A manifest is its set of effects, a rule's outcome a decision or "defer". The rule names and
  reasons are left out.
* **MessageBus.** `publish`, `subscribe` and `close` never await while they hold the lock: one step
  each. A pump takes a message and sends it in two steps. `due`, `taken`, `evicted` are history.
* **Feed.** `Startup` and `Prime` are the lifespan's `start`, `Wake`, `Sampled` and `SampleFails` an
  iteration of `_loop`, `Shutdown` and `LoopCancelled` `stop`; the server has closed its sockets
  before it stops the sampler. A sample is one step: nobody else reads what its probes return before it is
  assembled. Of a snapshot only `cpu_watts` is kept, without the division by time. `used` (history) is the
  energy really used. A client that joins is greeted first.
* **Tier1.** A description is its numbers: keyword hits by category, length in units of 40 words, markers
  (" then " among them). Substring search is abstracted into the hits.
* **Delegator.** One place per await of `delegate` and `plan`. Each delegate is a `crew run`, a process with
  its own connection to the one database: `Write` takes SQLite's write lock, `Commit` publishes the row,
  `Close` at the end of the process rolls back what is uncommitted. An append or a commit that raises, or whose
  delegate is stopped, may have been done all the same (`MayBeLogged`, `Stop`). `Listed` and `Health` are what the
  dashboard reads over its connection. Committed rows and what the bus announced are the two variables of
  `TaskLifecycle`: a commit is its `Start` or `End`, a publication of the outcome its `Tell`.
* **Chat.** The tab's variables are those of dashboard.js; a handler is a record of what
  `chat_websocket_endpoint`, `handle` and `_stream_role` hold at an await. A send to a closed
  socket is lost or raises. Of a reply's tokens only the first is told apart. `AgentsFetched` is the answer to the
  one fetch of the list of agents: it comes at any time, or never. A save or an append that raises may have left its row or
  its entry. `miscounted` (history) says that a prompt to the crew went out on this socket before the list was there.
* **Reply.** `Line` and `FinalLine` are a line of the HTTP stream passed through client and manager to the
  filter; `Cut` is a stream that ends without its final line, which the code takes for the end of a complete
  reply; `Breaks` an error of the request or a line that is not JSON. `Filter` runs `feed`'s loop. The final line
  reports two counts, either of which may be missing: `eval_count`, which is recorded as output and goes into the row,
  and `prompt_eval_count`, which is recorded as input and does not. The bar's total (`TotalTokens`) has both.
* **ThinkFilter.** One step per iteration of `feed`'s loop; `Strip` is the definition it is
  compared with, on the whole text at once.

## 3. Runs

Every run finishes with the result named here. State counts are of distinct states.

| Run | Instance | Shows |
|---|---|---|
| `mm_swap` | 3 callers, 2 models, every failure (114,518 states) | exclusive swaps, nothing accounted is forgotten, refinement of `ModelSlot`, no caller starves |
| `mm_doubleload` | no failure | *violation*: two models in memory at once |
| `audit_faults` | 2 processes, 3 threads, 4 records, every fault (2.1 million) | sole writer's chain verifies, links point back, acknowledged is on disk, of the lines with a newline nothing verified is ever lost |
| `audit_fork` | no fault, 2 records | *violation*: two processes fork the chain |
| `breaker_states` | 3 callers, threshold 2 (323) | state matches count; an open circuit recovers |
| `tool_calls` | 2 coroutines, 4 agents, tokens of every kind, an operator, failing appends (784,660) | what runs is permitted and on record, one verdict per call, nothing offensive without a recorded grant, a refused task stops, bounded grants; the gates of the policy are monotone |
| `feed_serve` | 1 dashboard client, 1 topic subscriber, queues of 2, a counter that wraps (196,074) | order, counted loss, the sentinel, every closed consumer ends; a snapshot for every greeting, true power, sampling goes on |
| `delegate_faults` | 2 processes, every fault (14,065) | store, audit and bus agree and implement `TaskLifecycle`, "running" is true, every assigned task ends; ties and escalations of the router for all bounded descriptions |
| `delegate_noplan` | 1 task, planners that fail | *violation*: a task without row or event |
| `chat_faults` | crew of 2, 2 turns, 2 sockets, every fault, the list of agents coming at any time (608,671) | shown is recorded, turns in order, an idle tab is quiet, turns end |
| `chat_disconnect` | 1 turn, a lost connection | *violation*: a reply that was read and not stored |
| `reply_stream` | replies up to 8 characters in lines of 1 or 2 (330,223) | what is stored and shown is `Strip` of the text, never more than a tag's start is held back, a reply is counted once, with the tokens of its row |

### Bounds, and why they are enough

* `mm_swap`: one caller in the locked section, one queued behind it and one generating are the
  three roles a caller can have; two models are what a swap is between.
* `audit_faults`: a process with two threads meets the in-process race, a second process the race on the
  file. `MaxAppends = 4` gives a torn or unacknowledged write, the record after it, a restart and a
  record after that.
* `breaker_states`: threshold and timeout of 2 separate the first failure from the one that trips;
  failures are counted to one above the threshold, beyond which the code only compares.
* `tool_calls`: two coroutines are what asks the operator twice and empties a bucket of one token; one
  replacement of the bucket; a token file may be missing, readable by others, unparsable (stamp 0), too old
  (2, seven days being the limit on day 10), just young enough (3) or stamped in the future (11).
* `feed_serve`: queues of two overflow with three messages; a counter of two values wraps, and stands still.
* `delegate_faults`: two writers are what waits for the database. Its descriptions have a local and an
  escalated one in each of two categories, one with an agent and one without. The two statements about
  the router range over 0 to 2 hits per category, lengths to twice the limit of 4 and markers to above the
  greatest score.
* `chat_faults`: the second turn and the second socket are what meets the remains of the first;
  a crew of two has a first and a last answer. `Askable` restricts which of the two agents
  is asked alone.
* `reply_stream`: the stand-ins for `<think>` and `</think>` are `<tt` and `</tt`, which share their
  first and last character and do not overlap themselves, like the real tags. Eight characters hold an
  opened and closed span and a character behind it, cut anywhere. Counts of 0, 1 and none tell the two counts of a
  final line apart.

Each module states its types (`TypeOK`, `FeedTypeOK`, ...). They are part of a proved
invariant, so that no run spends a property on them; the inductive invariants were checked by TLC on the instances
of the runs, or smaller ones, before they were proved.

Deadlock checking is off where the system may come to rest: a torn audit log that nobody can open,
tasks that are done, a stream that has ended, a bus with all its messages published.

### Fairness

Weak fairness only, on steps the event loop, an HTTP timeout or the disk completes: a caller's swap and
request (`ModelManager`), a pump that has a message and the sampler's task, whose probes return (`Feed`), the
awaits of `delegate` and the end of a broken process (`Delegator`), the handlers and
the browser's delivery (`Chat`), the loop of the filter (`Reply`), the clock (`CircuitBreaker`). Nobody is obliged to
make a call, to connect, to fail, to cancel or to read: those actions have no fairness. `Chat` asks only
that something due is eventually done, not that each handler is served: every handler's work is finite.

## 4. Where code and words disagree

Each has a run whose counterexample is what the code does, and a finding in `PROJECT.json`.

* `mm_doubleload`: the lock covers the swap but not the request behind it
  (`llm/model_manager.py:122`), so Ollama may reload by itself what another caller has just unloaded; the
  module's header says this is never relied on.
* `audit_fork`: the tail is read once (`security/audit.py:79`) and not again under the file lock.
* `delegate_noplan`: a planner's error leaves `delegate` before anything is saved or published.
* `chat_disconnect`: a lost connection ends the generators before the reply is stored or audited.

Seen while modelling, and not given runs of their own: once a circuit is half open every call passes, not
one trial (`llm/circuit_breaker.py:71` against line 10), and a late success closes an open circuit
(line 84 against lines 7-8); an append that follows a torn line returns although its record is unreadable
(`AckedOnDisk` therefore speaks of files without torn lines); a write that lost only its newline leaves a record that
`verify` accepts and that the next append spoils, in a log that calls itself append-only
(`VerifiedPrefixKept` therefore speaks of the lines that end with their newline); a task's Tier-2 plan is replaced by the
agent's result; `/api/ps` failing after a load loses the load (`forgotten`); a tab stays busy after its
socket is lost, until the user cancels (`TurnEnds` excludes it). `chatPending` is, in the words of
`web/static/js/dashboard.js:51`, "outstanding agent turns this send"; a prompt to the crew that is sent before the
list of agents has come is counted as one (line 591), so the first agent's end frees the tab while the second still
streams, and a prompt sent then is ended by the second's answer (`FreeIsQuiet` names this case, `miscounted`, and
says that nothing else has the effect). `chat_stream` promises a final `done` piece
(`llm/ollama_client.py:256-257`); a stream cut after a whole line ends without one, and the reply is stored as
complete, with no tokens (`Cut`). A line that is not JSON raises past the handlers of
`llm/ollama_client.py:289-292`, so the turn ends without an error frame (`Breaks`). `offensive_probe` invoked by itself
asks the model without the operator's confirmation, which only `handle_task` requires
(`OffensiveIsConfirmed` speaks of tasks). A consent token stamped in the future is younger than any age
(`ConsentVerified`). A Tier-1 text with more coding than offensive keywords goes to the coder, since priority
only breaks ties (`MostSensitiveWins`). docs/architecture.md:46-47 says the outcome of a task is published to
the MessageBus and streamed live by the dashboard's WebSocket; `crew run` publishes on the bus of its own
process, so the dashboard learns of it from the database only (`Listed`).

## 5. What is proved

TLAPS proves the theorems below for every value of the constants: any sets of callers, threads, tasks,
topics, subscribers or sockets, any tags and texts, any bounds, any subset of the faults. Each is a safety property, or a
refinement, of a module's specification without its fairness.

The argument is the same in each module: an inductive invariant with named conjuncts (`IInv`, `PipelineInv`,
`BusInv`, `FeedInv`, `ReplyInv`), a lemma for the initial states, for the step a lemma or a case per action, and one temporal
step per theorem. Where many actions do the same to some variables, a lemma first says what they do (`Frame` in
`ToolPipelineProofs`, `Moved` in `ChatProofs`, `Spared` and its siblings in `FeedProofs`) and the
conjuncts are proved from that.

| Module | Theorem | Property |
|---|---|---|
| `ModelManagerProofs` | `TypeCorrect`, `SwapsExclusive`, `LoadedModelsKnown` | `TypeOK`, `SwapsSerialised`, `LoadedIsKnown` |
| | `ImplementsSlot` | `SlotSpec`: refinement of `ModelSlot` |
| `ToolPipelineProofs` | `GrantsBounded` | `RateBound`, any threads checking again and again |
| | `ToolCallsBounded` | `RateBound`, the calls of agents |
| | `ToolsRunOnRecord`, `CallsTellOneStory` | `RunsAreOnRecord`, `OneVerdict` |
| | `OffensiveNeedsGrant`, `RefusalIsFinal` | `OffensiveIsConfirmed`, `RefusedTaskStops` |
| | `GatesMonotone` | `MoreEffectsNeverHelp` |
| `CircuitBreakerProofs` | `ClosedBelowThreshold` | `StateMatchesCount` |
| `AuditLogProofs` | `RecordsHang`, `AckedIsDurable`, `SoleWriterKeepsChain` | `LinksBack`, `AckedOnDisk`, `SoleWriterVerifies` |
| | `VerifiedNeverShrinks` | `VerifiedPrefixKept`, an action property |
| `DelegatorProofs` | `AnnouncementsRecorded`, `AuditedOutcomesStored`, `AssignmentsAudited`, `WorkIsShown` | `AnnouncedIsRecorded`, `AuditedIsStored`, `AssignedFirst`, `RunningIsShown` |
| | `ImplementsLifecycle` | `LifecycleSpec`: refinement of `TaskLifecycle` |
| | `TiesGoToSensitive`, `EscalationMonotone` | `MostSensitiveWins`, `EscalationIsEarned` |
| `FeedProofs` | `DeliveryInOrder`, `LossesAreCounted`, `CloseReachesConsumer` | `InOrder`, `LossCounted`, `SentinelWaits` |
| | `GreetingHasSnapshot`, `PowerIsTrue` | `SnapshotPrimed`, `WattsAreTrue` |
| `ChatProofs` | `ShownWasRecorded`, `TranscriptInOrder`, `FreeTabIsQuiet` | `ShownIsRecorded`, `TurnsInOrder`, `FreeIsQuiet` |
| `ReplyProofs` | `StoredTextIsStripped`, `ShownNeverTakenBack`, `OnlyATagIsHeld` | `StoredIsStripped`, `ShownIsFinal`, `HoldsOnlyATag` |
| | `CountedOnce` | `UsageOnce` |

What the properties lack to be inductive, and the invariants add:

* **ModelManager.** The lock passes from its holder to the first waiter: a waiter is still waiting (`locking`),
  the holder is not in the queue, and the queue has no duplicates. For `LoadedIsKnown`, what each place in
  the swap knows: while a caller warms or verifies, nothing is active and nothing else is accounted for. From
  the same invariant every step of `Next` is a `Load`, a `Free` or a stutter of `ModelSlot`.
* **RateLimiter.** `Balanced`: what a bucket granted in the window and what it holds now, refill included,
  are together at most the capacity and the window's refill. `NotYetUsed`: a bucket not yet configured has
  granted nothing. A step of the pipeline is a step of the limiter or leaves it alone (`LimiterStep`), so the
  bound holds of the agents' calls too.
* **CircuitBreaker.** Nothing: a failure outside the closed state finds the count at the threshold already.
* **ToolPipeline.** `CallStory`: what the log has of a call and what was decided of it, at each of its places.
  `TaskStory`: the same of a task, its confirmation and the operator's answer. `ModeStory`: LAB_MODE is on only
  after a valid token. `EvaluateIsGated` is the lemma about the policy: the first rule that does not defer
  allows a call exactly when the call clears every gate; `GatesMonotone` follows from it.
* **AuditLog.** `AppendStory` ties a thread in `append` to its logger's lock, cached tail and pending record.
  `TailsOnDisk`: a cached tail, however stale, was written. `SoleStory`: for one process and no write of unknown
  outcome the cached tail is the file's, but between a write and the return. `RaggedIsLine`: where a newline
  is missing there is a last line. For `VerifiedPrefixKept`, `Grows`: a step appends a line, or spoils the last
  one if that is ragged, and leaves every other as it is.
* **Delegator.** `Follows`: for each place of `delegate`, what the task, its audit trail, its row, its pending
  write and the announcements are, and with which of these beginnings a broken delegate leaves. The two theorems about
  routing are about operators: a category with most hits is found by its rank, and the score grows with
  length and markers.
* **MessageBus, Feed.** `Ordered`: taken and queued messages of a subscription ascend across the two, and
  were due. `Counted`: what was due was taken, waits, was dropped or made room for the sentinel.
  `SentinelLast` and `Lives`: the sentinel is last, and a closed subscription's consumer still has it or has ended. The bus is
  proved by itself; `FeedUsesBus` shows that the composition behaves as a bus to it. `SnapshotPrimed` and `WattsAreTrue`
  are inductive with the types.
* **Chat.** `TurnsOwned`: a turn is one request on its way or at one handler, and nothing of a request under
  way is written. `TodoInOrder` and `Written`: a handler's roles ascend, and the transcript has of its turn the
  prompt and roles before those still to answer. `FramesRecorded`: what is on its way to the tab is already on
  record, so a frame may be delivered late. `Awaited`: the ends of replies in flight and the roles left are
  no more than the tab waits for, the last frame in flight of a waiting handler ends a reply, and a handler that has
  ended early leaves the tab waiting; on a socket with a miscounted prompt nothing is claimed of that. `Fresh`: a socket not yet opened is untouched. `EndingAppend` and
  `EndingTail` are the lemmas that count.
* **Reply.** `Held`: what the filter keeps is the end of the input. `Split`: whatever text follows, the stripped text
  of input and continuation is what is out, then what `Visible` makes of the rest from the first kept character on,
  in a span or not as the filter is. The quantified continuation is what makes it inductive: a piece that arrives is part of it.
  Each step of the loop is a lemma about `Visible`: up to the first tag (`TagTaken`), without a tag as far as no tag can still
  begin (`NoTagTaken`, where the longest overlap matters), and at the end (`RestTaken`). With `more` empty, flushing gives
  `Strip`. What a function recursive on the text computes is proved by an induction over positions, in the form of
  a set of naturals that has 0 and each successor (`SetInduction`, from well-foundedness), and the recursive function is
  shown to exist first (`VisibleExists`). The sums of the usage bar are unfolded for the at most one event of a reply (`BarShows`).

Four changes of the models come from the proofs: two arms of a CASE in `ToolPipeline` overlapped
(TLC takes the first, TLA+ either; they are IFs now); `Chat` did not say that its roles are distinct, which
`TurnsInOrder` needs and `available_roles`, the sorted keys of a registry, guarantees; `MessageBus` found the
messages of a queue with a recursive helper; and `Strip` was a function local to its definition, of which nothing could be
stated.

The assumptions are the named ones of the modules, and TLC evaluates each in a run: stand-ins such as None or the torn
line are no proper values; faults are among the named ones; bounds are numbers, and queues, buckets, threshold,
timeout and the range of the counter are positive; the calls of `ToolPipeline` are of its agents, and cost one
token; Delegator's texts are descriptions and its registered roles those of its categories; Chat's
roles are distinct names other than "user" and "system", and there is one; the two tags of `ThinkFilter` are texts of at
least one character.

Only model-checked are the liveness properties (`CallersServed`, `Recovers`, `ClosedEnds`, `SamplingGoesOn`,
`AssignedEnds`, `TurnEnds`, `FeedReturns`): fairness and ENABLED are outside the prover.

## 6. Plan

Done, in this order: `ModelManager` with `ModelSlot` and its proofs; `AuditLog`; `Delegator` and `MessageBus`;
`RateLimiter` and `CircuitBreaker` with their proofs; `Chat` and `ThinkFilter`; `ToolPipeline` with `Policy`
(in place of a run of `RateLimiter` alone); `Feed` (in place of one of `MessageBus` alone); `Tier1`, several
processes and transactions in `Delegator`; `Reply` with the usage record (in place of one of `ThinkFilter`
alone); the proofs of `Delegator` with `TaskLifecycle`, `ToolPipeline`, `AuditLog`, `MessageBus` and `Feed`,
`Chat`, and `ThinkFilter` with `Reply`.

Next:

1. An append-only log as the abstract specification of `AuditLog` under one writer, refined by it, with the step of
   the refinement proved from `SoleStory`.
2. The same for `Chat`: a turn that is recorded, then shown, from `FramesRecorded`.

Left for the models: sessions in one tab (`clearChat`).

## 7. What is not modelled

* `update_task_status`, scratch memory and handoffs of the store, `JsonlWriter`, `generate_stream`, and the
  circuit breaker's use: no code of the program calls them (the breaker is modelled all the same).
* The argument vector of the sandbox and the environment of a subprocess: stateless preparation of one
  operating-system call; what they promise is about the operating system. A command's end is modelled.
* `crew status`, `logs`, `replay`, the read-only routes but the ones named, the composition root, rendering,
  translations: they build, read and print. `register` of the registry and of tools happens in the
  constructors; what it yields are constants.
* Probe values other than the energy counter, prices and the week's window of the usage report, and the
  usage of `generate` and `chat`, which is recorded behind one awaited answer.
* Within modelled parts: prompts and replies as text (but for `Reply`), the content of a model's context,
  logging, the sessions table, the reconnect delays, and alterations of the audit file by somebody else.
* The rollback of a chat row that was written and not committed. INSERT, UPDATE and commit of `add_message` are one step: a
  row of which that step failed is there or not, as the next handler on the shared connection commits it or not.
