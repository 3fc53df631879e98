-------------------------------- MODULE Feed --------------------------------
(***************************************************************************)
(* metrics/sampler.py, web/app.py and web/ws.py around the message bus:    *)
(* the dashboard's server starts the sampler, serves clients, and stops    *)
(* it.  A client is sent the latest snapshot and is then subscribed to     *)
(* everything on the bus.                                                  *)
(*                                                                         *)
(* Of a snapshot only the CPU's power is kept, as the energy used between  *)
(* two readings of a counter that wraps at Wrap units.                     *)
(***************************************************************************)
EXTENDS MessageBus, Integers

CONSTANTS
    Wrap            \* max_energy_range_uj of the counter

ASSUME FeedAssumption == Wrap \in Nat \ {0}

Unknown == -Wrap    \* None: no difference of two readings
Clients == {s \in Subs : TopicOf[s] = Wildcard}

VARIABLES
    app,            \* where the lifespan of the application is
    loop,           \* the sampler's task: "none", "sleeping" or "probing"
    running,        \* _running
    prev,           \* _prev_rapl_uj
    snapshot,       \* _snapshot: a set that holds the latest, if there is one
    used,           \* what was really used between the readings behind it (history)
    frame           \* the first frame that each client is sent

samplerVars == <<app, loop, running, prev, snapshot, used>>
feedVars == <<vars, samplerVars, frame>>

Usage == 0..Wrap - 1

FeedTypeOK ==
    /\ TypeOK
    /\ app \in {"down", "starting", "serving", "stopping", "stopped", "failed"}
    /\ loop \in {"none", "sleeping", "probing"}
    /\ running \in BOOLEAN
    /\ prev \in {Unknown} \cup 0..Wrap - 1
    /\ snapshot \in {{}, {Unknown}} \cup {{watts} : watts \in Usage}
    /\ used \in Usage
    /\ frame \in [Clients -> {"unsent", "snapshot", "null"}]

FeedInit ==
    /\ Init
    /\ app = "down"
    /\ loop = "none"
    /\ running = FALSE
    /\ prev = Unknown
    /\ snapshot = {}
    /\ used = 0
    /\ frame = [s \in Clients |-> "unsent"]

-----------------------------------------------------------------------------
(* The sampler                                                             *)

\* WRONG: a counter that has wrapped is not noticed.
WrongCpuWatts(reading, elapsed) ==
    IF Unknown \in {reading, prev} \/ ~elapsed THEN Unknown ELSE reading - prev

\* _compute_cpu_watts, without the division by the elapsed time: None on the
\* first reading, one after a failed one, a wrapped counter, or no time at all.
CpuWatts(reading, elapsed) ==
    IF Unknown \in {reading, prev} \/ ~elapsed \/ reading < prev
      THEN Unknown ELSE reading - prev

\* What the counter shows after u was used; it may have started anywhere.
Readings(u) ==
    {Unknown} \cup IF prev = Unknown THEN 0..Wrap - 1 ELSE {(prev + u) % Wrap}

\* sample_once to its end: the probes of gpu.py and power.py give nothing or
\* None where they fail.
TakeSample(u, reading, elapsed) ==
    LET watts == CpuWatts(reading, elapsed) IN
    /\ snapshot' = {watts}
    /\ prev' = reading
    /\ used' = IF watts = Unknown THEN 0 ELSE u

SampleRaises == UNCHANGED <<prev, snapshot, used>>

\* The lifespan begins with start, which takes the first sample itself.
Startup ==
    /\ app = "down"
    /\ app' = "starting"
    /\ running' = TRUE
    /\ UNCHANGED <<vars, loop, prev, snapshot, used, frame>>

\* WRONG: start leaves the first sample to the loop.
WrongPrime(u, reading, elapsed) ==
    /\ app = "starting"
    /\ reading \in Readings(u)
    /\ app' = "serving"
    /\ loop' = "sleeping"
    /\ UNCHANGED <<vars, running, prev, snapshot, used, frame>>

\* ... and then creates the task; the application serves.
Prime(u, reading, elapsed) ==
    /\ app = "starting"
    /\ TakeSample(u, reading, elapsed)
    /\ app' = "serving"
    /\ loop' = "sleeping"
    /\ UNCHANGED <<vars, running, frame>>

\* A first sample that raises ends the lifespan: nothing is served.
PrimeFails ==
    /\ app = "starting"
    /\ SampleRaises
    /\ app' = "failed"
    /\ UNCHANGED <<vars, loop, running, frame>>

Wake ==
    /\ loop = "sleeping"
    /\ app = "serving"
    /\ loop' = "probing"
    /\ UNCHANGED <<vars, app, running, prev, snapshot, used, frame>>

\* while self._running
LoopOn == loop' = IF running THEN "sleeping" ELSE "none"

Sampled(u, reading, elapsed) ==
    /\ loop = "probing"
    /\ app = "serving"
    /\ TakeSample(u, reading, elapsed)
    /\ LoopOn
    /\ UNCHANGED <<vars, app, running, frame>>

\* WRONG: an exception ends the loop.
WrongSampleFails ==
    /\ loop = "probing"
    /\ app = "serving"
    /\ SampleRaises
    /\ loop' = "none"
    /\ UNCHANGED <<vars, app, running, frame>>

\* The loop suppresses what the sample raised.
SampleFails ==
    /\ loop = "probing"
    /\ app = "serving"
    /\ SampleRaises
    /\ LoopOn
    /\ UNCHANGED <<vars, app, running, frame>>

\* stop: the server has ended its connections; the task is cancelled ...
Shutdown ==
    /\ app = "serving"
    /\ \A s \in Clients : pump[s] \in {"new", "ended"}
    /\ app' = "stopping"
    /\ running' = FALSE
    /\ UNCHANGED <<vars, loop, prev, snapshot, used, frame>>

\* ... and awaited: the cancellation comes at the await that it is in.
LoopCancelled ==
    /\ app = "stopping"
    /\ loop' = "none"
    /\ app' = "stopped"
    /\ UNCHANGED <<vars, running, prev, snapshot, used, frame>>

-----------------------------------------------------------------------------
(* A client of the socket                                                  *)

\* The first frame is what latest() returns.
Greet(s) ==
    /\ app = "serving"
    /\ pump[s] = "new"
    /\ frame[s] = "unsent"
    /\ frame' = [frame EXCEPT ![s] = IF snapshot = {} THEN "null" ELSE "snapshot"]
    /\ UNCHANGED <<vars, samplerVars>>

\* A client is subscribed behind its first frame; others need none.
Join(s) ==
    /\ s \in Clients => app = "serving" /\ frame[s] # "unsent"
    /\ Subscribe(s)
    /\ UNCHANGED <<samplerVars, frame>>

LoopStep ==
    \/ Wake \/ SampleFails \/ LoopCancelled
    \/ \E u \in Usage : \E reading \in Readings(u), elapsed \in BOOLEAN :
          Sampled(u, reading, elapsed)

FeedNext ==
    \/ Startup \/ PrimeFails \/ Shutdown
    \/ \E u \in Usage : \E reading \in Readings(u), elapsed \in BOOLEAN :
          Prime(u, reading, elapsed)
    \/ LoopStep
    \/ \E s \in Clients : Greet(s)
    \/ \E s \in Subs : Join(s)
    \/ /\ \/ \E s \in Subs : Pump(s) \/ Quit(s)
          \/ \E topic \in Topics \cup {Wildcard} : Publish(topic)
          \/ CloseBus
       /\ UNCHANGED <<samplerVars, frame>>

FeedSpec == FeedInit /\ [][FeedNext]_feedVars

\* The event loop runs the pumps and the sampler's task, whose probes return.
FairFeedSpec ==
    /\ FeedSpec
    /\ \A s \in Subs : WF_feedVars(Pump(s) /\ UNCHANGED <<samplerVars, frame>>)
    /\ WF_feedVars(LoopStep)

-----------------------------------------------------------------------------
\* start's comment, "prime so latest() is immediately available": no client is
\* ever greeted without a snapshot, and GET /api/metrics has one to return, even
\* if samples fail from the start.
SnapshotPrimed ==
    /\ \A s \in Clients : frame[s] # "null"
    /\ app = "serving" => snapshot # {}

\* A reported power is what was really used since the reading before it: the
\* samples that failed in between, an unreadable counter, its wrap and two
\* samples at one time do not make it something else.
WattsAreTrue ==
    \A watts \in snapshot : watts # Unknown => watts = used

\* While the application serves, the sampler samples on, whatever fails; once it
\* has stopped there is no task left that could.
SamplingGoesOn ==
    /\ (app = "serving") ~> (loop = "probing" \/ app # "serving")
    /\ [](app \in {"stopped", "failed"} => loop = "none")
=============================================================================
