---------------------------- MODULE ModelManager ----------------------------
(***************************************************************************)
(* llm/model_manager.py: coroutines ("callers") that ask for a model to be *)
(* made active, and the Ollama server the manager drives over HTTP.        *)
(*                                                                         *)
(* A caller's control is its pc; an await is where one step ends and the   *)
(* next begins.  An asyncio.Lock serves its waiters in order, so the lock  *)
(* is a holder and a queue.  Every request may fail in the ways MayFail    *)
(* names; a cancelled coroutine leaves by the same exits as a failed       *)
(* request.                                                                *)
(***************************************************************************)
EXTENDS Naturals, SequencesExt

CONSTANTS
    Callers,        \* coroutines sharing the manager
    Models,         \* Ollama model names
    NoModel,        \* Python's None
    NoCaller,       \* the lock is free
    MayFail         \* the failures of this instance, a subset of Failures

\* "unload": /api/generate with keep_alive 0 raises, with or without effect.
\* "vram": the probe reports too little memory.  "warm_refused"/"warm_lost":
\* the load raises, having had no effect / having loaded the model.
\* "ps": /api/ps raises after the load.  "cancel": a waiter is cancelled.
\* "generate": the generation itself raises.
Failures == {"unload", "vram", "warm_refused", "warm_lost", "ps", "cancel", "generate"}

ASSUME ConstantsAssumption ==
    /\ NoModel \notin Models
    /\ NoCaller \notin Callers
    /\ MayFail \subseteq Failures

VARIABLES
    active,         \* self._active
    holder,         \* who holds self._lock
    waiters,        \* who awaits self._lock, first come first
    pc,             \* where each caller is
    want,           \* the model argument; NoModel in unload_active
    warmed,         \* models resident because the manager loaded them
    implicit,       \* models Ollama loaded by itself to serve a request
    forgotten       \* models whose load the manager was told had failed, or
                    \* could not verify (history)

vars == <<active, holder, waiters, pc, want, warmed, implicit, forgotten>>

Swapping == {"unloading", "warming", "verifying"}
Locations == {"idle", "locking", "sent", "generating"} \cup Swapping

resident == warmed \cup implicit

\* What is in memory by a load that the manager saw succeed.
accounted == warmed \ forgotten

TypeOK ==
    /\ active \in Models \cup {NoModel}
    /\ holder \in Callers \cup {NoCaller}
    /\ waiters \in Seq(Callers)
    /\ pc \in [Callers -> Locations]
    /\ want \in [Callers -> Models \cup {NoModel}]
    /\ warmed \subseteq Models
    /\ implicit \subseteq Models
    /\ forgotten \subseteq Models

Init ==
    /\ active = NoModel
    /\ holder = NoCaller
    /\ waiters = <<>>
    /\ pc = [c \in Callers |-> "idle"]
    /\ want = [c \in Callers |-> NoModel]
    /\ warmed = {}
    /\ implicit = {}
    /\ forgotten = {}

-----------------------------------------------------------------------------
(* The lock                                                                *)

Goto(c, loc) == pc' = [pc EXCEPT ![c] = loc]

\* WRONG: the swap without its lock.
WrongHasLock(c) == pc[c] = "locking"


HasLock(c) == holder = c /\ pc[c] = "locking"

\* Leaving `async with self._lock`: the first waiter runs next.
Release ==
    IF waiters = <<>>
      THEN holder' = NoCaller /\ waiters' = waiters
      ELSE holder' = Head(waiters) /\ waiters' = Tail(waiters)

\* WRONG: an exception that skips the lock's release.
WrongLeave(c) == Goto(c, "idle") /\ UNCHANGED <<holder, waiters>>

\* Leaving the block by an exception, or at the end of unload_active.
Leave(c) == Goto(c, "idle") /\ Release

\* Leaving the block with the wanted model active: the caller goes on to its
\* request without another await.
Granted(c) == Goto(c, "sent") /\ Release

\* generate, chat, chat_stream (m a model) and unload_active (m = NoModel).
Call(c, m) ==
    /\ pc[c] = "idle"
    /\ want' = [want EXCEPT ![c] = m]
    /\ Goto(c, "locking")
    /\ IF holder = NoCaller
         THEN holder' = c /\ waiters' = waiters
         ELSE holder' = holder /\ waiters' = Append(waiters, c)
    /\ UNCHANGED <<active, warmed, implicit, forgotten>>

\* A waiter cancelled in the queue leaves it; one cancelled just as the lock is
\* handed to it hands the lock on.
CancelWaiting(c) ==
    /\ "cancel" \in MayFail
    /\ pc[c] = "locking"
    /\ \/ holder = c /\ Leave(c)
       \/ /\ \E i \in DOMAIN waiters :
               /\ waiters[i] = c
               /\ waiters' = RemoveAt(waiters, i)
          /\ holder' = holder
          /\ Goto(c, "idle")
    /\ UNCHANGED <<active, want, warmed, implicit, forgotten>>

-----------------------------------------------------------------------------
(* The swap, under the lock                                                *)

\* The probe is synchronous: it runs in the step that reaches it.
Probe(c) ==
    \/ "vram" \in MayFail /\ Leave(c)
    \/ Goto(c, "warming") /\ UNCHANGED <<holder, waiters>>

AlreadyActive(c) ==
    /\ HasLock(c)
    /\ active = want[c]
    /\ IF want[c] = NoModel THEN Leave(c) ELSE Granted(c)
    /\ UNCHANGED <<active, want, warmed, implicit, forgotten>>

StartUnload(c) ==
    /\ HasLock(c)
    /\ active \notin {want[c], NoModel}
    /\ Goto(c, "unloading")
    /\ UNCHANGED <<active, holder, waiters, want, warmed, implicit, forgotten>>

\* WRONG: loads over a model it should have unloaded first.
WrongStartLoad(c) ==
    /\ HasLock(c)
    /\ active # want[c] /\ want[c] # NoModel
    /\ Probe(c)
    /\ UNCHANGED <<active, want, warmed, implicit, forgotten>>

StartLoad(c) ==
    /\ HasLock(c)
    /\ active = NoModel /\ want[c] # NoModel
    /\ Probe(c)
    /\ UNCHANGED <<active, want, warmed, implicit, forgotten>>

\* keep_alive 0 takes the model out of memory.
Evicted ==
    /\ warmed' = warmed \ {active}
    /\ implicit' = implicit \ {active}
    /\ forgotten' = forgotten \ {active}

Unloaded(c) ==
    /\ pc[c] = "unloading"
    /\ Evicted
    /\ active' = NoModel
    /\ IF want[c] = NoModel THEN Leave(c) ELSE Probe(c)
    /\ UNCHANGED want

\* WRONG: forgets the active model although its unload may not have happened.
WrongUnloadFails(c) ==
    /\ "unload" \in MayFail
    /\ pc[c] = "unloading"
    /\ Evicted \/ UNCHANGED <<warmed, implicit, forgotten>>
    /\ Leave(c)
    /\ active' = NoModel
    /\ UNCHANGED want


UnloadFails(c) ==
    /\ "unload" \in MayFail
    /\ pc[c] = "unloading"
    /\ Evicted \/ UNCHANGED <<warmed, implicit, forgotten>>
    /\ Leave(c)
    /\ UNCHANGED <<active, want>>

\* A load of a model Ollama had brought in by itself adopts it.
Loads(m) == warmed' = warmed \cup {m} /\ implicit' = implicit \ {m}

Warmed(c) ==
    /\ pc[c] = "warming"
    /\ Loads(want[c])
    /\ forgotten' = forgotten \ {want[c]}
    /\ Goto(c, "verifying")
    /\ UNCHANGED <<active, holder, waiters, want>>

WarmFails(c) ==
    /\ pc[c] = "warming"
    /\ \/ "warm_refused" \in MayFail /\ UNCHANGED <<warmed, implicit, forgotten>>
       \/ /\ "warm_lost" \in MayFail
          /\ Loads(want[c])
          /\ forgotten' = forgotten \cup {want[c]}
    /\ Leave(c)
    /\ UNCHANGED <<active, want>>

\* A model missing from /api/ps is only warned about.
Verified(c) ==
    /\ pc[c] = "verifying"
    /\ active' = want[c]
    /\ Granted(c)
    /\ UNCHANGED <<want, warmed, implicit, forgotten>>

VerifyFails(c) ==
    /\ "ps" \in MayFail
    /\ pc[c] = "verifying"
    /\ Leave(c)
    /\ forgotten' = forgotten \cup {want[c]}
    /\ UNCHANGED <<active, want, warmed, implicit>>

-----------------------------------------------------------------------------
(* The generation, outside the lock                                        *)

\* The request reaches Ollama.  A model that is not in memory is loaded for
\* it, and Ollama may drop any other models to make room (or none of them).
Serve(c) ==
    /\ pc[c] = "sent"
    /\ IF want[c] \in resident
         THEN UNCHANGED <<warmed, implicit>>
         ELSE \E kept \in SUBSET resident :
                /\ warmed' = warmed \cap kept
                /\ implicit' = (implicit \cap kept) \cup {want[c]}
    /\ Goto(c, "generating")
    /\ UNCHANGED <<active, holder, waiters, want, forgotten>>

Answered(c) ==
    /\ pc[c] = "generating"
    /\ Goto(c, "idle")
    /\ UNCHANGED <<active, holder, waiters, want, warmed, implicit, forgotten>>

\* The connection fails before the server acts on the request.
RequestFails(c) ==
    /\ "generate" \in MayFail
    /\ pc[c] = "sent"
    /\ Goto(c, "idle")
    /\ UNCHANGED <<active, holder, waiters, want, warmed, implicit, forgotten>>

\* Ollama drops a model that has been idle for its keep-alive time; the
\* manager is not told.
Expire(m) ==
    /\ m \in resident
    /\ \A c \in Callers : ~(pc[c] = "generating" /\ want[c] = m)
    /\ warmed' = warmed \ {m}
    /\ implicit' = implicit \ {m}
    /\ UNCHANGED <<active, holder, waiters, pc, want, forgotten>>

-----------------------------------------------------------------------------
Swap(c) ==
    \/ AlreadyActive(c) \/ StartUnload(c) \/ StartLoad(c)
    \/ Unloaded(c) \/ UnloadFails(c)
    \/ Warmed(c) \/ WarmFails(c)
    \/ Verified(c) \/ VerifyFails(c)

Request(c) == Serve(c) \/ Answered(c) \/ RequestFails(c)

Next ==
    \/ \E c \in Callers, m \in Models \cup {NoModel} : Call(c, m)
    \/ \E c \in Callers : CancelWaiting(c) \/ Swap(c) \/ Request(c)
    \/ \E m \in Models : Expire(m)

Spec == Init /\ [][Next]_vars

\* httpx bounds every request by a timeout, so a request in flight ends, and
\* the event loop runs every coroutine that is ready.  Nothing forces a caller
\* to ask again, a waiter to be cancelled, or Ollama to expire a model.
Fairness == \A c \in Callers : WF_vars(Swap(c)) /\ WF_vars(Request(c))

FairSpec == Spec /\ Fairness

-----------------------------------------------------------------------------
(* Properties                                                              *)

\* Two coroutines never race a load: between the unload of one model and the
\* record of the next, at most one caller talks to Ollama, the lock's holder.
SwapsSerialised ==
    \A c \in Callers : pc[c] \in Swapping => holder = c

\* A model in memory through a load that was seen to succeed is the one the
\* manager calls active, or the one a caller is verifying right now.  This is
\* what lets the next swap unload everything before it loads.
LoadedIsKnown ==
    \A m \in accounted :
        m = active \/ \E c \in Callers : pc[c] = "verifying" /\ want[c] = m

\* The explicit swaps implement a one-model slot (see ModelSlot): whatever
\* fails, a load never finds another accounted model in memory.
Slot == INSTANCE ModelSlot WITH slot <- accounted
SlotSpec == Slot!Spec

\* Everyone who asks for a model gets an answer: the lock is handed on however
\* its holder leaves, by a grant, an error, or a cancellation.
CallersServed ==
    \A c \in Callers : pc[c] = "locking" ~> pc[c] \in {"idle", "sent"}

\* The single-active-model policy: "we never rely on Ollama's implicit
\* eviction, which could transiently double-load".
NeverDoubleLoaded == Cardinality(resident) <= 1
=============================================================================
