--------------------------- MODULE CircuitBreaker ---------------------------
(***************************************************************************)
(* llm/circuit_breaker.py: coroutines that make their calls through one    *)
(* breaker.  The breaker's lock is never held across an await, so each of  *)
(* _before_call, _on_success, _on_failure and reset is one step; the call  *)
(* itself is what happens between two of them.                             *)
(*                                                                         *)
(* Time is the time since the circuit last opened, as far as it matters:   *)
(* it stops at the recovery timeout.                                       *)
(***************************************************************************)
EXTENDS Naturals

CONSTANTS
    Callers,
    Threshold,      \* failure_threshold
    Recovery,       \* recovery_timeout, in ticks
    MaxFailures     \* failures are counted up to here: above the threshold
                    \* the code only compares the count with it

ASSUME ConstantsAssumption ==
    /\ Threshold \in Nat \ {0}
    /\ Recovery \in Nat \ {0}
    /\ MaxFailures \in Nat /\ MaxFailures >= Threshold

VARIABLES
    state,          \* self._state
    failures,       \* self._failures
    elapsed,        \* now - self._opened_at
    running         \* [c |-> the state c's call was admitted in, or "none"]

vars == <<state, failures, elapsed, running>>

States == {"closed", "open", "half_open"}

TypeOK ==
    /\ state \in States
    /\ failures \in Nat
    /\ elapsed \in 0..Recovery
    /\ running \in [Callers -> {"none", "closed", "half_open"}]

Init ==
    /\ state = "closed"
    /\ failures = 0
    /\ elapsed = 0
    /\ running = [c \in Callers |-> "none"]

Tick ==
    /\ elapsed < Recovery
    /\ elapsed' = elapsed + 1
    /\ UNCHANGED <<state, failures, running>>

\* WRONG: a refused call is itself recorded as a failure.
WrongAdmit(c) ==
    /\ running[c] = "none"
    /\ IF state = "open" /\ elapsed < Recovery
         THEN elapsed' = 0 /\ UNCHANGED <<state, failures, running>>
         ELSE /\ state' = IF state = "open" THEN "half_open" ELSE state
              /\ running' = [running EXCEPT ![c] = state']
              /\ UNCHANGED <<failures, elapsed>>

\* _before_call lets the call through, as a trial once the timeout has run.
\* (A call it refuses raises CircuitOpenError and changes nothing.)
Admit(c) ==
    /\ running[c] = "none"
    /\ state = "open" => elapsed >= Recovery
    /\ state' = IF state = "open" THEN "half_open" ELSE state
    /\ running' = [running EXCEPT ![c] = state']
    /\ UNCHANGED <<failures, elapsed>>

Finish(c) ==
    /\ running[c] # "none"
    /\ running' = [running EXCEPT ![c] = "none"]

\* _on_success, whatever the state has become since the call was admitted.
Succeed(c) ==
    /\ Finish(c)
    /\ failures' = 0
    /\ state' = "closed"
    /\ UNCHANGED elapsed

Counted == IF failures < MaxFailures THEN failures + 1 ELSE failures

\* WRONG: the failure that reaches the threshold does not trip the circuit.
WrongTrips == state = "half_open" \/ Counted > Threshold

\* The condition of _on_failure, this failure being counted.
Trips == state = "half_open" \/ Counted >= Threshold

\* _on_failure.
Fail(c) ==
    /\ Finish(c)
    /\ failures' = Counted
    /\ IF Trips THEN state' = "open" /\ elapsed' = 0
                ELSE UNCHANGED <<state, elapsed>>

\* CancelledError is no Exception: the breaker records nothing.
Cancel(c) ==
    /\ Finish(c)
    /\ UNCHANGED <<state, failures, elapsed>>

Reset ==
    /\ state' = "closed"
    /\ failures' = 0
    /\ UNCHANGED <<elapsed, running>>

Next ==
    \/ Tick
    \/ Reset
    \/ \E c \in Callers : Admit(c) \/ Succeed(c) \/ Fail(c) \/ Cancel(c)

Spec == Init /\ [][Next]_vars

\* The clock runs; calls may take for ever and need not be made.
FairSpec == Spec /\ WF_vars(Tick)

-----------------------------------------------------------------------------
\* The state is what the count of consecutive failures says: the circuit is
\* closed exactly while fewer than the threshold have been counted, although
\* calls admitted in one state end in another.
StateMatchesCount == state = "closed" <=> failures < Threshold

\* An open circuit cannot be kept shut by the calls that were in flight when
\* it opened: each that fails restarts the timeout, but they run out.
Recovers == state = "open" ~> (state # "open" \/ elapsed = Recovery)
=============================================================================
