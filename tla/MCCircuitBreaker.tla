-------------------------- MODULE MCCircuitBreaker --------------------------
(* CircuitBreaker with three callers, so that a call can be in flight from  *)
(* the closed state while two others are trials.                            *)
EXTENDS CircuitBreaker

CONSTANTS c1, c2, c3

MCCallers == {c1, c2, c3}
=============================================================================
