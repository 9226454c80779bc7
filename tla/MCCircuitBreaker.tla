-------------------------- MODULE MCCircuitBreaker --------------------------
(* Model checking of CircuitBreaker: three callers, small thresholds. *)
EXTENDS CircuitBreaker, TLC

CONSTANTS c1, c2, c3

MCCallers == {c1, c2, c3}
=============================================================================
