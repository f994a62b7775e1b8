-------------------------- MODULE MCCircuitBreaker -------------------------
(* Values of the constants of CircuitBreaker for model checking. *)
EXTENDS CircuitBreaker
============================================================================
