--------------------------- MODULE MCBackendRedis ---------------------------
(* Values of the constants of BackendRedis for model checking. *)
EXTENDS BackendRedis
MCAmounts == {1}
=============================================================================
