---------------------------- MODULE YieldEngine ----------------------------
(***************************************************************************)
(* contracts/yield_engine.cairo: the weight each pool is given, and the    *)
(* relay between the vault and the oracle.  harvest_yield is not an entry  *)
(* any account reaches: only the strategy registry may call it and it      *)
(* never does, so it has no action here.                                   *)
(***************************************************************************)
EXTENDS Naturals, Sequences, FiniteSetsExt

CONSTANTS PoolIds, MaxU256, Full,
          vault_manager, governance

VARIABLES pool_weights, total_weights

engineVars == <<pool_weights, total_weights>>

EngineTypeOK ==
    /\ pool_weights \in [PoolIds -> 0..MaxU256]
    /\ total_weights \in 0..MaxU256

EngineInit ==
    /\ pool_weights = [p \in PoolIds |-> 0]
    /\ total_weights = 0

\* The `total' the loop of rebalance accumulates.
SumOfWeights(new_weights) ==
    MapThenSumSet(LAMBDA i : new_weights[i], DOMAIN new_weights)

rebalance(caller, new_weights) ==
    /\ caller = governance
    /\ pool_weights' = [p \in PoolIds |->
                          IF p < Len(new_weights) THEN new_weights[p + 1]
                                                  ELSE pool_weights[p]]
    /\ SumOfWeights(new_weights) = Full
    /\ total_weights' = SumOfWeights(new_weights)

\* on_deposit and on_withdrawal: the caller check; the call they make to the
\* oracle is conjoined by the composition.
on_deposit(caller)    == caller = vault_manager /\ UNCHANGED engineVars
on_withdrawal(caller) == caller = vault_manager /\ UNCHANGED engineVars
=============================================================================
