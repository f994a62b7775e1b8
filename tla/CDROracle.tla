----------------------------- MODULE CDROracle -----------------------------
(***************************************************************************)
(* contracts/cdr_oracle.cairo: per-pool metrics and pool correlations.     *)
(* An operator is one external entry point; `caller' is                    *)
(* get_caller_address() and `now' is get_block_timestamp().  A failed      *)
(* assert or a u256 overflow reverts, so it is a guard here.               *)
(***************************************************************************)
EXTENDS Naturals

CONSTANTS PoolIds,       \* the felt252 pool ids considered
          MaxU256,       \* largest u256
          Full,          \* 100_000 basis points, i.e. 100%
          yield_engine, governance   \* addresses set by the constructor

VARIABLES pool_metrics, correlations

oracleVars == <<pool_metrics, correlations>>

PoolMetrics == [tvl : 0..MaxU256, volatility : 0..MaxU256,
                yield_rate : 0..MaxU256, last_update : Nat]

OracleTypeOK ==
    /\ pool_metrics \in [PoolIds -> PoolMetrics]
    /\ correlations \in [PoolIds -> [PoolIds -> 0..MaxU256]]

OracleInit ==
    /\ pool_metrics = [p \in PoolIds |-> [tvl |-> 0, volatility |-> 0,
                                          yield_rate |-> 0, last_update |-> 0]]
    /\ correlations = [p \in PoolIds |-> [q \in PoolIds |-> 0]]

\* Bug forms used by the mutation runs: the tvl is adjusted on deposits only, or
\* on withdrawals only; only one direction of a correlation is written.
update_pool_metrics_depositOnly(caller, pool_id, amount, is_deposit, now) ==
    /\ caller = yield_engine
    /\ pool_metrics[pool_id].tvl + amount <= MaxU256
    /\ pool_metrics' = [pool_metrics EXCEPT
          ![pool_id].tvl = IF is_deposit THEN @ + amount ELSE @,
          ![pool_id].last_update = now]
    /\ UNCHANGED correlations

update_pool_metrics_noDeposit(caller, pool_id, amount, is_deposit, now) ==
    /\ caller = yield_engine
    /\ is_deposit \/ pool_metrics[pool_id].tvl >= amount
    /\ pool_metrics' = [pool_metrics EXCEPT
          ![pool_id].tvl = IF is_deposit THEN @ ELSE @ - amount,
          ![pool_id].last_update = now]
    /\ UNCHANGED correlations

update_correlation_oneWay(caller, pool_a, pool_b, correlation) ==
    /\ caller = governance
    /\ correlation <= Full
    /\ correlations' = [correlations EXCEPT ![pool_a][pool_b] = correlation]
    /\ UNCHANGED pool_metrics

update_pool_metrics(caller, pool_id, amount, is_deposit, now) ==
    /\ caller = yield_engine
    /\ IF is_deposit
       THEN /\ pool_metrics[pool_id].tvl + amount <= MaxU256
            /\ pool_metrics' = [pool_metrics EXCEPT
                                  ![pool_id].tvl = @ + amount,
                                  ![pool_id].last_update = now]
       ELSE /\ pool_metrics[pool_id].tvl >= amount
            /\ pool_metrics' = [pool_metrics EXCEPT
                                  ![pool_id].tvl = @ - amount,
                                  ![pool_id].last_update = now]
    /\ UNCHANGED correlations

update_volatility(caller, pool_id, new_volatility, now) ==
    /\ caller = governance
    /\ pool_metrics' = [pool_metrics EXCEPT
                          ![pool_id].volatility = new_volatility,
                          ![pool_id].last_update = now]
    /\ UNCHANGED correlations

update_yield_rate(caller, pool_id, new_yield_rate, now) ==
    /\ caller = governance
    /\ pool_metrics' = [pool_metrics EXCEPT
                          ![pool_id].yield_rate = new_yield_rate,
                          ![pool_id].last_update = now]
    /\ UNCHANGED correlations

update_correlation(caller, pool_a, pool_b, correlation) ==
    /\ caller = governance
    /\ correlation <= Full
    /\ correlations' = [correlations EXCEPT ![pool_a][pool_b] = correlation,
                                            ![pool_b][pool_a] = correlation]
    /\ UNCHANGED pool_metrics
=============================================================================
