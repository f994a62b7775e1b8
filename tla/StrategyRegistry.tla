-------------------------- MODULE StrategyRegistry -------------------------
(***************************************************************************)
(* contracts/strategy_registry.cairo: the table of pools.  `allocation' is *)
(* the external strategies' state: the last weight each was told to        *)
(* execute.                                                                *)
(***************************************************************************)
EXTENDS Naturals, Sequences

CONSTANTS PoolIds, MaxU256, Tokens, Strategies, Zero,
          yield_engine, governance

VARIABLES pools, pool_count, allocation

registryVars == <<pools, pool_count, allocation>>

Pool == [token : Tokens \cup {Zero}, strategy : Strategies \cup {Zero},
         active : BOOLEAN, min_deposit : 0..MaxU256, max_capacity : 0..MaxU256]

\* What reading an unwritten LegacyMap slot returns.
NoPool == [token |-> Zero, strategy |-> Zero, active |-> FALSE,
           min_deposit |-> 0, max_capacity |-> 0]

RegistryTypeOK ==
    /\ pools \in [PoolIds -> Pool]
    /\ pool_count \in Nat
    /\ allocation \in [Strategies -> 0..MaxU256]

RegistryInit ==
    /\ pools = [p \in PoolIds |-> NoPool]
    /\ pool_count = 0
    /\ allocation = [s \in Strategies |-> 0]

\* The pools whose strategy is s among those the loop of execute_rebalance
\* visits, and the last of them (none when there is no such pool): the loop runs
\* in order, so that one decides what s executed.
Targets(s, new_weights) ==
    {p \in PoolIds : p < Len(new_weights) /\ pools[p].active /\ pools[p].strategy = s}

LastTarget(s, new_weights) ==
    {p \in Targets(s, new_weights) : \A q \in Targets(s, new_weights) : q <= p}

\* Bug forms used by the mutation runs: the slot is computed after the counter
\* was advanced; the counter is not advanced; the loop stops one element early.
add_pool_lateId(caller, token, strategy, min_deposit, max_capacity) ==
    /\ caller = governance
    /\ token # Zero /\ strategy # Zero
    /\ pool_count + 1 \in PoolIds
    /\ pools' = [pools EXCEPT ![pool_count + 1] =
                   [token |-> token, strategy |-> strategy, active |-> TRUE,
                    min_deposit |-> min_deposit, max_capacity |-> max_capacity]]
    /\ pool_count' = pool_count + 1
    /\ UNCHANGED allocation

add_pool_noCount(caller, token, strategy, min_deposit, max_capacity) ==
    /\ caller = governance
    /\ token # Zero /\ strategy # Zero
    /\ pool_count \in PoolIds
    /\ pools' = [pools EXCEPT ![pool_count] =
                   [token |-> token, strategy |-> strategy, active |-> TRUE,
                    min_deposit |-> min_deposit, max_capacity |-> max_capacity]]
    /\ UNCHANGED <<pool_count, allocation>>

execute_rebalance_short(caller, new_weights) ==
    /\ caller = yield_engine
    /\ allocation' = [s \in Strategies |->
          LET last == LastTarget(s, SubSeq(new_weights, 1, Len(new_weights) - 1)) IN
          IF last = {} THEN allocation[s]
                       ELSE new_weights[(CHOOSE p \in last : TRUE) + 1]]
    /\ UNCHANGED <<pools, pool_count>>

\* pool_count \in PoolIds bounds the number of pools of an instance.
add_pool(caller, token, strategy, min_deposit, max_capacity) ==
    /\ caller = governance
    /\ token # Zero /\ strategy # Zero
    /\ pool_count \in PoolIds
    /\ pools' = [pools EXCEPT ![pool_count] =
                   [token |-> token, strategy |-> strategy, active |-> TRUE,
                    min_deposit |-> min_deposit, max_capacity |-> max_capacity]]
    /\ pool_count' = pool_count + 1
    /\ UNCHANGED allocation

update_pool(caller, pool_id, active, min_deposit, max_capacity) ==
    /\ caller = governance
    /\ pools[pool_id].token # Zero
    /\ pools' = [pools EXCEPT ![pool_id].active = active,
                              ![pool_id].min_deposit = min_deposit,
                              ![pool_id].max_capacity = max_capacity]
    /\ UNCHANGED <<pool_count, allocation>>

execute_rebalance(caller, new_weights) ==
    /\ caller = yield_engine
    /\ allocation' = [s \in Strategies |->
          LET last == LastTarget(s, new_weights) IN
          IF last = {} THEN allocation[s]
                       ELSE new_weights[(CHOOSE p \in last : TRUE) + 1]]
    /\ UNCHANGED <<pools, pool_count>>

is_valid_deposit(pool_id, amount) ==
    /\ pools[pool_id].active
    /\ amount >= pools[pool_id].min_deposit
    /\ amount <= pools[pool_id].max_capacity
=============================================================================
