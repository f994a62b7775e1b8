---------------------------- MODULE VaultManager ---------------------------
(***************************************************************************)
(* contracts/vault_manager.cairo: who owns how much of which pool.  The    *)
(* calls to the token and to the yield engine are conjoined by the         *)
(* composition (a transaction is atomic: it commits with all its nested    *)
(* calls or reverts).                                                      *)
(***************************************************************************)
EXTENDS Naturals

CONSTANTS PoolIds, MaxU256, Accounts, Tokens, Zero,
          strategy_registry

VARIABLES balances, total_supply, pool_tokens

vaultVars == <<balances, total_supply, pool_tokens>>

VaultTypeOK ==
    /\ balances \in [Accounts -> [PoolIds -> 0..MaxU256]]
    /\ total_supply \in [PoolIds -> 0..MaxU256]
    /\ pool_tokens \in [PoolIds -> Tokens \cup {Zero}]

VaultInit ==
    /\ balances = [u \in Accounts |-> [p \in PoolIds |-> 0]]
    /\ total_supply = [p \in PoolIds |-> 0]
    /\ pool_tokens = [p \in PoolIds |-> Zero]

\* Bug forms used by the mutation runs: the total is not reduced; another
\* account's balance is reduced.
withdraw_keepsTotal(caller, pool_id, amount) ==
    /\ caller # Zero
    /\ balances[caller][pool_id] >= amount
    /\ pool_tokens[pool_id] # Zero
    /\ balances' = [balances EXCEPT ![caller][pool_id] = @ - amount]
    /\ UNCHANGED <<total_supply, pool_tokens>>

withdraw_wrongAccount(caller, pool_id, amount) ==
    /\ caller # Zero
    /\ \E u \in Accounts :
          /\ balances[u][pool_id] >= amount
          /\ balances' = [balances EXCEPT ![u][pool_id] = @ - amount]
    /\ pool_tokens[pool_id] # Zero
    /\ total_supply[pool_id] >= amount
    /\ total_supply' = [total_supply EXCEPT ![pool_id] = @ - amount]
    /\ UNCHANGED pool_tokens

deposit(caller, pool_id, amount) ==
    /\ caller # Zero
    /\ amount > 0
    /\ pool_tokens[pool_id] # Zero
    /\ balances[caller][pool_id] + amount <= MaxU256
    /\ total_supply[pool_id] + amount <= MaxU256
    /\ balances' = [balances EXCEPT ![caller][pool_id] = @ + amount]
    /\ total_supply' = [total_supply EXCEPT ![pool_id] = @ + amount]
    /\ UNCHANGED pool_tokens

withdraw(caller, pool_id, amount) ==
    /\ caller # Zero
    /\ balances[caller][pool_id] >= amount
    /\ pool_tokens[pool_id] # Zero
    /\ total_supply[pool_id] >= amount
    /\ balances' = [balances EXCEPT ![caller][pool_id] = @ - amount]
    /\ total_supply' = [total_supply EXCEPT ![pool_id] = @ - amount]
    /\ UNCHANGED pool_tokens

add_pool(caller, pool_id, token) ==
    /\ caller = strategy_registry
    /\ token # Zero
    /\ pool_tokens' = [pool_tokens EXCEPT ![pool_id] = token]
    /\ UNCHANGED <<balances, total_supply>>
=============================================================================
