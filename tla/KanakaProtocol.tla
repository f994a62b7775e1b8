-------------------------- MODULE KanakaProtocol ---------------------------
(***************************************************************************)
(* The four vault contracts wired together, with the tokens they move.     *)
(* Each action is one account's transaction: the entry point it invokes    *)
(* conjoined with every nested contract call, so that it commits only if   *)
(* no assert along the call chain fails.  A reverted transaction changes   *)
(* nothing and is a stutter; so are an account's direct calls of the entry *)
(* points that the contracts reserve for one another (on_deposit,          *)
(* update_pool_metrics, VaultManager.add_pool, execute_rebalance,          *)
(* harvest_yield): an account never has a contract's address.              *)
(***************************************************************************)
EXTENDS Naturals, Sequences, FiniteSets, Functions

CONSTANTS Accounts,        \* externally owned accounts, governance among them
          Tokens, Strategies, Zero,
          vault_manager, yield_engine, cdr_oracle, strategy_registry,
          governance,      \* the account the constructors receive
          MaxPools,        \* bound on the number of pools
          MaxU256,         \* largest u256
          Full,            \* 100_000 basis points
          MaxTime,         \* bound on the block timestamp
          Amounts,         \* amounts callers ask for
          Rates,           \* volatilities and yield rates governance sets
          Correlations,    \* correlations governance asks for
          Limits,          \* min_deposit and max_capacity values
          Weights,         \* elements of a rebalance array
          Funding          \* what each account initially holds of each token

VARIABLES balances, total_supply, pool_tokens,       \* VaultManager
          pool_weights, total_weights,               \* YieldEngine
          pool_metrics, correlations,                \* CDROracle
          pools, pool_count, allocation,             \* StrategyRegistry
          token_balance,                             \* the tokens
          now                                        \* block timestamp

PoolIds == 0 .. MaxPools - 1
Contracts == {vault_manager, yield_engine, cdr_oracle, strategy_registry}
Holders == Accounts \cup {vault_manager}

ASSUME DeploymentAssumption ==
    /\ MaxPools \in Nat /\ MaxU256 \in Nat /\ Full \in Nat /\ MaxTime \in Nat
    /\ Full <= MaxU256
    /\ governance \in Accounts /\ IsFiniteSet(Accounts)
    /\ Zero \notin Accounts \cup Tokens \cup Strategies \cup Contracts
    /\ Contracts \cap Accounts = {}
    /\ vault_manager # yield_engine /\ strategy_registry # vault_manager
    /\ Amounts \subseteq 0..MaxU256 /\ Rates \subseteq 0..MaxU256
    /\ Limits \subseteq 0..MaxU256 /\ Weights \subseteq 0..MaxU256
    /\ Correlations \subseteq 0..MaxU256
    /\ Funding \in Nat

VM    == INSTANCE VaultManager
YE    == INSTANCE YieldEngine
CDR   == INSTANCE CDROracle
SR    == INSTANCE StrategyRegistry
Token == INSTANCE ERC20

vaultVars    == <<balances, total_supply, pool_tokens>>
engineVars   == <<pool_weights, total_weights>>
oracleVars   == <<pool_metrics, correlations>>
registryVars == <<pools, pool_count, allocation>>
vars == <<vaultVars, engineVars, oracleVars, registryVars, token_balance, now>>

WeightArrays == UNION {[1..n -> Weights] : n \in 0..MaxPools}

Init ==
    /\ VM!VaultInit
    /\ YE!EngineInit
    /\ CDR!OracleInit
    /\ SR!RegistryInit
    /\ token_balance = [t \in Tokens |->
                          [h \in Holders |-> IF h \in Accounts THEN Funding ELSE 0]]
    /\ now = 1

----------------------------------------------------------------------------
\* Bug form used by the mutation runs: the vault credits what was not moved.
Deposit_noTransfer(caller, pool_id, amount) ==
    /\ VM!deposit(caller, pool_id, amount)
    /\ YE!on_deposit(vault_manager)
    /\ CDR!update_pool_metrics(yield_engine, pool_id, amount, TRUE, now)
    /\ UNCHANGED <<registryVars, token_balance, now>>

\* VaultManager.deposit -> token.transferFrom, YieldEngine.on_deposit ->
\* CDROracle.update_pool_metrics
Deposit(caller, pool_id, amount) ==
    /\ VM!deposit(caller, pool_id, amount)
    /\ Token!transferFrom(pool_tokens[pool_id], caller, vault_manager, amount)
    /\ YE!on_deposit(vault_manager)
    /\ CDR!update_pool_metrics(yield_engine, pool_id, amount, TRUE, now)
    /\ UNCHANGED <<registryVars, now>>

\* VaultManager.withdraw -> YieldEngine.on_withdrawal ->
\* CDROracle.update_pool_metrics, then token.transfer
Withdraw(caller, pool_id, amount) ==
    /\ VM!withdraw(caller, pool_id, amount)
    /\ YE!on_withdrawal(vault_manager)
    /\ CDR!update_pool_metrics(yield_engine, pool_id, amount, FALSE, now)
    /\ Token!transferFrom(pool_tokens[pool_id], vault_manager, caller, amount)
    /\ UNCHANGED <<registryVars, now>>

\* StrategyRegistry.add_pool -> VaultManager.add_pool
AddPool(caller, token, strategy, min_deposit, max_capacity) ==
    /\ SR!add_pool(caller, token, strategy, min_deposit, max_capacity)
    /\ VM!add_pool(strategy_registry, pool_count, token)
    /\ UNCHANGED <<engineVars, oracleVars, token_balance, now>>

UpdatePool(caller, pool_id, active, min_deposit, max_capacity) ==
    /\ SR!update_pool(caller, pool_id, active, min_deposit, max_capacity)
    /\ UNCHANGED <<vaultVars, engineVars, oracleVars, token_balance, now>>

\* YieldEngine.rebalance -> StrategyRegistry.execute_rebalance -> strategies
Rebalance(caller, new_weights) ==
    /\ YE!rebalance(caller, new_weights)
    /\ SR!execute_rebalance(yield_engine, new_weights)
    /\ UNCHANGED <<vaultVars, oracleVars, token_balance, now>>

UpdateVolatility(caller, pool_id, v) ==
    /\ CDR!update_volatility(caller, pool_id, v, now)
    /\ UNCHANGED <<vaultVars, engineVars, registryVars, token_balance, now>>

UpdateYieldRate(caller, pool_id, r) ==
    /\ CDR!update_yield_rate(caller, pool_id, r, now)
    /\ UNCHANGED <<vaultVars, engineVars, registryVars, token_balance, now>>

UpdateCorrelation(caller, pool_a, pool_b, c) ==
    /\ CDR!update_correlation(caller, pool_a, pool_b, c)
    /\ UNCHANGED <<vaultVars, engineVars, registryVars, token_balance, now>>

\* An account moves tokens itself, possibly straight to the vault contract.
TokenTransfer(t, from, to, amount) ==
    /\ Token!transferFrom(t, from, to, amount)
    /\ UNCHANGED <<vaultVars, engineVars, oracleVars, registryVars, now>>

NextBlock ==
    /\ now < MaxTime
    /\ now' = now + 1
    /\ UNCHANGED <<vaultVars, engineVars, oracleVars, registryVars, token_balance>>

Next ==
    \/ \E caller \in Accounts, p \in PoolIds, a \in Amounts :
          Deposit(caller, p, a) \/ Withdraw(caller, p, a)
    \/ \E caller \in Accounts, t \in Tokens, s \in Strategies, lo, hi \in Limits :
          AddPool(caller, t, s, lo, hi)
    \/ \E caller \in Accounts, p \in PoolIds, active \in BOOLEAN, lo, hi \in Limits :
          UpdatePool(caller, p, active, lo, hi)
    \/ \E caller \in Accounts, w \in WeightArrays : Rebalance(caller, w)
    \/ \E caller \in Accounts, p \in PoolIds, r \in Rates :
          UpdateVolatility(caller, p, r) \/ UpdateYieldRate(caller, p, r)
    \/ \E caller \in Accounts, p, q \in PoolIds, c \in Correlations :
          UpdateCorrelation(caller, p, q, c)
    \/ \E t \in Tokens, from \in Accounts, to \in Holders, a \in Amounts :
          TokenTransfer(t, from, to, a)
    \/ NextBlock

Spec == Init /\ [][Next]_vars

----------------------------------------------------------------------------
\* Type invariant of the composed storage (the Storage structs of the four
\* contracts); every timestamp kept is one that has passed.
TypeOK ==
    /\ VM!VaultTypeOK /\ YE!EngineTypeOK /\ CDR!OracleTypeOK /\ SR!RegistryTypeOK
    /\ token_balance \in [Tokens -> [Holders -> Nat]]
    /\ now \in Nat
    /\ \A p \in PoolIds : pool_metrics[p].last_update <= now

\* The vault's total_supply of a pool is the sum of its users' balances
\* (vault_manager.cairo deposit and withdraw keep the two apart).
SupplyIsSumOfBalances ==
    \A p \in PoolIds :
        total_supply[p] = SumFunction([u \in Accounts |-> balances[u][p]])

\* The oracle's tvl of a pool equals the vault's total_supply: the relay
\* VaultManager -> YieldEngine -> CDROracle loses and repeats nothing.
OracleTracksSupply ==
    \A p \in PoolIds : pool_metrics[p].tvl = total_supply[p]

\* The registry and the vault agree on every pool's token, exactly the ids
\* below pool_count are registered, and nothing was deposited elsewhere.
PoolTablesAgree ==
    \A p \in PoolIds :
        /\ pool_tokens[p] = pools[p].token
        /\ p < pool_count <=> pools[p].token # Zero
        /\ p >= pool_count => total_supply[p] = 0

Backed(t) == {p \in PoolIds : pool_tokens[p] = t}

\* Whatever share of its pools a token backs, the vault holds at least that
\* much of it: deposits move the tokens they credit.
Solvent ==
    \A t \in Tokens :
        token_balance[t][vault_manager] >= SumFunctionOnSet(total_supply, Backed(t))

\* Every holder can always withdraw the whole balance, also from a pool that
\* governance has deactivated: no assert and no checked subtraction on the
\* way (vault, engine, oracle, token) can stop it.
HolderCanExit ==
    \A u \in Accounts, p \in PoolIds :
        balances[u][p] > 0 => ENABLED Withdraw(u, p, balances[u][p])

\* Correlations stay symmetric and within 100% (update_correlation).
CorrelationsSymmetric ==
    \A p, q \in PoolIds :
        correlations[p][q] = correlations[q][p] /\ correlations[p][q] <= Full

\* A pool keeps the token it was created with, so a deposit is always paid
\* back in the token that was deposited.
PoolTokenFixed ==
    [][\A p \in PoolIds : pool_tokens[p] # Zero => pool_tokens'[p] = pool_tokens[p]]_vars

\* A user's balance in a pool falls only together with an equal payment of
\* the pool's token to that user out of the vault.
WithdrawalsPaid ==
    [][\A u \in Accounts, p \in PoolIds :
          balances'[u][p] < balances[u][p] =>
             LET t == pool_tokens[p] IN
             /\ t \in Tokens
             /\ token_balance'[t][u] = token_balance[t][u] + balances[u][p] - balances'[u][p]
             /\ token_balance'[t][vault_manager] + balances[u][p] - balances'[u][p]
                   = token_balance[t][vault_manager]]_vars

\* When a rebalance changes the weight of an active pool that does not share
\* its strategy, that strategy is told exactly the weight the engine stored.
StrategiesFollowWeights ==
    [][\A p \in PoolIds :
          /\ pool_weights'[p] # pool_weights[p]
          /\ pools[p].active
          /\ \A q \in PoolIds \ {p} : pools[q].strategy # pools[p].strategy
          => allocation'[pools[p].strategy] = pool_weights'[p]]_vars

=============================================================================
