----------------------- MODULE KanakaProtocolProofs ------------------------
(***************************************************************************)
(* Theorems about the composed vault contracts, for every deployment the   *)
(* assumptions of KanakaProtocol allow.                                    *)
(***************************************************************************)
EXTENDS KanakaProtocol, Sums

USE DEF PoolIds, vars, vaultVars, engineVars, oracleVars, registryVars

\* A rebalance array is made of u256 words, one per slot.
LEMMA WeightArrayWords ==
    ASSUME NEW w \in WeightArrays, NEW i \in Nat, i < Len(w)
    PROVE  w[i + 1] \in 0..MaxU256
  <1>1. PICK n \in 0..MaxPools : w \in [1..n -> Weights]
    BY DEF WeightArrays
  <1>2. n \in Nat /\ Len(w) = n
    BY <1>1, DeploymentAssumption
  <1>3. i + 1 \in 1..n
    BY <1>2
  <1>. QED
    BY <1>1, <1>3, DeploymentAssumption

\* Writing one slot of a two-level map keeps its type.
LEMMA NestedUpdate ==
    ASSUME NEW A, NEW B, NEW S, NEW f \in [A -> [B -> S]],
           NEW a \in A, NEW b \in B, NEW v \in S
    PROVE  [f EXCEPT ![a][b] = v] \in [A -> [B -> S]]
  OBVIOUS

\* A token transfer between two holders keeps the ledger's type.
LEMMA TransferType ==
    ASSUME token_balance \in [Tokens -> [Holders -> Nat]],
           NEW t \in Tokens, NEW from \in Holders, NEW to \in Holders, NEW a \in Nat,
           Token!transferFrom(t, from, to, a)
    PROVE  token_balance' \in [Tokens -> [Holders -> Nat]]
  <1>1. Token!Moved(token_balance[t], from, to, a) \in [Holders -> Nat]
    BY DEF Token!Moved, Token!transferFrom
  <1>. QED
    BY <1>1 DEF Token!transferFrom

\* The oracle's metrics keep their type when a deposit or a withdrawal is
\* reported, and the stamp written is the current block's.
LEMMA MetricsType ==
    ASSUME TypeOK, NEW p \in PoolIds, NEW a \in 0..MaxU256, NEW d \in BOOLEAN,
           CDR!update_pool_metrics(yield_engine, p, a, d, now), now' = now
    PROVE  CDR!OracleTypeOK' /\ \A q \in PoolIds : pool_metrics'[q].last_update <= now'
  <1>1. pool_metrics \in [PoolIds -> CDR!PoolMetrics] /\ now \in Nat
    BY DEF TypeOK, CDR!OracleTypeOK
  <1>2. PICK v \in 0..MaxU256 :
            pool_metrics' = [pool_metrics EXCEPT ![p].tvl = v, ![p].last_update = now]
    <2>1. pool_metrics[p].tvl \in 0..MaxU256
      BY <1>1 DEF CDR!PoolMetrics
    <2>2. CASE d
      <3>1. pool_metrics[p].tvl + a \in 0..MaxU256
        BY <2>1, <2>2, DeploymentAssumption DEF CDR!update_pool_metrics
      <3>. QED  BY <3>1, <2>2 DEF CDR!update_pool_metrics
    <2>3. CASE ~d
      <3>1. pool_metrics[p].tvl - a \in 0..MaxU256
        BY <2>1, <2>3, DeploymentAssumption DEF CDR!update_pool_metrics
      <3>. QED  BY <3>1, <2>3 DEF CDR!update_pool_metrics
    <2>. QED  BY <2>2, <2>3
  <1>3. pool_metrics' = [q \in PoolIds |-> IF q = p
            THEN [pool_metrics[p] EXCEPT !.tvl = v, !.last_update = now]
            ELSE pool_metrics[q]]
    BY <1>1, <1>2
  <1>4. pool_metrics' \in [PoolIds -> CDR!PoolMetrics]
    BY <1>1, <1>3 DEF CDR!PoolMetrics
  <1>5. \A q \in PoolIds : pool_metrics'[q].last_update <= now'
    BY <1>1, <1>3 DEF CDR!PoolMetrics, TypeOK
  <1>. QED
    BY <1>4, <1>5 DEF CDR!OracleTypeOK, TypeOK, CDR!update_pool_metrics

\* Deposits and withdrawals preserve the type invariant.
LEMMA FlowType ==
    ASSUME TypeOK, NEW caller \in Accounts, NEW p \in PoolIds, NEW a \in Amounts,
           Deposit(caller, p, a) \/ Withdraw(caller, p, a)
    PROVE  TypeOK'
  <1>1. pool_tokens[p] \in Tokens /\ a \in 0..MaxU256 /\ now' = now
    BY DeploymentAssumption DEF TypeOK, VM!VaultTypeOK, Deposit, VM!deposit, Withdraw, VM!withdraw
  <1>2. VM!VaultTypeOK'
    <2>1. balances[caller][p] \in 0..MaxU256 /\ total_supply[p] \in 0..MaxU256
      BY DEF TypeOK, VM!VaultTypeOK
    <2>2. CASE Deposit(caller, p, a)
      <3>1. balances[caller][p] + a \in 0..MaxU256 /\ total_supply[p] + a \in 0..MaxU256
        BY <1>1, <2>1, <2>2, DeploymentAssumption DEF Deposit, VM!deposit
      <3>. QED
        BY <2>2, <3>1, NestedUpdate DEF TypeOK, VM!VaultTypeOK, Deposit, VM!deposit
    <2>3. CASE Withdraw(caller, p, a)
      <3>1. balances[caller][p] - a \in 0..MaxU256 /\ total_supply[p] - a \in 0..MaxU256
        BY <1>1, <2>1, <2>3, DeploymentAssumption DEF Withdraw, VM!withdraw
      <3>. QED
        BY <2>3, <3>1, NestedUpdate DEF TypeOK, VM!VaultTypeOK, Withdraw, VM!withdraw
    <2>. QED  BY <2>2, <2>3
  <1>3. YE!EngineTypeOK' /\ SR!RegistryTypeOK'
    BY DEF TypeOK, YE!EngineTypeOK, SR!RegistryTypeOK, YE!engineVars,
           Deposit, YE!on_deposit, Withdraw, YE!on_withdrawal
  <1>4. CDR!OracleTypeOK' /\ \A q \in PoolIds : pool_metrics'[q].last_update <= now'
    BY <1>1, MetricsType DEF Deposit, Withdraw
  <1>5. token_balance' \in [Tokens -> [Holders -> Nat]]
    <2>1. caller \in Holders /\ vault_manager \in Holders /\ a \in Nat
      BY <1>1, DeploymentAssumption DEF Holders
    <2>2. CASE Deposit(caller, p, a)
      <3>1. Token!transferFrom(pool_tokens[p], caller, vault_manager, a)
        BY <2>2 DEF Deposit
      <3>. QED  BY <1>1, <2>1, <3>1, TransferType DEF TypeOK
    <2>3. CASE Withdraw(caller, p, a)
      <3>1. Token!transferFrom(pool_tokens[p], vault_manager, caller, a)
        BY <2>3 DEF Withdraw
      <3>. QED  BY <1>1, <2>1, <3>1, TransferType DEF TypeOK
    <2>. QED  BY <2>2, <2>3
  <1>. QED
    BY <1>1, <1>2, <1>3, <1>4, <1>5 DEF TypeOK

\* The pool table keeps its type when governance adds or updates a pool.
LEMMA PoolTableType ==
    ASSUME TypeOK, NEW caller \in Accounts
    PROVE  /\ \A t \in Tokens, s \in Strategies, lo, hi \in Limits :
                 AddPool(caller, t, s, lo, hi) => TypeOK'
           /\ \A p \in PoolIds, active \in BOOLEAN, lo, hi \in Limits :
                 UpdatePool(caller, p, active, lo, hi) => TypeOK'
  <1>1. ASSUME NEW t \in Tokens, NEW s \in Strategies, NEW lo \in Limits, NEW hi \in Limits,
               AddPool(caller, t, s, lo, hi)
        PROVE  TypeOK'
    <2>1. SR!RegistryTypeOK'
      BY <1>1, DeploymentAssumption DEF TypeOK, SR!RegistryTypeOK, SR!Pool, AddPool, SR!add_pool
    <2>2. VM!VaultTypeOK'
      BY <1>1 DEF TypeOK, VM!VaultTypeOK, AddPool, VM!add_pool
    <2>. QED
      BY <1>1, <2>1, <2>2 DEF TypeOK, AddPool, YE!EngineTypeOK, CDR!OracleTypeOK
  <1>2. ASSUME NEW p \in PoolIds, NEW active \in BOOLEAN, NEW lo \in Limits, NEW hi \in Limits,
               UpdatePool(caller, p, active, lo, hi)
        PROVE  TypeOK'
    <2>1. pools \in [PoolIds -> SR!Pool] /\ lo \in 0..MaxU256 /\ hi \in 0..MaxU256
      BY DeploymentAssumption DEF TypeOK, SR!RegistryTypeOK
    <2>2. pools' = [q \in PoolIds |-> IF q = p
             THEN [pools[p] EXCEPT !.active = active, !.min_deposit = lo, !.max_capacity = hi]
             ELSE pools[q]]
      BY <1>2, <2>1 DEF UpdatePool, SR!update_pool
    <2>3. pools' \in [PoolIds -> SR!Pool]
      BY <2>1, <2>2 DEF SR!Pool
    <2>. QED
      BY <1>2, <2>3 DEF TypeOK, UpdatePool, SR!update_pool, SR!RegistryTypeOK,
                        VM!VaultTypeOK, YE!EngineTypeOK, CDR!OracleTypeOK
  <1>. QED  BY <1>1, <1>2

\* A rebalance leaves u256 words in the engine and in every strategy.
LEMMA RebalanceType ==
    ASSUME TypeOK, NEW caller \in Accounts, NEW w \in WeightArrays, Rebalance(caller, w)
    PROVE  TypeOK'
  <1>1. YE!EngineTypeOK'
    <2>1. total_weights' \in 0..MaxU256
      BY DeploymentAssumption DEF Rebalance, YE!rebalance
    <2>2. pool_weights' \in [PoolIds -> 0..MaxU256]
      BY WeightArrayWords, DeploymentAssumption DEF Rebalance, YE!rebalance, TypeOK, YE!EngineTypeOK
    <2>. QED  BY <2>1, <2>2 DEF YE!EngineTypeOK
  <1>2. allocation' \in [Strategies -> 0..MaxU256]
    <2>1. ASSUME NEW s \in Strategies, SR!LastTarget(s, w) # {}
          PROVE  w[(CHOOSE p \in SR!LastTarget(s, w) : TRUE) + 1] \in 0..MaxU256
      <3>1. PICK p : p = CHOOSE q \in SR!LastTarget(s, w) : TRUE
        OBVIOUS
      <3>2. p \in SR!LastTarget(s, w)
        BY <2>1, <3>1
      <3>3. p \in Nat /\ p < Len(w)
        BY <3>2, DeploymentAssumption DEF SR!LastTarget, SR!Targets
      <3>. QED  BY <3>1, <3>3, WeightArrayWords
    <2>. QED  BY <2>1 DEF Rebalance, SR!execute_rebalance, TypeOK, SR!RegistryTypeOK
  <1>. QED
    BY <1>1, <1>2 DEF TypeOK, Rebalance, SR!execute_rebalance, SR!RegistryTypeOK,
                      VM!VaultTypeOK, CDR!OracleTypeOK

\* Governance's writes to the oracle keep the type invariant.
LEMMA OracleParameterType ==
    ASSUME TypeOK, NEW caller \in Accounts
    PROVE  /\ \A p \in PoolIds, r \in Rates :
                 UpdateVolatility(caller, p, r) \/ UpdateYieldRate(caller, p, r) => TypeOK'
           /\ \A p, q \in PoolIds, c \in Correlations :
                 UpdateCorrelation(caller, p, q, c) => TypeOK'
  <1>1. pool_metrics \in [PoolIds -> CDR!PoolMetrics] /\ now \in Nat
    BY DEF TypeOK, CDR!OracleTypeOK
  <1>2. ASSUME NEW p \in PoolIds, NEW r \in Rates,
               UpdateVolatility(caller, p, r) \/ UpdateYieldRate(caller, p, r)
        PROVE  TypeOK'
    <2>1. r \in 0..MaxU256
      BY DeploymentAssumption
    <2>2. PICK m \in CDR!PoolMetrics :
             /\ m.last_update = now
             /\ pool_metrics' = [q \in PoolIds |-> IF q = p THEN m ELSE pool_metrics[q]]
      <3>1. CASE UpdateVolatility(caller, p, r)
        <4>1. [pool_metrics[p] EXCEPT !.volatility = r, !.last_update = now] \in CDR!PoolMetrics
          BY <1>1, <2>1 DEF CDR!PoolMetrics
        <4>2. [pool_metrics[p] EXCEPT !.volatility = r, !.last_update = now].last_update = now
          BY <1>1 DEF CDR!PoolMetrics
        <4>. QED
          BY <1>1, <3>1, <4>1, <4>2 DEF UpdateVolatility, CDR!update_volatility
      <3>2. CASE UpdateYieldRate(caller, p, r)
        <4>1. [pool_metrics[p] EXCEPT !.yield_rate = r, !.last_update = now] \in CDR!PoolMetrics
          BY <1>1, <2>1 DEF CDR!PoolMetrics
        <4>2. [pool_metrics[p] EXCEPT !.yield_rate = r, !.last_update = now].last_update = now
          BY <1>1 DEF CDR!PoolMetrics
        <4>. QED
          BY <1>1, <3>2, <4>1, <4>2 DEF UpdateYieldRate, CDR!update_yield_rate
      <3>. QED  BY <1>2, <3>1, <3>2
    <2>3. pool_metrics' \in [PoolIds -> CDR!PoolMetrics]
      BY <1>1, <2>2
    <2>4. \A q \in PoolIds : pool_metrics'[q].last_update <= now'
      BY <1>1, <1>2, <2>2 DEF TypeOK, UpdateVolatility, UpdateYieldRate
    <2>. QED
      BY <1>2, <2>3, <2>4
      DEF TypeOK, UpdateVolatility, CDR!update_volatility, UpdateYieldRate,
          CDR!update_yield_rate, CDR!OracleTypeOK, VM!VaultTypeOK, YE!EngineTypeOK,
          SR!RegistryTypeOK
  <1>3. ASSUME NEW p \in PoolIds, NEW q \in PoolIds, NEW c \in Correlations,
               UpdateCorrelation(caller, p, q, c)
        PROVE  TypeOK'
    <2>1. c \in 0..MaxU256
      BY DeploymentAssumption
    <2>2. correlations' \in [PoolIds -> [PoolIds -> 0..MaxU256]]
      <3> DEFINE half == [correlations EXCEPT ![p][q] = c]
      <3>1. half \in [PoolIds -> [PoolIds -> 0..MaxU256]]
        BY <2>1 DEF TypeOK, CDR!OracleTypeOK
      <3>2. correlations' = [half EXCEPT ![q][p] = c]
        BY <1>3 DEF UpdateCorrelation, CDR!update_correlation
      <3> HIDE DEF half
      <3>. QED  BY <2>1, <3>1, <3>2, NestedUpdate
    <2>. QED
      BY <1>3, <2>2
      DEF TypeOK, UpdateCorrelation, CDR!update_correlation, CDR!OracleTypeOK,
          VM!VaultTypeOK, YE!EngineTypeOK, SR!RegistryTypeOK
  <1>. QED  BY <1>2, <1>3

\* Every reachable storage of the four contracts is well typed.
THEOREM TypeCorrect == Spec => []TypeOK
  <1>1. Init => TypeOK
    <2> SUFFICES ASSUME Init PROVE TypeOK
      OBVIOUS
    <2>1. VM!VaultTypeOK /\ YE!EngineTypeOK
      BY DeploymentAssumption DEF Init, VM!VaultInit, VM!VaultTypeOK, YE!EngineInit, YE!EngineTypeOK
    <2>2. CDR!OracleTypeOK /\ \A p \in PoolIds : pool_metrics[p].last_update <= now
      BY DeploymentAssumption DEF Init, CDR!OracleInit, CDR!OracleTypeOK, CDR!PoolMetrics
    <2>3. SR!RegistryTypeOK
      BY DeploymentAssumption
      DEF Init, SR!RegistryInit, SR!RegistryTypeOK, SR!Pool, SR!NoPool
    <2>. QED
      BY <2>1, <2>2, <2>3, DeploymentAssumption DEF Init, TypeOK
  <1>2. TypeOK /\ [Next]_vars => TypeOK'
    <2> SUFFICES ASSUME TypeOK, [Next]_vars PROVE TypeOK'
      OBVIOUS
    <2>1. CASE NextBlock
      <3>1. \A p \in PoolIds : pool_metrics[p].last_update \in Nat
        BY DEF TypeOK, CDR!OracleTypeOK, CDR!PoolMetrics
      <3>. QED
        BY <2>1, <3>1
        DEF TypeOK, NextBlock, VM!VaultTypeOK, YE!EngineTypeOK, CDR!OracleTypeOK, SR!RegistryTypeOK
    <2>2. ASSUME NEW t \in Tokens, NEW from \in Accounts, NEW to \in Holders, NEW a \in Amounts,
                 TokenTransfer(t, from, to, a)
          PROVE  TypeOK'
      <3>1. from \in Holders /\ a \in Nat
        BY DeploymentAssumption DEF Holders
      <3>2. token_balance' \in [Tokens -> [Holders -> Nat]]
        BY <2>2, <3>1, TransferType DEF TypeOK, TokenTransfer
      <3>. QED
        BY <2>2, <3>2 DEF TypeOK, TokenTransfer, VM!VaultTypeOK, YE!EngineTypeOK,
                          CDR!OracleTypeOK, SR!RegistryTypeOK
    <2>3. CASE UNCHANGED vars
      BY <2>3 DEF TypeOK, VM!VaultTypeOK, YE!EngineTypeOK, CDR!OracleTypeOK, SR!RegistryTypeOK
    <2>. QED
      BY <2>1, <2>2, <2>3, FlowType, PoolTableType, RebalanceType, OracleParameterType DEF Next
  <1>. QED  BY <1>1, <1>2, PTL DEF Spec

\* The relay from the vault through the engine to the oracle is exact: the tvl
\* the oracle reports is the vault's total_supply, in every reachable state.
THEOREM OracleExact == Spec => []OracleTracksSupply
  <1>1. Init => OracleTracksSupply
    BY DEF Init, VM!VaultInit, CDR!OracleInit, OracleTracksSupply
  <1>2. TypeOK /\ OracleTracksSupply /\ [Next]_vars => OracleTracksSupply'
    <2> SUFFICES ASSUME TypeOK, OracleTracksSupply, [Next]_vars PROVE OracleTracksSupply'
      OBVIOUS
    <2>0. /\ pool_metrics \in [PoolIds -> CDR!PoolMetrics]
          /\ total_supply \in [PoolIds -> 0..MaxU256]
      BY DEF TypeOK, CDR!OracleTypeOK, VM!VaultTypeOK
    <2> USE DEF OracleTracksSupply, CDR!PoolMetrics
    <2>1. ASSUME NEW u \in Accounts, NEW p \in PoolIds, NEW a \in Amounts, Deposit(u, p, a)
          PROVE  OracleTracksSupply'
      <3>1. \A q \in PoolIds : total_supply'[q] = IF q = p THEN total_supply[q] + a ELSE total_supply[q]
        BY <2>0, <2>1 DEF Deposit, VM!deposit
      <3>2. \A q \in PoolIds : pool_metrics'[q].tvl =
                IF q = p THEN pool_metrics[q].tvl + a ELSE pool_metrics[q].tvl
        <4>1. pool_metrics' = [q \in PoolIds |-> IF q = p
                 THEN [pool_metrics[p] EXCEPT !.tvl = pool_metrics[p].tvl + a, !.last_update = now]
                 ELSE pool_metrics[q]]
          BY <2>0, <2>1 DEF Deposit, CDR!update_pool_metrics
        <4>. QED  BY <2>0, <4>1
      <3>. QED  BY <3>1, <3>2
    <2>2. ASSUME NEW u \in Accounts, NEW p \in PoolIds, NEW a \in Amounts, Withdraw(u, p, a)
          PROVE  OracleTracksSupply'
      <3>1. \A q \in PoolIds : total_supply'[q] = IF q = p THEN total_supply[q] - a ELSE total_supply[q]
        BY <2>0, <2>2 DEF Withdraw, VM!withdraw
      <3>2. \A q \in PoolIds : pool_metrics'[q].tvl =
                IF q = p THEN pool_metrics[q].tvl - a ELSE pool_metrics[q].tvl
        <4>1. pool_metrics' = [q \in PoolIds |-> IF q = p
                 THEN [pool_metrics[p] EXCEPT !.tvl = pool_metrics[p].tvl - a, !.last_update = now]
                 ELSE pool_metrics[q]]
          BY <2>0, <2>2 DEF Withdraw, CDR!update_pool_metrics
        <4>. QED  BY <2>0, <4>1
      <3>. QED  BY <3>1, <3>2
    <2>3. ASSUME NEW u \in Accounts, NEW p \in PoolIds, NEW r \in Rates,
                 UpdateVolatility(u, p, r) \/ UpdateYieldRate(u, p, r)
          PROVE  OracleTracksSupply'
      BY <2>0, <2>3 DEF UpdateVolatility, CDR!update_volatility, UpdateYieldRate, CDR!update_yield_rate
    <2>4. CASE UNCHANGED <<total_supply, pool_metrics>>
      BY <2>4
    <2>. QED
      BY <2>1, <2>2, <2>3, <2>4
      DEF Next, AddPool, VM!add_pool, UpdatePool, Rebalance, UpdateCorrelation,
          CDR!update_correlation, TokenTransfer, NextBlock
  <1>. QED  BY <1>1, <1>2, TypeCorrect, PTL DEF Spec

\* The registry and the vault never disagree about a pool's token; the ids in
\* use are those below pool_count; only those hold deposits.
THEOREM PoolTablesInStep == Spec => []PoolTablesAgree
  <1>1. Init => PoolTablesAgree
    BY DeploymentAssumption
    DEF Init, VM!VaultInit, SR!RegistryInit, SR!NoPool, PoolTablesAgree
  <1>2. TypeOK /\ PoolTablesAgree /\ [Next]_vars => PoolTablesAgree'
    <2> SUFFICES ASSUME TypeOK, PoolTablesAgree, [Next]_vars PROVE PoolTablesAgree'
      OBVIOUS
    <2>0. /\ pools \in [PoolIds -> SR!Pool] /\ pool_count \in Nat
          /\ total_supply \in [PoolIds -> 0..MaxU256]
          /\ pool_tokens \in [PoolIds -> Tokens \cup {Zero}]
      BY DEF TypeOK, SR!RegistryTypeOK, VM!VaultTypeOK
    <2> USE DEF PoolTablesAgree, SR!Pool
    <2>1. ASSUME NEW u \in Accounts, NEW p \in PoolIds, NEW a \in Amounts, Deposit(u, p, a)
          PROVE  PoolTablesAgree'
      BY <2>0, <2>1 DEF Deposit, VM!deposit
    <2>2. ASSUME NEW u \in Accounts, NEW p \in PoolIds, NEW a \in Amounts, Withdraw(u, p, a)
          PROVE  PoolTablesAgree'
      BY <2>0, <2>2 DEF Withdraw, VM!withdraw
    <2>3. ASSUME NEW u \in Accounts, NEW t \in Tokens, NEW s \in Strategies,
                 NEW lo \in Limits, NEW hi \in Limits, AddPool(u, t, s, lo, hi)
          PROVE  PoolTablesAgree'
      BY <2>0, <2>3, DeploymentAssumption DEF AddPool, SR!add_pool, VM!add_pool
    <2>4. ASSUME NEW u \in Accounts, NEW p \in PoolIds, NEW active \in BOOLEAN,
                 NEW lo \in Limits, NEW hi \in Limits, UpdatePool(u, p, active, lo, hi)
          PROVE  PoolTablesAgree'
      <3>1. \A q \in PoolIds : pools'[q].token = pools[q].token
        BY <2>0, <2>4 DEF UpdatePool, SR!update_pool
      <3>. QED
        BY <2>4, <3>1 DEF UpdatePool, SR!update_pool
    <2>5. CASE UNCHANGED <<pool_tokens, total_supply, pools, pool_count>>
      BY <2>5
    <2>. QED
      BY <2>1, <2>2, <2>3, <2>4, <2>5
      DEF Next, Rebalance, SR!execute_rebalance, UpdateVolatility, UpdateYieldRate,
          UpdateCorrelation, TokenTransfer, NextBlock
  <1>. QED  BY <1>1, <1>2, TypeCorrect, PTL DEF Spec

\* A pool never changes its token: deposits are paid back in what was deposited.
THEOREM PoolTokenNeverChanges == Spec => PoolTokenFixed
  <1>1. TypeOK /\ PoolTablesAgree /\ [Next]_vars =>
           [\A p \in PoolIds : pool_tokens[p] # Zero => pool_tokens'[p] = pool_tokens[p]]_vars
    <2> SUFFICES ASSUME TypeOK, PoolTablesAgree, Next, NEW p \in PoolIds, pool_tokens[p] # Zero
                 PROVE  pool_tokens'[p] = pool_tokens[p]
      OBVIOUS
    <2>0. pool_tokens \in [PoolIds -> Tokens \cup {Zero}] /\ pool_count \in Nat
      BY DEF TypeOK, VM!VaultTypeOK, SR!RegistryTypeOK
    <2>1. ASSUME NEW u \in Accounts, NEW t \in Tokens, NEW s \in Strategies,
                 NEW lo \in Limits, NEW hi \in Limits, AddPool(u, t, s, lo, hi)
          PROVE  pool_tokens'[p] = pool_tokens[p]
      <3>1. p # pool_count
        BY <2>0 DEF PoolTablesAgree
      <3>. QED  BY <2>0, <2>1, <3>1 DEF AddPool, VM!add_pool
    <2>2. CASE UNCHANGED pool_tokens
      BY <2>2
    <2>. QED
      BY <2>1, <2>2
      DEF Next, Deposit, VM!deposit, Withdraw, VM!withdraw, UpdatePool, Rebalance,
          UpdateVolatility, UpdateYieldRate, UpdateCorrelation, TokenTransfer, NextBlock
  <1>. QED  BY <1>1, TypeCorrect, PoolTablesInStep, PTL DEF Spec, PoolTokenFixed

\* A balance only falls when its owner is paid the same amount by the vault.
THEOREM BalanceFallsOnlyWhenPaid == Spec => WithdrawalsPaid
  <1> DEFINE Paid(u, p) ==
         LET t == pool_tokens[p] IN
         /\ t \in Tokens
         /\ token_balance'[t][u] = token_balance[t][u] + balances[u][p] - balances'[u][p]
         /\ token_balance'[t][vault_manager] + balances[u][p] - balances'[u][p]
               = token_balance[t][vault_manager]
  <1>1. TypeOK /\ [Next]_vars =>
           [\A u \in Accounts, p \in PoolIds : balances'[u][p] < balances[u][p] => Paid(u, p)]_vars
    <2> SUFFICES ASSUME TypeOK, Next, NEW u \in Accounts, NEW p \in PoolIds,
                        balances'[u][p] < balances[u][p]
                 PROVE  Paid(u, p)
      OBVIOUS
    <2>0. /\ balances \in [Accounts -> [PoolIds -> 0..MaxU256]]
          /\ pool_tokens \in [PoolIds -> Tokens \cup {Zero}]
          /\ token_balance \in [Tokens -> [Holders -> Nat]]
          /\ vault_manager \in Holders /\ u \in Holders /\ u # vault_manager
      BY DeploymentAssumption DEF TypeOK, VM!VaultTypeOK, Holders, Contracts
    <2>1. ASSUME NEW c \in Accounts, NEW q \in PoolIds, NEW a \in Amounts, Deposit(c, q, a)
          PROVE  FALSE
      <3>1. a \in 0..MaxU256 /\ balances[u][p] \in 0..MaxU256 /\ balances[c][q] \in 0..MaxU256
        BY <2>0, DeploymentAssumption
      <3>2. balances'[u][p] = IF c = u /\ p = q THEN balances[u][p] + a ELSE balances[u][p]
        BY <2>0, <2>1 DEF Deposit, VM!deposit
      <3>. QED  BY <3>1, <3>2, DeploymentAssumption
    <2>2. ASSUME NEW c \in Accounts, NEW q \in PoolIds, NEW a \in Amounts, Withdraw(c, q, a)
          PROVE  Paid(u, p)
      <3>1. a \in 0..MaxU256 /\ balances[u][p] \in 0..MaxU256
        BY <2>0, DeploymentAssumption
      <3>2. balances'[u][p] = IF c = u /\ p = q THEN balances[u][p] - a ELSE balances[u][p]
        BY <2>0, <2>2 DEF Withdraw, VM!withdraw
      <3>3. c = u /\ p = q /\ balances'[u][p] = balances[u][p] - a
        BY <3>1, <3>2, DeploymentAssumption
      <3>4. pool_tokens[p] \in Tokens
        BY <2>0, <2>2, <3>3 DEF Withdraw, VM!withdraw
      <3>5. token_balance' = [token_balance EXCEPT ![pool_tokens[p]] =
                                 Token!Moved(token_balance[pool_tokens[p]], vault_manager, u, a)]
        BY <2>2, <3>3 DEF Withdraw, Token!transferFrom
      <3>6. /\ token_balance'[pool_tokens[p]][u] = token_balance[pool_tokens[p]][u] + a
            /\ token_balance'[pool_tokens[p]][vault_manager]
                  = token_balance[pool_tokens[p]][vault_manager] - a
        BY <2>0, <3>1, <3>4, <3>5, DeploymentAssumption DEF Token!Moved
      <3>7. token_balance[pool_tokens[p]][u] \in Nat /\ token_balance[pool_tokens[p]][vault_manager] \in Nat
        BY <2>0, <3>4
      <3>. QED  BY <3>1, <3>3, <3>4, <3>6, <3>7, DeploymentAssumption
    <2>3. balances' # balances
      <3>1. balances[u][p] \in Int
        BY <2>0, DeploymentAssumption
      <3>. QED  BY <3>1
    <2>. QED
      BY <2>1, <2>2, <2>3
      DEF Next, AddPool, VM!add_pool, UpdatePool, Rebalance,
          UpdateVolatility, UpdateYieldRate, UpdateCorrelation, TokenTransfer, NextBlock
  <1>. QED  BY <1>1, TypeCorrect, PTL DEF Spec, WithdrawalsPaid

\* Whatever governance writes, in whatever order, the two directions of a
\* correlation stay equal and within 100%.
THEOREM CorrelationsStaySymmetric == Spec => []CorrelationsSymmetric
  <1>1. Init => CorrelationsSymmetric
    BY DeploymentAssumption DEF Init, CDR!OracleInit, CorrelationsSymmetric
  <1>2. TypeOK /\ CorrelationsSymmetric /\ [Next]_vars => CorrelationsSymmetric'
    <2> SUFFICES ASSUME TypeOK, CorrelationsSymmetric, [Next]_vars PROVE CorrelationsSymmetric'
      OBVIOUS
    <2>0. correlations \in [PoolIds -> [PoolIds -> 0..MaxU256]]
      BY DEF TypeOK, CDR!OracleTypeOK
    <2>1. ASSUME NEW u \in Accounts, NEW a \in PoolIds, NEW b \in PoolIds, NEW c \in Correlations,
                 UpdateCorrelation(u, a, b, c)
          PROVE  CorrelationsSymmetric'
      <3>1. c <= Full /\ correlations' = [correlations EXCEPT ![a][b] = c, ![b][a] = c]
        BY <2>1 DEF UpdateCorrelation, CDR!update_correlation
      <3>2. \A p, q \in PoolIds : correlations'[p][q] =
               IF (p = a /\ q = b) \/ (p = b /\ q = a) THEN c ELSE correlations[p][q]
        BY <2>0, <3>1
      <3> HIDE DEF PoolIds
      <3>3. ASSUME NEW p \in PoolIds, NEW q \in PoolIds
            PROVE  correlations'[p][q] = correlations'[q][p] /\ correlations'[p][q] <= Full
        <4>1. correlations[p][q] = correlations[q][p] /\ correlations[p][q] <= Full
          BY DEF CorrelationsSymmetric
        <4>2. CASE (p = a /\ q = b) \/ (p = b /\ q = a)
          <5>1. correlations'[p][q] = c /\ correlations'[q][p] = c
            BY <3>2, <4>2
          <5>. QED  BY <3>1, <5>1
        <4>3. CASE ~((p = a /\ q = b) \/ (p = b /\ q = a))
          <5>1. correlations'[p][q] = correlations[p][q] /\ correlations'[q][p] = correlations[q][p]
            BY <3>2, <4>3
          <5>. QED  BY <4>1, <5>1
        <4>. QED  BY <4>2, <4>3
      <3>. QED  BY <3>3 DEF CorrelationsSymmetric
    <2>2. CASE UNCHANGED correlations
      BY <2>2 DEF CorrelationsSymmetric
    <2>3. ASSUME NEW u \in Accounts, NEW p \in PoolIds, NEW x \in Amounts \cup Rates,
                 \/ Deposit(u, p, x) \/ Withdraw(u, p, x)
                 \/ UpdateVolatility(u, p, x) \/ UpdateYieldRate(u, p, x)
          PROVE  UNCHANGED correlations
      BY <2>3 DEF Deposit, Withdraw, CDR!update_pool_metrics, UpdateVolatility,
             CDR!update_volatility, UpdateYieldRate, CDR!update_yield_rate
    <2>. QED
      BY <2>1, <2>2, <2>3 DEF Next, AddPool, UpdatePool, Rebalance, TokenTransfer, NextBlock
  <1>. QED  BY <1>1, <1>2, TypeCorrect, PTL DEF Spec
\* A pool that was registered has a strategy, and only such a pool is active.
ActivePoolsHaveStrategies ==
    \A p \in PoolIds :
        /\ pools[p].token # Zero => pools[p].strategy \in Strategies
        /\ pools[p].active => pools[p].token # Zero

LEMMA StrategiesOfActivePools == Spec => []ActivePoolsHaveStrategies
  <1>1. Init => ActivePoolsHaveStrategies
    BY DEF Init, SR!RegistryInit, SR!NoPool, ActivePoolsHaveStrategies
  <1>2. TypeOK /\ ActivePoolsHaveStrategies /\ [Next]_vars => ActivePoolsHaveStrategies'
    <2> SUFFICES ASSUME TypeOK, ActivePoolsHaveStrategies, [Next]_vars
                 PROVE  ActivePoolsHaveStrategies'
      OBVIOUS
    <2>0. pools \in [PoolIds -> SR!Pool]
      BY DEF TypeOK, SR!RegistryTypeOK
    <2>1. ASSUME NEW u \in Accounts, NEW t \in Tokens, NEW s \in Strategies,
                 NEW lo \in Limits, NEW hi \in Limits, AddPool(u, t, s, lo, hi)
          PROVE  ActivePoolsHaveStrategies'
      BY <2>0, <2>1 DEF AddPool, SR!add_pool, ActivePoolsHaveStrategies
    <2>2. ASSUME NEW u \in Accounts, NEW p \in PoolIds, NEW active \in BOOLEAN,
                 NEW lo \in Limits, NEW hi \in Limits, UpdatePool(u, p, active, lo, hi)
          PROVE  ActivePoolsHaveStrategies'
      <3>1. pools' = [q \in PoolIds |-> IF q = p
               THEN [pools[p] EXCEPT !.active = active, !.min_deposit = lo, !.max_capacity = hi]
               ELSE pools[q]]
        BY <2>0, <2>2 DEF UpdatePool, SR!update_pool
      <3>2. pools[p].token # Zero
        BY <2>2 DEF UpdatePool, SR!update_pool
      <3>. QED  BY <2>0, <3>1, <3>2 DEF ActivePoolsHaveStrategies, SR!Pool
    <2>3. CASE UNCHANGED pools
      BY <2>3 DEF ActivePoolsHaveStrategies
    <2>. QED
      BY <2>1, <2>2, <2>3
      DEF Next, Deposit, Withdraw, Rebalance, SR!execute_rebalance, UpdateVolatility,
          UpdateYieldRate, UpdateCorrelation, TokenTransfer, NextBlock
  <1>. QED  BY <1>1, <1>2, TypeCorrect, PTL DEF Spec

\* A strategy that no other pool shares is told the weight the engine stored.
THEOREM StrategiesAreTold == Spec => StrategiesFollowWeights
  <1> DEFINE Told(p) ==
         /\ pool_weights'[p] # pool_weights[p]
         /\ pools[p].active
         /\ \A q \in PoolIds \ {p} : pools[q].strategy # pools[p].strategy
         => allocation'[pools[p].strategy] = pool_weights'[p]
  <1>1. TypeOK /\ ActivePoolsHaveStrategies /\ [Next]_vars => [\A p \in PoolIds : Told(p)]_vars
    <2> SUFFICES ASSUME TypeOK, ActivePoolsHaveStrategies, Next, NEW p \in PoolIds,
                        pool_weights'[p] # pool_weights[p], pools[p].active,
                        \A q \in PoolIds \ {p} : pools[q].strategy # pools[p].strategy
                 PROVE  allocation'[pools[p].strategy] = pool_weights'[p]
      OBVIOUS
    <2>1. ASSUME NEW u \in Accounts, NEW w \in WeightArrays, Rebalance(u, w)
          PROVE  allocation'[pools[p].strategy] = pool_weights'[p]
      <3> DEFINE s == pools[p].strategy
      <3>1. s \in Strategies
        BY DEF ActivePoolsHaveStrategies
      <3>2. p < Len(w) /\ pool_weights'[p] = w[p + 1]
        BY <2>1 DEF Rebalance, YE!rebalance, TypeOK, YE!EngineTypeOK
      <3>3. SR!Targets(s, w) = {p}
        BY <3>2 DEF SR!Targets
      <3>4. SR!LastTarget(s, w) = {p}
        BY <3>3 DEF SR!LastTarget
      <3>5. allocation'[s] = w[(CHOOSE q \in {p} : TRUE) + 1]
        BY <2>1, <3>1, <3>4 DEF Rebalance, SR!execute_rebalance
      <3>. QED  BY <3>2, <3>5
    <2>2. pool_weights' # pool_weights
      OBVIOUS
    <2>. QED
      BY <2>1, <2>2
      DEF Next, Deposit, Withdraw, YE!on_deposit, YE!on_withdrawal, YE!engineVars, AddPool,
          UpdatePool, UpdateVolatility, UpdateYieldRate, UpdateCorrelation, TokenTransfer,
          NextBlock
  <1>. QED  BY <1>1, TypeCorrect, StrategiesOfActivePools, PTL DEF Spec, StrategiesFollowWeights

-----------------------------------------------------------------------------
\* What every account has in a pool, as a function of the account.
Shares(p) == [u \in Accounts |-> balances[u][p]]

\* The sum over the accounts moves with the one balance a step changes.
LEMMA SharesChange ==
    ASSUME TypeOK, TypeOK', NEW c \in Accounts, NEW p \in PoolIds,
           \A u \in Accounts \ {c} : balances'[u][p] = balances[u][p]
    PROVE  SumFunction(Shares(p))' = SumFunction(Shares(p)) + balances'[c][p] - balances[c][p]
  <1>1. \A u \in Accounts : Shares(p)[u] \in Int /\ Shares(p)'[u] \in Int
    BY DeploymentAssumption DEF Shares, TypeOK, VM!VaultTypeOK
  <1>2. \A u \in Accounts \ {c} : Shares(p)[u] = Shares(p)'[u]
    BY DEF Shares
  <1>3. SumFunctionOnSet(Shares(p)', Accounts)
          = SumFunctionOnSet(Shares(p), Accounts) + Shares(p)'[c] - Shares(p)[c]
    BY <1>1, <1>2, SumChange, DeploymentAssumption
  <1>. QED
    BY <1>3 DEF Shares, SumFunction

\* A pool's total_supply is the sum of the balances of its users, in every
\* reachable state and for any number of accounts.
THEOREM SupplyIsWhatUsersHold == Spec => []SupplyIsSumOfBalances
  <1> USE DEF SupplyIsSumOfBalances
  <1>1. Init => SupplyIsSumOfBalances
    <2> SUFFICES ASSUME Init, NEW p \in PoolIds PROVE total_supply[p] = SumFunction(Shares(p))
      BY DEF Shares
    <2>1. \A u \in Accounts : Shares(p)[u] = 0
      BY DEF Init, VM!VaultInit, Shares
    <2>2. SumFunctionOnSet(Shares(p), Accounts) = 0
      BY <2>1, SumZero, DeploymentAssumption
    <2>. QED
      BY <2>2 DEF Init, VM!VaultInit, SumFunction, Shares
  <1>2. TypeOK /\ TypeOK' /\ SupplyIsSumOfBalances /\ [Next]_vars => SupplyIsSumOfBalances'
    <2> SUFFICES ASSUME TypeOK, TypeOK', SupplyIsSumOfBalances, [Next]_vars, NEW q \in PoolIds
                 PROVE  total_supply'[q] = SumFunction(Shares(q))'
      BY DEF Shares
    <2>0. /\ balances \in [Accounts -> [PoolIds -> 0..MaxU256]]
          /\ total_supply \in [PoolIds -> 0..MaxU256]
          /\ total_supply[q] = SumFunction(Shares(q))
      BY DEF TypeOK, VM!VaultTypeOK, Shares
    <2>1. ASSUME NEW c \in Accounts, NEW p \in PoolIds, NEW a \in Amounts,
                 Deposit(c, p, a) \/ Withdraw(c, p, a)
          PROVE  total_supply'[q] = SumFunction(Shares(q))'
      <3>1. a \in Int /\ balances[c][q] \in Int /\ total_supply[q] \in Int
        BY <2>0, DeploymentAssumption
      <3>2. \A u \in Accounts \ {c} : balances'[u][q] = balances[u][q]
        BY <2>0, <2>1 DEF Deposit, VM!deposit, Withdraw, VM!withdraw
      <3>3. SumFunction(Shares(q))' = SumFunction(Shares(q)) + balances'[c][q] - balances[c][q]
        BY <3>2, SharesChange
      <3>4. total_supply'[q] - total_supply[q] = balances'[c][q] - balances[c][q]
        <4>1. CASE Deposit(c, p, a)
          <5>1. balances'[c][q] = IF q = p THEN balances[c][q] + a ELSE balances[c][q]
            BY <2>0, <4>1 DEF Deposit, VM!deposit
          <5>2. total_supply'[q] = IF q = p THEN total_supply[q] + a ELSE total_supply[q]
            BY <2>0, <4>1 DEF Deposit, VM!deposit
          <5>. QED  BY <3>1, <5>1, <5>2
        <4>2. CASE Withdraw(c, p, a)
          <5>1. balances'[c][q] = IF q = p THEN balances[c][q] - a ELSE balances[c][q]
            BY <2>0, <4>2 DEF Withdraw, VM!withdraw
          <5>2. total_supply'[q] = IF q = p THEN total_supply[q] - a ELSE total_supply[q]
            BY <2>0, <4>2 DEF Withdraw, VM!withdraw
          <5>. QED  BY <3>1, <5>1, <5>2
        <4>. QED  BY <2>1, <4>1, <4>2
      <3>5. total_supply'[q] \in Int /\ balances'[c][q] \in Int
        <4>1. /\ balances' \in [Accounts -> [PoolIds -> 0..MaxU256]]
              /\ total_supply' \in [PoolIds -> 0..MaxU256]
          BY DEF TypeOK, VM!VaultTypeOK
        <4>. QED  BY <4>1, DeploymentAssumption
      <3>. QED
        BY <2>0, <3>1, <3>3, <3>4, <3>5
    <2>2. CASE UNCHANGED <<balances, total_supply>>
      BY <2>0, <2>2 DEF Shares
    <2>. QED
      BY <2>1, <2>2
      DEF Next, AddPool, VM!add_pool, UpdatePool, Rebalance, UpdateVolatility, UpdateYieldRate,
          UpdateCorrelation, TokenTransfer, NextBlock
  <1>. QED  BY <1>1, <1>2, TypeCorrect, PTL DEF Spec

\* The pools a token backs are finitely many, and what they hold is a number.
LEMMA BackedFinite ==
    ASSUME TypeOK, NEW t
    PROVE  /\ IsFiniteSet(Backed(t)) /\ Backed(t) \subseteq PoolIds
           /\ \A p \in Backed(t) : total_supply[p] \in Int
           /\ SumFunctionOnSet(total_supply, Backed(t)) \in Int
  <1>1. IsFiniteSet(PoolIds) /\ Backed(t) \subseteq PoolIds
    BY DeploymentAssumption, FS_Interval DEF Backed
  <1>2. IsFiniteSet(Backed(t))
    BY <1>1, FS_Subset
  <1>3. \A p \in Backed(t) : total_supply[p] \in Int
    BY <1>1, DeploymentAssumption DEF TypeOK, VM!VaultTypeOK
  <1>. QED
    BY <1>1, <1>2, <1>3, SumInt

\* A deposit or a withdrawal changes what its pool's token owes by the amount
\* the pool's total changes, and what the other tokens owe not at all.
LEMMA OwedChange ==
    ASSUME TypeOK, TypeOK', NEW t, NEW p \in PoolIds, pool_tokens' = pool_tokens,
           \A q \in PoolIds \ {p} : total_supply'[q] = total_supply[q]
    PROVE  SumFunctionOnSet(total_supply, Backed(t))' =
              SumFunctionOnSet(total_supply, Backed(t))
                + (IF pool_tokens[p] = t THEN total_supply'[p] - total_supply[p] ELSE 0)
  <1>1. /\ IsFiniteSet(Backed(t)) /\ Backed(t) \subseteq PoolIds /\ Backed(t)' = Backed(t)
        /\ \A q \in Backed(t) : total_supply[q] \in Int /\ total_supply'[q] \in Int
        /\ SumFunctionOnSet(total_supply, Backed(t)) \in Int
    <2>1. Backed(t)' = Backed(t)
      BY DEF Backed
    <2>2. \A q \in PoolIds : total_supply'[q] \in Int
      BY DeploymentAssumption DEF TypeOK, VM!VaultTypeOK
    <2>. QED  BY <2>1, <2>2, BackedFinite
  <1>2. CASE pool_tokens[p] = t
    <2>1. p \in Backed(t)
      BY <1>2 DEF Backed
    <2>2. \A q \in Backed(t) \ {p} : total_supply[q] = total_supply'[q]
      BY <1>1
    <2>3. SumFunctionOnSet(total_supply', Backed(t)) =
             SumFunctionOnSet(total_supply, Backed(t)) + total_supply'[p] - total_supply[p]
      BY <1>1, <2>1, <2>2, SumChange
    <2>. QED  BY <1>1, <1>2, <2>1, <2>3
  <1>3. CASE pool_tokens[p] # t
    <2>1. \A q \in Backed(t) : total_supply[q] \in Int /\ total_supply[q] = total_supply'[q]
      BY <1>1, <1>3 DEF Backed
    <2>2. SumFunctionOnSet(total_supply, Backed(t)) = SumFunctionOnSet(total_supply', Backed(t))
      BY <1>1, <2>1, SumAgree
    <2>. QED  BY <1>1, <1>3, <2>2
  <1>. QED  BY <1>2, <1>3

\* The vault always holds at least what all pools of a token owe their users,
\* however many pools share that token.
THEOREM VaultSolvent == Spec => []Solvent
  <1> DEFINE Owed(t) == SumFunctionOnSet(total_supply, Backed(t))
  <1>1. Init => Solvent
    <2> SUFFICES ASSUME Init, NEW t \in Tokens
                 PROVE  token_balance[t][vault_manager] >= Owed(t)
      BY DEF Solvent
    <2>1. Backed(t) = {}
      BY DeploymentAssumption DEF Init, VM!VaultInit, Backed
    <2>2. Owed(t) = 0
      BY <2>1, SumEmpty
    <2>3. token_balance[t][vault_manager] = 0
      BY DeploymentAssumption DEF Init, Holders, Contracts
    <2>. QED  BY <2>2, <2>3
  <1>2. TypeOK /\ TypeOK' /\ PoolTablesAgree /\ Solvent /\ [Next]_vars => Solvent'
    <2> SUFFICES ASSUME TypeOK, TypeOK', PoolTablesAgree, Solvent, [Next]_vars, NEW t \in Tokens
                 PROVE  token_balance'[t][vault_manager] >= Owed(t)'
      BY DEF Solvent
    <2>0. /\ token_balance \in [Tokens -> [Holders -> Nat]]
          /\ total_supply \in [PoolIds -> 0..MaxU256]
          /\ pool_tokens \in [PoolIds -> Tokens \cup {Zero}]
          /\ vault_manager \in Holders /\ vault_manager \notin Accounts
          /\ \A a \in Amounts : a \in Nat
      <3>1. vault_manager \in Holders /\ vault_manager \notin Accounts
        BY DeploymentAssumption DEF Holders, Contracts
      <3>2. \A a \in Amounts : a \in Nat
        BY DeploymentAssumption
      <3>. QED  BY <3>1, <3>2 DEF TypeOK, VM!VaultTypeOK
    <2>00. Owed(t) \in Int /\ token_balance[t][vault_manager] >= Owed(t)
      BY BackedFinite DEF Solvent
    <2>1. ASSUME NEW c \in Accounts, NEW p \in PoolIds, NEW a \in Amounts, Deposit(c, p, a)
          PROVE  token_balance'[t][vault_manager] >= Owed(t)'
      <3>1. /\ pool_tokens' = pool_tokens /\ total_supply'[p] = total_supply[p] + a
            /\ \A q \in PoolIds \ {p} : total_supply'[q] = total_supply[q]
        BY <2>0, <2>1 DEF Deposit, VM!deposit
      <3>2. total_supply[p] \in Int /\ a \in Nat /\ token_balance[t][vault_manager] \in Nat
        BY <2>0, DeploymentAssumption
      <3>3. Owed(t)' = Owed(t) + (IF pool_tokens[p] = t THEN a ELSE 0)
        <4>1. Owed(t)' = Owed(t) + (IF pool_tokens[p] = t THEN total_supply'[p] - total_supply[p] ELSE 0)
          BY <3>1, OwedChange
        <4>. QED  BY <3>1, <3>2, <4>1
      <3>4. token_balance'[t][vault_manager] =
               token_balance[t][vault_manager] + (IF pool_tokens[p] = t THEN a ELSE 0)
        BY <2>0, <2>1, <3>2 DEF Deposit, Token!transferFrom, Token!Moved
      <3>. QED  BY <2>00, <3>2, <3>3, <3>4
    <2>2. ASSUME NEW c \in Accounts, NEW p \in PoolIds, NEW a \in Amounts, Withdraw(c, p, a)
          PROVE  token_balance'[t][vault_manager] >= Owed(t)'
      <3>1. /\ pool_tokens' = pool_tokens /\ total_supply'[p] = total_supply[p] - a
            /\ \A q \in PoolIds \ {p} : total_supply'[q] = total_supply[q]
        BY <2>0, <2>2 DEF Withdraw, VM!withdraw
      <3>2. total_supply[p] \in Int /\ a \in Nat /\ token_balance[t][vault_manager] \in Nat
        BY <2>0, DeploymentAssumption
      <3>3. Owed(t)' = Owed(t) - (IF pool_tokens[p] = t THEN a ELSE 0)
        <4>1. Owed(t)' = Owed(t) + (IF pool_tokens[p] = t THEN total_supply'[p] - total_supply[p] ELSE 0)
          BY <3>1, OwedChange
        <4>. QED  BY <2>00, <3>1, <3>2, <4>1
      <3>4. token_balance'[t][vault_manager] =
               token_balance[t][vault_manager] - (IF pool_tokens[p] = t THEN a ELSE 0)
        BY <2>0, <2>2, <3>2 DEF Withdraw, Token!transferFrom, Token!Moved
      <3>. QED  BY <2>00, <3>2, <3>3, <3>4
    <2>3. ASSUME NEW u \in Accounts, NEW k \in Tokens, NEW s \in Strategies,
                 NEW lo \in Limits, NEW hi \in Limits, AddPool(u, k, s, lo, hi)
          PROVE  token_balance'[t][vault_manager] >= Owed(t)'
      <3>1. /\ pool_count \in PoolIds /\ pool_tokens' = [pool_tokens EXCEPT ![pool_count] = k]
            /\ total_supply' = total_supply /\ token_balance' = token_balance
        BY <2>3 DEF AddPool, SR!add_pool, VM!add_pool
      <3>2. pool_tokens[pool_count] = Zero /\ total_supply[pool_count] = 0 /\ t # Zero
        BY <3>1, DeploymentAssumption DEF PoolTablesAgree
      <3>3. CASE k = t
        <4>1. pool_count \in Backed(t)' /\ Backed(t)' \ {pool_count} = Backed(t)
          BY <2>0, <3>1, <3>2, <3>3 DEF Backed
        <4>2. IsFiniteSet(Backed(t)') /\ \A p \in Backed(t)' : total_supply[p] \in Int
          <5>1. Backed(t)' = Backed(t) \cup {pool_count}
            BY <4>1
          <5>. QED  BY <5>1, <3>2, BackedFinite, FS_AddElement
        <4>3. SumFunctionOnSet(total_supply, Backed(t)') = 0 + Owed(t)
          BY <3>2, <4>1, <4>2, SumRemove
        <4>. QED  BY <2>00, <3>1, <4>3
      <3>4. CASE k # t
        <4>1. Backed(t)' = Backed(t)
          BY <2>0, <3>1, <3>2, <3>4 DEF Backed
        <4>. QED  BY <2>00, <3>1, <4>1
      <3>. QED  BY <3>3, <3>4
    <2>4. ASSUME NEW k \in Tokens, NEW from \in Accounts, NEW to \in Holders, NEW a \in Amounts,
                 TokenTransfer(k, from, to, a)
          PROVE  token_balance'[t][vault_manager] >= Owed(t)'
      <3>1. token_balance'[t][vault_manager] >= token_balance[t][vault_manager]
        BY <2>0, <2>4 DEF TokenTransfer, Token!transferFrom, Token!Moved
      <3>2. Owed(t)' = Owed(t)
        BY <2>4 DEF TokenTransfer, Backed
      <3>3. token_balance'[t][vault_manager] \in Nat /\ token_balance[t][vault_manager] \in Nat
        BY <2>0 DEF TypeOK
      <3>. QED  BY <2>00, <3>1, <3>2, <3>3
    <2>5. CASE UNCHANGED <<total_supply, pool_tokens, token_balance>>
      BY <2>00, <2>5 DEF Backed
    <2>. QED
      BY <2>1, <2>2, <2>3, <2>4, <2>5
      DEF Next, UpdatePool, Rebalance, UpdateVolatility, UpdateYieldRate, UpdateCorrelation,
          NextBlock
  <1>. QED  BY <1>1, <1>2, TypeCorrect, PoolTablesInStep, PTL DEF Spec

\* What Withdraw asks of the state for u to take everything out of p: every
\* assert and every checked subtraction of the four contracts and the token.
ExitOpen(u, p) ==
    /\ u # Zero
    /\ pool_tokens[p] \in Tokens
    /\ total_supply[p] >= balances[u][p]
    /\ pool_metrics[p].tvl >= balances[u][p]
    /\ token_balance[pool_tokens[p]][vault_manager] >= balances[u][p]

HoldersMayExit ==
    \A u \in Accounts, p \in PoolIds : balances[u][p] > 0 => ExitOpen(u, p)

\* Nothing on the way through the vault, the engine, the oracle and the token
\* can stop a holder from withdrawing the whole balance: the guards of
\* Withdraw hold for it, whether the pool is active or not.
THEOREM ExitIsNeverBarred == Spec => []HoldersMayExit
  <1>1. /\ TypeOK /\ PoolTablesAgree /\ OracleTracksSupply
        /\ SupplyIsSumOfBalances /\ Solvent
        => HoldersMayExit
    <2> SUFFICES ASSUME TypeOK, PoolTablesAgree, OracleTracksSupply,
                        SupplyIsSumOfBalances, Solvent,
                        NEW u \in Accounts, NEW p \in PoolIds, balances[u][p] > 0
                 PROVE  ExitOpen(u, p)
      BY DEF HoldersMayExit
    <2>0. /\ balances \in [Accounts -> [PoolIds -> 0..MaxU256]]
          /\ total_supply \in [PoolIds -> 0..MaxU256]
          /\ pool_tokens \in [PoolIds -> Tokens \cup {Zero}]
          /\ pool_count \in Nat
      BY DEF TypeOK, VM!VaultTypeOK, SR!RegistryTypeOK
    <2>1. total_supply[p] >= balances[u][p]
      <3>1. \A v \in Accounts : Shares(p)[v] \in Nat
        BY <2>0, DeploymentAssumption DEF Shares
      <3>2. Shares(p)[u] <= SumFunctionOnSet(Shares(p), Accounts)
        BY <3>1, SumNat, DeploymentAssumption
      <3>3. total_supply[p] = SumFunctionOnSet(Shares(p), Accounts) /\ Shares(p)[u] = balances[u][p]
        BY DEF SupplyIsSumOfBalances, SumFunction, Shares
      <3>4. total_supply[p] \in Int /\ balances[u][p] \in Int
        BY <2>0, DeploymentAssumption
      <3>. QED  BY <3>2, <3>3, <3>4
    <2>2. total_supply[p] \in Nat /\ balances[u][p] \in Nat
      BY <2>0, DeploymentAssumption
    <2>3. pool_tokens[p] \in Tokens
      BY <2>0, <2>1, <2>2 DEF PoolTablesAgree
    <2>4. token_balance[pool_tokens[p]][vault_manager] >= total_supply[p]
      <3> DEFINE t == pool_tokens[p]
      <3>1. p \in Backed(t)
        BY DEF Backed
      <3>2. IsFiniteSet(Backed(t)) /\ Backed(t) \subseteq PoolIds
        BY BackedFinite
      <3>3. \A q \in Backed(t) : total_supply[q] \in Nat
        BY <2>0, <3>2, DeploymentAssumption
      <3>4. /\ total_supply[p] <= SumFunctionOnSet(total_supply, Backed(t))
            /\ SumFunctionOnSet(total_supply, Backed(t)) \in Nat
        BY <3>1, <3>2, <3>3, SumNat
      <3>5. token_balance[t][vault_manager] >= SumFunctionOnSet(total_supply, Backed(t))
        BY <2>3 DEF Solvent
      <3>6. token_balance[t][vault_manager] \in Nat
        BY <2>3 DEF TypeOK, Holders
      <3>. QED  BY <2>2, <3>4, <3>5, <3>6
    <2>5. token_balance[pool_tokens[p]][vault_manager] \in Nat
      BY <2>3 DEF TypeOK, Holders
    <2>6. u # Zero /\ pool_metrics[p].tvl = total_supply[p]
      BY DeploymentAssumption DEF OracleTracksSupply
    <2>. QED
      BY <2>1, <2>2, <2>3, <2>4, <2>5, <2>6 DEF ExitOpen
  <1>. QED
    BY <1>1, TypeCorrect, PoolTablesInStep, OracleExact, SupplyIsWhatUsersHold, VaultSolvent, PTL
=============================================================================
