\* The writes of one account, the governance: oracle parameters, pools and every
\* rebalance, over pools that may share a strategy or be inactive.
CONSTANTS
    Accounts = {gov}
    Tokens = {t1}
    Strategies = {s1, s2}
    Zero = Zero
    vault_manager = vault_manager
    yield_engine = yield_engine
    cdr_oracle = cdr_oracle
    strategy_registry = strategy_registry
    governance = gov
    MaxPools = 2
    MaxU256 = 4
    Full = 2
    MaxTime = 1
    Amounts <- MCOne
    Rates <- MCOne
    Correlations <- MCCorrelations
    Limits <- MCOne
    Weights <- MCWeights
    Funding = 1
SPECIFICATION Spec
INVARIANTS CorrelationsSymmetric
PROPERTIES StrategiesFollowWeights
