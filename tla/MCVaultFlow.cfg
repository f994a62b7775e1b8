\* Deposits, withdrawals and direct transfers by two users over two pools that
\* may share a token; no oracle parameters, no rebalances.
CONSTANTS
    Accounts = {alice, gov}
    Tokens = {t1, t2}
    Strategies = {s1}
    Zero = Zero
    vault_manager = vault_manager
    yield_engine = yield_engine
    cdr_oracle = cdr_oracle
    strategy_registry = strategy_registry
    governance = gov
    MaxPools = 2
    MaxU256 = 4
    Full = 2
    MaxTime = 2
    Amounts <- MCAmounts
    Rates <- MCNone
    Correlations <- MCNone
    Limits <- MCOne
    Weights <- MCNone
    Funding = 2
SPECIFICATION Spec
INVARIANTS SupplyIsSumOfBalances OracleTracksSupply PoolTablesAgree Solvent HolderCanExit
PROPERTIES PoolTokenFixed WithdrawalsPaid
