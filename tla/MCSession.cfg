SPECIFICATION FairSpec
CONSTANTS
  Tasks = {t1, t2}
  EthereumAccounts = {e1}
  StarknetAccounts = {s1}
  None = None
  Undefined = Undefined
  MaxReloads = 1
INVARIANTS SessionMatchesToken
PROPERTIES LoadingSettles
CHECK_DEADLOCK FALSE
