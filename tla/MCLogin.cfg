SPECIFICATION Spec
CONSTANTS
  Tasks = {t1}
  EthereumAccounts = {e1}
  StarknetAccounts = {s1}
  None = None
  Undefined = Undefined
  MaxReloads = 1
INVARIANTS ConnectedBeforeSigning
CHECK_DEADLOCK FALSE
