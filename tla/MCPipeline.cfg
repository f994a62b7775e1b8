\* The call retries and polls overlap its own update; every operation may throw,
\* in half of the behaviours but for the losses of an answer.
SPECIFICATION FairSpec
CONSTANTS
  maxRetries = 1
  monitorRetries = 1
  maxConfirmations = 2
  confirmations = 1
  Rounds = {m1}
  m1 = m1
  MaxHeight = 4
  MaxRestarts = 1
  Faults = {"prepare", "submit", "lost", "wait", "rpc", "database"}
  Caller = Caller
  None = None
INVARIANTS ReturnedIsMined ConfirmedIsDeep FailedHasCause OneEffect
 
\* The call ends, the chain's height is bounded and the table settles.
CHECK_DEADLOCK FALSE
