\* Two execute requests at a time.
SPECIFICATION Spec
CONSTANTS
  Requests = {r1, r2}
  Wallets = {w1}
  Power <- MCPower
  r1 = r1
  r2 = r2
  w1 = w1
  proposalThreshold = 1
  quorum = 1
  votingPeriod = 0
  executionDelay = 0
  NumActions = 1
  Operations = {"vote", "process", "execute"}
  Faults <- MCNone
  MaxTime = 1
  MaxArrivals = 4
  MaxSerial = 4
  None = None
SYMMETRY MCRequestSymmetry
INVARIANTS ActionsRunOnce
\* The bounds on requests and on the clock end every behaviour.
CHECK_DEADLOCK FALSE
