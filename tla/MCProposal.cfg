\* Two requests at a time, any await of theirs may throw; longer when serial.
SPECIFICATION Spec
CONSTANTS
  Requests = {r1, r2}
  Wallets = {w1, w2}
  Power <- MCPower
  r1 = r1
  r2 = r2
  w1 = w1
  w2 = w2
  proposalThreshold = 1
  quorum = 1
  votingPeriod = 0
  executionDelay = 0
  NumActions = 2
  Operations = {"vote", "execute", "cancel", "process", "get", "list"}
  Faults <- MCFaults
  MaxTime = 1
  MaxArrivals = 3
  MaxSerial = 5
  None = None
SYMMETRY MCRequestSymmetry
INVARIANTS TallyWithinVotes ActionsNeedQuorum CacheCoherent SerialTallyExact SerialExecution
\* The bounds on requests and on the clock end every behaviour.
CHECK_DEADLOCK FALSE
