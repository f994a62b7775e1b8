\* Three overlapping calls, and callers that keep coming.
SPECIFICATION CircuitFairSpec
CONSTANTS
  Calls = {c1, c2, c3}
  c1 = c1
  c2 = c2
  c3 = c3
  failureThreshold = 2
  successThreshold = 2
  resetTimeout = 2
  MaxFailures = 5
INVARIANTS CountersMatchState
PROPERTIES RefinesFixed Recovers
