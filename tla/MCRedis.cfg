\* The limiter, the analytics and the pool calls over a Redis that comes and goes.
SPECIFICATION FairSpec
CONSTANTS
  Requests = {r1, r2}
  maxReconnectAttempts = 1
  ReplyErrors = TRUE
  Services = {"limiter", "metrics", "correlations", "cdr", "transfers", "views"}
  points = 1
  duration = 1
  MsPerSecond = 3
  MaxNow = 3
  MaxRows = 1
  DefiAmounts <- MCAmounts
  MaxTransfers = 2
INVARIANTS LimitPerSecond CachedSeriesFresh TotalsFollowRows
PROPERTIES Answered QuietOutageHeals
CHECK_DEADLOCK FALSE
