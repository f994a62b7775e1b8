\* One request at a time over a Redis that goes away and comes back.
SPECIFICATION FairSpec
CONSTANTS
  Requests = {r1}
  maxReconnectAttempts = 2
  ReplyErrors = FALSE
  Services = {"metrics"}
  points = 1
  duration = 1
  MsPerSecond = 2
  MaxNow = 1
  MaxRows = 1
  DefiAmounts <- MCAmounts
  MaxTransfers = 1
PROPERTY Reconnects
CHECK_DEADLOCK FALSE
