SPECIFICATION FeedSpec
CONSTANTS
  l1 = l1
  Level = {}
  Qty = {0, 1}
  NoId = NoId
  MaxId = 3
  MaxBuffer = 3
  MaxReconnectFailures = 2
  SnapshotRetryLimit = 2
  HttpRetryLimit = 2
  RestLag = 0
  RetryableFaults = {"network", "rate_limited"}
  FatalFaults = {"server_error", "malformed_body"}
INVARIANTS
  WorkerSurvives
CHECK_DEADLOCK FALSE
