\* Three updates, so that a replay can end in a gap, and every kind of fault.
SPECIFICATION FairFeedSpec
CONSTANTS
  l1 = l1
  Level = {}
  Qty = {0, 1}
  NoId = NoId
  MaxId = 3
  MaxBuffer = 2
  MaxReconnectFailures = 2
  SnapshotRetryLimit = 2
  HttpRetryLimit = 2
  RestLag = 1
  RetryableFaults = {"network", "rate_limited"}
  FatalFaults = {"server_error", "malformed_body"}
INVARIANTS
  FeedTypeOK
  NeverLoadsWhileLive
  ResyncIsComing
PROPERTIES
  RowsNeverGoBack
  ImplementsBookSync
  Recovers
  NeverRetriesSilently
CHECK_DEADLOCK FALSE
