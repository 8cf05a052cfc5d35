\* Three updates, snapshots up to one behind, and every fault of a push.
SPECIFICATION FairFeedSpec
CONSTANTS
  l1 = l1
  Level = {l1}
  Qty = {0, 1}
  NoId = NoId
  MaxId = 3
  MaxBuffer = 2
  MaxReconnectFailures = 2
  SnapshotRetryLimit = 2
  SnapshotLag = 1
  MaxInbox = 2
  BucketCapacity = 2
  SnapshotFaults = {"malformed", "refused"}
INVARIANTS
  FeedTypeOK
  FullRetryBudget
  ResyncIsComing
PROPERTIES
  ResubscribesArePaid
  ImplementsBookSync
  Recovers
CHECK_DEADLOCK FALSE
