SPECIFICATION FeedSpec
CONSTANTS
  l1 = l1
  Level = {}
  Qty = {0, 1}
  NoId = NoId
  MaxId = 2
  MaxBuffer = 2
  MaxReconnectFailures = 2
  SnapshotRetryLimit = 2
  SnapshotLag = 0
  MaxInbox = 2
  BucketCapacity = 2
  SnapshotFaults = {"malformed"}
INVARIANTS
  LostPushSurfaces
CHECK_DEADLOCK FALSE
