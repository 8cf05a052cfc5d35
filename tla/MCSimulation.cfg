\* One level a side to begin with, five updates, windows and delays of up to two.
SPECIFICATION FairSimSpec
CONSTANTS
  Level <- MCLevel
  Qty = {0, 1}
  NoId = NoId
  MaxId = 5
  MaxBuffer = 2
  MaxPrice = 3
  Mid = 2
  InitialLevels = 1
  MinLevels = 1
  Reach = 1
  SpreadMin = 1
  Faults = {"disconnect", "drop_burst", "drop_one", "duplicate", "reorder", "delayed_snapshot"}
  DisconnectMaxLen = 2
  DropBurstMaxLen = 2
  DelayMaxSteps = 2
  RetryLimit = 2
INVARIANTS
  SimTypeOK
  NeverCrosses
  DeliveryConverges
  RecentSnapshotsLoad
PROPERTIES
  SampledOnce
  ImplementsBookSync
  TailConverges
CHECK_DEADLOCK FALSE
