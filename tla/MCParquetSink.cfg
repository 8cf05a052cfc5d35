SPECIFICATION FairSinkSpec
CONSTANTS
  binance = binance
  okx = okx
  Feed = {binance, okx}
  QueueMax = 2
  BatchSize = 2
  FlushInterval = 2
  CheckpointInterval = 2
  StallTimeout = 2
  IOFails = "within_hour"
  HourReuse = {}
  MaxRow = 4
  MaxHour = 2
INVARIANTS
  SinkTypeOK
  RowsAccounted
  FilesInOrder
  EndedMeansWritten
PROPERTIES
  ImplementsRowLog
  FinalizedRowsSurvive
  RowsAreWritten
CHECK_DEADLOCK FALSE
