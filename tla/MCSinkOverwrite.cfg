SPECIFICATION SinkSpec
CONSTANTS
  binance = binance
  okx = okx
  Feed = {binance, okx}
  QueueMax = 2
  BatchSize = 2
  FlushInterval = 2
  CheckpointInterval = 2
  StallTimeout = 2
  IOFails = "never"
  HourReuse = {"restart"}
  MaxRow = 4
  MaxHour = 2
PROPERTIES
  FinalizedRowsSurvive
CHECK_DEADLOCK FALSE
