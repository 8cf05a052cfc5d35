SPECIFICATION FairSupervisorSpec
CONSTANTS
  Feed = {"binance", "okx"}
  MaxRestarts = 2
  RestartWindow = 2
  MaxExponent = 2
  Fragile = {"binance"}
  MaxTime = 1
PROPERTIES
  ShutdownStopsFeeds
CHECK_DEADLOCK FALSE
