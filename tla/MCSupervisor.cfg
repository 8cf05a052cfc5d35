SPECIFICATION FairSupervisorSpec
CONSTANTS
  Feed = {"binance", "okx"}
  MaxRestarts = 2
  RestartWindow = 2
  MaxExponent = 2
  Fragile = {"binance"}
  MaxTime = 3
INVARIANTS
  SupervisorTypeOK
  BudgetKept
  ReportedTruly
PROPERTIES
  ShutdownCompletes
  RestartsFollow
CHECK_DEADLOCK FALSE
