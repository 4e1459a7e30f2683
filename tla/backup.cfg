SPECIFICATION Spec
CONSTANTS
  Devices = {home, second}
  Home = home
  Sealers = {home}
  Syncers = {home}
  MaxDays = 2
  MayCrash = TRUE
INVARIANTS RestoredIsPrefix ChainVerifies ReportIsTrue CleanSyncIsComplete
CHECK_DEADLOCK FALSE
