SPECIFICATION Spec
CONSTANTS
  Devices = {home, second}
  Home = home
  Sealers = {home, second}
  Syncers = {home}
  MaxDays = 2
  MayCrash = TRUE
INVARIANT OneChain
CHECK_DEADLOCK FALSE
