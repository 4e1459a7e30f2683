SPECIFICATION MCSpec
CONSTANTS
  c1 = c1  c2 = c2  c3 = c3  unix = unix  tcp = tcp
  DayLength = 2
  Cutoff = 1
  Horizon = 7
  Offset <- Fold
  Created = 0
  Grace = 2
  Backfill = 2
  MaxWrites = 1
  MaxFaults = 1
  Listeners = {unix, tcp}
  Clients = {c1, c2, c3}
  Silent = {c3}
  MaxConnections = 2
  MaxPanics = 1
INVARIANTS DaysAreSealedWhole
PROPERTIES EveryoneIsAnswered DueIsSealed
CHECK_DEADLOCK FALSE
