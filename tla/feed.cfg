SPECIFICATION IncomingSpec
CONSTANTS
  p1 = p1  p2 = p2
  Source = {"feed", "disk", "pages", "relays", "signer"}
  Procs = {p1, p2}
  Notes = {1, 2, 3, 4, 5, 6}
  At <- Seconds
  Foreign = {3}
  Blank = {2}
  Batch = 3
  Backlog = 4
  InOrder = TRUE
  Full = TRUE
  MayCrash = TRUE
  Callers = {p1, p2}
  Paths = {"notes", "diary", "log"}
  KindOf <- FileKinds
  Drafts <- Changing
  NameDay <- Named
  Schema = "habits"
  Said = {"hello"}
  PageRows = 2
  MaxCalls = 3
  CallersDie = TRUE
  MaxFramesPerWait = 2
  Points = {"k", "l"}
  MaxSaid = 3
INVARIANTS NothingSkipped PullAdvances FilesAreTakenOnce StrangersAreNotBelieved
PROPERTIES ShreddedForGood
CHECK_DEADLOCK FALSE
