SPECIFICATION IncomingSpec
CONSTANTS
  p1 = p1  p2 = p2
  Source = {"disk"}
  Procs = {p1}
  Notes = {1, 2, 3, 4, 5, 6}
  At <- Seconds
  Foreign = {3}
  Blank = {2}
  Batch = 3
  Backlog = 4
  InOrder = TRUE
  Full = TRUE
  MayCrash = FALSE
  Callers = {p1}
  Paths = {"notes", "diary", "log"}
  KindOf <- FileKinds
  Drafts <- Habit
  NameDay <- Named
  Schema = "habits"
  Said = {"hello"}
  PageRows = 2
  MaxCalls = 3
  CallersDie = FALSE
  MaxFramesPerWait = 2
  Points = {"k", "l"}
  MaxSaid = 1
INVARIANT RowsAreKept
CHECK_DEADLOCK FALSE
