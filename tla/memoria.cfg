SPECIFICATION MCSpec
CONSTANTS
  m1 = m1  m2 = m2  t1 = t1  p1 = p1  p2 = p2  q1 = q1
  Procs = {p1, p2}
  Memories <- TwoNotes
  Quests = {q1}
  Threads <- OneThread
  Opens <- OpensFirst
  Closes <- ClosesSecond
  Dates = {1, 2, 3}
  Genesis = genesis
  MaxClock = 1
  AnyOrder = TRUE
  MayCrash = TRUE
INVARIANTS OnlyTornDaysFail MemoryAccountedAlone ThreadsContinueAlone MemorySealedOnce StampedIsCommitted
PROPERTY ImplementsChain
CHECK_DEADLOCK FALSE
