SPECIFICATION MCSpec
CONSTANTS
  p1 = p1  p2 = p2  q1 = q1  q2 = q2  q3 = q3  a = a  b = b
  Procs = {p1, p2}
  Quests = {q1, q2, q3}
  Claim <- SameClaim
  HoldOut = {q3}
  Decoys = {}
  Verdicts = {"confirm", "reject", "correct"}
  Wordy = {"correct"}
  Weighty = {"reject", "correct"}
  Dates = {1, 2}
  BatchSize = 2
  Lifetime = 1
  MaxClock = 4
  MaxHead = 1
  MayCrash = TRUE
INVARIANTS DaysAreAskedOnce CorrectionIsTheVerdict DeltaIsEarned ExpiredForGood
CHECK_DEADLOCK FALSE
