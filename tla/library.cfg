SPECIFICATION Spec
INVARIANTS
  QuestsAreFair ScoresAreHonest PersonasAreGrounded DaysSealAsWritten EncodingsHold
  RepliesAreTaken PayloadsAreRedacted ScreensAreTrue ReadsAreHonest
CHECK_DEADLOCK FALSE
