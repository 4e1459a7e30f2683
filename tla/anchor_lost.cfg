SPECIFICATION OutboundSpec
CONSTANTS
  Anchorers = {p1}
  Calendars = {"alice", "bob"}
  Days = 2
  Window = 1
  LastDay = 1
  Commands = {g1, g2}
  Relays = {r1, r2}
  Kinds = {"active", "revoked", "note"}
  MaxSigned = 0
  Hasty = FALSE
  Sessions = {b1, b2}
  Prefix <- OwnPrefix
  Bodies = {e1, e2}
  Keys = {k1, k2}
  Attempts = 1
  MaxCalls = 0
  MaxReplies = 3
  LastSecond = 1
  Heeded = FALSE
  Askers = {s1, s2}
  Notes <- TwoNotes
  Names = {"nan"}
  Providers = {"anthropic", "openai", "ollama"}
  Pairs <- OnePair
  Budget = 2
  MaxAsked = 0
PROPERTY ConfirmedStays
CHECK_DEADLOCK FALSE
