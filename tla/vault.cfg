SPECIFICATION MCSpec
CONSTANTS
  c1 = c1  c2 = c2  m1 = m1  m2 = m2  d1 = d1
  Part = {"persona", "vault", "people", "vectors"}
  Procs = {c1, c2}
  Memories = {m1, m2}
  Silent = {}
  Corrections = {d1}
  MinCorpus = 1
  MayCrash = TRUE
  Commands = {c1, c2}
  Passes = {"first", "second"}
  WrapNonces = {"m", "n"}
  Latest = 2
  Origins = {"none", "legacy", "newer"}
  Overlap = FALSE
  MaxStarts = 3
  Hands = {c1, c2}
  Written <- Names
  Kinds = {"person", "place"}
  Letters = 2
  Embedded = {1, 2, 3}
  Models = {"nomic", "e5"}
  Width <- Widths
  Likeness <- Likenesses
INVARIANTS OneHead RowsStayReadable StoreOpens PeopleAreToldApart NeighboursAreComparable
CHECK_DEADLOCK FALSE
