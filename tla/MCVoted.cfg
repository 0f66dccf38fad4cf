CONSTANTS
  a = a
  b = b
  Xts <- OnlyA
  Local <- OnlyA
  MaxPeriod = 2
  Rollbacks = TRUE
  MaxPending = 2
  DepCounts = {0}
  MaxU64 = 6
  MaxFaults = 1
  FaultKinds = {"lost", "late", "drop"}
  PeerVotes = {TRUE}
SPECIFICATION FairSpec
INVARIANTS
  UndecidedNotStale
  LocalCommitUnanimous
PROPERTIES
  EveryInstanceVoted
CHECK_DEADLOCK FALSE
