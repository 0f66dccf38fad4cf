CONSTANTS
  a = a
  b = b
  Xts <- Both
  Local <- Both
  MaxPeriod = 1
  Rollbacks = FALSE
  MaxPending = 1
  DepCounts = {1, 2}
  MaxU64 = 6
  MaxFaults = 2
  FaultKinds = {"lost"}
  PeerVotes = {}
SPECIFICATION FairSpec
INVARIANTS
  PutInboxNoncesUsable
PROPERTIES
  CommittedIsIncluded
CHECK_DEADLOCK FALSE
