CONSTANTS
  a = a
  b = b
  Xts <- Both
  Local <- Both
  MaxPeriod = 1
  Rollbacks = TRUE
  MaxPending = 2
  DepCounts = {1}
  MaxU64 = 6
  MaxFaults = 0
  FaultKinds = {}
  PeerVotes = {}
SYMMETRY MCSymmetry
SPECIFICATION Spec
INVARIANTS
  CommitOnlyIfPublisherCommits
  RollbackReanchorsLane
PROPERTIES
  DecisionFinal
CHECK_DEADLOCK FALSE
