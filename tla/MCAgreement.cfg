CONSTANTS
  s1 = s1
  s2 = s2
  x = x
  y = y
  Sidecars <- Two
  Xts <- Both
  Origin <- FromFirst
  Chains <- AllChains
  MaxSeq = 2
  MaxPending = 1
  MaxFaults = 1
  Crashers <- OnlyPeers
  MaxCrashes = 1
SPECIFICATION FairSpec
INVARIANTS
  Agreement
  OneInstancePerXt
PROPERTIES
  ImplementsAtomicCommit
  OriginDecides
CHECK_DEADLOCK FALSE
