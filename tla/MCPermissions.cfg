CONSTANTS
  t1 = t1
  a = a
  b = b
  bad = bad
  home = home
  peer = peer
  None = None
  Tasks <- OneTask
  Requests <- SomeRequests
  Wallets <- TwoWallets
  Local = home
  Wires <- SomeWires
  MaxVersion = 2
  MaxFaults = 2
SPECIFICATION FairSpec
INVARIANTS
  DecisionJustified
  PolicyAsPublished
PROPERTIES
  PolicyConverges
CHECK_DEADLOCK FALSE
