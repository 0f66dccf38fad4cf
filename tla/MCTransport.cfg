CONSTANTS
  s1 = s1
  s2 = s2
  Receiver = rx
  None = None
  Senders <- TwoSenders
  Conns <- ThreeConns
  MaxRetries = 2
  MaxSize = 1
  Sizes = {1, 2}
  MaxRefusals = 2
SPECIFICATION FairSpec
INVARIANTS
  NoneLeftOpen
PROPERTIES
  HealthyKept
  SendReturns
  ReceiverFollows
CHECK_DEADLOCK FALSE
