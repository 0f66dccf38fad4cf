CONSTANTS
  c1 = c1
  c2 = c2
  c3 = c3
  x = x
  y = y
  Clients <- Three
  Xts <- Both
  Fp <- MCFp
  Local <- OnlyX
  MaxStarts = 2
  MaxRollbacks = 1
  MaxFaults = 1
SPECIFICATION Spec
INVARIANTS
  TypeOK
  OkIsAccepted
PROPERTIES
  NoWaiterForgotten
CHECK_DEADLOCK FALSE
