CONSTANTS
  a = a
  b = b
  k = k
  l = l
  Xts <- OnlyA
  Keys <- TwoKeys
  Deps <- MCDeps
  Copies <- MCCopies
  MaxKeys = 1
  MaxPerKey = 2
  Wipes = FALSE
SPECIFICATION Spec
INVARIANT
  WakeupNotLost
CHECK_DEADLOCK FALSE
