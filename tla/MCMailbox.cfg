CONSTANTS
  a = a
  b = b
  k = k
  l = l
  Xts <- Both
  Keys <- TwoKeys
  Deps <- MCDeps
  Copies <- MCCopies
  MaxKeys = 1
  MaxPerKey = 1
  Wipes = TRUE
SPECIFICATION FairSpec
INVARIANTS
  TypeOK
  MessagesConserved
PROPERTIES
  EveryXtVotes
