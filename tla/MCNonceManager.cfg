CONSTANTS
  x1 = x1
  x2 = x2
  x3 = x3
  Instances <- MCInstances
  MaxU64 = 6
  MaxCount = 3
SYMMETRY MCSymmetry
SPECIFICATION Spec
INVARIANTS
  TypeOK
  OneOwner
  NoStrandedNonce
  ConsumedNotReissued
PROPERTY FloorRespected
