--------------------------- MODULE MCNonceManager ---------------------------
EXTENDS NonceManager, TLC

CONSTANTS x1, x2, x3

MCInstances == {x1, x2, x3}

MCSymmetry == Permutations(MCInstances)
=============================================================================
