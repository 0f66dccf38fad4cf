--------------------------- MODULE MCCoordinator ---------------------------
EXTENDS Coordinator, TLC

CONSTANTS a, b

Both == {a, b}
OnlyA == {a}

MCSymmetry == Permutations(Both)
=============================================================================
