--------------------------- MODULE MCControlPlane ---------------------------
EXTENDS ControlPlane, TLC
Symmetry == Permutations(Instruments)
=============================================================================
