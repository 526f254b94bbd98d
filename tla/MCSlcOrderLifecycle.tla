----------------------- MODULE MCSlcOrderLifecycle -----------------------
EXTENDS SlcLifecycleProperties, TLC
Symmetry == Permutations(Symbols)
=============================================================================
