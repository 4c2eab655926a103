----------------------------- MODULE MCEventBuf -----------------------------
EXTENDS EventBuf, TLC

Symmetry == Permutations(Callers)
=============================================================================
