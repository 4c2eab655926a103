----------------------------- MODULE MCDiscovery -----------------------------
EXTENDS Discovery, TLC

Symmetry == Permutations(Threads) \cup Permutations(Procs)
=============================================================================
