------------------------------ MODULE MCTargets ------------------------------
(* Instances of Targets for TLC.                                           *)
EXTENDS Targets, TLC

\* Calls are interchangeable, and so are pages.
Symmetry == Permutations(Threads) \cup Permutations(Pages)
=============================================================================
