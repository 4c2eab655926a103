------------------------------- MODULE MCLaunch -------------------------------
(* Instances of Launch for TLC.                                            *)
EXTENDS Launch
=============================================================================
