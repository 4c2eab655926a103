--------------------------- MODULE MCCdpConnection ---------------------------
(* Instances of CdpConnection for TLC: one subscription to two methods, as *)
(* the event pumps make them.                                              *)
EXTENDS CdpConnection, TLC

CONSTANTS s1, m1, m2

MCSubs == {s1}
MCMethods == {m1, m2}
MCMethodsOf == s1 :> {m1, m2}
=============================================================================
