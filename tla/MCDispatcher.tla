---------------------------- MODULE MCDispatcher ----------------------------
(* An instance of Dispatcher for TLC.                                      *)
EXTENDS Dispatcher, TLC
CONSTANTS c1, c2

\* One client replays macros, the other calls tools.
MCTools == c1 :> {"macro"} @@ c2 :> {"page"}
=============================================================================
