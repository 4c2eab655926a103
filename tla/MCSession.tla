------------------------------ MODULE MCSession ------------------------------
(* An instance of Session for TLC; its constants are model values.         *)
EXTENDS Session
=============================================================================
