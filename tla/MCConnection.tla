---------------------------- MODULE MCConnection ----------------------------
(* Connection with headers and bodies of two units, which can be torn.      *)
EXTENDS Connection, TLC
=============================================================================
