-------------------------- MODULE MCLoginThrottle --------------------------
(* Two users behind one address; see the cfg files.                          *)
EXTENDS LoginThrottle
=============================================================================
