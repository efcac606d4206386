------------------------------ MODULE MCShutdown ------------------------------
(* Small instances of Shutdown for TLC.                                         *)
EXTENDS Shutdown

CONSTANTS s1, c1
===============================================================================
