------------------------------ MODULE MCIdMapper ------------------------------
(* Small instances of IdMapper for TLC.                                         *)
EXTENDS IdMapper

CONSTANTS self, p, w1, w2, none
===============================================================================
