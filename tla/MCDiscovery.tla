------------------------------ MODULE MCDiscovery ------------------------------
(* The instance of Discovery for TLC: one other member.                         *)
EXTENDS Discovery

CONSTANTS self, p
=============================================================================
