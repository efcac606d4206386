------------------------------ MODULE MCMembership ------------------------------
(* A small instance of Membership for TLC: two peers that know the third.         *)
EXTENDS Membership

CONSTANTS a, b, c

MCBootstrap == [p \in Peer |-> IF p = a THEN {} ELSE {a}]
MCCuts == {{{a, b}, {b, c}}}
===============================================================================
