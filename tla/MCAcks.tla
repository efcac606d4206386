-------------------------------- MODULE MCAcks --------------------------------
(* Small instances of Acks for TLC.  Nothing tells the peers apart.  Calls meet   *)
(* only in the two flags, for each has topics of its own: the states in which      *)
(* both kinds of call have begun are left unexplored.                             *)
EXTENDS Acks, TLC

CONSTANTS c1, p1, p2, p3

Peers == Permutations(Peer)

OneKindOfCall ==
    sending.pc = "start" \/ \A t \in Caller : waiter[t].pc = "idle"
===============================================================================
