---------------------------- MODULE MCConnections ----------------------------
(* Small instances of Connections for TLC.                                     *)
EXTENDS Connections, TLC

CONSTANTS peer, s1, s2, c1, c2, l1, l2

\* Connections, locks and goroutines are told apart by identity only.
Objects == Permutations(Conn) \cup Permutations(Lock) \cup Permutations(Sender)

\* Sends that give up on a full buffer.
NonBlocking == \A s \in Sender : ~sender[s].shouldBlock
=============================================================================
