---------------------------- MODULE MCPullEngine ----------------------------
(* The instance of PullEngine for TLC: one peer pulls one block from another.  *)
EXTENDS PullEngine, TLC

CONSTANTS a, b, n1, n2, x

\* A nonce is a random number.
Nonces == Permutations(Nonce)

\* Bound: a message of each of two rounds.
FewMessages == Cardinality(net) <= 2
=============================================================================
