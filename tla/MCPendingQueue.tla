-------------------------- MODULE MCPendingQueue --------------------------
(* Instances of PendingQueue for TLC. *)
EXTENDS PendingQueue, TLC

CONSTANTS e1, e2, e3, e4, e5

\* Events are only compared for equality.
Permuted == Permutations(Events)
=============================================================================
