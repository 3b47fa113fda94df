------------------------------ MODULE MCTableCalls ------------------------------
(* Instances of TableCalls for TLC. *)
EXTENDS TableCalls, TLC

CONSTANTS a, b, c, d

\* Three ids share a chain that wraps around, the fourth sits in its way.
Colliding == a :> 2 @@ b :> 2 @@ c :> 2 @@ d :> 0
=============================================================================
