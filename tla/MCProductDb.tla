----------------------------- MODULE MCProductDb -----------------------------
(* Instances of ProductDb for TLC. *)
EXTENDS ProductDb

CONSTANTS a, b, c

Colliding == a :> 1 @@ b :> 1 @@ c :> 2
Listed == <<b, a>>
=============================================================================
