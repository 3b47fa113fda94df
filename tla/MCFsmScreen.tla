---------------------------- MODULE MCFsmScreen ----------------------------
(* Instance of FsmScreen for TLC. *)
EXTENDS FsmScreen

CONSTANTS p1, x1

NoScript == <<>>
=============================================================================
