----------------------------- MODULE MCFsmCalm -----------------------------
(* Instances of FsmCalm for TLC. *)
EXTENDS FsmCalm

CONSTANTS p1, x1

NoScript  == <<>>

\* fsm.h:9-13: the machine "updates the local stock and asks for publication by
\* MQTT": an addition to the stock is eventually published or stored.
AdditionReported == owed # {} ~> owed = {}
=============================================================================
