------------------------------- MODULE MCFsm -------------------------------
(***************************************************************************)
(* Instances of Fsm for TLC: every interleaving of the tasks, and the      *)
(* statements of the source's comments that the interleavings break.       *)
(***************************************************************************)
EXTENDS Fsm

CONSTANTS p1, x1

NoScript   == <<>>
\* fake_qr_demo_task: a registered product, an unknown one, an invalid code.
DemoScript == <<p1, x1, NoId>>

\* proyecto_final.c and mqtt_handler.c deliver scans from other tasks; fsm.c:570
\* says the machine cannot process a QR unless it is idle, so a scan never
\* replaces the product of a flow in progress.
ProductKeptWhileBusy ==
  [][state # "IDLE" /\ state' # "IDLE" => product'.id = product.id]_vars

\* mqtt_handler.c:794-796: the machine flushes the pending queue when it
\* receives EV_MQTT_CONNECT_SUCCESS.
FlushOnConnect ==
  [][queue # <<>> /\ queue' = Tail(queue) /\ Head(queue) = "MQTT_CONNECT_SUCCESS"
       => action' = "handle_mqtt_connected"]_vars
=============================================================================
