------------------------------ MODULE FsmCalm ------------------------------
(***************************************************************************)
(* The machine of Fsm when people scan one product at a time: the camera's *)
(* next scan arrives only after the LCD board has finished with the one    *)
(* before.  Buttons, timeouts, connections, disconnections, failed         *)
(* publications and full queues stay as they are in Fsm.  MCFsm shows what *)
(* goes wrong without this assumption; under it the machine implements     *)
(* Inventory.                                                              *)
(***************************************************************************)
EXTENDS Fsm

\* FAKE_QR_DEMO, which scans on its own, is not compiled in.
ASSUME NoDemoAssumption == Script = <<>>

Finished ==
  /\ state = "IDLE" /\ action = "receive"
  /\ scanQueue = <<>> /\ call["dispatch"] = "none"
  /\ \A i \in DOMAIN queue : queue[i] # "QR_CAPTURED"

CalmNext ==
  \/ Board
  \/ Touch \/ WifiGotIp \/ MqttConnected \/ MqttDisconnected
  \/ Finished /\ MqttData

CalmSpec == Init /\ [][CalmNext]_vars

\* Inputs at a human pace, so that fsm_event_queue never fills up: a button, a
\* scan or a change of the network comes when the queue is empty.
UnhurriedNext ==
  \/ Board
  \/ /\ queue = <<>>
     /\ \/ Touch \/ WifiGotIp \/ MqttConnected \/ MqttDisconnected
        \/ Finished /\ MqttData

UnhurriedSpec == Init /\ [][UnhurriedNext]_vars /\ Fairness

-----------------------------------------------------------------------------
Offering ==
  \/ state \in {"PROMPT_ADD_PRODUCT", "QUANTITY_SELECTION"}
  \/ state = "STOCK_UPDATING" /\ action = "update_stock"

Phase == CASE owed # {} -> "owing" [] owed = {} /\ Offering -> "offered"
           [] OTHER -> "idle"

Inv == INSTANCE Inventory WITH
         phase  <- Phase,
         item   <- IF Phase = "idle" THEN NoId ELSE product.id,
         amount <- IF Phase = "offered" THEN quantity ELSE 1

\* The machine does what Inventory promises: whatever the interleaving, it
\* offers registered products only, adds the chosen amount once, to the product
\* it offered, and never offers the next one while an addition is unreported.
ImplementsInventory == Inv!Spec

\* A confirmed addition is on its way to the network until it is accepted or
\* stored: its product is the active one, with the stock product_db holds, and
\* the machine is in a state that leads to publishing it or storing it.
AdditionInFlight ==
  owed # {} =>
    /\ owed = {product.id} /\ valid /\ product.stock = stock[product.id]
    /\ \/ state \in {"STOCK_UPDATING", "DISPLAY_PRODUCT_INFO", "MQTT_PUBLISHING"}
       \/ action = "save_to_local_buffer"

\* What the LCD shows in a flow is what product_db holds.
ShownIsStored ==
  state \in {"PROMPT_ADD_PRODUCT", "QUANTITY_SELECTION", "STOCK_UPDATING",
             "DISPLAY_PRODUCT_INFO", "MQTT_PUBLISHING"} =>
    valid /\ product.id \in Catalog /\ product.stock = stock[product.id]

\* A scan that reaches the LCD board is eventually answered on its screen.
ScanAnswered ==
  scanQueue # <<>> ~> state \in {"PROMPT_ADD_PRODUCT", "ERROR_DISPLAY"}

\* A publication that was asked for ends accepted or stored, connected or not.
PublishAnswered == state = "MQTT_PUBLISHING" ~> state = "IDLE" /\ owed = {}
=============================================================================
