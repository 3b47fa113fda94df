-------------------------------- MODULE Fsm --------------------------------
(***************************************************************************)
(* The state machine of the LCD board (components/fsm/fsm.c) together with *)
(* the tasks that share its variables and its event queue:                 *)
(*   - FSM_TASK, the only consumer of fsm_event_queue (proyecto_final.c);   *)
(*   - the FreeRTOS timer daemon, which runs timeout_timer_callback;       *)
(*   - touchpad_task, which posts button events;                           *)
(*   - the Wi-Fi event task and the MQTT task, which post connection       *)
(*     events and queue the scans of the camera board;                     *)
(*   - MQTT_SCAN_DISPATCH and FAKE_QR_DEMO, which call fsm_on_qr_detected   *)
(*     and fsm_on_qr_invalid from their own stacks, with no lock.          *)
(* FSM_TASK, the dispatcher, the demo and the timer daemon have the same   *)
(* priority on one core, so the scheduler may switch between any two of    *)
(* their steps.  A transition is therefore two steps: the assignment of    *)
(* current_state (fsm_execute_transition, line 642) and the action it      *)
(* calls (line 651), and the body of fsm_on_qr_detected is four.           *)
(*                                                                         *)
(* Abstractions: a product is its id and its stock; screens, messages and  *)
(* log lines (so last_error and the idle screen timer) are left out;       *)
(* pending_queue is the number of its events, product_db its stock table.  *)
(***************************************************************************)
EXTENDS Integers, Sequences, FiniteSets

CONSTANTS
  Catalog,       \* ids of the products in product_db
  Foreign,       \* ids a camera may read that are not in product_db
  NoId,          \* the empty id: active_product after a memset
  QueueLen,      \* length of fsm_event_queue (20)
  ScanQueueLen,  \* MQTT_SCAN_QUEUE_LENGTH (10)
  PendingLen,    \* PENDING_QUEUE_SIZE (20)
  MaxQuantity,   \* largest quantity increment_quantity allows (99)
  MaxStock,      \* UINT32_MAX, above which product_db_add_stock fails
  Script,        \* what FAKE_QR_DEMO delivers, <<>> without the demo
  Inputs         \* the events the environment produces in an instance

Buttons    == {"BTN_UP", "BTN_DOWN", "BTN_SELECT", "BTN_EXIT"}
NetEvents  == {"WIFI_CONNECT_SUCCESS", "MQTT_CONNECT_SUCCESS",
               "MQTT_CONNECT_FAILURE"}
\* The events the actions of the machine post to their own queue.
AutoEvents == {"SCAN_SUCCESS", "SCAN_INVALID", "PRODUCT_FOUND",
               "PRODUCT_NOT_FOUND", "STOCK_UPDATED", "MQTT_PUBLISH_SUCCESS",
               "MQTT_PUBLISH_FAILURE"}
EventType  == Buttons \cup NetEvents \cup AutoEvents \cup {"QR_CAPTURED", "TIMEOUT"}

State == {"IDLE", "SCAN_PROCESSING", "LOCAL_DB_LOOKUP", "PROMPT_ADD_PRODUCT",
          "QUANTITY_SELECTION", "STOCK_UPDATING", "DISPLAY_PRODUCT_INFO",
          "MQTT_PUBLISHING", "ERROR_DISPLAY"}

Callers == {"dispatch", "demo"}

ASSUME ConstantsAssumption ==
  /\ QueueLen \in Nat \ {0} /\ ScanQueueLen \in Nat \ {0}
  /\ PendingLen \in Nat \ {0}
  /\ MaxQuantity \in Nat \ {0} /\ MaxStock \in Nat
  /\ NoId \notin Catalog \cup Foreign /\ Catalog \cap Foreign = {}
  /\ Script \in Seq(Catalog \cup Foreign \cup {NoId})
  /\ Inputs \subseteq Buttons \cup NetEvents

VARIABLES
  state,     \* current_state
  product,   \* active_product
  valid,     \* active_product_valid
  quantity,  \* selected_quantity
  action,    \* what FSM_TASK runs next: "receive" or the action of a transition
  queue,     \* fsm_event_queue
  timer,     \* s_timeout_timer as the last command left it
  firing,    \* the timer expired and its callback has not posted yet
  stock,     \* product_db
  owed,      \* history: products whose last confirmed stock was neither
             \* accepted by the MQTT client nor stored as pending
  connected, \* cliente_hivemq # NULL
  mqttTask,  \* "wait", or the connection event the MQTT task is about to post
  pending,   \* pending_queue_count()
  scanQueue, \* s_scan_queue
  call,      \* per caller, where it is in fsm_on_qr_detected / _invalid
  scan,      \* per caller, the id it is delivering (NoId: fsm_on_qr_invalid)
  script     \* what FAKE_QR_DEMO has left to deliver

fsmVars  == <<state, product, valid, quantity, action>>
netVars  == <<connected, mqttTask, scanQueue>>
callVars == <<call, scan, script>>
dbVars   == <<stock, owed, pending>>
vars == <<state, product, valid, quantity, action, queue, timer, firing, stock,
          owed, connected, mqttTask, pending, scanQueue, call, scan, script>>

NoProduct == [id |-> NoId, stock |-> 0]
Product   == [id : Catalog \cup Foreign \cup {NoId}, stock : 0..MaxStock]

-----------------------------------------------------------------------------
(* The transition table, a row per entry, and the queue.                   *)

Row(from, event, to, act) == [from |-> from, event |-> event, to |-> to, act |-> act]

transition_table ==
  { Row("IDLE", "QR_CAPTURED", "SCAN_PROCESSING", "handle_qr_scan"),
    Row("IDLE", "WIFI_CONNECT_SUCCESS", "IDLE", "handle_wifi_connected"),
    Row("IDLE", "MQTT_CONNECT_SUCCESS", "IDLE", "handle_mqtt_connected"),
    Row("IDLE", "MQTT_CONNECT_FAILURE", "IDLE", "handle_mqtt_disconnected"),
    Row("SCAN_PROCESSING", "SCAN_INVALID", "ERROR_DISPLAY", "handle_scan_invalid"),
    Row("SCAN_PROCESSING", "SCAN_SUCCESS", "LOCAL_DB_LOOKUP", "lookup_product"),
    Row("LOCAL_DB_LOOKUP", "PRODUCT_FOUND", "PROMPT_ADD_PRODUCT", "prompt_add_product"),
    Row("LOCAL_DB_LOOKUP", "PRODUCT_NOT_FOUND", "ERROR_DISPLAY", "handle_product_not_found"),
    Row("PROMPT_ADD_PRODUCT", "BTN_SELECT", "QUANTITY_SELECTION", "prompt_quantity_selection"),
    Row("PROMPT_ADD_PRODUCT", "BTN_EXIT", "IDLE", "cancel_add_product"),
    Row("PROMPT_ADD_PRODUCT", "TIMEOUT", "IDLE", "return_to_idle"),
    Row("QUANTITY_SELECTION", "BTN_UP", "QUANTITY_SELECTION", "increment_quantity"),
    Row("QUANTITY_SELECTION", "BTN_DOWN", "QUANTITY_SELECTION", "decrement_quantity"),
    Row("QUANTITY_SELECTION", "BTN_SELECT", "STOCK_UPDATING", "update_stock"),
    Row("QUANTITY_SELECTION", "BTN_EXIT", "IDLE", "cancel_add_product"),
    Row("STOCK_UPDATING", "STOCK_UPDATED", "DISPLAY_PRODUCT_INFO", "display_updated_product"),
    Row("STOCK_UPDATING", "SCAN_INVALID", "ERROR_DISPLAY", "handle_scan_invalid"),
    Row("DISPLAY_PRODUCT_INFO", "TIMEOUT", "MQTT_PUBLISHING", "execute_mqtt_publish"),
    Row("MQTT_PUBLISHING", "MQTT_PUBLISH_SUCCESS", "IDLE", "handle_mqtt_publish_success"),
    Row("MQTT_PUBLISHING", "MQTT_PUBLISH_FAILURE", "IDLE", "save_to_local_buffer"),
    Row("ERROR_DISPLAY", "TIMEOUT", "IDLE", "return_to_idle"),
    Row("ERROR_DISPLAY", "BTN_SELECT", "IDLE", "return_to_idle"),
    Row("ERROR_DISPLAY", "BTN_EXIT", "IDLE", "return_to_idle") }

Actions == {row.act : row \in transition_table}

\* Mutant: the search compares the event only.
Matching_AnyState(st, event) == {row \in transition_table : row.event = event}

Matching(st, event) == {row \in transition_table : row.from = st /\ row.event = event}

Room == Len(queue) < QueueLen

\* xQueueSend with a short wait: an event that finds no room is lost.
Posted(event) == IF Room THEN Append(queue, event) ELSE queue
Post(event)   == queue' = Posted(event)

-----------------------------------------------------------------------------
(* FSM_TASK: receive an event, run the action of its transition.           *)

\* fsm_execute_transition up to the call of the action.  Every event but
\* EV_TIMEOUT stops the hold timer, also one that matches no transition.
Receive ==
  /\ action = "receive" /\ queue # <<>>
  /\ queue' = Tail(queue)
  /\ timer' = IF Head(queue) = "TIMEOUT" THEN timer ELSE "off"
  /\ IF Matching(state, Head(queue)) = {}
     THEN UNCHANGED <<state, action>>
     ELSE \E row \in Matching(state, Head(queue)) : state' = row.to /\ action' = row.act
  /\ UNCHANGED <<product, valid, quantity, firing, dbVars, netVars, callVars>>

\* The frame of an action that ends the transition, and FSM_TASK receives again.
Runs(act) == /\ action = act /\ action' = "receive"
             /\ UNCHANGED <<state, firing, netVars, callVars>>

HasProduct == valid /\ product.id # NoId

HandleQrScan ==
  /\ Runs("handle_qr_scan")
  /\ Post(IF HasProduct THEN "SCAN_SUCCESS" ELSE "SCAN_INVALID")
  /\ UNCHANGED <<product, valid, quantity, timer, dbVars>>

\* guardar_pendiente: a full queue gives up its oldest event.
OnePending == IF pending < PendingLen THEN pending + 1 ELSE pending

\* procesar_y_publicar_error: an error that is not published is stored.
HandleScanInvalid ==
  /\ Runs("handle_scan_invalid")
  /\ timer' = "armed"
  /\ \/ connected /\ UNCHANGED pending
     \/ pending' = OnePending
  /\ UNCHANGED <<product, valid, quantity, queue, stock, owed>>

\* Mutant: nothing is posted for a product that is not registered.
LookupProduct_Silent ==
  /\ Runs("lookup_product")
  /\ IF HasProduct /\ product.id \in Catalog
     THEN Post("PRODUCT_FOUND") /\ product' = [product EXCEPT !.stock = stock[product.id]]
     ELSE UNCHANGED <<queue, product>>
  /\ UNCHANGED <<valid, quantity, timer, dbVars>>

LookupProduct ==
  /\ Runs("lookup_product")
  /\ IF ~HasProduct
     THEN Post("SCAN_INVALID") /\ UNCHANGED <<product, valid, quantity>>
     ELSE IF product.id \notin Catalog
     THEN Post("PRODUCT_NOT_FOUND") /\ UNCHANGED <<product, valid, quantity>>
     ELSE /\ Post("PRODUCT_FOUND")
          /\ product' = [product EXCEPT !.stock = stock[product.id]]
          /\ valid' = TRUE /\ quantity' = 1
  /\ UNCHANGED <<timer, dbVars>>

HandleProductNotFound ==
  /\ Runs("handle_product_not_found")
  /\ timer' = "armed"
  /\ UNCHANGED <<product, valid, quantity, queue, dbVars>>

\* Actions that only log or draw.
ShowOnly ==
  /\ \/ Runs("prompt_add_product")
     \/ Runs("handle_wifi_connected")
     \/ Runs("handle_mqtt_disconnected")
  /\ UNCHANGED <<product, valid, quantity, queue, timer, dbVars>>

PromptQuantitySelection ==
  /\ Runs("prompt_quantity_selection")
  /\ quantity' = 1
  /\ UNCHANGED <<product, valid, queue, timer, dbVars>>

IncrementQuantity ==
  /\ Runs("increment_quantity")
  /\ quantity' = IF quantity < MaxQuantity THEN quantity + 1 ELSE quantity
  /\ UNCHANGED <<product, valid, queue, timer, dbVars>>

\* Mutant: a quantity of one is decremented too.
DecrementQuantity_ToZero ==
  /\ Runs("decrement_quantity")
  /\ quantity' = IF quantity > 0 THEN quantity - 1 ELSE quantity
  /\ UNCHANGED <<product, valid, queue, timer, dbVars>>

DecrementQuantity ==
  /\ Runs("decrement_quantity")
  /\ quantity' = IF quantity > 1 THEN quantity - 1 ELSE quantity
  /\ UNCHANGED <<product, valid, queue, timer, dbVars>>

\* Mutant: product_db_add_stock without its overflow check.
CanAdd_Unchecked == valid /\ product.id \in Catalog

\* update_stock_with_selected_quantity.  product_db_add_stock refuses an
\* unknown id and an overflow, and undoes the addition when NVS fails.
CanAdd == valid /\ product.id \in Catalog /\ stock[product.id] + quantity <= MaxStock

\* Mutant: the result of product_db_add_stock is ignored.
UpdateStock_IgnoresResult ==
  /\ Runs("update_stock")
  /\ Post("STOCK_UPDATED")
  /\ \/ /\ CanAdd
        /\ stock' = [stock EXCEPT ![product.id] = @ + quantity]
        /\ owed' = owed \cup {product.id}
     \/ UNCHANGED <<stock, owed>>
  /\ UNCHANGED <<product, valid, quantity, timer, pending>>

\* Mutant: active_product is not refreshed with the updated product.
UpdateStock_KeepsProduct ==
  /\ Runs("update_stock")
  /\ \/ /\ CanAdd
        /\ stock' = [stock EXCEPT ![product.id] = @ + quantity]
        /\ owed' = owed \cup {product.id}
        /\ Post("STOCK_UPDATED")
     \/ Post("SCAN_INVALID") /\ UNCHANGED <<stock, owed>>
  /\ UNCHANGED <<product, valid, quantity, timer, pending>>

UpdateStock ==
  /\ Runs("update_stock")
  /\ \/ /\ CanAdd
        /\ stock' = [stock EXCEPT ![product.id] = @ + quantity]
        /\ product' = [product EXCEPT !.stock = stock[product.id] + quantity]
        /\ owed' = owed \cup {product.id}
        /\ Post("STOCK_UPDATED")
     \/ Post("SCAN_INVALID") /\ UNCHANGED <<stock, product, owed>>
  /\ UNCHANGED <<valid, quantity, timer, pending>>

DisplayUpdatedProduct ==
  /\ Runs("display_updated_product")
  /\ timer' = "armed"
  /\ UNCHANGED <<product, valid, quantity, queue, dbVars>>

\* procesar_y_publicar reads the stock again from product_db, by id, and needs a
\* client; the client may still refuse the message.
MayPublish == connected /\ product.id \in Catalog

\* Mutant: a publication that fails posts nothing.
ExecuteMqttPublish_NoFailure ==
  /\ Runs("execute_mqtt_publish")
  /\ \/ /\ MayPublish
        /\ owed' = owed \ {product.id}
        /\ Post("MQTT_PUBLISH_SUCCESS")
     \/ UNCHANGED <<owed, queue>>
  /\ UNCHANGED <<product, valid, quantity, timer, stock, pending>>

ExecuteMqttPublish ==
  /\ Runs("execute_mqtt_publish")
  /\ \/ /\ MayPublish
        /\ owed' = owed \ {product.id}
        /\ Post("MQTT_PUBLISH_SUCCESS")
     \/ Post("MQTT_PUBLISH_FAILURE") /\ UNCHANGED owed
  /\ UNCHANGED <<product, valid, quantity, timer, stock, pending>>

\* return_to_idle, alone or at the end of cancel_add_product,
\* handle_mqtt_publish_success and save_to_local_buffer.
ReturnToIdle ==
  /\ \/ Runs("return_to_idle")
     \/ Runs("cancel_add_product")
     \/ Runs("handle_mqtt_publish_success")
  /\ valid' = FALSE /\ quantity' = 1
  /\ UNCHANGED <<product, queue, timer, dbVars>>

\* Mutant: return_to_idle runs before the product is stored.
SaveToLocalBuffer_IdleFirst ==
  /\ action = "save_to_local_buffer" /\ action' = "return_to_idle"
  /\ valid' = FALSE
  /\ UNCHANGED <<state, product, quantity, queue, timer, firing, dbVars,
                 netVars, callVars>>

\* save_to_local_buffer up to its call of return_to_idle.  The event is in the
\* queue whether or not its save to NVS succeeds.
SaveToLocalBuffer ==
  /\ action = "save_to_local_buffer" /\ action' = "return_to_idle"
  /\ IF valid
     THEN /\ pending' = OnePending
          /\ owed' = IF product.id \in owed /\ product.stock = stock[product.id]
                     THEN owed \ {product.id} ELSE owed
     ELSE UNCHANGED <<pending, owed>>
  /\ UNCHANGED <<state, product, valid, quantity, queue, timer, firing, stock,
                 netVars, callVars>>

\* mqtt_handler_flush_pending, one round of its loop: stop without a client, at
\* the first event the client refuses, or when a pop cannot be saved.
FlushOne ==
  /\ action = "handle_mqtt_connected"
  /\ connected /\ pending > 0
  /\ pending' = pending - 1
  /\ action' \in {"handle_mqtt_connected", "receive"}
  /\ UNCHANGED <<state, product, valid, quantity, queue, timer, firing, stock,
                 owed, netVars, callVars>>

FlushEnds ==
  /\ Runs("handle_mqtt_connected")
  /\ UNCHANGED <<product, valid, quantity, queue, timer, dbVars>>

FsmTask ==
  \/ Receive \/ HandleQrScan \/ HandleScanInvalid \/ LookupProduct
  \/ HandleProductNotFound \/ ShowOnly \/ PromptQuantitySelection
  \/ IncrementQuantity \/ DecrementQuantity \/ UpdateStock
  \/ DisplayUpdatedProduct \/ ExecuteMqttPublish \/ ReturnToIdle
  \/ SaveToLocalBuffer \/ FlushOne \/ FlushEnds

-----------------------------------------------------------------------------
(* The timer daemon.  xTimerStop only sends a command: an expiry the daemon *)
(* has already taken up posts its EV_TIMEOUT whatever the machine does.     *)

TimerExpires ==
  /\ timer = "armed" /\ ~firing
  /\ timer' = "off" /\ firing' = TRUE
  /\ UNCHANGED <<fsmVars, queue, dbVars, netVars, callVars>>

TimeoutTimerCallback ==
  /\ firing /\ firing' = FALSE
  /\ Post("TIMEOUT")
  /\ UNCHANGED <<fsmVars, timer, dbVars, netVars, callVars>>

-----------------------------------------------------------------------------
(* The tasks that only post.                                               *)

\* touchpad_task; with no room the press is lost and nothing changes.
Touch ==
  /\ \E b \in Buttons \cap Inputs : Room /\ Post(b)
  /\ UNCHANGED <<fsmVars, timer, firing, dbVars, netVars, callVars>>

\* wifi_event_handler on IP_EVENT_STA_GOT_IP.
WifiGotIp ==
  /\ "WIFI_CONNECT_SUCCESS" \in Inputs /\ Room
  /\ Post("WIFI_CONNECT_SUCCESS")
  /\ UNCHANGED <<fsmVars, timer, firing, dbVars, netVars, callVars>>

\* MQTT_EVENT_CONNECTED: the client is set, the catalogue is published (which
\* takes a while) and then the event is posted.
MqttConnected ==
  /\ "MQTT_CONNECT_SUCCESS" \in Inputs /\ mqttTask = "wait" /\ ~connected
  /\ connected' = TRUE /\ mqttTask' = "MQTT_CONNECT_SUCCESS"
  /\ UNCHANGED <<fsmVars, queue, timer, firing, dbVars, scanQueue, callVars>>

\* MQTT_EVENT_DISCONNECTED, and a refused connection attempt.
MqttDisconnected ==
  /\ "MQTT_CONNECT_FAILURE" \in Inputs /\ mqttTask = "wait"
  /\ connected' = FALSE /\ mqttTask' = "MQTT_CONNECT_FAILURE"
  /\ UNCHANGED <<fsmVars, queue, timer, firing, dbVars, scanQueue, callVars>>

PostFsmEvent ==
  /\ mqttTask # "wait" /\ mqttTask' = "wait"
  /\ Post(mqttTask)
  /\ UNCHANGED <<fsmVars, timer, firing, dbVars, connected, scanQueue, callVars>>

\* enqueue_scan_for_fsm; a scan that finds no room is dropped.
EnqueueScan(id) ==
  Len(scanQueue) < ScanQueueLen /\ scanQueue' = Append(scanQueue, id)

\* MQTT_EVENT_DATA with a well-formed message of the camera board, whose ERROR
\* messages arrive as scans of an id that is not registered.
MqttData ==
  /\ connected /\ mqttTask = "wait"
  /\ \E id \in Catalog \cup Foreign : EnqueueScan(id)
  /\ UNCHANGED <<fsmVars, queue, timer, firing, dbVars, connected, mqttTask, callVars>>

-----------------------------------------------------------------------------
(* fsm_on_qr_detected and fsm_on_qr_invalid, run by their caller's task:   *)
(*   check -> clear (stop the timer, memset) -> fill -> post.              *)

At(c, from, to) == call[c] = from /\ call' = [call EXCEPT ![c] = to]

\* What a caller does when the call returned false: the dispatcher tries the
\* same scan again, the demo goes on to wait.
Refused(c) == IF c = "dispatch" THEN "check" ELSE "wait"
Returned(c) == IF c = "dispatch" THEN "none" ELSE "wait"

CheckIdle(c) ==
  /\ At(c, "check", IF state = "IDLE" THEN "clear" ELSE Refused(c))
  /\ UNCHANGED <<fsmVars, queue, timer, firing, dbVars, netVars, scan, script>>

ClearProduct(c) ==
  /\ At(c, "clear", "fill")
  /\ timer' = "off"
  /\ product' = NoProduct
  /\ UNCHANGED <<state, valid, quantity, action, queue, firing, dbVars, netVars,
                 scan, script>>

FillProduct(c) ==
  /\ At(c, "fill", "post")
  /\ product' = [id |-> scan[c], stock |-> 0]
  /\ valid' = (scan[c] # NoId)
  /\ UNCHANGED <<state, quantity, action, queue, timer, firing, dbVars, netVars,
                 scan, script>>

PostCaptured(c) ==
  /\ At(c, "post", IF Room THEN Returned(c) ELSE Refused(c))
  /\ Post("QR_CAPTURED")
  /\ UNCHANGED <<fsmVars, timer, firing, dbVars, netVars, scan, script>>

OnQr(c) == CheckIdle(c) \/ ClearProduct(c) \/ FillProduct(c) \/ PostCaptured(c)

\* scan_dispatch_task takes the next scan once the previous one is delivered.
DispatchReceive ==
  /\ scanQueue # <<>>
  /\ At("dispatch", "none", "check")
  /\ scan' = [scan EXCEPT !["dispatch"] = Head(scanQueue)]
  /\ scanQueue' = Tail(scanQueue)
  /\ UNCHANGED <<fsmVars, queue, timer, firing, dbVars, connected, mqttTask, script>>

\* fake_qr_demo_task starts its next call at any time ...
DemoCall ==
  /\ script # <<>>
  /\ At("demo", "none", "check")
  /\ scan' = [scan EXCEPT !["demo"] = Head(script)]
  /\ script' = Tail(script)
  /\ UNCHANGED <<fsmVars, queue, timer, firing, dbVars, netVars>>

\* ... after demo_wait_until_fsm_finishes_flow has seen the machine idle.
DemoWait ==
  /\ state = "IDLE"
  /\ At("demo", "wait", "none")
  /\ UNCHANGED <<fsmVars, queue, timer, firing, dbVars, netVars, scan, script>>

-----------------------------------------------------------------------------
Init ==
  /\ state = "IDLE" /\ product = NoProduct /\ valid = FALSE /\ quantity = 1
  /\ action = "receive" /\ queue = <<>>
  /\ timer = "off" /\ firing = FALSE
  /\ stock \in [Catalog -> 0..MaxStock] /\ owed = {}
  /\ connected = FALSE /\ mqttTask = "wait"
  /\ pending \in 0..PendingLen
  /\ scanQueue = <<>>
  /\ call = [c \in Callers |-> "none"] /\ scan = [c \in Callers |-> NoId]
  /\ script = Script

\* What happens to the board, and what its tasks do about it.
Environment == Touch \/ WifiGotIp \/ MqttConnected \/ MqttDisconnected \/ MqttData

Board ==
  \/ FsmTask
  \/ TimerExpires \/ TimeoutTimerCallback
  \/ PostFsmEvent
  \/ DispatchReceive \/ DemoCall \/ DemoWait
  \/ \E c \in Callers : OnQr(c)

Next == Environment \/ Board

\* Every task of the board is scheduled: equal priorities are time-sliced.
\* Nobody owes the board a button, a scan or a connection.
Fairness ==
  /\ WF_vars(FsmTask)
  /\ WF_vars(TimerExpires) /\ WF_vars(TimeoutTimerCallback)
  /\ WF_vars(PostFsmEvent)
  /\ WF_vars(DispatchReceive) /\ WF_vars(DemoCall) /\ WF_vars(DemoWait)
  /\ \A c \in Callers : WF_vars(OnQr(c))

Spec     == Init /\ [][Next]_vars
FairSpec == Spec /\ Fairness

-----------------------------------------------------------------------------
TypeOK ==
  /\ state \in State
  /\ product \in Product /\ valid \in BOOLEAN /\ quantity \in 1..MaxQuantity
  /\ action \in Actions \cup {"receive"}
  /\ queue \in Seq(EventType) /\ Len(queue) <= QueueLen
  /\ timer \in {"off", "armed"} /\ firing \in BOOLEAN
  /\ stock \in [Catalog -> 0..MaxStock] /\ owed \subseteq Catalog
  /\ connected \in BOOLEAN
  /\ mqttTask \in {"wait", "MQTT_CONNECT_SUCCESS", "MQTT_CONNECT_FAILURE"}
  /\ pending \in 0..PendingLen
  /\ scanQueue \in Seq(Catalog \cup Foreign) /\ Len(scanQueue) <= ScanQueueLen
  /\ call \in [Callers -> {"none", "wait", "check", "clear", "fill", "post"}]
  /\ scan \in [Callers -> Catalog \cup Foreign \cup {NoId}]
  /\ script \in Seq(Catalog \cup Foreign \cup {NoId})
-----------------------------------------------------------------------------
\* The events the action that entered a state may have left in the queue.
Awaits(st, event) ==
  \/ st = "SCAN_PROCESSING" /\ event \in {"SCAN_SUCCESS", "SCAN_INVALID"}
  \/ /\ st = "LOCAL_DB_LOOKUP"
     /\ event \in {"PRODUCT_FOUND", "PRODUCT_NOT_FOUND", "SCAN_INVALID"}
  \/ st = "STOCK_UPDATING" /\ event \in {"STOCK_UPDATED", "SCAN_INVALID"}
  \/ /\ st = "MQTT_PUBLISHING"
     /\ event \in {"MQTT_PUBLISH_SUCCESS", "MQTT_PUBLISH_FAILURE"}

\* An event the machine posted to itself is never late: it is the only one of
\* its kind in the queue and the machine still waits for it, whatever buttons,
\* timeouts, scans and connection events arrived meanwhile.  In particular the
\* "late MQTT ACK in IDLE" that fsm_execute_transition guards against (631-635)
\* does not happen.
AutoEventMatchesState ==
  \A i \in DOMAIN queue : queue[i] \in AutoEvents =>
    /\ action = "receive" /\ Awaits(state, queue[i])
    /\ \A j \in DOMAIN queue : queue[j] \in AutoEvents => j = i

\* No stray EV_TIMEOUT makes the machine publish: it shows or publishes an
\* updated product only after an addition to the stock that was not reported.
PublishFollowsUpdate ==
  (\/ state = "DISPLAY_PRODUCT_INFO" \/ action = "execute_mqtt_publish"
   \/ \E i \in DOMAIN queue : queue[i] = "STOCK_UPDATED")
  => owed # {}
=============================================================================
