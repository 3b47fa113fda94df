---------------------------- MODULE FsmCalm_proofs ----------------------------
(***************************************************************************)
(* FsmCalm and FsmScreen for every catalogue and every length of the       *)
(* queues.  FsmCalm: an addition is never lost on its way to the network,  *)
(* the LCD shows what product_db holds, and the machine implements         *)
(* Inventory.  FsmScreen: the screen the operator decides on is that of    *)
(* the flow, although the timer of the flow before may still be about to   *)
(* draw.                                                                   *)
(***************************************************************************)
EXTENDS FsmScreen, Fsm_proofs

InQueue(event) == \E i \in DOMAIN queue : queue[i] = event

\* The actions that end a flow.
Endings == {"return_to_idle", "cancel_add_product", "handle_mqtt_publish_success",
            "save_to_local_buffer"}

\* A flow has begun and return_to_idle has not ended it.
InFlow == state # "IDLE" \/ action \in Endings

\* FSM_TASK runs an action in the state its row of the table leads to.
Entered == action = "receive" \/ \E row \in transition_table : row.act = action /\ row.to = state

\* One QR_CAPTURED is in the queue at a time.
OneCapture ==
  \A i, j \in DOMAIN queue : queue[i] = "QR_CAPTURED" /\ queue[j] = "QR_CAPTURED" => i = j

\* A scan is in one place at a time: in s_scan_queue, in the hands of the
\* dispatcher, in the event queue, or it is the flow.
ScanInv ==
  /\ script = <<>> /\ call["demo"] = "none" /\ call["dispatch"] # "wait"
  /\ scanQueue # <<>> => call["dispatch"] = "none" /\ Len(scanQueue) = 1
  /\ scanQueue # <<>> \/ call["dispatch"] # "none" => ~InFlow /\ ~InQueue("QR_CAPTURED")
  /\ InQueue("QR_CAPTURED") => ~InFlow
  /\ OneCapture

\* The active product is registered and carries the stock product_db holds.
Current == valid /\ product.id \in Catalog /\ product.stock = stock[product.id]

FlowStates == {"PROMPT_ADD_PRODUCT", "QUANTITY_SELECTION", "STOCK_UPDATING",
               "DISPLAY_PRODUCT_INFO", "MQTT_PUBLISHING"}

ProductInv ==
  /\ (state \in FlowStates \/ InQueue("PRODUCT_FOUND") \/ action = "save_to_local_buffer")
       => Current
  /\ (state = "PROMPT_ADD_PRODUCT" \/ InQueue("PRODUCT_FOUND")
      \/ action = "prompt_quantity_selection") => quantity = 1

\* What is owed is the active product, from the addition until the client or the
\* pending queue has it.
OwedInv ==
  owed # {} =>
    /\ owed = {product.id}
    /\ \/ state = "STOCK_UPDATING" /\ action # "update_stock" /\ ~InQueue("SCAN_INVALID")
       \/ state = "DISPLAY_PRODUCT_INFO"
       \/ state = "MQTT_PUBLISHING" /\ ~InQueue("MQTT_PUBLISH_SUCCESS")
       \/ action = "save_to_local_buffer"

CalmInv == Entered /\ ScanInv /\ ProductInv /\ OwedInv

-----------------------------------------------------------------------------
\* Facts of the transition table: a flow is entered by QR_CAPTURED only, its
\* later states one after another, and the actions run in the states they belong
\* to.
LEMMA TableFlow ==
  ASSUME NEW row \in transition_table
  PROVE  /\ row.to \in FlowStates =>
              row.from \in FlowStates \/ row.event = "PRODUCT_FOUND"
         /\ row.to = "PROMPT_ADD_PRODUCT" => row.event = "PRODUCT_FOUND"
         /\ row.act = "prompt_quantity_selection" => row.from = "PROMPT_ADD_PRODUCT"
         /\ row.act = "save_to_local_buffer" => row.from = "MQTT_PUBLISHING"
BY SMTT(60) DEF transition_table, Row, FlowStates

LEMMA TableIdle ==
  ASSUME NEW row \in transition_table, row.from = "IDLE"
  PROVE  /\ row.event \in AutoEvents => FALSE
         /\ row.event # "QR_CAPTURED" => row.to = "IDLE" /\ row.act \notin Endings
BY SMTT(60) DEF transition_table, Row, Endings, AutoEvents

LEMMA TableEntered ==
  ASSUME NEW row \in transition_table
  PROVE  /\ row.act \in Endings => row.to = "IDLE"
         /\ row.act \in {"prompt_quantity_selection", "increment_quantity",
                         "decrement_quantity"} => row.to = "QUANTITY_SELECTION"
         /\ row.act # "receive"
BY SMTT(60) DEF transition_table, Row, Endings

\* From a confirmed addition the machine goes to the client or to the pending queue.
LEMMA TableOwed ==
  ASSUME NEW row \in transition_table
  PROVE  /\ row.from = "STOCK_UPDATING" =>
              \/ row.event = "STOCK_UPDATED" /\ row.to = "DISPLAY_PRODUCT_INFO"
              \/ row.event = "SCAN_INVALID"
         /\ row.from = "DISPLAY_PRODUCT_INFO" => row.to = "MQTT_PUBLISHING"
         /\ row.from = "MQTT_PUBLISHING" =>
              \/ row.event = "MQTT_PUBLISH_SUCCESS"
              \/ row.act = "save_to_local_buffer"
BY SMTT(60) DEF transition_table, Row

\* The machine offers a product after PRODUCT_FOUND and takes the offer on from
\* state to state.
LEMMA TableOffer ==
  ASSUME NEW row \in transition_table
  PROVE  /\ row.to \in {"PROMPT_ADD_PRODUCT", "QUANTITY_SELECTION"} \/ row.act = "update_stock" =>
              \/ row.from \in {"PROMPT_ADD_PRODUCT", "QUANTITY_SELECTION"}
              \/ row.event = "PRODUCT_FOUND" /\ row.to = "PROMPT_ADD_PRODUCT"
         /\ row.act = "update_stock" => row.to = "STOCK_UPDATING"
         /\ row.to = "STOCK_UPDATING" => row.act = "update_stock"
BY SMTT(60) DEF transition_table, Row

-----------------------------------------------------------------------------
(* The queue and the action.                                               *)

LEMMA EnteredStates ==
  Entered => /\ action \in Endings => state = "IDLE"
             /\ action \in {"prompt_quantity_selection", "increment_quantity",
                            "decrement_quantity"} => state = "QUANTITY_SELECTION"
<1>1. "receive" \notin Endings
  BY DEF Endings
<1> QED
  BY <1>1, TableEntered DEF Entered

LEMMA PostInQueue ==
  ASSUME TypeOK, NEW e \in EventType, Post(e), NEW f, f # e, InQueue(f)'
  PROVE  InQueue(f)
BY PostEntries DEF InQueue

LEMMA ReceiveInQueue ==
  ASSUME TypeOK, Receive, NEW f, InQueue(f)'
  PROVE  InQueue(f)
BY ReceiveEntries DEF InQueue

\* An event of the machine itself is in the queue only in a state that awaits it.
LEMMA InQueueAwaited ==
  ASSUME IInv, NEW e \in AutoEvents, InQueue(e)
  PROVE  action = "receive" /\ Awaits(state, e)
BY DEF IInv, AutoEventMatchesState, InQueue

LEMMA FoundInLookup ==
  IInv /\ InQueue("PRODUCT_FOUND") => action = "receive" /\ state = "LOCAL_DB_LOOKUP"
<1>1. "PRODUCT_FOUND" \in AutoEvents
  BY DEF AutoEvents
<1> QED
  BY <1>1, InQueueAwaited DEF Awaits

\* The product of a flow is not that of an idle machine.
LEMMA IdleHasNoProduct ==
  ASSUME IInv, ~InFlow
  PROVE  /\ state = "IDLE" /\ state \notin FlowStates
         /\ ~InQueue("PRODUCT_FOUND")
         /\ action # "save_to_local_buffer"
BY FoundInLookup DEF InFlow, Endings, FlowStates

LEMMA CalmIsNext == [CalmNext]_vars => [Next]_vars
BY DEF CalmNext, Next, Environment

-----------------------------------------------------------------------------
(* One scan at a time.                                                     *)

LEMMA PostOneCapture ==
  ASSUME TypeOK, NEW e \in EventType, Post(e), OneCapture,
         e # "QR_CAPTURED" \/ ~InQueue("QR_CAPTURED")
  PROVE  OneCapture'
BY PostEntries DEF OneCapture, InQueue

LEMMA ReceiveOneCapture ==
  ASSUME TypeOK, Receive, OneCapture
  PROVE  OneCapture' /\ (Head(queue) = "QR_CAPTURED" => ~InQueue("QR_CAPTURED")')
BY ReceiveEntries, HeadEntry DEF OneCapture, InQueue

\* A step of FSM_TASK that does not begin a flow.
LEMMA ScanWithinFlow ==
  ASSUME ScanInv, UNCHANGED <<scanQueue, call, script>>, InFlow' => InFlow,
         InQueue("QR_CAPTURED")' => InQueue("QR_CAPTURED"), OneCapture'
  PROVE  ScanInv'
BY DEF ScanInv

LEMMA ReceiveScan == IInv /\ CalmInv /\ Receive => ScanInv'
<1> SUFFICES ASSUME IInv, CalmInv, Receive PROVE ScanInv'
  OBVIOUS
<1>1. TypeOK /\ ScanInv /\ action = "receive"
  BY DEF IInv, CalmInv, Receive
<1>2. OneCapture' /\ (Head(queue) = "QR_CAPTURED" => ~InQueue("QR_CAPTURED")')
  BY <1>1, ReceiveOneCapture DEF ScanInv
<1>3. UNCHANGED <<scanQueue, call, script>>
  BY DEF Receive, netVars, callVars
<1>4. InQueue("QR_CAPTURED")' => InQueue("QR_CAPTURED")
  BY <1>1, ReceiveInQueue
<1>5. CASE Head(queue) = "QR_CAPTURED"
  <2>1. InQueue("QR_CAPTURED")
    BY <1>1, <1>5, HeadEntry DEF InQueue
  <2>2. scanQueue = <<>> /\ call["dispatch"] = "none"
    BY <1>1, <2>1 DEF ScanInv
  <2> QED
    BY <1>1, <1>2, <1>3, <1>5, <2>2 DEF ScanInv
<1>6. CASE Head(queue) # "QR_CAPTURED" /\ state = "IDLE"
  <2>1. CASE Matching(state, Head(queue)) = {}
    <3>1. UNCHANGED <<state, action>>
      BY <2>1 DEF Receive
    <3> QED
      BY <1>1, <1>2, <1>3, <1>4, <3>1, ScanWithinFlow DEF InFlow
  <2>2. CASE Matching(state, Head(queue)) # {}
    <3>1. PICK row \in Matching(state, Head(queue)) : state' = row.to /\ action' = row.act
      BY <2>2 DEF Receive
    <3>2. row \in transition_table /\ row.from = "IDLE" /\ row.event # "QR_CAPTURED"
      BY <1>6, <3>1 DEF Matching
    <3>3. state' = "IDLE" /\ action' \notin Endings
      BY <3>1, <3>2, TableIdle
    <3>4. ~InFlow'
      BY <3>3 DEF InFlow
    <3> QED
      BY <1>1, <1>2, <1>3, <1>4, <3>4, ScanWithinFlow
  <2> QED
    BY <2>1, <2>2
<1>7. CASE Head(queue) # "QR_CAPTURED" /\ state # "IDLE"
  BY <1>1, <1>2, <1>3, <1>4, <1>7, ScanWithinFlow DEF InFlow
<1> QED
  BY <1>5, <1>6, <1>7

LEMMA FsmTaskScan == IInv /\ CalmInv /\ FsmTask => ScanInv'
<1> SUFFICES ASSUME IInv, CalmInv, FsmTask PROVE ScanInv'
  OBVIOUS
<1>1. TypeOK /\ ScanInv
  BY DEF IInv, CalmInv
<1>2. CASE Receive
  BY <1>2, ReceiveScan
<1>3. CASE ~Receive
  <2>1. UNCHANGED <<state, scanQueue, call, script>>
    BY <1>3 DEF FsmTask, Runs, HandleQrScan, HandleScanInvalid, LookupProduct,
         HandleProductNotFound, ShowOnly, PromptQuantitySelection, IncrementQuantity,
         DecrementQuantity, UpdateStock, DisplayUpdatedProduct, ExecuteMqttPublish,
         ReturnToIdle, SaveToLocalBuffer, FlushOne, FlushEnds, netVars, callVars
  <2>2. /\ action' \in {"receive", "return_to_idle", "handle_mqtt_connected"}
        /\ action' = "return_to_idle" => action = "save_to_local_buffer"
    BY <1>3 DEF FsmTask, Runs, HandleQrScan, HandleScanInvalid, LookupProduct,
         HandleProductNotFound, ShowOnly, PromptQuantitySelection, IncrementQuantity,
         DecrementQuantity, UpdateStock, DisplayUpdatedProduct, ExecuteMqttPublish,
         ReturnToIdle, SaveToLocalBuffer, FlushOne, FlushEnds
  <2>3. InFlow' => InFlow
    BY <2>1, <2>2 DEF InFlow, Endings
  <2>4. UNCHANGED queue \/ \E e \in AutoEvents : Post(e)
    BY <1>3 DEF FsmTask, Runs, HandleQrScan, HandleScanInvalid, LookupProduct,
         HandleProductNotFound, ShowOnly, PromptQuantitySelection, IncrementQuantity,
         DecrementQuantity, UpdateStock, DisplayUpdatedProduct, ExecuteMqttPublish,
         ReturnToIdle, SaveToLocalBuffer, FlushOne, FlushEnds, AutoEvents
  <2>5. OneCapture' /\ (InQueue("QR_CAPTURED")' => InQueue("QR_CAPTURED"))
    <3>1. CASE UNCHANGED queue
      BY <3>1, <1>1 DEF ScanInv, OneCapture, InQueue
    <3>2. ASSUME NEW e \in AutoEvents, Post(e)
          PROVE  OneCapture' /\ (InQueue("QR_CAPTURED")' => InQueue("QR_CAPTURED"))
      BY <3>2, <1>1, EventsDistinct, PostInQueue, PostOneCapture DEF ScanInv
    <3> QED
      BY <2>4, <3>1, <3>2
  <2> QED
    BY <1>1, <2>1, <2>3, <2>5, ScanWithinFlow
<1> QED
  BY <1>2, <1>3

\* The steps of the other tasks, and what people and the network do.
Others ==
  \/ TimerExpires \/ TimeoutTimerCallback \/ PostFsmEvent
  \/ Touch \/ WifiGotIp \/ MqttConnected \/ MqttDisconnected
  \/ Finished /\ MqttData
  \/ DispatchReceive \/ DemoCall \/ DemoWait \/ \E c \in Callers : OnQr(c)

LEMMA CalmSteps == CalmNext => FsmTask \/ Others
BY DEF CalmNext, Board, Others

LEMMA OthersForeign == TypeOK /\ Others => Foreigner
BY OthersAreForeign DEF Others, Environment

\* A step of another task that is not about scans.
LEMMA ScanElsewhere ==
  ASSUME IInv, ScanInv, UNCHANGED <<scanQueue, call, script, state, action>>,
         UNCHANGED queue \/ \E e \in EventType \ {"QR_CAPTURED"} : Post(e)
  PROVE  ScanInv'
<1>1. InFlow' <=> InFlow
  BY DEF InFlow
<1>2. OneCapture' /\ (InQueue("QR_CAPTURED")' => InQueue("QR_CAPTURED"))
  <2>1. CASE UNCHANGED queue
    BY <2>1 DEF ScanInv, OneCapture, InQueue
  <2>2. ASSUME NEW e \in EventType \ {"QR_CAPTURED"}, Post(e)
        PROVE  OneCapture' /\ (InQueue("QR_CAPTURED")' => InQueue("QR_CAPTURED"))
    BY <2>2, PostInQueue, PostOneCapture DEF ScanInv, IInv
  <2> QED
    BY <2>1, <2>2
<1> QED
  BY <1>1, <1>2, ScanWithinFlow

LEMMA OthersScan == IInv /\ CalmInv /\ Others => ScanInv'
<1> SUFFICES ASSUME IInv, CalmInv, Others PROVE ScanInv'
  OBVIOUS
<1>1. TypeOK /\ ScanInv
  BY DEF IInv, CalmInv
<1>2. TypeOK'
  BY TypeStep, CalmIsNext DEF IInv, Others, CalmNext, Board
<1>3. UNCHANGED <<state, action>>
  BY <1>1, OthersForeign DEF Foreigner
<1>4. InFlow' <=> InFlow
  BY <1>3 DEF InFlow
<1> USE ConstantsAssumption DEF fsmVars, netVars, callVars
<1>5. CASE \/ TimerExpires \/ TimeoutTimerCallback \/ PostFsmEvent
           \/ Touch \/ WifiGotIp \/ MqttConnected \/ MqttDisconnected
  <2>1. UNCHANGED <<scanQueue, call, script>>
    BY <1>5 DEF TimerExpires, TimeoutTimerCallback, PostFsmEvent, Touch, WifiGotIp,
         MqttConnected, MqttDisconnected
  <2>2. CASE TimerExpires \/ MqttConnected \/ MqttDisconnected
    <3>1. UNCHANGED queue
      BY <2>2 DEF TimerExpires, MqttConnected, MqttDisconnected
    <3> QED
      BY <1>1, <1>3, <2>1, <3>1, ScanElsewhere
  <2>3. CASE TimeoutTimerCallback \/ PostFsmEvent \/ Touch \/ WifiGotIp
    <3>1. mqttTask # "wait" => mqttTask \in NetEvents
      BY <1>1 DEF TypeOK, NetEvents
    <3>2. NetEvents \cup Buttons \cup {"TIMEOUT", "WIFI_CONNECT_SUCCESS"}
            \subseteq EventType \ {"QR_CAPTURED"}
      BY DEF EventType, NetEvents, Buttons
    <3>3. \E e \in NetEvents \cup Buttons \cup {"TIMEOUT", "WIFI_CONNECT_SUCCESS"} : Post(e)
      BY <2>3, <3>1 DEF TimeoutTimerCallback, PostFsmEvent, Touch, WifiGotIp
    <3> QED
      BY <1>1, <1>3, <2>1, <3>2, <3>3, ScanElsewhere
  <2> QED
    BY <1>5, <2>2, <2>3
<1>6. CASE Finished /\ MqttData
  <2>1. UNCHANGED <<queue, call, script>>
    BY <1>6 DEF MqttData
  <2>2. scanQueue = <<>> /\ call["dispatch"] = "none" /\ ~InFlow /\ ~InQueue("QR_CAPTURED")
    BY <1>6 DEF Finished, InFlow, Endings, InQueue
  <2>3. Len(scanQueue') = 1
    BY <1>6, <2>2 DEF MqttData, EnqueueScan
  <2> QED
    BY <1>1, <1>4, <2>1, <2>2, <2>3 DEF ScanInv, InQueue, OneCapture
<1>7. CASE DispatchReceive
  <2>1. UNCHANGED <<queue, script>> /\ scanQueue # <<>> /\ scanQueue' = Tail(scanQueue)
        /\ call' = [call EXCEPT !["dispatch"] = "check"]
    BY <1>7 DEF DispatchReceive, At
  <2>2. scanQueue' = <<>>
    BY <1>1, <2>1 DEF ScanInv, TypeOK
  <2>3. call'["dispatch"] = "check" /\ call'["demo"] = call["demo"]
    BY <1>1, <2>1 DEF TypeOK, Callers
  <2> QED
    BY <1>1, <1>4, <2>1, <2>2, <2>3 DEF ScanInv, InQueue, OneCapture
<1>8. CASE DemoCall \/ DemoWait
  BY <1>1, <1>8 DEF DemoCall, DemoWait, At, ScanInv
<1>9. ASSUME NEW c \in Callers, OnQr(c) PROVE ScanInv'
  <2>1. call[c] # "none"
    BY <1>9 DEF OnQr, CheckIdle, ClearProduct, FillProduct, PostCaptured, At
  <2>2. c = "dispatch"
    BY <1>1, <2>1 DEF ScanInv, Callers
  <2>3. scanQueue = <<>> /\ ~InFlow /\ ~InQueue("QR_CAPTURED") /\ state = "IDLE"
    BY <1>1, <2>1, <2>2 DEF ScanInv, InFlow
  <2>4. UNCHANGED <<scanQueue, script>>
    BY <1>9 DEF OnQr, CheckIdle, ClearProduct, FillProduct, PostCaptured
  <2>5. CASE CheckIdle(c) \/ ClearProduct(c) \/ FillProduct(c)
    <3>1. UNCHANGED queue
      BY <2>5 DEF CheckIdle, ClearProduct, FillProduct
    <3>2. PICK to \in {"clear", "fill", "post"} : call' = [call EXCEPT !["dispatch"] = to]
      BY <2>2, <2>3, <2>5 DEF CheckIdle, ClearProduct, FillProduct, At
    <3>3. call'["dispatch"] = to /\ call'["demo"] = call["demo"]
      BY <1>1, <3>2 DEF TypeOK, Callers
    <3> QED
      BY <1>1, <1>4, <2>3, <2>4, <3>1, <3>3 DEF ScanInv, InQueue, OneCapture
  <2>6. CASE PostCaptured(c)
    <3>1. CASE Room
      <4>1. call' = [call EXCEPT !["dispatch"] = "none"] /\ Post("QR_CAPTURED")
        BY <2>2, <2>6, <3>1 DEF PostCaptured, At, Returned
      <4>2. call'["dispatch"] = "none" /\ call'["demo"] = call["demo"]
        BY <1>1, <4>1 DEF TypeOK, Callers
      <4>3. OneCapture'
        BY <1>1, <2>3, <4>1, EventsDistinct, PostOneCapture DEF ScanInv
      <4> QED
        BY <1>1, <1>4, <2>3, <2>4, <4>2, <4>3 DEF ScanInv
    <3>2. CASE ~Room
      <4>1. call' = [call EXCEPT !["dispatch"] = "check"] /\ UNCHANGED queue
        BY <2>2, <2>6, <3>2 DEF PostCaptured, At, Refused, Post, Posted
      <4>2. call'["dispatch"] = "check" /\ call'["demo"] = call["demo"]
        BY <1>1, <4>1 DEF TypeOK, Callers
      <4> QED
        BY <1>1, <1>4, <2>3, <2>4, <4>1, <4>2 DEF ScanInv, InQueue, OneCapture
    <3> QED
      BY <3>1, <3>2
  <2> QED
    BY <1>9, <2>5, <2>6 DEF OnQr
<1> QED
  BY <1>5, <1>6, <1>7, <1>8, <1>9 DEF Others

-----------------------------------------------------------------------------
(* The active product and what is owed.                                    *)

LEMMA AutoNames ==
  {"SCAN_SUCCESS", "SCAN_INVALID", "PRODUCT_FOUND", "PRODUCT_NOT_FOUND", "STOCK_UPDATED",
   "MQTT_PUBLISH_SUCCESS", "MQTT_PUBLISH_FAILURE"} \subseteq AutoEvents
BY DEF AutoEvents

LEMMA OthersKeepProduct ==
  ASSUME IInv, CalmInv, Others
  PROVE  /\ UNCHANGED <<state, action, quantity, stock, owed>>
         /\ UNCHANGED <<product, valid>> \/ ~InFlow
         /\ \A e \in AutoEvents : InQueue(e)' => InQueue(e)
<1>1. TypeOK /\ ScanInv
  BY DEF IInv, CalmInv
<1>2. UNCHANGED <<state, action, quantity, stock, owed>>
  BY DEF Others, TimerExpires, TimeoutTimerCallback, PostFsmEvent, Touch, WifiGotIp,
     MqttConnected, MqttDisconnected, MqttData, DispatchReceive, DemoCall, DemoWait, OnQr,
     CheckIdle, ClearProduct, FillProduct, PostCaptured, fsmVars, dbVars
<1>3. UNCHANGED <<product, valid>> \/ ~InFlow
  <2>1. ASSUME NEW c \in Callers, OnQr(c) PROVE ~InFlow
    <3>1. call[c] # "none"
      BY <2>1 DEF OnQr, CheckIdle, ClearProduct, FillProduct, PostCaptured, At
    <3> QED
      BY <1>1, <3>1 DEF ScanInv, Callers
  <2>2. CASE ~ \E c \in Callers : OnQr(c)
    BY <2>2 DEF Others, TimerExpires, TimeoutTimerCallback, PostFsmEvent, Touch, WifiGotIp,
       MqttConnected, MqttDisconnected, MqttData, DispatchReceive, DemoCall, DemoWait, fsmVars
  <2> QED
    BY <2>1, <2>2
<1>4. ASSUME NEW e \in AutoEvents PROVE InQueue(e)' => InQueue(e)
  <2>1. Foreigner
    BY <1>1, OthersForeign
  <2>2. CASE UNCHANGED queue
    BY <2>2 DEF InQueue
  <2>3. ASSUME NEW f \in EventType \ AutoEvents, Post(f)
        PROVE  InQueue(e)' => InQueue(e)
    BY <1>1, <2>3, PostInQueue
  <2> QED
    BY <2>1, <2>2, <2>3 DEF Foreigner
<1> QED
  BY <1>2, <1>3, <1>4

LEMMA CurrentKept ==
  ASSUME Current, product' = product, valid' = valid, stock' = stock
  PROVE  Current'
BY DEF Current

LEMMA OthersProduct == IInv /\ CalmInv /\ Others => ProductInv'
<1> SUFFICES ASSUME IInv, CalmInv, Others PROVE ProductInv'
  OBVIOUS
<1>1. /\ UNCHANGED <<state, action, quantity, stock, owed>>
      /\ InQueue("PRODUCT_FOUND")' => InQueue("PRODUCT_FOUND")
  BY OthersKeepProduct, AutoNames
<1>2. CASE UNCHANGED <<product, valid>>
  BY <1>1, <1>2, CurrentKept DEF CalmInv, ProductInv
<1>3. CASE ~InFlow
  BY <1>1, <1>3, IdleHasNoProduct DEF CalmInv, ProductInv
<1> QED
  BY <1>2, <1>3, OthersKeepProduct

LEMMA OthersOwed == IInv /\ CalmInv /\ Others => OwedInv'
<1> SUFFICES ASSUME IInv, CalmInv, Others PROVE OwedInv'
  OBVIOUS
<1>1. /\ UNCHANGED <<state, action, quantity, stock, owed>>
      /\ InQueue("SCAN_INVALID")' => InQueue("SCAN_INVALID")
      /\ InQueue("MQTT_PUBLISH_SUCCESS")' => InQueue("MQTT_PUBLISH_SUCCESS")
  BY OthersKeepProduct, AutoNames
<1>2. CASE UNCHANGED <<product, valid>>
  BY <1>1, <1>2 DEF CalmInv, OwedInv
<1>3. CASE ~InFlow
  BY <1>1, <1>3, IdleHasNoProduct DEF CalmInv, OwedInv
<1> QED
  BY <1>2, <1>3, OthersKeepProduct

\* FSM_TASK takes an event.
LEMMA ReceiveProduct == IInv /\ CalmInv /\ Receive => ProductInv' /\ OwedInv'
<1> SUFFICES ASSUME IInv, CalmInv, Receive PROVE ProductInv' /\ OwedInv'
  OBVIOUS
<1> DEFINE ev == Head(queue)
<1>1. /\ TypeOK /\ ProductInv /\ OwedInv /\ action = "receive"
      /\ UNCHANGED <<product, valid, quantity, stock, owed>>
  BY DEF IInv, CalmInv, Receive, dbVars
<1>2. \A e \in AutoEvents : InQueue(e)' => InQueue(e)
  BY <1>1, ReceiveInQueue
<1>3. InQueue(ev)
  BY <1>1, HeadEntry DEF InQueue
<1>4. CASE Matching(state, ev) = {}
  <2>1. UNCHANGED <<state, action>>
    BY <1>4 DEF Receive
  <2>2. ProductInv'
    BY <1>1, <1>2, <2>1, AutoNames DEF ProductInv, Current
  <2>3. OwedInv'
    BY <1>1, <1>2, <2>1, AutoNames DEF OwedInv
  <2> QED
    BY <2>2, <2>3
<1>5. CASE Matching(state, ev) # {}
  <2>1. PICK row \in Matching(state, ev) : state' = row.to /\ action' = row.act
    BY <1>5 DEF Receive
  <2>2. row \in transition_table /\ row.from = state /\ row.event = ev
    BY <2>1 DEF Matching
  \* No event of the machine itself stays behind.
  <2>3. \A e \in AutoEvents : ~InQueue(e)'
    <3>1. AutoEventMatchesState' /\ ActionFitsState'
      BY ReceiveStep
    <3>2. action' # "receive"
      BY <2>1, <2>2, TableEntered
    <3> QED
      BY <3>1, <3>2 DEF AutoEventMatchesState, InQueue
  <2>4. ProductInv'
    <3>1. CASE \/ state' \in FlowStates \/ action' = "save_to_local_buffer"
      <4>1. state \in FlowStates \/ ev = "PRODUCT_FOUND"
        BY <2>1, <2>2, <3>1, TableFlow DEF FlowStates
      <4>2. Current'
        BY <1>1, <1>3, <4>1 DEF ProductInv, Current
      <4>3. state' = "PROMPT_ADD_PRODUCT" => ev = "PRODUCT_FOUND"
        BY <2>1, <2>2, TableFlow
      <4>4. action' = "prompt_quantity_selection" => state = "PROMPT_ADD_PRODUCT"
        BY <2>1, <2>2, TableFlow
      <4> QED
        BY <1>1, <1>3, <2>3, <4>2, <4>3, <4>4, AutoNames DEF ProductInv
    <3>2. CASE ~(state' \in FlowStates \/ action' = "save_to_local_buffer")
      <4>1. state' # "PROMPT_ADD_PRODUCT"
        BY <3>2 DEF FlowStates
      <4>2. action' # "prompt_quantity_selection"
        BY <2>1, <2>2, <3>2, TableEntered DEF FlowStates
      <4> QED
        BY <2>3, <3>2, <4>1, <4>2, AutoNames DEF ProductInv
    <3> QED
      BY <3>1, <3>2
  <2>5. OwedInv'
    <3>1. SUFFICES ASSUME owed # {}
                   PROVE  \/ state' = "DISPLAY_PRODUCT_INFO"
                          \/ state' = "MQTT_PUBLISHING"
                          \/ action' = "save_to_local_buffer"
      BY <1>1, <2>3, AutoNames DEF OwedInv
    <3> QED
      BY <1>1, <1>3, <2>1, <2>2, <3>1, TableOwed DEF OwedInv
  <2> QED
    BY <2>4, <2>5
<1> QED
  BY <1>4, <1>5

\* An action that leaves the active product and its quantity alone.
LEMMA SilentProduct ==
  ASSUME IInv, CalmInv, action # "receive", action # "save_to_local_buffer",
         action' \in {"receive", "handle_mqtt_connected"},
         UNCHANGED <<state, queue, stock, owed>>,
         (product' = product /\ valid' = valid) \/ state \notin FlowStates,
         quantity' = quantity \/ state # "PROMPT_ADD_PRODUCT"
  PROVE  ProductInv' /\ OwedInv'
<1>1. ~InQueue("PRODUCT_FOUND")
  BY FoundInLookup
<1>2. ProductInv'
  <2>1. state' \in FlowStates => Current'
    BY CurrentKept DEF CalmInv, ProductInv
  <2> QED
    BY <1>1, <2>1 DEF CalmInv, ProductInv, InQueue
<1>3. OwedInv'
  <2>1. owed' # {} => state \in FlowStates
    BY DEF CalmInv, OwedInv, FlowStates
  <2> QED
    BY <2>1 DEF CalmInv, OwedInv, InQueue
<1> QED
  BY <1>2, <1>3

LEMMA UpdateProduct == IInv /\ CalmInv /\ UpdateStock => ProductInv' /\ OwedInv'
<1> SUFFICES ASSUME IInv, CalmInv, UpdateStock PROVE ProductInv' /\ OwedInv'
  OBVIOUS
<1>1. /\ TypeOK /\ action = "update_stock" /\ action' = "receive" /\ valid' = valid
      /\ UNCHANGED <<state, quantity>> /\ state = "STOCK_UPDATING"
  BY DEF IInv, ActionFitsState, UpdateStock, Runs
<1>2. Current /\ owed = {}
  BY <1>1 DEF CalmInv, ProductInv, OwedInv, FlowStates
<1>3. ~InQueue("PRODUCT_FOUND") /\ ~InQueue("SCAN_INVALID")
  BY <1>1, InQueueAwaited, AutoNames
<1>4. CASE /\ CanAdd
           /\ stock' = [stock EXCEPT ![product.id] = @ + quantity]
           /\ product' = [product EXCEPT !.stock = stock[product.id] + quantity]
           /\ owed' = owed \cup {product.id}
           /\ Post("STOCK_UPDATED")
  <2>1. product'.id = product.id /\ product'.stock = stock'[product.id]
    BY <1>1, <1>4 DEF TypeOK, Product, CanAdd
  <2>2. Current'
    BY <1>1, <1>2, <2>1 DEF Current
  <2>3. ~InQueue("PRODUCT_FOUND")' /\ ~InQueue("SCAN_INVALID")'
    BY <1>1, <1>3, <1>4, EventsDistinct, AutoNames, PostInQueue
  <2>4. ProductInv'
    BY <1>1, <2>2, <2>3 DEF ProductInv
  <2>5. OwedInv'
    BY <1>1, <1>2, <1>4, <2>1, <2>3 DEF OwedInv
  <2> QED
    BY <2>4, <2>5
<1>5. CASE Post("SCAN_INVALID") /\ UNCHANGED <<stock, product, owed>>
  <2>1. Current'
    BY <1>1, <1>2, <1>5, CurrentKept
  <2>2. ~InQueue("PRODUCT_FOUND")'
    BY <1>1, <1>3, <1>5, EventsDistinct, AutoNames, PostInQueue
  <2>3. ProductInv'
    BY <1>1, <2>1, <2>2 DEF ProductInv
  <2>4. OwedInv'
    BY <1>2, <1>5 DEF OwedInv
  <2> QED
    BY <2>3, <2>4
<1> QED
  BY <1>4, <1>5 DEF UpdateStock

LEMMA LookupKeeps == IInv /\ CalmInv /\ LookupProduct => ProductInv' /\ OwedInv'
<1> SUFFICES ASSUME IInv, CalmInv, LookupProduct PROVE ProductInv' /\ OwedInv'
  OBVIOUS
<1>1. /\ TypeOK /\ action = "lookup_product" /\ action' = "receive"
      /\ UNCHANGED <<state, stock, owed>> /\ state = "LOCAL_DB_LOOKUP"
  BY DEF IInv, ActionFitsState, LookupProduct, Runs, dbVars
<1>2. state' \notin FlowStates /\ owed' = {}
  BY <1>1 DEF CalmInv, OwedInv, FlowStates
<1>3. CASE HasProduct /\ product.id \in Catalog
  <2>1. /\ valid' = TRUE /\ quantity' = 1
        /\ product' = [product EXCEPT !.stock = stock[product.id]]
    BY <1>3 DEF LookupProduct
  <2>2. product'.id \in Catalog /\ product'.stock = stock'[product'.id]
    BY <1>1, <1>3, <2>1 DEF TypeOK, Product
  <2>3. valid'
    BY <2>1
  <2>4. Current'
    BY <2>2, <2>3 DEF Current
  <2>5. quantity' = 1
    BY <2>1
  <2>6. ProductInv'
    BY <2>4, <2>5 DEF ProductInv
  <2> QED
    BY <1>2, <2>6 DEF OwedInv
<1>4. CASE ~(HasProduct /\ product.id \in Catalog)
  <2>1. PICK e \in {"SCAN_INVALID", "PRODUCT_NOT_FOUND"} : Post(e)
    BY <1>4 DEF LookupProduct
  <2>2. ~InQueue("PRODUCT_FOUND")'
    BY <1>1, <2>1, FoundInLookup, EventsDistinct, AutoNames, PostInQueue
  <2>3. ProductInv'
    BY <1>1, <1>2, <2>2 DEF ProductInv
  <2> QED
    BY <1>2, <2>3 DEF OwedInv
<1> QED
  BY <1>3, <1>4

LEMMA PublishProduct == IInv /\ CalmInv /\ ExecuteMqttPublish => ProductInv' /\ OwedInv'
<1> SUFFICES ASSUME IInv, CalmInv, ExecuteMqttPublish PROVE ProductInv' /\ OwedInv'
  OBVIOUS
<1>1. /\ TypeOK /\ action = "execute_mqtt_publish" /\ action' = "receive"
      /\ UNCHANGED <<state, product, valid, quantity, stock>>
      /\ valid' = valid /\ state = "MQTT_PUBLISHING"
  BY DEF IInv, ActionFitsState, ExecuteMqttPublish, Runs
<1>2. ~InQueue("PRODUCT_FOUND") /\ ~InQueue("MQTT_PUBLISH_SUCCESS")
  BY <1>1, InQueueAwaited, AutoNames
<1>3. Current'
  BY <1>1, CurrentKept DEF CalmInv, ProductInv, FlowStates
<1>4. CASE owed' = owed \ {product.id} /\ Post("MQTT_PUBLISH_SUCCESS")
  <2>1. ~InQueue("PRODUCT_FOUND")'
    BY <1>1, <1>2, <1>4, EventsDistinct, AutoNames, PostInQueue
  <2>2. ProductInv'
    BY <1>1, <1>3, <2>1 DEF ProductInv
  <2>3. owed' = {}
    BY <1>4 DEF CalmInv, OwedInv
  <2> QED
    BY <2>2, <2>3 DEF OwedInv
<1>5. CASE Post("MQTT_PUBLISH_FAILURE") /\ UNCHANGED owed
  <2>1. ~InQueue("PRODUCT_FOUND")' /\ ~InQueue("MQTT_PUBLISH_SUCCESS")'
    BY <1>1, <1>2, <1>5, EventsDistinct, AutoNames, PostInQueue
  <2>2. ProductInv'
    BY <1>1, <1>3, <2>1 DEF ProductInv
  <2>3. OwedInv'
    BY <1>1, <1>5, <2>1 DEF CalmInv, OwedInv
  <2> QED
    BY <2>2, <2>3
<1> QED
  BY <1>4, <1>5 DEF ExecuteMqttPublish

\* The pending queue has the product, or nothing was owed.
LEMMA SavedIsNotOwed == IInv /\ CalmInv /\ SaveToLocalBuffer => owed' = {}
<1> SUFFICES ASSUME IInv, CalmInv, SaveToLocalBuffer PROVE owed' = {}
  OBVIOUS
<1>1. Current /\ OwedInv
  BY DEF CalmInv, ProductInv, SaveToLocalBuffer
<1>2. owed' = IF product.id \in owed /\ product.stock = stock[product.id]
              THEN owed \ {product.id} ELSE owed
  BY <1>1 DEF SaveToLocalBuffer, Current
<1> QED
  BY <1>1, <1>2 DEF OwedInv, Current

LEMMA SaveProduct == IInv /\ CalmInv /\ SaveToLocalBuffer => ProductInv' /\ OwedInv'
<1> SUFFICES ASSUME IInv, CalmInv, SaveToLocalBuffer PROVE ProductInv' /\ OwedInv'
  OBVIOUS
<1>1. /\ action = "save_to_local_buffer" /\ action' = "return_to_idle"
      /\ state' = "IDLE" /\ UNCHANGED queue
  BY DEF IInv, ActionFitsState, SaveToLocalBuffer
<1>2. ~InQueue("PRODUCT_FOUND")'
  BY <1>1, FoundInLookup DEF InQueue
<1>3. ProductInv'
  BY <1>1, <1>2 DEF ProductInv, FlowStates
<1> QED
  BY <1>3, SavedIsNotOwed DEF OwedInv

LEMMA FsmTaskProduct == IInv /\ CalmInv /\ FsmTask => ProductInv' /\ OwedInv'
<1> SUFFICES ASSUME IInv, CalmInv, FsmTask PROVE ProductInv' /\ OwedInv'
  OBVIOUS
<1>1. CASE Receive
  BY <1>1, ReceiveProduct
<1>2. CASE HandleScanInvalid \/ HandleProductNotFound \/ ShowOnly \/ DisplayUpdatedProduct
           \/ FlushEnds \/ FlushOne
  <2>1. /\ action # "receive" /\ action # "save_to_local_buffer"
        /\ action' \in {"receive", "handle_mqtt_connected"}
        /\ UNCHANGED <<state, queue, stock, owed>>
        /\ product' = product /\ valid' = valid /\ quantity' = quantity
    BY <1>2 DEF Runs, HandleScanInvalid, HandleProductNotFound, ShowOnly,
         DisplayUpdatedProduct, FlushEnds, FlushOne, dbVars
  <2> QED
    BY <2>1, SilentProduct
<1>3. CASE PromptQuantitySelection \/ IncrementQuantity \/ DecrementQuantity
  <2>1. /\ action \in {"prompt_quantity_selection", "increment_quantity", "decrement_quantity"}
        /\ action' = "receive" /\ UNCHANGED <<state, queue, stock, owed>>
        /\ product' = product /\ valid' = valid
    BY <1>3 DEF Runs, PromptQuantitySelection, IncrementQuantity, DecrementQuantity, dbVars
  <2>2. state = "QUANTITY_SELECTION"
    BY <2>1, EnteredStates DEF CalmInv
  <2> QED
    BY <2>1, <2>2, SilentProduct
<1>4. CASE ReturnToIdle
  <2>1. /\ action \in Endings \ {"save_to_local_buffer"} /\ action' = "receive"
        /\ UNCHANGED <<state, queue, stock, owed>>
    BY <1>4 DEF ReturnToIdle, Runs, Endings, dbVars
  <2>2. state = "IDLE"
    BY <2>1, EnteredStates DEF CalmInv
  <2>3. action # "receive"
    BY <2>1 DEF Endings
  <2> QED
    BY <2>1, <2>2, <2>3, SilentProduct DEF FlowStates
<1>5. CASE HandleQrScan
  <2>1. /\ action # "receive" /\ action' = "receive" /\ state' = "SCAN_PROCESSING"
        /\ state = "SCAN_PROCESSING" /\ owed' = owed /\ action # "save_to_local_buffer"
    BY <1>5 DEF HandleQrScan, Runs, IInv, ActionFitsState, dbVars
  <2>2. PICK e \in {"SCAN_SUCCESS", "SCAN_INVALID"} : Post(e)
    BY <1>5 DEF HandleQrScan
  <2>3. ~InQueue("PRODUCT_FOUND")'
    BY <2>1, <2>2, FoundInLookup, EventsDistinct, AutoNames, PostInQueue DEF IInv
  <2>4. ProductInv'
    BY <2>1, <2>3 DEF ProductInv, FlowStates
  <2> QED
    BY <2>1, <2>4 DEF CalmInv, OwedInv
<1>6. CASE LookupProduct
  BY <1>6, LookupKeeps
<1>7. CASE UpdateStock
  BY <1>7, UpdateProduct
<1>8. CASE ExecuteMqttPublish
  BY <1>8, PublishProduct
<1>9. CASE SaveToLocalBuffer
  BY <1>9, SaveProduct
<1> QED
  BY <1>1, <1>2, <1>3, <1>4, <1>5, <1>6, <1>7, <1>8, <1>9 DEF FsmTask

-----------------------------------------------------------------------------
(* The inductive invariant.                                                *)

LEMMA EnteredStep == IInv /\ CalmInv /\ [CalmNext]_vars => Entered'
<1> SUFFICES ASSUME IInv, CalmInv, [CalmNext]_vars PROVE Entered'
  OBVIOUS
<1>1. Entered /\ TypeOK
  BY DEF IInv, CalmInv
<1>2. CASE Receive
  <2>1. CASE Matching(state, Head(queue)) = {}
    BY <1>1, <1>2, <2>1 DEF Receive, Entered
  <2>2. CASE Matching(state, Head(queue)) # {}
    BY <1>2, <2>2 DEF Receive, Matching, Entered
  <2> QED
    BY <2>1, <2>2
<1>3. CASE SaveToLocalBuffer
  <2>1. action' = "return_to_idle" /\ state' = "IDLE"
    BY <1>3 DEF SaveToLocalBuffer, IInv, ActionFitsState
  <2>2. Row("PROMPT_ADD_PRODUCT", "TIMEOUT", "IDLE", "return_to_idle") \in transition_table
    BY DEF transition_table
  <2> QED
    BY <2>1, <2>2 DEF Entered, Row
<1>4. CASE FsmTask /\ ~Receive /\ ~SaveToLocalBuffer
  <2>1. state' = state /\ (action' = "receive" \/ action' = action)
    BY <1>4 DEF FsmTask, Runs, HandleQrScan, HandleScanInvalid, LookupProduct,
         HandleProductNotFound, ShowOnly, PromptQuantitySelection, IncrementQuantity,
         DecrementQuantity, UpdateStock, DisplayUpdatedProduct, ExecuteMqttPublish,
         ReturnToIdle, FlushOne, FlushEnds
  <2> QED
    BY <1>1, <2>1 DEF Entered
<1>5. CASE Others
  BY <1>1, <1>5, OthersForeign DEF Foreigner, Entered
<1>6. CASE UNCHANGED vars
  BY <1>1, <1>6 DEF vars, Entered
<1> QED
  BY <1>2, <1>3, <1>4, <1>5, <1>6, CalmSteps

LEMMA CalmInit == Init => CalmInv
<1> SUFFICES ASSUME Init PROVE CalmInv
  OBVIOUS
<1>1. ScanInv
  BY NoDemoAssumption DEF Init, ScanInv, OneCapture, InQueue, Callers
<1>2. ProductInv
  BY DEF Init, ProductInv, FlowStates, InQueue
<1> QED
  BY <1>1, <1>2 DEF Init, CalmInv, Entered, OwedInv

LEMMA CalmStutter == CalmInv /\ UNCHANGED vars => ScanInv' /\ ProductInv' /\ OwedInv'
<1> SUFFICES ASSUME CalmInv, UNCHANGED vars PROVE ScanInv' /\ ProductInv' /\ OwedInv'
  OBVIOUS
<1> USE DEF vars
<1>1. ScanInv'
  BY DEF CalmInv, ScanInv, OneCapture, InQueue, InFlow
<1>2. product' = product /\ valid' = valid /\ stock' = stock
  OBVIOUS
<1>3. Current => Current'
  BY <1>2, CurrentKept
<1>4. ProductInv'
  BY <1>3 DEF CalmInv, ProductInv, InQueue
<1>5. OwedInv'
  BY DEF CalmInv, OwedInv, InQueue
<1> QED
  BY <1>1, <1>4, <1>5

LEMMA CalmStep == IInv /\ CalmInv /\ [CalmNext]_vars => CalmInv'
<1> SUFFICES ASSUME IInv, CalmInv, [CalmNext]_vars PROVE CalmInv'
  OBVIOUS
<1>1. Entered'
  BY EnteredStep
<1>2. CASE FsmTask
  BY <1>1, <1>2, FsmTaskScan, FsmTaskProduct DEF CalmInv
<1>3. CASE Others
  BY <1>1, <1>3, OthersScan, OthersProduct, OthersOwed DEF CalmInv
<1>4. CASE UNCHANGED vars
  BY <1>1, <1>4, CalmStutter DEF CalmInv
<1> QED
  BY <1>2, <1>3, <1>4, CalmSteps

LEMMA CalmHolds == CalmSpec => [](IInv /\ CalmInv)
<1>1. Init => IInv /\ CalmInv
  BY IInvInit, CalmInit
<1>2. IInv /\ CalmInv /\ [CalmNext]_vars => (IInv /\ CalmInv)'
  BY IInvStep, CalmIsNext, CalmStep
<1> QED
  BY <1>1, <1>2, PTL DEF CalmSpec

\* When people scan one product at a time, an addition is never lost on its way
\* to the network: from update_stock_with_selected_quantity to the client's
\* acceptance or save_to_local_buffer, the product that was added is the active
\* one, with the stock product_db holds, and the machine is on the way there.
THEOREM AdditionsReachTheNetwork == CalmSpec => []AdditionInFlight
<1>1. IInv /\ CalmInv => AdditionInFlight
  <2> SUFFICES ASSUME IInv, CalmInv, owed # {}
               PROVE  /\ owed = {product.id} /\ Current
                      /\ \/ state \in {"STOCK_UPDATING", "DISPLAY_PRODUCT_INFO", "MQTT_PUBLISHING"}
                         \/ action = "save_to_local_buffer"
    BY DEF AdditionInFlight, Current
  <2>1. owed = {product.id}
    BY DEF CalmInv, OwedInv
  <2>2. \/ state \in {"STOCK_UPDATING", "DISPLAY_PRODUCT_INFO", "MQTT_PUBLISHING"}
        \/ action = "save_to_local_buffer"
    BY DEF CalmInv, OwedInv
  <2>3. Current
    BY <2>2 DEF CalmInv, ProductInv, FlowStates
  <2> QED
    BY <2>1, <2>2, <2>3
<1> QED
  BY <1>1, CalmHolds, PTL

\* From the prompt to the publication, the product the LCD shows is registered
\* and its stock is the one product_db holds: no scan, timeout or button slips in
\* between the look-up and the use of active_product.
THEOREM ScreenShowsTheStock == CalmSpec => []ShownIsStored
<1>1. IInv /\ CalmInv => ShownIsStored
  BY DEF CalmInv, ProductInv, FlowStates, Current, ShownIsStored
<1> QED
  BY <1>1, CalmHolds, PTL

-----------------------------------------------------------------------------
(* The machine implements Inventory.                                       *)

Item   == IF Phase = "idle" THEN NoId ELSE product.id
Amount == IF Phase = "offered" THEN quantity ELSE 1

LEMMA OfferingIs ==
  IInv /\ CalmInv =>
    /\ Offering => owed = {} /\ Current
    /\ state = "PROMPT_ADD_PRODUCT" => quantity = 1
    /\ action = "execute_mqtt_publish" => owed = {product.id}
    /\ state = "IDLE" /\ action # "save_to_local_buffer" => owed = {}
    /\ state \in {"SCAN_PROCESSING", "LOCAL_DB_LOOKUP"} => owed = {} /\ ~Offering
<1> SUFFICES ASSUME IInv, CalmInv
             PROVE  /\ Offering => owed = {} /\ Current
                    /\ state = "PROMPT_ADD_PRODUCT" => quantity = 1
                    /\ action = "execute_mqtt_publish" => owed = {product.id}
                    /\ state = "IDLE" /\ action # "save_to_local_buffer" => owed = {}
                    /\ state \in {"SCAN_PROCESSING", "LOCAL_DB_LOOKUP"} => owed = {} /\ ~Offering
  OBVIOUS
<1>1. action = "save_to_local_buffer" => state = "IDLE"
  BY DEF IInv, ActionFitsState
<1>2. Offering => owed = {} /\ Current
  BY <1>1 DEF Offering, CalmInv, OwedInv, ProductInv, FlowStates
<1>3. state = "PROMPT_ADD_PRODUCT" => quantity = 1
  BY DEF CalmInv, ProductInv
<1>4. action = "execute_mqtt_publish" => owed = {product.id}
  BY DEF IInv, PublishFollowsUpdate, CalmInv, OwedInv
<1>5. state = "IDLE" /\ action # "save_to_local_buffer" => owed = {}
  BY DEF CalmInv, OwedInv
<1>6. state \in {"SCAN_PROCESSING", "LOCAL_DB_LOOKUP"} => owed = {} /\ ~Offering
  BY <1>1 DEF CalmInv, OwedInv, Offering
<1> QED
  BY <1>2, <1>3, <1>4, <1>5, <1>6

\* A step that Inventory does not see.
LEMMA Unseen ==
  ASSUME owed' = owed, stock' = stock, Offering' <=> Offering,
         Phase # "idle" => product'.id = product.id,
         Phase = "offered" => quantity' = quantity
  PROVE  UNCHANGED <<Phase, Item, Amount, stock>>
BY DEF Phase, Item, Amount

LEMMA ReceiveInventory ==
  ASSUME IInv, CalmInv, Receive
  PROVE  Inv!Next \/ UNCHANGED <<Phase, Item, Amount, stock>>
<1>1. /\ action = "receive" /\ owed' = owed /\ stock' = stock /\ product' = product
      /\ quantity' = quantity
  BY DEF Receive, dbVars
<1>2. CASE Offering' <=> Offering
  BY <1>1, <1>2, Unseen
<1>3. CASE Offering /\ ~Offering'
  <2>1. Phase = "offered" /\ Phase' = "idle"
    BY <1>1, <1>3, OfferingIs DEF Phase
  <2>2. Item' = NoId /\ Amount' = 1
    BY <2>1 DEF Item, Amount
  <2> QED
    BY <1>1, <2>1, <2>2 DEF Inv!Next, Inv!Cancel, Item, Amount
<1>4. CASE ~Offering /\ Offering'
  <2>1. Matching(state, Head(queue)) # {}
    BY <1>1, <1>4 DEF Receive, Offering
  <2>2. PICK row \in Matching(state, Head(queue)) : state' = row.to /\ action' = row.act
    BY <2>1 DEF Receive
  <2>3. row \in transition_table /\ row.from = state /\ row.event = Head(queue)
    BY <2>2 DEF Matching
  <2>4. Head(queue) = "PRODUCT_FOUND" /\ state' = "PROMPT_ADD_PRODUCT"
    BY <1>4, <2>2, <2>3, TableOffer DEF Offering
  <2>5. InQueue("PRODUCT_FOUND")
    BY <2>4, HeadEntry DEF InQueue, IInv
  <2>6. state = "LOCAL_DB_LOOKUP" /\ Current /\ quantity = 1
    BY <2>5, FoundInLookup DEF CalmInv, ProductInv
  <2>7. owed = {}
    BY <2>6, OfferingIs
  <2>8. Phase = "idle" /\ Phase' = "offered"
    BY <1>1, <1>4, <2>7 DEF Phase
  <2>9. Item' = product.id /\ product.id \in Catalog /\ Amount = 1 /\ Amount' = 1
    BY <1>1, <2>6, <2>8 DEF Item, Amount, Current
  <2> QED
    BY <1>1, <2>8, <2>9 DEF Inv!Next, Inv!Offer, Item, Amount
<1> QED
  BY <1>2, <1>3, <1>4

LEMMA UpdateInventory ==
  ASSUME IInv, CalmInv, UpdateStock
  PROVE  Inv!Next \/ UNCHANGED <<Phase, Item, Amount, stock>>
<1>1. /\ TypeOK /\ action = "update_stock" /\ action' = "receive"
      /\ state = "STOCK_UPDATING" /\ state' = "STOCK_UPDATING"
  BY DEF IInv, ActionFitsState, UpdateStock, Runs
<1>2. Offering /\ owed = {} /\ Current /\ ~Offering'
  BY <1>1, OfferingIs DEF Offering
<1>3. Phase = "offered" /\ Item = product.id /\ Amount = quantity
  BY <1>2 DEF Phase, Item, Amount
<1>4. CASE /\ CanAdd
           /\ stock' = [stock EXCEPT ![product.id] = @ + quantity]
           /\ product' = [product EXCEPT !.stock = stock[product.id] + quantity]
           /\ owed' = owed \cup {product.id}
  <2>1. product'.id = product.id
    BY <1>1, <1>4 DEF TypeOK, Product
  <2>2. Phase' = "owing"
    BY <1>4 DEF Phase
  <2>3. Item' = product.id /\ Amount' = 1
    BY <2>1, <2>2 DEF Item, Amount
  <2>4. stock[product.id] + quantity <= MaxStock
    BY <1>4 DEF CanAdd
  <2> QED
    BY <1>3, <1>4, <2>2, <2>3, <2>4 DEF Inv!Next, Inv!Commit, Item, Amount
<1>5. CASE UNCHANGED <<stock, product, owed>>
  <2>1. Phase' = "idle"
    BY <1>2, <1>5 DEF Phase
  <2>2. Item' = NoId /\ Amount' = 1
    BY <2>1 DEF Item, Amount
  <2> QED
    BY <1>3, <1>5, <2>1, <2>2 DEF Inv!Next, Inv!Cancel, Item, Amount
<1> QED
  BY <1>4, <1>5 DEF UpdateStock

\* What is reported has been taken by the client or stored as pending.
LEMMA ReportInventory ==
  ASSUME owed # {}, owed' = {}, ~Offering', stock' = stock
  PROVE  Inv!Next
<1>1. Phase = "owing" /\ Phase' = "idle"
  BY DEF Phase
<1>2. Item' = NoId /\ Amount = 1 /\ Amount' = 1
  BY <1>1 DEF Item, Amount
<1> QED
  BY <1>1, <1>2 DEF Inv!Next, Inv!Report, Item, Amount

LEMMA QuantityInventory ==
  ASSUME IInv, CalmInv, IncrementQuantity \/ DecrementQuantity
  PROVE  Inv!Next \/ UNCHANGED <<Phase, Item, Amount, stock>>
<1>1. /\ TypeOK /\ action \in {"increment_quantity", "decrement_quantity"}
      /\ state' = state /\ product' = product /\ owed' = owed /\ stock' = stock
  BY DEF IInv, IncrementQuantity, DecrementQuantity, Runs, dbVars
<1>2. state = "QUANTITY_SELECTION"
  BY <1>1, EnteredStates DEF CalmInv
<1>3. Offering /\ Offering' /\ owed = {}
  BY <1>1, <1>2, OfferingIs DEF Offering
<1>4. /\ Phase = "offered" /\ Phase' = "offered" /\ Item' = Item
      /\ Amount = quantity /\ Amount' = quantity'
  BY <1>1, <1>3 DEF Phase, Item, Amount
<1>5. quantity' = quantity \/ quantity' \in {quantity - 1, quantity + 1} \cap 1..MaxQuantity
  BY <1>1, ConstantsAssumption DEF IncrementQuantity, DecrementQuantity, TypeOK
<1> QED
  BY <1>1, <1>4, <1>5 DEF Inv!Next, Inv!Adjust, Item, Amount

LEMMA FsmTaskInventory ==
  ASSUME IInv, CalmInv, FsmTask
  PROVE  Inv!Next \/ UNCHANGED <<Phase, Item, Amount, stock>>
<1>1. CASE Receive
  BY <1>1, ReceiveInventory
<1>2. CASE HandleQrScan \/ HandleScanInvalid \/ HandleProductNotFound \/ ShowOnly
           \/ DisplayUpdatedProduct \/ FlushEnds \/ FlushOne
  <2>1. /\ action # "update_stock" /\ action' # "update_stock" /\ state' = state
        /\ owed' = owed /\ stock' = stock /\ product' = product /\ quantity' = quantity
    BY <1>2 DEF Runs, HandleQrScan, HandleScanInvalid, HandleProductNotFound, ShowOnly,
         DisplayUpdatedProduct, FlushEnds, FlushOne, dbVars
  <2>2. Offering' <=> Offering
    BY <2>1 DEF Offering
  <2> QED
    BY <2>1, <2>2, Unseen
<1>3. CASE LookupProduct
  <2>1. /\ state = "LOCAL_DB_LOOKUP" /\ state' = state /\ owed' = owed /\ stock' = stock
    BY <1>3 DEF LookupProduct, Runs, IInv, ActionFitsState, dbVars
  <2>2. ~Offering /\ ~Offering' /\ Phase = "idle"
    BY <2>1, OfferingIs DEF Offering, Phase
  <2> QED
    BY <2>1, <2>2, Unseen
<1>4. CASE PromptQuantitySelection
  <2>1. /\ action = "prompt_quantity_selection" /\ action' = "receive" /\ state' = state
        /\ owed' = owed /\ stock' = stock /\ product' = product /\ quantity' = 1
    BY <1>4 DEF PromptQuantitySelection, Runs, dbVars
  <2>2. quantity = 1
    BY <2>1 DEF CalmInv, ProductInv
  <2>3. Offering' <=> Offering
    BY <2>1 DEF Offering
  <2> QED
    BY <2>1, <2>2, <2>3, Unseen
<1>5. CASE IncrementQuantity \/ DecrementQuantity
  BY <1>5, QuantityInventory
<1>6. CASE UpdateStock
  BY <1>6, UpdateInventory
<1>7. CASE ExecuteMqttPublish
  <2>1. /\ action = "execute_mqtt_publish" /\ action' = "receive" /\ state' = state
        /\ state = "MQTT_PUBLISHING" /\ stock' = stock /\ product' = product
        /\ quantity' = quantity
    BY <1>7 DEF ExecuteMqttPublish, Runs, IInv, ActionFitsState
  <2>2. owed = {product.id} /\ ~Offering /\ ~Offering'
    BY <2>1, OfferingIs DEF Offering
  <2>3. CASE owed' = owed \ {product.id}
    BY <2>1, <2>2, <2>3, ReportInventory
  <2>4. CASE owed' = owed
    BY <2>1, <2>2, <2>4, Unseen
  <2> QED
    BY <1>7, <2>3, <2>4 DEF ExecuteMqttPublish
<1>8. CASE ReturnToIdle
  <2>1. /\ action \in Endings \ {"save_to_local_buffer"} /\ action' = "receive"
        /\ state' = state /\ owed' = owed /\ stock' = stock
    BY <1>8 DEF ReturnToIdle, Runs, Endings, dbVars
  <2>2. state = "IDLE"
    BY <2>1, EnteredStates DEF CalmInv
  <2>3. owed = {} /\ ~Offering /\ ~Offering' /\ Phase = "idle"
    BY <2>1, <2>2, OfferingIs DEF Offering, Phase
  <2> QED
    BY <2>1, <2>3, Unseen
<1>9. CASE SaveToLocalBuffer
  <2>1. /\ state = "IDLE" /\ state' = "IDLE" /\ stock' = stock /\ owed' = {}
        /\ product' = product
    BY <1>9, SavedIsNotOwed DEF SaveToLocalBuffer, IInv, ActionFitsState
  <2>2. ~Offering /\ ~Offering'
    BY <2>1 DEF Offering
  <2>3. CASE owed = {}
    <3>1. Phase = "idle"
      BY <2>2, <2>3 DEF Phase
    <3> QED
      BY <2>1, <2>2, <2>3, <3>1, Unseen
  <2>4. CASE owed # {}
    BY <2>1, <2>2, <2>4, ReportInventory
  <2> QED
    BY <2>3, <2>4
<1> QED
  BY <1>1, <1>2, <1>3, <1>4, <1>5, <1>6, <1>7, <1>8, <1>9 DEF FsmTask

LEMMA OthersInventory ==
  ASSUME IInv, CalmInv, Others
  PROVE  UNCHANGED <<Phase, Item, Amount, stock>>
<1>1. /\ UNCHANGED <<state, action, quantity, stock, owed>>
      /\ product' = product \/ ~InFlow
  BY OthersKeepProduct
<1>2. Offering' <=> Offering
  BY <1>1 DEF Offering
<1>3. ~InFlow => Phase = "idle"
  <2>1. ~InFlow => state = "IDLE" /\ action # "save_to_local_buffer"
    BY DEF InFlow, Endings
  <2> QED
    BY <2>1, OfferingIs DEF Phase, Offering
<1> QED
  BY <1>1, <1>2, <1>3, Unseen

LEMMA InventoryStep ==
  IInv /\ CalmInv /\ [CalmNext]_vars => [Inv!Next]_(Inv!vars)
<1> SUFFICES ASSUME IInv, CalmInv, [CalmNext]_vars
             PROVE  Inv!Next \/ UNCHANGED <<Phase, Item, Amount, stock>>
  BY DEF Inv!vars, Item, Amount
<1>1. CASE FsmTask
  BY <1>1, FsmTaskInventory
<1>2. CASE Others
  BY <1>2, OthersInventory
<1>3. CASE UNCHANGED vars
  <2>1. Offering' <=> Offering
    BY <1>3 DEF vars, Offering
  <2> QED
    BY <1>3, <2>1, Unseen DEF vars
<1> QED
  BY <1>1, <1>2, <1>3, CalmSteps

LEMMA InventoryInit == Init => Inv!Init
<1> SUFFICES ASSUME Init PROVE Inv!Init
  OBVIOUS
<1>1. Phase = "idle"
  BY DEF Init, Phase, Offering
<1> QED
  BY <1>1 DEF Init, Inv!Init

\* When people scan one product at a time, the board does what Inventory
\* promises, for every catalogue, quantity and length of the queues: it offers
\* registered products only, adds the chosen amount once and to the product it
\* offered, and reports it before the next offer.
THEOREM MachineIsInventory == CalmSpec => ImplementsInventory
BY InventoryInit, InventoryStep, CalmHolds, PTL DEF CalmSpec, ImplementsInventory, Inv!Spec

-----------------------------------------------------------------------------
(* FsmScreen.                                                              *)

\* The states whose screen the operator reads.
ShowStates == {"PROMPT_ADD_PRODUCT", "QUANTITY_SELECTION", "DISPLAY_PRODUCT_INFO",
               "ERROR_DISPLAY"}

\* The callback that may still draw has looked at an idle machine, so the action
\* of every later state comes after its look.
CallbackInv ==
  idleCallback = "checked" /\ ~overtaken /\ state \in ShowStates => action # "receive"

ScreenInv == IInv /\ CalmInv /\ CallbackInv /\ ScreenAgrees

allVars == <<vars, screenVars>>

-----------------------------------------------------------------------------
\* Every state with a screen is entered by an action that draws it.
LEMMA TableDraws ==
  ASSUME NEW row \in transition_table
  PROVE  /\ row.to \in {"PROMPT_ADD_PRODUCT", "QUANTITY_SELECTION"} => row.act \in DrawsProduct
         /\ row.to = "DISPLAY_PRODUCT_INFO" => row.act = "display_updated_product"
         /\ row.to = "ERROR_DISPLAY" => row.act \in DrawsError
BY SMTT(60) DEF transition_table, Row, DrawsProduct, DrawsError

LEMMA ShownActions ==
  CalmInv /\ action # "receive" =>
    /\ state \in {"PROMPT_ADD_PRODUCT", "QUANTITY_SELECTION"} => action \in DrawsProduct
    /\ state = "DISPLAY_PRODUCT_INFO" => action = "display_updated_product"
    /\ state = "ERROR_DISPLAY" => action \in DrawsError
BY TableDraws DEF CalmInv, Entered

LEMMA ScreenSteps ==
  [ScreenNext]_allVars => \/ CalmNext /\ ScreenFollows
                          \/ IdleScreen
                          \/ UNCHANGED allVars
BY DEF ScreenNext

\* The machine itself never notices the screen.
LEMMA MachineGoesOn ==
  ASSUME IInv, CalmInv, [ScreenNext]_allVars
  PROVE  [CalmNext]_vars /\ IInv' /\ CalmInv'
<1>1. [CalmNext]_vars
  BY ScreenSteps DEF IdleScreen, IdleTimerExpires, IdleCallbackChecks, IdleCallbackDraws, allVars
<1> QED
  BY <1>1, CalmIsNext, IInvStep, CalmStep

\* The texts of the drawing actions.
LEMMA DrawnTexts ==
  /\ \A act \in DrawsProduct : act \in Draws /\ Drawn(act) = {ProductText}
  /\ Drawn("display_updated_product") = {AddedText} /\ "display_updated_product" \in Draws
  /\ \A act \in DrawsError : act \in Draws /\ Drawn(act) = {Text("error")}
<1>1. \A act \in DrawsError : act \notin DrawsProduct /\ act # "display_updated_product"
                                /\ act # "cancel_add_product"
  BY DEF DrawsProduct, DrawsError
<1>2. "display_updated_product" \notin DrawsProduct
  BY DEF DrawsProduct
<1> QED
  BY <1>1, <1>2 DEF Draws, Drawn, DrawsProduct, DrawsError

\* An action runs and FSM_TASK receives again.
LEMMA ActionDraws ==
  ASSUME ScreenInv, CalmInv', action # "receive", action' = "receive", state' = state,
         ScreenFollows, stock' = stock
  PROVE  CallbackInv' /\ ScreenAgrees'
<1>1. RunsAction
  BY DEF RunsAction
<1>2. state \in ShowStates => action \in Draws
  BY ShownActions, DrawnTexts DEF ScreenInv, ShowStates
<1>3. state \in ShowStates => screen' \in Drawn(action)
  BY <1>1, <1>2 DEF ScreenFollows, Draw
<1>4. state \in ShowStates => overtaken' = (idleCallback = "checked")
  BY <1>1, <1>2 DEF ScreenFollows, Draw
<1>5. idleCallback' = idleCallback
  BY DEF ScreenFollows
<1>6. CallbackInv'
  BY <1>4, <1>5 DEF CallbackInv
<1>7. state \in FlowStates => product'.stock = stock'[product'.id]
  BY DEF CalmInv, ProductInv, Current
<1>8. state \in {"PROMPT_ADD_PRODUCT", "QUANTITY_SELECTION"} =>
        screen' = [title |-> "product", id |-> product'.id,
                   stock |-> stock'[product'.id], amount |-> quantity']
  BY <1>3, <1>7, ShownActions, DrawnTexts DEF ScreenInv, ProductText, ShowStates, FlowStates
<1>9. state = "DISPLAY_PRODUCT_INFO" =>
        screen' = [title |-> "added", id |-> product'.id,
                   stock |-> stock'[product'.id], amount |-> 0]
  BY <1>3, <1>7, ShownActions, DrawnTexts DEF ScreenInv, AddedText, ShowStates, FlowStates
<1>10. state = "ERROR_DISPLAY" => screen' = Text("error")
  BY <1>3, ShownActions, DrawnTexts DEF ScreenInv, ShowStates
<1> QED
  BY <1>6, <1>8, <1>9, <1>10 DEF ScreenAgrees

\* In a state without a screen nothing is promised.
LEMMA NoScreen ==
  ASSUME state' \notin ShowStates \/ action' # "receive"
  PROVE  CallbackInv' /\ ScreenAgrees'
BY DEF CallbackInv, ScreenAgrees, ShowStates

\* A step that draws nothing and leaves the flow as it is.
LEMMA ScreenStays ==
  ASSUME ScreenInv, UNCHANGED <<state, action, screen, product, stock, quantity, idleCallback>>,
         overtaken' = overtaken
  PROVE  CallbackInv' /\ ScreenAgrees'
<1>1. CallbackInv'
  BY DEF ScreenInv, CallbackInv
<1>2. ScreenAgrees'
  BY DEF ScreenInv, ScreenAgrees
<1> QED
  BY <1>1, <1>2

LEMMA SilentFollows ==
  ASSUME ScreenFollows, action' = action \/ action = "receive"
  PROVE  screen' = screen /\ overtaken' = overtaken /\ idleCallback' = idleCallback
BY DEF ScreenFollows, Draw, RunsAction

LEMMA MachineScreen ==
  ASSUME ScreenInv, CalmNext, ScreenFollows, CalmInv'
  PROVE  CallbackInv' /\ ScreenAgrees'
<1>1. CASE Receive
  <2>1. /\ action = "receive"
        /\ UNCHANGED <<product, stock, quantity>>
    BY <1>1 DEF Receive, dbVars
  <2>2. screen' = screen /\ overtaken' = overtaken /\ idleCallback' = idleCallback
    BY <2>1, SilentFollows
  <2>3. CASE Matching(state, Head(queue)) = {}
    BY <1>1, <2>1, <2>2, <2>3, ScreenStays DEF Receive
  <2>4. CASE Matching(state, Head(queue)) # {}
    <3>1. PICK row \in Matching(state, Head(queue)) : state' = row.to /\ action' = row.act
      BY <1>1, <2>4 DEF Receive
    <3>2. action' # "receive"
      BY <3>1, TableEntered DEF Matching
    <3> QED
      BY <3>2, NoScreen
  <2> QED
    BY <2>3, <2>4
<1>2. CASE SaveToLocalBuffer \/ FlushOne
  <2>1. state' = state /\ action \in {"save_to_local_buffer", "handle_mqtt_connected"}
    BY <1>2 DEF SaveToLocalBuffer, FlushOne
  <2>2. state \notin ShowStates
    <3>1. action \notin DrawsProduct /\ action \notin DrawsError
            /\ action # "display_updated_product" /\ action # "receive"
      BY <2>1 DEF DrawsProduct, DrawsError
    <3> QED
      BY <3>1, ShownActions DEF ScreenInv, ShowStates
  <2> QED
    BY <2>1, <2>2, NoScreen
<1>3. CASE UpdateStock
  <2>1. state' = "STOCK_UPDATING"
    BY <1>3 DEF UpdateStock, Runs, ScreenInv, IInv, ActionFitsState
  <2> QED
    BY <2>1, NoScreen DEF ShowStates
<1>4. CASE FsmTask /\ ~Receive /\ ~SaveToLocalBuffer /\ ~FlushOne /\ ~UpdateStock
  <2>1. action # "receive" /\ action' = "receive" /\ state' = state /\ stock' = stock
    BY <1>4 DEF FsmTask, Runs, HandleQrScan, HandleScanInvalid, LookupProduct,
         HandleProductNotFound, ShowOnly, PromptQuantitySelection, IncrementQuantity,
         DecrementQuantity, DisplayUpdatedProduct, ExecuteMqttPublish, ReturnToIdle,
         FlushEnds, dbVars
  <2> QED
    BY <2>1, ActionDraws
<1>5. CASE Others
  <2>1. /\ UNCHANGED <<state, action, quantity, stock>>
        /\ product' = product \/ ~InFlow
    BY <1>5, OthersKeepProduct DEF ScreenInv
  <2>2. screen' = screen /\ overtaken' = overtaken /\ idleCallback' = idleCallback
    BY <2>1, SilentFollows
  <2>3. CASE product' = product
    BY <2>1, <2>2, <2>3, ScreenStays
  <2>4. CASE ~InFlow
    BY <2>1, <2>4, NoScreen DEF InFlow, ShowStates
  <2> QED
    BY <2>1, <2>3, <2>4
<1> QED
  BY <1>1, <1>2, <1>3, <1>4, <1>5, CalmSteps

LEMMA IdleScreenStep ==
  ASSUME ScreenInv, IdleScreen
  PROVE  CallbackInv' /\ ScreenAgrees'
<1>1. UNCHANGED <<state, action, product, stock, quantity>> /\ overtaken' = overtaken
  BY DEF IdleScreen, IdleTimerExpires, IdleCallbackChecks, IdleCallbackDraws, vars
<1>2. CASE IdleTimerExpires
  <2>1. idleCallback' = "due" /\ screen' = screen
    BY <1>2 DEF IdleTimerExpires
  <2> QED
    BY <1>1, <2>1 DEF ScreenInv, CallbackInv, ScreenAgrees
<1>3. CASE IdleCallbackChecks
  <2>1. (idleCallback' = "checked" => state = "IDLE") /\ screen' = screen
    BY <1>3 DEF IdleCallbackChecks
  <2> QED
    BY <1>1, <2>1 DEF ScreenInv, CallbackInv, ScreenAgrees, ShowStates
<1>4. CASE IdleCallbackDraws
  <2>1. idleCallback = "checked" /\ idleCallback' = "none"
    BY <1>4 DEF IdleCallbackDraws
  <2>2. CallbackInv'
    BY <2>1 DEF CallbackInv
  <2>3. ScreenAgrees'
    BY <1>1, <2>1 DEF ScreenInv, CallbackInv, ScreenAgrees, ShowStates
  <2> QED
    BY <2>2, <2>3
<1> QED
  BY <1>2, <1>3, <1>4 DEF IdleScreen

LEMMA ScreenInvStep == ScreenInv /\ [ScreenNext]_allVars => ScreenInv'
<1> SUFFICES ASSUME ScreenInv, [ScreenNext]_allVars PROVE ScreenInv'
  OBVIOUS
<1>1. IInv' /\ CalmInv'
  BY MachineGoesOn DEF ScreenInv
<1>2. CallbackInv' /\ ScreenAgrees'
  <2>1. CASE CalmNext /\ ScreenFollows
    BY <1>1, <2>1, MachineScreen
  <2>2. CASE IdleScreen
    BY <2>2, IdleScreenStep
  <2>3. CASE UNCHANGED allVars
    <3>1. /\ UNCHANGED <<state, action, screen, product, stock, quantity, idleCallback>>
          /\ overtaken' = overtaken
      BY <2>3 DEF allVars, vars, screenVars
    <3> QED
      BY <3>1, ScreenStays
  <2> QED
    BY <2>1, <2>2, <2>3, ScreenSteps
<1> QED
  BY <1>1, <1>2 DEF ScreenInv

LEMMA ScreenInvInit == ScreenInit => ScreenInv
<1>1. Init => IInv /\ CalmInv
  BY IInvInit, CalmInit
<1> QED
  BY <1>1 DEF ScreenInit, Init, ScreenInv, CallbackInv, ScreenAgrees, ShowStates

\* In the states that wait for a button the LCD shows the product of the flow,
\* the stock of product_db and the amount that will be added, however late the
\* idle-screen timer of the flow before fires, and also when fsm_event_queue is
\* full; only a drawing made inside its callback can be painted over.
THEOREM ScreenIsRight == ScreenSpec => []ScreenAgrees
<1>1. ScreenInv => ScreenAgrees
  BY DEF ScreenInv
<1> QED
  BY <1>1, ScreenInvInit, ScreenInvStep, PTL DEF ScreenSpec, allVars

\* The same for inputs at a human pace, the specification whose runs show that
\* every scan is answered.
THEOREM UnhurriedScreenIsRight == ScreenUnhurriedSpec => []ScreenAgrees
<1>1. [ScreenUnhurriedNext]_allVars => [ScreenNext]_allVars
  BY DEF ScreenUnhurriedNext, ScreenNext, UnhurriedNext, CalmNext
<1>2. ScreenInv => ScreenAgrees
  BY DEF ScreenInv
<1> QED
  BY <1>1, <1>2, ScreenInvInit, ScreenInvStep, PTL DEF ScreenUnhurriedSpec, allVars
=============================================================================
