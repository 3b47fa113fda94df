----------------------------- MODULE Fsm_proofs -----------------------------
(***************************************************************************)
(* Fsm for every catalogue, queue length and script: its variables keep    *)
(* their types, an event the machine posts to itself is never late, and    *)
(* nothing is published that was not added.                                *)
(***************************************************************************)
EXTENDS Fsm, TLAPS

\* The state in which the actions that post, or that settle what is owed, run.
ActionFitsState ==
  /\ action = "handle_qr_scan"          => state = "SCAN_PROCESSING"
  /\ action = "lookup_product"          => state = "LOCAL_DB_LOOKUP"
  /\ action = "update_stock"            => state = "STOCK_UPDATING"
  /\ action = "display_updated_product" => state = "DISPLAY_PRODUCT_INFO"
  /\ action = "execute_mqtt_publish"    => state = "MQTT_PUBLISHING"
  /\ action = "save_to_local_buffer"    => state = "IDLE"

IInv == TypeOK /\ ActionFitsState /\ AutoEventMatchesState /\ PublishFollowsUpdate

-----------------------------------------------------------------------------
\* Facts of the transition table: every row is well formed, and a state that
\* waits for an event of the machine itself is left by such an event only.
LEMMA TableRows ==
  ASSUME NEW row \in transition_table
  PROVE  /\ row.from \in State /\ row.to \in State
         /\ row.event \notin AutoEvents => \A e \in AutoEvents : ~Awaits(row.from, e)
BY SMTT(60) DEF transition_table, Row, State, AutoEvents, Awaits

LEMMA RowActs == \A row \in transition_table : row.act \in Actions
BY DEF Actions

\* The actions that matter are entered with their state ...
LEMMA TableActions ==
  ASSUME NEW row \in transition_table
  PROVE  /\ row.act = "handle_qr_scan"          => row.to = "SCAN_PROCESSING"
         /\ row.act = "lookup_product"          => row.to = "LOCAL_DB_LOOKUP"
         /\ row.act = "update_stock"            => row.to = "STOCK_UPDATING"
         /\ row.act = "display_updated_product" => row.to = "DISPLAY_PRODUCT_INFO"
         /\ row.act = "execute_mqtt_publish"    => row.to = "MQTT_PUBLISHING"
         /\ row.act = "save_to_local_buffer"    => row.to = "IDLE"
BY SMTT(60) DEF transition_table, Row

\* ... and the product is displayed after STOCK_UPDATED, published after that.
LEMMA TableUpdate ==
  ASSUME NEW row \in transition_table
  PROVE  /\ row.to = "DISPLAY_PRODUCT_INFO" => row.event = "STOCK_UPDATED"
         /\ row.act = "execute_mqtt_publish" => row.from = "DISPLAY_PRODUCT_INFO"
BY SMTT(60) DEF transition_table, Row

LEMMA ReturnIsAction == "return_to_idle" \in Actions
<1>1. Row("PROMPT_ADD_PRODUCT", "TIMEOUT", "IDLE", "return_to_idle") \in transition_table
  BY DEF transition_table
<1>2. Row("PROMPT_ADD_PRODUCT", "TIMEOUT", "IDLE", "return_to_idle").act = "return_to_idle"
  BY DEF Row
<1> QED
  BY <1>1, <1>2 DEF Actions

-----------------------------------------------------------------------------
(* Types.                                                                  *)

LEMMA EventsDistinct ==
  /\ AutoEvents \subseteq EventType /\ Buttons \subseteq EventType
  /\ NetEvents \subseteq EventType
  /\ "QR_CAPTURED" \in EventType /\ "TIMEOUT" \in EventType
  /\ "QR_CAPTURED" \notin AutoEvents /\ "TIMEOUT" \notin AutoEvents
  /\ Buttons \cap AutoEvents = {} /\ NetEvents \cap AutoEvents = {}
BY DEF EventType, AutoEvents, Buttons, NetEvents

LEMMA PostType ==
  ASSUME TypeOK, NEW e \in EventType, Post(e)
  PROVE  queue' \in Seq(EventType) /\ Len(queue') <= QueueLen
BY ConstantsAssumption DEF TypeOK, Post, Posted, Room

LEMMA TypeInit == Init => TypeOK
<1> SUFFICES ASSUME Init PROVE TypeOK
  OBVIOUS
<1> USE ConstantsAssumption DEF Init
<1>1. state \in State /\ action \in Actions \cup {"receive"}
  BY DEF State
<1>2. product \in Product
  BY DEF Product, NoProduct
<1>6. valid \in BOOLEAN
  OBVIOUS
<1>7. quantity \in 1..MaxQuantity
  OBVIOUS
<1>3. queue \in Seq(EventType) /\ Len(queue) <= QueueLen
  OBVIOUS
<1>4. scanQueue \in Seq(Catalog \cup Foreign) /\ Len(scanQueue) <= ScanQueueLen
  OBVIOUS
<1>5. /\ call \in [Callers -> {"none", "wait", "check", "clear", "fill", "post"}]
      /\ scan \in [Callers -> Catalog \cup Foreign \cup {NoId}]
  OBVIOUS
<1> QED
  BY <1>1, <1>2, <1>3, <1>4, <1>5, <1>6, <1>7 DEF TypeOK

LEMMA TypeReceive == TypeOK /\ Receive => TypeOK'
<1> SUFFICES ASSUME TypeOK, Receive PROVE TypeOK'
  OBVIOUS
<1> USE DEF Receive, dbVars, netVars, callVars
<1>1. queue' \in Seq(EventType) /\ Len(queue') <= QueueLen
  BY ConstantsAssumption DEF TypeOK
<1>2. state' \in State /\ action' \in Actions \cup {"receive"}
  <2>1. CASE Matching(state, Head(queue)) = {}
    BY <2>1 DEF TypeOK
  <2>2. CASE Matching(state, Head(queue)) # {}
    <3>1. PICK row \in Matching(state, Head(queue)) : state' = row.to /\ action' = row.act
      BY <2>2
    <3>2. row \in transition_table
      BY DEF Matching
    <3> QED
      BY <3>1, <3>2, TableRows, RowActs
  <2> QED
    BY <2>1, <2>2
<1>3. timer' \in {"off", "armed"}
  BY DEF TypeOK
<1> QED
  BY <1>1, <1>2, <1>3 DEF TypeOK

LEMMA TypeFsmTask == TypeOK /\ FsmTask => TypeOK'
<1> SUFFICES ASSUME TypeOK, FsmTask PROVE TypeOK'
  OBVIOUS
<1> USE ConstantsAssumption DEF Runs, dbVars, netVars, callVars
<1>1. CASE Receive
  BY <1>1, TypeReceive
<1>2. CASE HandleQrScan
  <2>1. queue' \in Seq(EventType) /\ Len(queue') <= QueueLen
    BY <1>2, PostType, "SCAN_SUCCESS" \in EventType, "SCAN_INVALID" \in EventType
    DEF HandleQrScan, EventType, AutoEvents
  <2> QED
    BY <1>2, <2>1 DEF HandleQrScan, TypeOK
<1>3. CASE HandleScanInvalid
  BY <1>3 DEF HandleScanInvalid, OnePending, TypeOK
<1>4. CASE LookupProduct
  <2>1. queue' \in Seq(EventType) /\ Len(queue') <= QueueLen
    BY <1>4, PostType, EventsDistinct DEF LookupProduct, AutoEvents
  <2>2. product' \in Product /\ valid' \in BOOLEAN /\ quantity' \in 1..MaxQuantity
    <3>1. CASE HasProduct /\ product.id \in Catalog
      <4>1. stock[product.id] \in 0..MaxStock
        BY <3>1 DEF TypeOK
      <4>2. [product EXCEPT !.stock = stock[product.id]] \in Product
        BY <4>1 DEF TypeOK, Product
      <4>3. product' = [product EXCEPT !.stock = stock[product.id]]
        BY <1>4, <3>1 DEF LookupProduct
      <4>4. valid' = TRUE /\ quantity' = 1
        BY <1>4, <3>1 DEF LookupProduct
      <4>5. 1 \in 1..MaxQuantity
        OBVIOUS
      <4> QED
        BY <4>2, <4>3, <4>4, <4>5
    <3>2. CASE ~(HasProduct /\ product.id \in Catalog)
      BY <1>4, <3>2 DEF LookupProduct, TypeOK
    <3> QED
      BY <3>1, <3>2
  <2> QED
    BY <1>4, <2>1, <2>2 DEF LookupProduct, TypeOK
<1>5. CASE HandleProductNotFound
  BY <1>5 DEF HandleProductNotFound, TypeOK
<1>6. CASE ShowOnly
  BY <1>6 DEF ShowOnly, TypeOK
<1>7. CASE PromptQuantitySelection
  BY <1>7 DEF PromptQuantitySelection, TypeOK
<1>8. CASE IncrementQuantity
  BY <1>8 DEF IncrementQuantity, TypeOK
<1>9. CASE DecrementQuantity
  BY <1>9 DEF DecrementQuantity, TypeOK
<1>10. CASE UpdateStock
  <2>1. queue' \in Seq(EventType) /\ Len(queue') <= QueueLen
    BY <1>10, PostType, EventsDistinct DEF UpdateStock, AutoEvents
  <2>2. CASE CanAdd /\ stock' = [stock EXCEPT ![product.id] = @ + quantity]
             /\ product' = [product EXCEPT !.stock = stock[product.id] + quantity]
             /\ owed' = owed \cup {product.id}
    <3>1. stock[product.id] + quantity \in 0..MaxStock
      BY <2>2 DEF CanAdd, TypeOK
    <3>2. stock' \in [Catalog -> 0..MaxStock] /\ product' \in Product /\ owed' \subseteq Catalog
      BY <2>2, <3>1 DEF CanAdd, TypeOK, Product
    <3> QED
      BY <1>10, <2>1, <3>2 DEF UpdateStock, TypeOK
  <2>3. CASE UNCHANGED <<stock, product, owed>>
    BY <1>10, <2>1, <2>3 DEF UpdateStock, TypeOK
  <2> QED
    BY <1>10, <2>2, <2>3 DEF UpdateStock
<1>11. CASE DisplayUpdatedProduct
  BY <1>11 DEF DisplayUpdatedProduct, TypeOK
<1>12. CASE ExecuteMqttPublish
  <2>1. queue' \in Seq(EventType) /\ Len(queue') <= QueueLen
    BY <1>12, PostType, EventsDistinct DEF ExecuteMqttPublish, AutoEvents
  <2> QED
    BY <1>12, <2>1 DEF ExecuteMqttPublish, TypeOK
<1>13. CASE ReturnToIdle
  <2>1. 1 \in 1..MaxQuantity
    OBVIOUS
  <2>2. action' \in Actions \cup {"receive"}
    BY <1>13 DEF ReturnToIdle
  <2>3. UNCHANGED <<state, firing, netVars, callVars, product, queue, timer, dbVars>>
    BY <1>13 DEF ReturnToIdle
  <2> HIDE DEF Runs
  <2>4. valid' = FALSE /\ quantity' = 1
    BY <1>13 DEF ReturnToIdle
  <2> QED
    BY <2>1, <2>2, <2>3, <2>4 DEF TypeOK
<1>14. CASE SaveToLocalBuffer
  BY <1>14, ReturnIsAction DEF SaveToLocalBuffer, OnePending, TypeOK
<1>15. CASE FlushOne
  BY <1>15 DEF FlushOne, TypeOK
<1>16. CASE FlushEnds
  BY <1>16 DEF FlushEnds, TypeOK
<1> QED
  BY <1>1, <1>2, <1>3, <1>4, <1>5, <1>6, <1>7, <1>8, <1>9, <1>10, <1>11, <1>12,
     <1>13, <1>14, <1>15, <1>16 DEF FsmTask

LEMMA TypeOthers ==
  ASSUME TypeOK,
         \/ TimerExpires \/ TimeoutTimerCallback \/ Environment \/ PostFsmEvent
         \/ DispatchReceive \/ DemoCall \/ DemoWait \/ \E c \in Callers : OnQr(c)
  PROVE  TypeOK'
<1> USE ConstantsAssumption DEF fsmVars, dbVars, netVars, callVars, At
<1>1. CASE TimerExpires
  BY <1>1 DEF TimerExpires, TypeOK
<1>2. CASE TimeoutTimerCallback
  BY <1>2, PostType, EventsDistinct DEF TimeoutTimerCallback, TypeOK
<1>3. CASE Touch
  BY <1>3, PostType, EventsDistinct DEF Touch, TypeOK
<1>4. CASE WifiGotIp
  BY <1>4, PostType, EventsDistinct DEF WifiGotIp, TypeOK, NetEvents
<1>5. CASE MqttConnected
  BY <1>5 DEF MqttConnected, TypeOK
<1>6. CASE MqttDisconnected
  BY <1>6 DEF MqttDisconnected, TypeOK
<1>7. CASE MqttData
  BY <1>7 DEF MqttData, EnqueueScan, TypeOK
<1>8. CASE PostFsmEvent
  <2>1. mqttTask \in EventType
    BY <1>8, EventsDistinct DEF PostFsmEvent, TypeOK, NetEvents
  <2> QED
    BY <1>8, <2>1, PostType DEF PostFsmEvent, TypeOK
<1>9. CASE DispatchReceive
  BY <1>9 DEF DispatchReceive, TypeOK, Callers
<1>10. CASE DemoCall
  BY <1>10 DEF DemoCall, TypeOK, Callers
<1>11. CASE DemoWait
  BY <1>11 DEF DemoWait, TypeOK, Callers
<1>12. ASSUME NEW c \in Callers, OnQr(c) PROVE TypeOK'
  <2> USE DEF Refused, Returned
  <2>1. CASE CheckIdle(c)
    BY <1>12, <2>1 DEF CheckIdle, TypeOK
  <2>2. CASE ClearProduct(c)
    BY <1>12, <2>2 DEF ClearProduct, TypeOK, Product, NoProduct
  <2>3. CASE FillProduct(c)
    BY <1>12, <2>3 DEF FillProduct, TypeOK, Product
  <2>4. CASE PostCaptured(c)
    <3>1. queue' \in Seq(EventType) /\ Len(queue') <= QueueLen
      BY <2>4, PostType, EventsDistinct DEF PostCaptured
    <3> QED
      BY <1>12, <2>4, <3>1 DEF PostCaptured, TypeOK
  <2> QED
    BY <1>12, <2>1, <2>2, <2>3, <2>4 DEF OnQr
<1> QED
  BY <1>1, <1>2, <1>3, <1>4, <1>5, <1>6, <1>7, <1>8, <1>9, <1>10, <1>11, <1>12
  DEF Environment

LEMMA TypeStep == TypeOK /\ [Next]_vars => TypeOK'
<1>1. TypeOK /\ UNCHANGED vars => TypeOK'
  BY DEF vars, TypeOK
<1> QED
  BY <1>1, TypeFsmTask, TypeOthers DEF Next, Board

\* Every variable of the machine, of the queue and of the callers keeps its
\* type: the quantity stays in 1..MaxQuantity, the stock never wraps, the queues
\* never exceed their length.
THEOREM TypeCorrect == Spec => []TypeOK
BY TypeInit, TypeStep, PTL DEF Spec

-----------------------------------------------------------------------------
(* Events the machine posts to itself.                                     *)

NoAutoEvent == \A i \in DOMAIN queue : queue[i] \notin AutoEvents

\* While an action runs there is no such event in the queue.
LEMMA BusyNoAuto == AutoEventMatchesState /\ action # "receive" => NoAutoEvent
BY DEF AutoEventMatchesState, NoAutoEvent

\* What xQueueSend and xQueueReceive do to the queue, entry by entry.
LEMMA PostEntries ==
  ASSUME TypeOK, NEW e, e \in EventType, Post(e)
  PROVE  \A i \in DOMAIN queue' :
           \/ i \in DOMAIN queue /\ queue'[i] = queue[i]
           \/ i = Len(queue) + 1 /\ queue'[i] = e
BY DEF TypeOK, Post, Posted

LEMMA ReceiveEntries ==
  ASSUME TypeOK, Receive
  PROVE  \A i \in DOMAIN queue' :
           i \in Nat /\ i # 0 /\ i + 1 \in DOMAIN queue /\ queue'[i] = queue[i + 1]
BY DEF TypeOK, Receive

LEMMA HeadEntry ==
  ASSUME TypeOK, Receive
  PROVE  1 \in DOMAIN queue /\ Head(queue) = queue[1] /\ Head(queue) \in EventType
BY DEF TypeOK, Receive

\* The steps of other tasks: the machine stays where it is and at most one event
\* that is not its own joins the queue.
Foreigner ==
  /\ UNCHANGED <<state, action, owed>>
  /\ UNCHANGED queue \/ \E e \in EventType \ AutoEvents : Post(e)

LEMMA ForeignerStep == IInv /\ Foreigner => ActionFitsState' /\ AutoEventMatchesState'
                                            /\ PublishFollowsUpdate'
<1> SUFFICES ASSUME IInv, Foreigner
             PROVE  ActionFitsState' /\ AutoEventMatchesState' /\ PublishFollowsUpdate'
  OBVIOUS
<1> USE DEF IInv, Foreigner
<1>1. ActionFitsState'
  BY DEF ActionFitsState
<1>2. CASE UNCHANGED queue
  BY <1>1, <1>2 DEF AutoEventMatchesState, PublishFollowsUpdate
<1>3. ASSUME NEW e \in EventType \ AutoEvents, Post(e)
      PROVE  AutoEventMatchesState' /\ PublishFollowsUpdate'
  <2>1. \A i \in DOMAIN queue' : queue'[i] \in AutoEvents =>
          i \in DOMAIN queue /\ queue'[i] = queue[i]
    BY <1>3, PostEntries
  <2>2. AutoEventMatchesState'
    BY <2>1 DEF AutoEventMatchesState
  <2>3. "STOCK_UPDATED" \in AutoEvents
    BY DEF AutoEvents
  <2>4. PublishFollowsUpdate'
    BY <2>1, <2>3 DEF PublishFollowsUpdate
  <2> QED
    BY <2>2, <2>4
<1> QED
  BY <1>1, <1>2, <1>3

\* An action that posts nothing and leaves a state where nothing is published.
LEMMA SilentAction ==
  ASSUME IInv, action # "receive", UNCHANGED <<state, queue>>,
         action' \notin {"handle_qr_scan", "lookup_product", "update_stock",
                         "display_updated_product", "execute_mqtt_publish",
                         "save_to_local_buffer"},
         owed' = owed \/ state # "DISPLAY_PRODUCT_INFO"
  PROVE  ActionFitsState' /\ AutoEventMatchesState' /\ PublishFollowsUpdate'
<1>1. NoAutoEvent
  BY BusyNoAuto DEF IInv
<1>2. NoAutoEvent'
  BY <1>1 DEF NoAutoEvent
<1>3. ActionFitsState'
  BY DEF ActionFitsState
<1>4. AutoEventMatchesState'
  BY <1>2 DEF AutoEventMatchesState, NoAutoEvent
<1>5. \A i \in DOMAIN queue' : queue'[i] # "STOCK_UPDATED"
  BY <1>2 DEF NoAutoEvent, AutoEvents
<1>6. PublishFollowsUpdate'
  BY <1>5 DEF PublishFollowsUpdate, IInv
<1> QED
  BY <1>3, <1>4, <1>6

\* An action that posts what its state waits for.
LEMMA PostingAction ==
  ASSUME IInv, action # "receive", action' = "receive", state' = state,
         state # "DISPLAY_PRODUCT_INFO",
         NEW e \in AutoEvents, Post(e), Awaits(state, e),
         e = "STOCK_UPDATED" => owed' # {}
  PROVE  ActionFitsState' /\ AutoEventMatchesState' /\ PublishFollowsUpdate'
<1>1. NoAutoEvent
  BY BusyNoAuto DEF IInv
<1>2. e \in EventType
  BY EventsDistinct
<1>3. \A i \in DOMAIN queue' : queue'[i] \in AutoEvents =>
        i = Len(queue) + 1 /\ queue'[i] = e
  BY <1>1, <1>2, PostEntries DEF NoAutoEvent, IInv
<1>4. ActionFitsState'
  BY DEF ActionFitsState
<1>5. AutoEventMatchesState'
  BY <1>3 DEF AutoEventMatchesState
<1>6. "STOCK_UPDATED" \in AutoEvents
  BY DEF AutoEvents
<1>7. PublishFollowsUpdate'
  BY <1>3, <1>6 DEF PublishFollowsUpdate
<1> QED
  BY <1>4, <1>5, <1>7

LEMMA ReceiveStep == IInv /\ Receive =>
                       ActionFitsState' /\ AutoEventMatchesState' /\ PublishFollowsUpdate'
<1> SUFFICES ASSUME IInv, Receive
             PROVE  ActionFitsState' /\ AutoEventMatchesState' /\ PublishFollowsUpdate'
  OBVIOUS
<1> DEFINE ev == Head(queue)
<1>1. TypeOK /\ AutoEventMatchesState /\ PublishFollowsUpdate /\ action = "receive"
  BY DEF IInv, Receive
<1>2. \A i \in DOMAIN queue' :
        i \in Nat /\ i # 0 /\ i + 1 \in DOMAIN queue /\ queue'[i] = queue[i + 1]
  BY <1>1, ReceiveEntries
<1>3. 1 \in DOMAIN queue /\ ev = queue[1]
  BY <1>1, HeadEntry
<1>4. UNCHANGED owed
  BY DEF Receive, dbVars
\* The entry received was the only one of its kind.
<1>5. ev \in AutoEvents => NoAutoEvent'
  BY <1>1, <1>2, <1>3 DEF AutoEventMatchesState, NoAutoEvent
<1>6. "STOCK_UPDATED" \in AutoEvents
  BY DEF AutoEvents
<1>7. (\E i \in DOMAIN queue' : queue'[i] = "STOCK_UPDATED") => owed # {}
  BY <1>1, <1>2 DEF PublishFollowsUpdate
<1>8. CASE Matching(state, ev) = {}
  <2>1. UNCHANGED <<state, action>>
    BY <1>8 DEF Receive
  <2>2. ActionFitsState'
    BY <1>1, <2>1 DEF ActionFitsState
  <2>3. AutoEventMatchesState'
    BY <1>1, <1>2, <2>1 DEF AutoEventMatchesState
  <2>4. PublishFollowsUpdate'
    BY <1>1, <1>4, <1>7, <2>1 DEF PublishFollowsUpdate
  <2> QED
    BY <2>2, <2>3, <2>4
<1>9. CASE Matching(state, ev) # {}
  <2>1. PICK row \in Matching(state, ev) : state' = row.to /\ action' = row.act
    BY <1>9 DEF Receive
  <2>2. row \in transition_table /\ row.from = state /\ row.event = ev
    BY <2>1 DEF Matching
  <2>3. ActionFitsState'
    BY <2>1, <2>2, TableActions DEF ActionFitsState
  <2>4. NoAutoEvent'
    <3>1. CASE ev \in AutoEvents
      BY <3>1, <1>5
    <3>2. CASE ev \notin AutoEvents
      <4>1. \A e \in AutoEvents : ~Awaits(state, e)
        BY <3>2, <2>2, TableRows
      <4>2. NoAutoEvent
        BY <4>1, <1>1 DEF AutoEventMatchesState, NoAutoEvent
      <4> QED
        BY <4>2, <1>2 DEF NoAutoEvent
    <3> QED
      BY <3>1, <3>2
  <2>5. AutoEventMatchesState'
    BY <2>4 DEF AutoEventMatchesState, NoAutoEvent
  <2>6. state' = "DISPLAY_PRODUCT_INFO" => owed # {}
    BY <2>1, <2>2, <1>1, <1>3, TableUpdate DEF PublishFollowsUpdate
  <2>7. action' = "execute_mqtt_publish" => owed # {}
    BY <2>1, <2>2, <1>1, TableUpdate DEF PublishFollowsUpdate
  <2> QED
    BY <2>3, <2>5, <2>6, <2>7, <1>4, <1>7 DEF PublishFollowsUpdate
<1> QED
  BY <1>8, <1>9

LEMMA FsmTaskStep == IInv /\ FsmTask =>
                       ActionFitsState' /\ AutoEventMatchesState' /\ PublishFollowsUpdate'
<1> SUFFICES ASSUME IInv, FsmTask
             PROVE  ActionFitsState' /\ AutoEventMatchesState' /\ PublishFollowsUpdate'
  OBVIOUS
<1>1. CASE Receive
  BY <1>1, ReceiveStep
<1>2. CASE \/ HandleScanInvalid \/ HandleProductNotFound \/ ShowOnly
           \/ PromptQuantitySelection \/ IncrementQuantity \/ DecrementQuantity
           \/ DisplayUpdatedProduct \/ ReturnToIdle \/ FlushEnds
  <2>1. /\ action # "receive" /\ action' = "receive"
        /\ UNCHANGED <<state, queue, owed>>
    BY <1>2 DEF Runs, HandleScanInvalid, HandleProductNotFound, ShowOnly,
         PromptQuantitySelection, IncrementQuantity, DecrementQuantity,
         DisplayUpdatedProduct, ReturnToIdle, FlushEnds, dbVars
  <2> QED
    BY <2>1, SilentAction
<1>3. CASE SaveToLocalBuffer
  <2>1. /\ action # "receive" /\ action' = "return_to_idle"
        /\ UNCHANGED <<state, queue>> /\ state = "IDLE"
    BY <1>3 DEF SaveToLocalBuffer, IInv, ActionFitsState
  <2> QED
    BY <2>1, SilentAction
<1>4. CASE FlushOne
  <2>1. /\ action # "receive" /\ action' \in {"handle_mqtt_connected", "receive"}
        /\ UNCHANGED <<state, queue, owed>>
    BY <1>4 DEF FlushOne
  <2> QED
    BY <2>1, SilentAction
<1>5. CASE HandleQrScan
  <2>1. /\ action # "receive" /\ action' = "receive" /\ state' = state
        /\ state = "SCAN_PROCESSING"
    BY <1>5 DEF HandleQrScan, Runs, IInv, ActionFitsState
  <2>2. PICK e \in {"SCAN_SUCCESS", "SCAN_INVALID"} : Post(e)
    BY <1>5 DEF HandleQrScan
  <2>3. e \in AutoEvents /\ Awaits(state, e) /\ e # "STOCK_UPDATED"
    BY <2>1, <2>2 DEF AutoEvents, Awaits
  <2> QED
    BY <2>1, <2>2, <2>3, PostingAction
<1>6. CASE LookupProduct
  <2>1. /\ action # "receive" /\ action' = "receive" /\ state' = state
        /\ state = "LOCAL_DB_LOOKUP"
    BY <1>6 DEF LookupProduct, Runs, IInv, ActionFitsState
  <2>2. PICK e \in {"SCAN_INVALID", "PRODUCT_FOUND", "PRODUCT_NOT_FOUND"} : Post(e)
    BY <1>6 DEF LookupProduct
  <2>3. e \in AutoEvents /\ Awaits(state, e) /\ e # "STOCK_UPDATED"
    BY <2>1, <2>2 DEF AutoEvents, Awaits
  <2> QED
    BY <2>1, <2>2, <2>3, PostingAction
<1>7. CASE UpdateStock
  <2>1. /\ action # "receive" /\ action' = "receive" /\ state' = state
        /\ state = "STOCK_UPDATING"
    BY <1>7 DEF UpdateStock, Runs, IInv, ActionFitsState
  <2>2. PICK e \in {"STOCK_UPDATED", "SCAN_INVALID"} :
               Post(e) /\ (e = "STOCK_UPDATED" => owed' # {})
    BY <1>7 DEF UpdateStock
  <2>3. e \in AutoEvents /\ Awaits(state, e)
    BY <2>1, <2>2 DEF AutoEvents, Awaits
  <2> QED
    BY <2>1, <2>2, <2>3, PostingAction
<1>8. CASE ExecuteMqttPublish
  <2>1. /\ action # "receive" /\ action' = "receive" /\ state' = state
        /\ state = "MQTT_PUBLISHING"
    BY <1>8 DEF ExecuteMqttPublish, Runs, IInv, ActionFitsState
  <2>2. PICK e \in {"MQTT_PUBLISH_SUCCESS", "MQTT_PUBLISH_FAILURE"} : Post(e)
    BY <1>8 DEF ExecuteMqttPublish
  <2>3. e \in AutoEvents /\ Awaits(state, e) /\ e # "STOCK_UPDATED"
    BY <2>1, <2>2 DEF AutoEvents, Awaits
  <2> QED
    BY <2>1, <2>2, <2>3, PostingAction
<1> QED
  BY <1>1, <1>2, <1>3, <1>4, <1>5, <1>6, <1>7, <1>8 DEF FsmTask

LEMMA OthersAreForeign ==
  ASSUME TypeOK,
         \/ TimerExpires \/ TimeoutTimerCallback \/ Environment \/ PostFsmEvent
         \/ DispatchReceive \/ DemoCall \/ DemoWait \/ \E c \in Callers : OnQr(c)
  PROVE  Foreigner
<1> USE DEF Foreigner, fsmVars, dbVars
<1>1. CASE TimerExpires \/ DispatchReceive \/ DemoCall \/ DemoWait
  BY <1>1 DEF TimerExpires, DispatchReceive, DemoCall, DemoWait
<1>2. CASE TimeoutTimerCallback
  BY <1>2, EventsDistinct DEF TimeoutTimerCallback
<1>3. CASE Environment
  <2>1. CASE Touch
    BY <2>1, EventsDistinct DEF Touch
  <2>2. CASE WifiGotIp
    BY <2>2, EventsDistinct DEF WifiGotIp, NetEvents
  <2>3. CASE MqttConnected \/ MqttDisconnected \/ MqttData
    BY <2>3 DEF MqttConnected, MqttDisconnected, MqttData
  <2> QED
    BY <1>3, <2>1, <2>2, <2>3 DEF Environment
<1>4. CASE PostFsmEvent
  <2>1. mqttTask \in NetEvents
    BY <1>4 DEF PostFsmEvent, TypeOK, NetEvents
  <2> QED
    BY <1>4, <2>1, EventsDistinct DEF PostFsmEvent
<1>5. ASSUME NEW c \in Callers, OnQr(c) PROVE Foreigner
  BY <1>5, EventsDistinct
  DEF OnQr, CheckIdle, ClearProduct, FillProduct, PostCaptured
<1> QED
  BY <1>1, <1>2, <1>3, <1>4, <1>5

LEMMA IInvInit == Init => IInv
<1>1. Init => ActionFitsState /\ AutoEventMatchesState /\ PublishFollowsUpdate
  BY DEF Init, ActionFitsState, AutoEventMatchesState, PublishFollowsUpdate
<1> QED
  BY <1>1, TypeInit DEF IInv

LEMMA IInvStep == IInv /\ [Next]_vars => IInv'
<1> SUFFICES ASSUME IInv, [Next]_vars PROVE IInv'
  OBVIOUS
<1>1. TypeOK'
  BY TypeStep DEF IInv
<1>2. CASE FsmTask
  BY <1>1, <1>2, FsmTaskStep DEF IInv
<1>3. CASE UNCHANGED vars
  BY <1>1, <1>3, ForeignerStep DEF vars, Foreigner, IInv
<1>4. CASE \/ TimerExpires \/ TimeoutTimerCallback \/ Environment \/ PostFsmEvent
           \/ DispatchReceive \/ DemoCall \/ DemoWait \/ \E c \in Callers : OnQr(c)
  BY <1>1, <1>4, OthersAreForeign, ForeignerStep DEF IInv
<1> QED
  BY <1>2, <1>3, <1>4 DEF Next, Board

LEMMA IInvHolds == Spec => []IInv
BY IInvInit, IInvStep, PTL DEF Spec

\* In every interleaving of the board's tasks, and with any length of the event
\* queue, an event that an action of fsm.c posts is consumed in the state that
\* posted it: the late MQTT acknowledgement that fsm.c:631 ignores cannot occur.
THEOREM AutoEventsOnTime == Spec => []AutoEventMatchesState
<1>1. IInv => AutoEventMatchesState
  BY DEF IInv
<1> QED
  BY <1>1, IInvHolds, PTL

\* A stray EV_TIMEOUT never makes the machine show or publish a product: it
\* does so only while some confirmed addition has not been reported.
THEOREM PublishBacked == Spec => []PublishFollowsUpdate
<1>1. IInv => PublishFollowsUpdate
  BY DEF IInv
<1> QED
  BY <1>1, IInvHolds, PTL
=============================================================================
