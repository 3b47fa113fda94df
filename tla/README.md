# Proyecto Magno in TLA+

Proyecto Magno is the firmware of two ESP32-S2 boards that keep the stock of a
shop. The **camera board** decodes QR codes and publishes each scan by MQTT. The
**LCD board** receives the scans, asks its operator for a quantity on a touch
panel, adds it to the stock it keeps in flash, and publishes the new stock.
This directory models the part of that firmware where the order of events, power
cuts and failing writes decide whether the stock is right.

`PROJECT.json` lists every run, mutant, theorem, finding and hazard, and maps each
definition to the lines it models. This file says how the parts fit together.

## The system

| component | state | operations | hard part |
|---|---|---|---|
| `fsm` (LCD) | `current_state`, `active_product` and its valid flag, `selected_quantity`, hold timer | 23 rows of a transition table; `fsm_on_qr_detected`, `fsm_on_qr_invalid` | its variables are written by three tasks without a lock; its actions post to the queue their own task drains |
| `main` | `fsm_event_queue`, the tasks | start-up order, `FSM_TASK`, `FAKE_QR_DEMO`, callbacks | who runs before whom |
| `mqtt_handler` | the client, `s_scan_queue`, the dispatcher task | connection events, received scans, publish, store, flush | disconnections at any moment, events posted late |
| `pending_queue` | ring of 20 events in RAM, four keys in NVS | init, push, peek, pop, save | four commits per save, power cuts, failing writes |
| `product_db` | hash table in RAM, one blob in NVS | init, load catalogue, upsert, add, decrement, remove, find | undo of a failed save, readers in another task |
| `dsa/hash_table` | entries and counter | init, find, insert, remove, update | tombstones and wrapping chains |
| `logger` | ring of past events in RAM and NVS | init, push | like `pending_queue`; failures only logged |
| `wifi_manager`, `http_handler` | credentials, connection status | set and clear credentials, reconnect, web form | two commits per credential, status read by other tasks |
| `touchpad` | which pads were pressed | poll, post events | a press lost with a full queue |
| `lcd_manager` | the four labels of the screen | show waiting, product, added, cancelled, error | drawn by the machine and by a timer's callback |
| `qr_handler` (camera) | none that outlives a scan | the task `qr_scan` and its callback | runs between any two steps of the MQTT task that wait |
| `lcd_port`, `led`, `ntp_handler`, `input_handler`, `nvs`, `unit_test` | drivers and wrappers | | not modelled on their own |

On the LCD board the interactions are these. The MQTT task puts received scans in
`s_scan_queue`; `MQTT_SCAN_DISPATCH` takes them one by one and, when it reads
`STATE_IDLE`, calls `fsm_on_qr_detected`, which fills `active_product` and posts
`EV_QR_CAPTURED`. `FSM_TASK` alone receives events and runs transitions; its
actions post the next event of a flow, arm the hold timer (2.5 s), add to
`product_db`, publish, or store in `pending_queue`. Touch, Wi-Fi, the MQTT task
and the timer daemon also post. `FSM_TASK`, the dispatcher, the demo and the
timer daemon have priority 1 on the single core of the ESP32-S2, so the scheduler
may switch between any two of their steps, and the Wi-Fi and MQTT tasks may
preempt them all.

On the camera board `qr_scan` (priority 4) logs each scan in `logger_local`,
publishes it, and pushes it to `pending_queue` when the client does not take it;
the MQTT task (priority 5) flushes that queue in its own handler of
`MQTT_EVENT_CONNECTED`. Nothing guards the ring they share.

What makes each part correct: the machine acts on an event only in the state that
waits for it, adds a chosen amount once and to the product it showed, and gets
every addition published or stored; `pending_queue` is a FIFO that a restart does
not change, and no scan leaves the camera board unlogged or is lost; `product_db` changes RAM and flash together or not at all; the hash
table is a map.

## The modules

| module | models |
|---|---|
| `Fsm` | `fsm.c`, the tasks of `proyecto_final.c`, the LCD half of `mqtt_handler.c`, the posts of `touchpad.c` and `wifi_manager.c` |
| `FsmCalm` | `Fsm` under two assumptions about its environment, and its refinement of `Inventory` |
| `Inventory` | abstract: offer a product, adjust, cancel or commit an amount, report it |
| `FsmScreen` | what the LCD shows while `FsmCalm` runs, and the timer that brings the waiting screen back |
| `Fsm_proofs`, `FsmCalm_proofs` | theorems about `Fsm`; about `FsmCalm`, `FsmScreen` and the refinement of `Inventory` |
| `PendingQueue` | `pending_queue.c` with its four writes, their failures and power cuts |
| `PendingFifo` | abstract: a bounded durable FIFO that overwrites its oldest event, and that an erase before a start empties |
| `PendingQueue_proofs` | theorems about `PendingQueue` and the refinement of `PendingFifo` |
| `Logger` | `logger.c`: the ring of past events, its four writes and its restore |
| `Camera` | the camera board: `qr_scan` and the MQTT task over the rings of `PendingQueue` and `Logger` |
| `Camera_proofs` | theorems about `Camera` with its `Logger` |
| `HashTable` | the functions of `hash_table.c` as operators on a table |
| `TableCalls` | those functions called in any order |
| `ProductMap` | abstract: a map that holds at most `Size` products |
| `HashTable_proofs`, `TableCalls_proofs` | lemmas about the operators of `HashTable`; theorems about `TableCalls` and the refinement of `ProductMap` |
| `ProductDb` | `product_db.c` over `HashTable`, with failing saves and boots |
| `ProductStore` | abstract: stocks with a durable copy that change together; the catalogue adds the products that are missing while there is room; the copy may be erased before it is open |
| `ProductDb_proofs` | theorems about `ProductDb` and the refinement of `ProductStore` |
| `WifiManager` | `wifi_manager.c` with its callers' task, the event task and the driver, and `nvs_storage_clear` |
| `Wifi_proofs` | theorems about `WifiManager` |
| `MCFsm`, `MCFsmCalm`, `MCFsmScreen`, `MCPendingQueue`, `MCCamera`, `MCTableCalls`, `MCProductDb`, `MCWifiManager` | instances for TLC |

### Fsm

A transition is two steps: `Receive` takes an event, stops the hold timer, looks up
the row and assigns `state` and `action`; then the action of that name runs and
`action` is `"receive"` again. Between the two any other task may run, as on the
board, where `current_state` is assigned at line 642 and the action is called at
651. `save_to_local_buffer` and the flush loop take more steps, because
`return_to_idle` follows the first and each round of the second can be
interrupted. The body of `fsm_on_qr_detected` is four steps per caller (`CheckIdle`,
`ClearProduct`, `FillProduct`, `PostCaptured`). `TimerExpires` and
`TimeoutTimerCallback` are separate, so a timer that was stopped after its expiry
was taken up still posts. A post to a full queue loses the event, as
`xQueueSend` with a short wait does; the actions post to the queue that their own
task drains, so for them waiting does not help. `owed` is a history variable: the
products whose last confirmed stock was neither taken by the MQTT client nor stored.

Left out: logging and `last_error`; screens and their timer are in `FsmScreen`. A product is its id and its stock; `pending_queue` is the number
of its events, `product_db` its stocks (both have modules of their own).
`fsm_set_active_product` and `fsm_set_selected_quantity` have no caller on the board.
The unused `STATE_MQTT_INIT` has no row and is not a value of `state`.

### FsmScreen

`FsmScreen` adds to every step of `FsmCalm` what it draws (`Draw`) and what it
commands to the timer of the idle screen (`CommandIdleTimer`), so the machine
underneath is unchanged. A screen is its title and what it says of a product.
`lcd_set_screen_text` holds the mutex of `lcd_port`, which makes a drawing one step.
`idle_screen_timer_callback` is two steps, `IdleCallbackChecks` and
`IdleCallbackDraws`: between them the timer daemon may wait for the mutex while
`FSM_TASK` draws. The history `overtaken` marks a screen drawn in that gap.
`ScreenAgrees` excepts it, because the code does not prevent it: without the
exception TLC shows a machine in `STATE_PROMPT_ADD_PRODUCT` behind the waiting
screen. `save_to_local_buffer` draws nothing when it succeeds, since no
callback `display_message` is registered, and when it fails its error screen
says "No se agrego stock" although the stock was added (`lcd_manager.c:210`).

### PendingQueue

Push and pop change the ring and start a save; each `Write` commits one of the four
keys, in the order of the code, or fails and leaves it as it was; `PowerLoss` may
come between any two. `InitQueue` rebuilds the ring as `pending_queue_init` does:
each index that is missing or cannot be read keeps its reset value, and the validity
check looks at each index alone. `EraseNvs` is the branch of `nvs_storage_init`
(`nvs.c:76-83`) that erases a partition which is full or of another version before
the queue starts. The history `damaged` says that a save was cut or failed, or that a
key could not be read: `RingShape` speaks of the ring until then, and
`PendingFifo` has an action `Damage` after which it promises nothing. `Erase` of
`PendingFifo` is possible only while the queue is down (`up`). `PowerSpec`,
used by `PendingTorn`, is `Spec` without failing writes, unreadable keys and erases. One task uses the queue at
a time, which is so on the LCD board.

### Camera and Logger

`Camera` cuts the steps of the two tasks where the other may run. The MQTT task
preempts `qr_scan` anywhere, so a push is a step per access to the shared ring:
`ClearSlot`, `FillSlot`, `TestCount`, `IncrementCount` (from the value that
`TestCount` read) or `LoadHead` and `MoveHead`, then one `SaveRing` per key, whose
argument may be older than the write. `qr_scan` runs only where the MQTT task
waits: at a publication and at a write to NVS (`PeekOldest`, `PublishOldest`,
`PopOldest`, `SavePop`). The helpers of the ring come from `PendingQueue` by
`INSTANCE`, the logger's steps from `Logger`. A slot that is being filled is
`Blank` until its topic, the last field, is there; the topic and the increment of
`s_tail` are one step, because the MQTT task reads the tail only to save it, an
overlap that `raced` records anyway. At start NVS may erase itself (`EraseNvs`) and
any key of either ring may be unreadable; each counts as a fault. Whether the client takes a
message is its own choice; nothing is assumed of the lock inside it. `sent` counts what
the client took; `raced`, `past` are histories: that a push and a round of the flush
overlapped, and what power cuts, faults and the full ring have done.

Without a lock the overlap does harm: an update of `s_count` or `s_head` gets lost, an
event is overwritten between its peek and its pop, and with it scans are lost or
repeated though no power was cut. `ScanAccounted` and `OneRepeatPerCut` say that
nothing else loses or repeats one; drop `~raced` from `Disturbed` and TLC finds a lost
scan (`main/proyecto_final.c:359-362` says that a scan is kept). `logger.h:32` says that
`logger_push` returns false on an error; it returns true when its save fails.

`Logger` is one logger of one task. `logHurt` is the history of writes that failed,
keys that were not readable and erases. Power cuts alone never make it show an empty entry
(`NoEmptyEntry`); a cut save can leave the entries out of order, which is why
`HistoryInOrder` excepts it. The second logger (`logger_recibido`) is not in `Camera`.

### HashTable, TableCalls, ProductDb

The hash of an id is a constant function `Home`, so ids collide as an instance
wants. A probe loop is the set of the offsets it visits before it stops.
`ProductDb` splits each operation at the call of `product_db_save_snapshot`: the
first step changes the table, `SaveSnapshot` writes the blob or undoes the change.
`StartNvs` is `nvs_storage_init`: it may fail, and it may first erase the
partition, full or of another version, and go on (`nvs.c:76-83`). It runs in `InitDb`
and, when that start failed, again in `NetworkInit`, when the table already holds the
catalogue. A snapshot may be unreadable, and power may be lost at any step. NVS writes
a blob as a whole. `ProductStore` follows with `open`, that the copy can be
written: `Restart` and `Open` come before and may lose the copy (`KeptOrErased`),
nothing else may. Its `Change` leaves the new stock of the one product free, since
`product_db_upsert_product` sets any stock; that an operation computes the right amount
is not what this refinement shows. Ids fit in `Product.id`: those of the catalogue have 11 characters, and
the callers pass an `active_product.id`. On the board only `init`,
`load_catalog`, `add_stock` and `find` are called; the other operations are part
of the interface and are checked too. `find` only reads, also from the MQTT task,
which can see a stock that a failed save then takes back; that reader is not in
the model.

### WifiManager

Three tasks meet in `wifi_manager.c`. A call of the web server's task is one step
per NVS write, critical section and driver call (`call.step`). The event task takes
the events in order; inside the handler of a disconnection it logs between clearing
the status and looking at `s_credentials_saved`, so these are two steps. The
driver is external and does what the code counts on: `esp_wifi_connect` starts an
attempt only from an idle station, `esp_wifi_set_config` is refused during an
attempt, an ended attempt or connection posts a disconnection. `call.stored` is a
history variable. Left out: the access point, the LED, and the event the LCD board
posts to its machine (`WifiGotIp` in `Fsm`), and errors of `esp_wifi_set_config` other
than its refusal during an attempt. `EraseAtStart` is the erase of `nvs_storage_init`;
`WifiManagerInit` may find stored credentials unreadable and then has none. `wifi_manager_clear_credentials` has
no caller on the boards and is checked as part of the interface.

The reason for the first critical section of `wifi_manager_set_credentials` is
`StoredIsUsed`: were `s_credentials_saved` true during the call, the handler
could start an attempt with the old pair between the disconnection and
`esp_wifi_set_config`, which the driver would then refuse.

## What is checked

Passing runs:

| run | shows |
|---|---|
| `FsmRaces` | interleavings with `FAKE_QR_DEMO` racing with the dispatcher and a two-event queue that overflows: self-posted events are never late, and nothing is shown or published that was not added |
| `FsmCalm` | with scans one at a time, the machine implements `Inventory`; a confirmed addition is always on its way; the LCD shows what `product_db` holds |
| `FsmUnhurried` | liveness: a received scan is answered, a publication ends accepted or stored, the waiting screen comes back; the operator decides on what the screen shows |
| `Pending` | until a save is torn or a key unreadable the ring is sound and implements `PendingFifo` across restarts and erases; `true` means durable, whatever failed before; a torn push loses no older event |
| `CameraRaces` | the camera board: every scan is accounted for, each power cut repeats one event at most, what was published is in the history, the history is in order, a flush empties the queue |
| `TableCalls` | the hash table implements `ProductMap`; tombstones hide nothing |
| `DbOperations` | RAM and flash agree between operations, also when NVS erases itself at start, and `ProductDb` implements `ProductStore` |
| `WifiRaces` | the Wi-Fi status is true once events are handled; stored credentials are in use; a station with credentials is never left idle and gets online again |

Runs that show a disagreement between the code and what its comments say (each is
a finding in `PROJECT.json` with the quotation):

| run | disagreement |
|---|---|
| `FsmKeepsProduct` | a scan can replace the product of a flow in progress (check at `fsm.c:573`, use after it) |
| `FsmFlush` | the connection event received outside `STATE_IDLE` flushes nothing |
| `FsmReport` | a button pressed while the updated product is shown stops the hold timer for good; the addition is never reported |
| `PendingTorn` | power lost inside a pop leaves a cleared slot at the head, and every later flush stops there |

### Bounds

`Fsm` runs with one registered and one unknown product. Products are compared and
copied only, and two are enough for one to replace the other. The
event queue of 20 is 2 long, because its only special lengths are empty, full and
one free place, and 5 long in `FsmUnhurried`, which needs room for every poster at
once, and where the operator can choose two amounts; the scan queue of 10 is 1 long and the pending queue of 20 holds 1, both
lengths at which empty and full occur. `MaxQuantity` (99) is 1 or 2 and `MaxStock`
(2^32 - 1) 1 or 2, so that both limits are met. Runs with one property of
interest enable only the buttons and network events that matter to it (`Inputs`);
`FsmCalm` has them all. `Pending` has 3 slots and 4 events, so that the ring wraps,
overwrites and wraps again; the same event is not pushed again while a copy of it is
left. `CameraRaces` has 2 slots in the queue (20) and 2 in the history (20), 3 scans,
one power cut and one fault of NVS: the third scan meets a full ring and a full
history, and each property about a cut or a fault needs one of them. The hash table has 3 entries and 4 ids, three of
them in one chain that wraps around; in `ProductDb` 3 entries, 3 ids and a
catalogue of 2. `WifiManager` has two networks and two passwords, so that a mixed
pair exists, and an event queue (32 on the board) in which the driver posts and
calls start while it holds fewer than 4: a call posts one event and at most two
more concern one connection.

### Fairness and assumptions

`FsmUnhurried` and `FsmReport` use weak fairness of each task's next step and of
the timer. FreeRTOS time-slices tasks of equal priority and the
higher ones block after each event, so every ready task runs. No fairness is
assumed of buttons, scans or the network. The timer of the idle screen and its
callback get the same. `CameraRaces` assumes weak fairness of the flush: its task has
the highest priority of the application and its writes end. `WifiRaces` adds strong fairness of
the router to that of the event task and the web server's: `Reconnects` is about
a pair that some router accepts, so an attempt repeated for ever meets it once.

`CalmSpec` assumes that the next scan arrives after the machine has finished with
the one before. `FsmKeepsProduct` shows why: without it the statements of
`FsmCalm` are false. (A second scan can also overwrite one that the dispatcher
has delivered and the machine has not received yet: the state is still `STATE_IDLE`.) `UnhurriedSpec` also assumes that an input
finds the event queue empty. Without it a self-posted event can be lost in a
full queue, and a machine in a state without a timeout stops.

## What is proved

Every theorem holds for every value of the constants that satisfies the assumptions
of its modules: no bound of the runs is left. `PROJECT.json` lists the theorems.

### The machine

`Fsm_proofs`, for every catalogue, script, queue length and bound:

- `TypeCorrect`: `Spec => []TypeOK`. In particular the quantity stays between 1 and
  `MaxQuantity`, and no addition overflows the stock.
- `AutoEventsOnTime`: `Spec => []AutoEventMatchesState`. An event posted by an
  action is the only one of its kind in the queue, and the machine waits for it.
- `PublishBacked`: `Spec => []PublishFollowsUpdate`. A stale timeout never leads
  to a publication.

The inductive invariant is `IInv`: the type invariant, the two properties, and
`ActionFitsState`, which says in which state the actions that post or settle what
is owed run. It is needed because an action's post is right only in the state the
transition has entered: `current_state` is assigned first, and other tasks
run in between. The argument has three parts. Facts about the rows of the
table (a state that waits for a self-posted event is left by such an event only).
`ForeignerStep`: a step of any other task changes neither `state` nor `action`
and posts no event of the machine's own. `ReceiveStep` and `FsmTaskStep`: the
machine's own steps, action by action.

`FsmCalm_proofs`, for scans one at a time and without the demo
(`NoDemoAssumption`), which they need (`FsmKeepsProduct`):

- `AdditionsReachTheNetwork`: a confirmed addition is always on its way.
- `ScreenShowsTheStock`: the product the LCD shows has the stock of `product_db`.
- `MachineIsInventory`: `CalmSpec` implements `Inventory`.
- `ScreenIsRight` and `UnhurriedScreenIsRight`: the screen the operator decides on is
  that of the flow, although the idle timer of the flow before may still draw.

`CalmInv` adds to `IInv` what calm scans give: `ScanInv`, that a scan, its event and a
flow are never in the system together; `ProductInv`, that the product
the machine holds is that of the flow; `OwedInv`, where each addition that is owed is.
`ScreenInv` adds `CallbackInv`: a callback that has found the machine idle and still has
to draw comes before the action that draws a later state.
Every step of `CalmNext` maps to one step of `Inventory` or to none
(`InventoryStep`).

### The queue

`PendingQueue_proofs`, for every set of events and size of the ring: `TypeCorrect`,
`TrueIsDurable`, `TornPushIsSafe`, `RingKeepsShape`, and `QueueIsFifo`
(`Spec => ImplementsFifo`). The inductive invariant has one part for each promise.
`SaveInv`: a key already written in a save without failures equals its variable.
`ShapeInv`: what an undamaged queue is when it runs and when it is switched off.
`TornInv`: during and after the save of a push into a sound ring with room, NVS holds
the older events at their places whichever of the four keys are new. The promises are
not inductive alone: each speaks of the end of a save or of a restart, and what makes
it true is spread over the writes before.

### The hash table and product_db

`HashTable_proofs` has the lemmas: in a table that is `Neat` (an id occurs once, no
empty entry lies before it in its probe sequence, and the counter is the number of
occupied entries) `find` finds exactly the content, and each function keeps `Neat` and
does to the content what it does to a map. The probe loops end at the first entry that
stops them; that such an entry exists and is unique comes from the well-foundedness of
the subsets of a finite set (`SmallestExists`), which replaces an induction
over the length of the loop. `TableCalls_proofs` concludes `TableAlwaysSound` and
`TableIsMap` for every order of the calls.

`ProductDb_proofs`: `TypeCorrect`, `RamIsFlash`, `TablesStaySound` and `DbIsStore`, over
failing saves, boots and power cuts. `OpInv` says that between the two steps of an
operation its undo is possible and has room; `SavedInv` that what the undo would give
has the content of NVS; `OffInv` that NVS is not open while the board is off, which is
when `ProductStore` lets the copy be erased. Neither follows from the other: that the undo restores the
content needs `Neat` of the table in between, which holds tombstones the copy in NVS has not. The proof of
`DbIsStore` corrected `ProductStore`: it promised every product of the catalogue, which
a full table cannot hold. The proofs use `CatalogAssumption` (the catalogue is not
empty and `MaxStock` is at least 1).

### The camera board

`Camera_proofs`, for every number of scans, cuts and faults and every size of the two
rings, with the preemptions as described above:

- `TypeCorrect`: no index or register leaves its range, whatever the tasks do to each
  other's ring. `PlaceInv` says what each register holds at the step that uses it.
- `NoEmptyEntryShown`. `CopyInv`: NVS has what the logger had, up to the key the save
  is at. `FilledInv`: each of the two copies of the history, and every mixture of them
  that a cut can leave, is filled up to its tail or everywhere.
- `HistoryRunsInOrder`. `OrderInv`: the entries from head to tail grow, in RAM and, while no
  save is half done, in NVS.
- `LoggedBeforeHeard`. `LoggedInv`: every event that someone else has, be it the client,
  the ring in RAM or in NVS or a task that has passed the save of the log, is
  in both copies of the history at an age of at most the number of scans since.
- `ScansAccounted`: no scan is lost (`ScanAccounted`). `AccountInv`, while nothing disturbed the queue:
  every scan is elsewhere or among the events of the ring in RAM, also between the
  accesses of a push (`RamInv`); the ring in NVS accounts for them too, except while
  it is half written (`FlashInv`), since a pop has published its event before, and
  a push still has its scan in hand; what the tasks have in registers is still so
  (`HandInv`). `ApartInv` gives the steps of push and flush mutual exclusion until they meet.
- `RepeatsArePaid`: `OneRepeatPerCut`. `Again` are the events that were published twice
  or may be, since a published event is still in a ring. `RepeatInv` says that cuts and faults pay
  for all of them but one at most, the one whose pop is not saved yet. It holds of
  torn queues too, for it looks at all slots and not at those the indices show, and
  needs `OnceInv`: no buffer has an event twice.

`AbsentAssumption` says that `Absent` is none of the values a key can hold.

### The Wi-Fi manager

`Wifi_proofs` proves for all sets of networks and passwords, every set of valid
pairs and any bound on the events that `WifiManager` has the invariants of
`WifiRaces` (`WifiTypes`, `StatusIsTrue`, `StationNeverStalls`,
`StoredAreUsed`). None of them is inductive. `CallInv` says what holds at each step
of a call; its heart is that `s_credentials_saved` is false from the first
critical section to the second, so the handler starts no attempt there. `StatusInv`
says that the last queued event decides the status (`LastStatus`), except between
marking a connection ended and ending it. `StallInv` names who will start the
next attempt of an idle station.

### What is only model-checked

Every invariant and every refinement of the passing runs is proved. Liveness under
fairness is out of the prover's reach, so `ScanAnswered`, `PublishAnswered`,
`WaitingComesBack`, `Reconnects` and `FlushEmpties` rest on TLC and on the bounds
above. The runs that show a disagreement are counterexamples, which need no proof.

## Not modelled

`PROJECT.json` gives the reason for each component. In short: rendering, LEDs, time of
day, camera decoding and the web pages keep no state whose order matters, or keep it
in third-party code (the form that sets the Wi-Fi credentials is `Request` of
`WifiManager`). JSON and formatting are left out: a message is an id.

## Plan

1. The network's view of the stock: the catalogue published at each connection, the
   publications and the flushed events, ordered by their timestamps, with the MQTT
   task reading `product_db` during a save.
2. `touchpad`: edges and lost presses.
3. Proofs: the steps of the liveness arguments that are safety (what the flush of
   `Camera` makes smaller with each round, who owes the next step of a received scan).
