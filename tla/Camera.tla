-------------------------------- MODULE Camera --------------------------------
(***************************************************************************)
(* The camera board (DEVICE_IS_CAM): the task qr_scan, which logs every    *)
(* scan, publishes it and stores it in pending_queue when the MQTT client  *)
(* does not take it, and the MQTT task, which resends the queue when it is *)
(* connected.  Both work on the ring of pending_queue with no lock.        *)
(*                                                                         *)
(* The MQTT task has priority 5 and qr_scan 4 on one core.  The MQTT task  *)
(* may come between any two accesses of qr_scan to the ring; qr_scan runs  *)
(* only where the MQTT task waits: to publish, to log, to write to NVS.    *)
(* The steps below are cut at exactly these places.                        *)
(*                                                                         *)
(* An event is the number of its scan; a QR without an id is an event too  *)
(* (its ERROR message takes the same way).  A slot that is being filled is *)
(* Blank: its topic, filled last, is missing and nobody publishes it.      *)
(***************************************************************************)
EXTENDS Integers, Sequences, FiniteSets

CONSTANTS
  Blank, Absent,
  Size,       \* PENDING_QUEUE_SIZE (20)
  LogSize,    \* LOGGER_SIZE (20)
  MaxScans,   \* bound: scans
  MaxCuts,    \* bound: times the power is cut
  MaxFaults   \* bound: failing reads and writes of NVS, and erases of it

Scans == 1..MaxScans

ASSUME CameraAssumption ==
  /\ MaxScans \in Nat /\ MaxCuts \in Nat /\ MaxFaults \in Nat
  /\ Size \in Nat \ {0} /\ LogSize \in Nat \ {0}
  /\ Blank \notin Scans

ASSUME AbsentAssumption ==
  /\ Absent \notin 0..Size /\ Absent \notin [0..(Size - 1) -> Scans \cup {Blank}]
  /\ Absent \notin 0..LogSize /\ Absent \notin [0..(LogSize - 1) -> Scans \cup {Blank}]

VARIABLES
  buf, head, tail, count,            \* s_buffer, s_head, s_tail, s_count
  nvs,                               \* the four keys of pending_queue
  log, logNvs, logWriting, logHurt,  \* logger_local, see Logger
  client,   \* cliente_hivemq # NULL
  qr,       \* app_main until it has started qr_scan, then qr_scan
  mqtt,     \* the MQTT task
  scanned,  \* scans so far; while qr_scan works, the one it works on
  sent,     \* history: how often the client took each event
  raced,    \* history: a push and a round of the flush overlapped
  past      \* history: power cuts, faults of NVS, whether a save of the queue
            \* or of the log was cut short, the events the full ring gave up and
            \* those a cut took from qr_scan

ringVars == <<buf, head, tail, count>>
logs     == <<log, logNvs, logWriting, logHurt>>
vars     == <<ringVars, nvs, logs, client, qr, mqtt, scanned, sent, raced, past>>

Queue == INSTANCE PendingQueue WITH
           Events <- Scans, up <- qr.at # "off",
           writing <- 0, ok <- TRUE, attempt <- 0, damaged <- FALSE

INSTANCE Logger WITH Entries <- Scans, NoEntry <- Blank, NotStored <- Absent

-----------------------------------------------------------------------------
(* Where the two tasks are.                                                *)

Booting == {"off", "reset", "load_log"}
Storing == {"fill", "test", "count", "load", "head", "save"}

InStore(r) == r.at \in Storing             \* a push has begun to change the ring
InFlush(m) == m.at \in {"publish", "pop", "save"}  \* an event was peeked
InHand     == qr.at \notin Booting \cup {"idle"}

\* seen: a copy of count or head in a register; arg: the argument of the next
\* write, which may be evaluated long before the write.
QrAt(place) == [at |-> place, seen |-> 0, key |-> 0, arg |-> 0]

QrGoes(r) == /\ qr' = r /\ raced' = (raced \/ (InStore(r) /\ InFlush(mqtt)))
             /\ UNCHANGED <<mqtt, client>>
MqttGoes(m) == /\ mqtt' = m /\ raced' = (raced \/ (InStore(qr) /\ InFlush(m)))
               /\ UNCHANGED <<qr, scanned, logs>>

\* An access to NVS succeeds, or fails within the bound.
Access(succeeds) ==
  /\ succeeds \/ past.faults < MaxFaults
  /\ past' = IF succeeds THEN past ELSE [past EXCEPT !.faults = @ + 1]

Took(e) == sent' = [sent EXCEPT ![e] = @ + 1]

\* pending_queue_save starts with the buffer.
Saving(place) == [QrAt(place) EXCEPT !.key = 1]

-----------------------------------------------------------------------------
(* qr_scan: camera_on_qr_detected.                                         *)

\* Mutant: the scan is published without being logged.
Scan_Unlogged ==
  /\ qr.at = "idle" /\ logWriting = 0 /\ scanned < MaxScans
  /\ scanned' = scanned + 1
  /\ QrGoes(QrAt("check"))
  /\ UNCHANGED <<ringVars, nvs, logs, sent, past>>

\* procesar_y_publicar puts the event into the history first.
Scan ==
  /\ qr.at = "idle" /\ scanned < MaxScans
  /\ scanned' = scanned + 1
  /\ LoggerPush(scanned + 1)
  /\ QrGoes(QrAt("log"))
  /\ UNCHANGED <<ringVars, nvs, sent, past>>

SaveLog(succeeds) ==
  /\ LoggerSave(succeeds) /\ Access(succeeds)
  /\ QrGoes(IF qr.at = "log" /\ logWriting = Len(LogKeys) THEN QrAt("check") ELSE qr)
  /\ UNCHANGED <<ringVars, nvs, scanned, sent>>

CheckClient ==
  /\ qr.at = "check"
  /\ QrGoes(QrAt(IF client THEN "send" ELSE "clear"))
  /\ UNCHANGED <<ringVars, nvs, logs, scanned, sent, past>>

\* Mutant: camera_on_qr_detected ignores the result and always stores.
Publish_StoresAlways ==
  /\ qr.at = "send"
  /\ \/ client /\ Took(scanned)
     \/ UNCHANGED sent
  /\ QrGoes(QrAt("clear"))
  /\ UNCHANGED <<ringVars, nvs, logs, scanned, past>>

\* The client takes the event or not; it may be gone since it was checked.
Publish ==
  /\ qr.at = "send"
  /\ \/ client /\ Took(scanned) /\ QrGoes(QrAt("idle"))
     \/ QrGoes(QrAt("clear")) /\ UNCHANGED sent
  /\ UNCHANGED <<ringVars, nvs, logs, scanned, past>>

\* pending_queue_push, access by access.  A full ring gives up the event in the
\* slot it is about to fill.
ClearSlot ==
  /\ qr.at = "clear"
  /\ buf' = [buf EXCEPT ![tail] = Blank]
  /\ past' = IF count = Size THEN [past EXCEPT !.dropped = @ \cup {buf[tail]}] ELSE past
  /\ QrGoes(QrAt("fill"))
  /\ UNCHANGED <<head, tail, count, nvs, logs, scanned, sent>>

\* The topic, which ends the filling, and s_tail++ are one step: the MQTT task uses
\* the tail only to save it, an overlap that raced records.
FillSlot ==
  /\ qr.at = "fill"
  /\ buf' = [buf EXCEPT ![tail] = scanned] /\ tail' = Queue!After(tail)
  /\ QrGoes(QrAt("test"))
  /\ UNCHANGED <<head, count, nvs, logs, scanned, sent, past>>

\* Mutant: the counter also grows when the ring is full.
TestCount_Unchecked ==
  /\ qr.at = "test"
  /\ QrGoes([QrAt("count") EXCEPT !.seen = count])
  /\ UNCHANGED <<ringVars, nvs, logs, scanned, sent, past>>

TestCount ==
  /\ qr.at = "test"
  /\ QrGoes(IF count < Size THEN [QrAt("count") EXCEPT !.seen = count] ELSE QrAt("load"))
  /\ UNCHANGED <<ringVars, nvs, logs, scanned, sent, past>>

IncrementCount ==
  /\ qr.at = "count"
  /\ count' = qr.seen + 1
  /\ QrGoes(Saving("save"))
  /\ UNCHANGED <<buf, head, tail, nvs, logs, scanned, sent, past>>

LoadHead ==
  /\ qr.at = "load"
  /\ QrGoes([QrAt("head") EXCEPT !.seen = head])
  /\ UNCHANGED <<ringVars, nvs, logs, scanned, sent, past>>

MoveHead ==
  /\ qr.at = "head"
  /\ head' = Queue!After(qr.seen)
  /\ QrGoes(Saving("save"))
  /\ UNCHANGED <<buf, tail, count, nvs, logs, scanned, sent, past>>

\* nvs_storage_set_blob gets a pointer to the buffer, nvs_storage_set_int a value.
Argument(key) == IF key = "buf" THEN {buf} ELSE {qr.arg, Queue!Ram[key]}

\* One write of pending_queue_save, also of the one pending_queue_init makes
\* of a new queue.
SaveRing(succeeds) ==
  /\ qr.at \in {"save", "reset"} /\ Access(succeeds)
  /\ LET key == Queue!Keys[qr.key]
     IN  \E value \in Argument(key) :
           nvs' = IF succeeds THEN [nvs EXCEPT ![key] = value] ELSE nvs
  /\ QrGoes(IF qr.key < Len(Queue!Keys)
            THEN [qr EXCEPT !.key = @ + 1, !.arg = Queue!Ram[Queue!Keys[qr.key + 1]]]
            ELSE QrAt(IF qr.at = "reset" THEN "load_log" ELSE "idle"))
  /\ UNCHANGED <<ringVars, logs, scanned, sent>>

-----------------------------------------------------------------------------
(* The MQTT task: the events of the client, and mqtt_handler_flush_pending *)
(* in the handler of MQTT_EVENT_CONNECTED.                                 *)

MqttAt(place) == [at |-> place, event |-> Blank, key |-> 0, ok |-> TRUE, refused |-> FALSE]

MqttConnected ==
  /\ qr.at \notin Booting /\ mqtt.at = "idle" /\ ~client
  /\ client' = TRUE
  /\ MqttGoes(MqttAt("peek"))
  /\ UNCHANGED <<ringVars, nvs, sent, past>>

MqttDisconnected ==
  /\ mqtt.at = "idle" /\ client
  /\ client' = FALSE
  /\ MqttGoes(MqttAt("idle"))
  /\ UNCHANGED <<ringVars, nvs, sent, past>>

\* Mutant: the loop stops one event early.
PeekOldest_OneLeft ==
  /\ mqtt.at = "peek"
  /\ MqttGoes(IF count <= 1 THEN MqttAt("idle")
              ELSE [MqttAt("publish") EXCEPT !.event = buf[head]])
  /\ UNCHANGED <<ringVars, nvs, client, sent, past>>

\* The head of the loop: stop with an empty queue, else peek.
PeekOldest ==
  /\ mqtt.at = "peek"
  /\ MqttGoes(IF count = 0 THEN MqttAt("idle")
              ELSE [MqttAt("publish") EXCEPT !.event = buf[head]])
  /\ UNCHANGED <<ringVars, nvs, client, sent, past>>

\* Mutant: an event the client refuses is popped all the same.
PublishOldest_PopsRefused ==
  /\ mqtt.at = "publish"
  /\ \/ mqtt.event # Blank /\ Took(mqtt.event)
     \/ UNCHANGED sent
  /\ MqttGoes(MqttAt("pop"))
  /\ UNCHANGED <<ringVars, nvs, client, past>>

\* A Blank event has no timestamp, so publicar_evento_con_timestamp refuses it.
PublishOldest ==
  /\ mqtt.at = "publish"
  /\ \/ mqtt.event # Blank /\ Took(mqtt.event) /\ MqttGoes(MqttAt("pop"))
     \/ MqttGoes([MqttAt("idle") EXCEPT !.refused = TRUE]) /\ UNCHANGED sent
  /\ UNCHANGED <<ringVars, nvs, client, past>>

PopOldest ==
  /\ mqtt.at = "pop"
  /\ IF count = 0 THEN MqttGoes(MqttAt("idle")) /\ UNCHANGED ringVars
     ELSE Queue!SetRing(Queue!Popped) /\ MqttGoes([MqttAt("save") EXCEPT !.key = 1])
  /\ UNCHANGED <<nvs, client, sent, past>>

\* A pop that could not be saved ends the flush.
SavePop(succeeds) ==
  /\ mqtt.at = "save" /\ Access(succeeds)
  /\ LET key == Queue!Keys[mqtt.key]
     IN  nvs' = IF succeeds THEN [nvs EXCEPT ![key] = Queue!Ram[key]] ELSE nvs
  /\ MqttGoes(IF mqtt.key < Len(Queue!Keys)
              THEN [mqtt EXCEPT !.key = @ + 1, !.ok = @ /\ succeeds]
              ELSE MqttAt(IF mqtt.ok /\ succeeds THEN "peek" ELSE "idle"))
  /\ UNCHANGED <<ringVars, client, sent>>

FlushPending == \/ PeekOldest \/ PublishOldest \/ PopOldest
                \/ \E succeeds \in BOOLEAN : SavePop(succeeds)

-----------------------------------------------------------------------------
(* Power.                                                                  *)

\* app_network_init: nvs_storage_init erases a partition that is full or of another
\* version; a fault of NVS too ...
EraseNvs ==
  /\ qr.at = "off" /\ Access(FALSE)
  /\ nvs' = Queue!NothingStored /\ LoggerErased
  /\ QrGoes(qr)
  /\ UNCHANGED <<ringVars, scanned, sent>>

\* ... pending_queue_init, where any of the keys may fail to be read ...
BootQueue(readable) ==
  /\ qr.at = "off" /\ Access(readable = Queue!AllKeys)
  /\ IF "buf" \in readable /\ nvs.buf # Absent /\ Queue!Valid(Queue!Found(readable))
     THEN Queue!SetRing(Queue!Found(readable)) /\ QrGoes(QrAt("load_log"))
     ELSE Queue!SetRing(Queue!Reset) /\ QrGoes(Saving("reset"))
  /\ UNCHANGED <<nvs, logs, scanned, sent>>

\* ... and logger_init; then app_camera_init starts qr_scan.
BootLogger(readable) ==
  /\ qr.at = "load_log" /\ Access(readable = AllLogKeys)
  /\ LoggerInit(readable)
  /\ QrGoes(QrAt("idle"))
  /\ UNCHANGED <<ringVars, nvs, scanned, sent>>

CutsSave == \/ qr.at \in {"save", "reset"} /\ qr.key > 1
            \/ mqtt.at = "save" /\ mqtt.key > 1

PowerLoss ==
  /\ qr.at # "off" /\ past.cuts < MaxCuts
  /\ qr' = QrAt("off") /\ mqtt' = MqttAt("idle") /\ client' = FALSE
  /\ Queue!SetRing(Queue!Reset) /\ LoggerLost
  /\ past' = [past EXCEPT !.cuts = @ + 1, !.torn = @ \/ CutsSave,
                          !.tornLog = @ \/ logWriting > 1,
                          !.taken = IF InHand THEN @ \cup {scanned} ELSE @]
  /\ UNCHANGED <<nvs, scanned, sent, raced>>

-----------------------------------------------------------------------------
Init ==
  /\ buf = Queue!Emptied /\ head = 0 /\ tail = 0 /\ count = 0
  /\ nvs = Queue!NothingStored
  /\ LogInit
  /\ client = FALSE /\ qr = QrAt("off") /\ mqtt = MqttAt("idle")
  /\ scanned = 0 /\ sent = [e \in Scans |-> 0] /\ raced = FALSE
  /\ past = [cuts |-> 0, faults |-> 0, torn |-> FALSE,
             tornLog |-> FALSE, dropped |-> {}, taken |-> {}]

QrScan ==
  \/ Scan \/ CheckClient \/ Publish
  \/ ClearSlot \/ FillSlot \/ TestCount \/ IncrementCount \/ LoadHead \/ MoveHead
  \/ \E succeeds \in BOOLEAN : SaveLog(succeeds) \/ SaveRing(succeeds)

Next ==
  \/ QrScan
  \/ MqttConnected \/ MqttDisconnected \/ FlushPending
  \/ \E readable \in SUBSET Queue!AllKeys : BootQueue(readable)
  \/ \E readable \in SUBSET AllLogKeys : BootLogger(readable)
  \/ EraseNvs \/ PowerLoss

\* The MQTT task finishes the handler it is in.
Spec == Init /\ [][Next]_vars /\ WF_vars(FlushPending)

-----------------------------------------------------------------------------
\* Whatever the two tasks do to each other's ring, every index they use stays
\* inside it.
TypeOK ==
  /\ Queue!Ram \in Queue!Ring
  /\ nvs.buf \in [Queue!Slots -> Scans \cup {Blank}] \cup {Absent}
  /\ nvs.head \in Queue!Slots \cup {Absent} /\ nvs.tail \in Queue!Slots \cup {Absent}
  /\ nvs.count \in 0..Size \cup {Absent}
  /\ LogTypeOK
  /\ client \in BOOLEAN /\ raced \in BOOLEAN /\ scanned \in 0..MaxScans
  /\ qr.at \in Booting \cup Storing \cup {"idle", "log", "check", "send", "clear"}
  /\ mqtt.at \in {"idle", "peek", "publish", "pop", "save"}
  /\ mqtt.event \in Scans \cup {Blank}

\* The events a restart would find, or the queue has.
Waiting ==
  LET r == IF qr.at # "off" THEN Queue!Ram
           ELSE IF nvs.buf = Absent THEN Queue!Reset ELSE Queue!Loaded
  IN  {Queue!Content(r)[i] : i \in 1..r.count}

Disturbed == raced \/ past.torn \/ past.faults > 0

\* main.c:359-362: a scan is never lost.  Unless the two tasks met in the ring, or a
\* save was cut or failed, every scan is in qr_scan's hands, taken by the MQTT
\* client, waiting in the queue, given up by a full queue, or was taken from
\* qr_scan's hands by a power cut.
ScanAccounted ==
  ~Disturbed =>
    \A e \in 1..scanned :
      \/ e = scanned /\ InHand
      \/ sent[e] > 0 \/ e \in Waiting \/ e \in past.dropped \/ e \in past.taken

\* What is published twice: unless the two tasks met in the ring, each power cut
\* and each fault of NVS repeats one event at most, the one between its
\* publication and its durable pop, also if it leaves a torn queue behind.
Repeated == {e \in Scans : sent[e] > 1}
OneRepeatPerCut ==
  ~raced =>
    /\ Cardinality(Repeated) <= past.cuts + past.faults
    /\ \A e \in Scans : sent[e] <= 1 + past.cuts + past.faults

\* An event is in the stored history before anyone hears of it: it was published,
\* or is stored as pending, only if logger_local has it in NVS or LogSize newer
\* scans pushed it out, also over power cuts.
LoggedFirst ==
  ~logHurt =>
    \A e \in 1..scanned :
      sent[e] > 0 \/ (nvs.buf # Absent /\ \E s \in Queue!Slots : nvs.buf[s] = e) =>
        \/ scanned - e >= LogSize
        \/ logNvs.buffer # Absent /\ \E s \in LogSlots : logNvs.buffer[s] = e

\* Unless its save was cut or failed, the history runs from the oldest entry to the
\* newest, also when it wrapped around and was loaded again.
HistoryInOrder ==
  ~logHurt /\ ~past.tornLog =>
    \A i \in 1..log.count, j \in 1..log.count :
      i < j => History(log)[i] < History(log)[j]

\* Once connected the board sends all that waits: a flush that has started leaves
\* the queue empty, although qr_scan may add to it meanwhile, unless the client
\* refuses an event of this flush, the power goes, or the queue was disturbed.
FlushEmpties ==
  mqtt.at = "peek" ~> count = 0 \/ mqtt.refused \/ qr.at = "off" \/ Disturbed
=============================================================================
