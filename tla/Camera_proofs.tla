---------------------------- MODULE Camera_proofs ----------------------------
(***************************************************************************)
(* Camera for every number of scans, cuts and faults and every size of the *)
(* queue and of the history.  The parts follow one another: types, what    *)
(* the history shows over torn saves, its order, what it has of each event *)
(* anybody heard of, where every scan is, and what is published twice.     *)
(***************************************************************************)
EXTENDS Camera, FiniteSetTheorems, TLAPS

Entry == Scans \cup {Blank}

\* The variables that are records, with what TypeOK says of each field.
RingSlots == 0..(Size - 1)
LogRing   == [ buffer : [LogSlots -> Entry], head : LogSlots, tail : LogSlots,
               count : 0..LogSize ]
LogFlash  == [ buffer : [LogSlots -> Entry] \cup {Absent}, head : LogSlots \cup {Absent},
               tail : LogSlots \cup {Absent}, count : 0..LogSize \cup {Absent} ]

LogT == log \in LogRing /\ logNvs \in LogFlash /\ logWriting \in 0..4 /\ logHurt \in BOOLEAN

LEMMA LogKeysAre ==
  /\ Len(LogKeys) = 4 /\ LogKeys[1] = "buffer" /\ LogKeys[2] = "head"
  /\ LogKeys[3] = "tail" /\ LogKeys[4] = "count"
BY DEF LogKeys

\* A step of at most a whole turn from a slot, without the remainder.
LEMMA LogTurn ==
  ASSUME NEW a \in LogSlots, NEW b \in 0..LogSize
  PROVE  /\ (a + b) % LogSize = IF a + b < LogSize THEN a + b ELSE a + b - LogSize
         /\ (a + b) % LogSize \in LogSlots
BY CameraAssumption DEF LogSlots

LEMMA LogAfterIs ==
  ASSUME NEW a \in LogSlots
  PROVE  /\ LogAfter(a) = IF a + 1 < LogSize THEN a + 1 ELSE 0
         /\ LogAfter(a) \in LogSlots
BY CameraAssumption DEF LogSlots, LogAfter

LEMMA NewLogType ==
  /\ NewLog \in LogRing /\ NewLog.head = 0 /\ NewLog.tail = 0 /\ NewLog.count = 0
  /\ \A s \in LogSlots : NewLog.buffer[s] = Blank
BY CameraAssumption DEF NewLog, LogRing, LogSlots, Entry

LEMMA LogInitType ==
  LogInit => LogT /\ \A key \in {"buffer", "head", "tail", "count"} : logNvs[key] = Absent
<1> SUFFICES ASSUME LogInit PROVE LogT /\ \A key \in {"buffer", "head", "tail", "count"} : logNvs[key] = Absent
  OBVIOUS
<1>1. logNvs = [key \in {"buffer", "head", "tail", "count"} |-> Absent]
  BY DEF LogInit, AllLogKeys
<1>2. logNvs \in LogFlash
  BY <1>1 DEF LogFlash
<1>3. LogT
  <2>1. log \in LogRing
    BY NewLogType DEF LogInit
  <2>2. logWriting \in 0..4
    BY DEF LogInit
  <2>3. logHurt \in BOOLEAN
    BY DEF LogInit
  <2> QED
    BY <1>2, <2>1, <2>2, <2>3 DEF LogT
<1>4. \A key \in {"buffer", "head", "tail", "count"} : logNvs[key] = Absent
  BY <1>1
<1> QED
  BY <1>3, <1>4

\* logger_push
LEMMA PushIs ==
  ASSUME LogT, NEW e \in Entry, LoggerPush(e)
  PROVE  /\ LogT' /\ logWriting = 0 /\ logWriting' = 1 /\ logNvs' = logNvs /\ logHurt' = logHurt
         /\ log'.buffer = [log.buffer EXCEPT ![log.tail] = e]
         /\ log'.tail = LogAfter(log.tail)
         /\ log'.count = IF log.count < LogSize THEN log.count + 1 ELSE log.count
         /\ log'.head = IF log.count < LogSize THEN log.head ELSE LogAfter(log.head)
<1>1. log' = Logged(e) /\ logWriting = 0 /\ logWriting' = 1 /\ logNvs' = logNvs /\ logHurt' = logHurt
  BY DEF LoggerPush
<1>2. /\ log.buffer \in [LogSlots -> Entry] /\ log.head \in LogSlots /\ log.tail \in LogSlots
      /\ log.count \in 0..LogSize
  BY DEF LogT, LogRing
<1>3. /\ log'.buffer = [log.buffer EXCEPT ![log.tail] = e]
      /\ log'.tail = LogAfter(log.tail)
      /\ log'.count = IF log.count < LogSize THEN log.count + 1 ELSE log.count
      /\ log'.head = IF log.count < LogSize THEN log.head ELSE LogAfter(log.head)
  BY <1>1 DEF Logged
<1>4. log' \in LogRing
  <2>1. [log.buffer EXCEPT ![log.tail] = e] \in [LogSlots -> Entry]
    BY <1>2
  <2>2. (IF log.count < LogSize THEN log.count + 1 ELSE log.count) \in 0..LogSize
    BY <1>2, CameraAssumption
  <2>3. LogAfter(log.tail) \in LogSlots /\ LogAfter(log.head) \in LogSlots
    BY <1>2, LogAfterIs
  <2> QED
    BY <1>1, <1>2, <2>1, <2>2, <2>3 DEF Logged, LogRing
<1> QED
  BY <1>1, <1>3, <1>4 DEF LogT

\* One write of logger_save: the key it is at takes its value, the others stay.
LEMMA LogSaveIs ==
  ASSUME LogT, NEW succeeds \in BOOLEAN, LoggerSave(succeeds)
  PROVE  /\ LogT' /\ log' = log /\ logWriting \in 1..4
         /\ logWriting' = IF logWriting = 4 THEN 0 ELSE logWriting + 1
         /\ logHurt' = (logHurt \/ ~succeeds)
         /\ logNvs'.buffer = IF succeeds /\ logWriting = 1 THEN log.buffer ELSE logNvs.buffer
         /\ logNvs'.head   = IF succeeds /\ logWriting = 2 THEN log.head   ELSE logNvs.head
         /\ logNvs'.tail   = IF succeeds /\ logWriting = 3 THEN log.tail   ELSE logNvs.tail
         /\ logNvs'.count  = IF succeeds /\ logWriting = 4 THEN log.count  ELSE logNvs.count
<1>1. /\ logWriting \in 1..4 /\ log' = log /\ logHurt' = (logHurt \/ ~succeeds)
      /\ logWriting' = IF logWriting = 4 THEN 0 ELSE logWriting + 1
      /\ logNvs' = IF succeeds THEN [logNvs EXCEPT ![LogKeys[logWriting]] = log[LogKeys[logWriting]]]
                   ELSE logNvs
  BY LogKeysAre DEF LoggerSave, LogT
<1>2. log \in LogRing /\ logNvs \in LogFlash
  BY DEF LogT
<1>3. /\ logNvs' \in LogFlash
      /\ logNvs'.buffer = IF succeeds /\ logWriting = 1 THEN log.buffer ELSE logNvs.buffer
      /\ logNvs'.head   = IF succeeds /\ logWriting = 2 THEN log.head   ELSE logNvs.head
      /\ logNvs'.tail   = IF succeeds /\ logWriting = 3 THEN log.tail   ELSE logNvs.tail
      /\ logNvs'.count  = IF succeeds /\ logWriting = 4 THEN log.count  ELSE logNvs.count
  <2>1. CASE ~succeeds
    BY <1>1, <1>2, <2>1
  <2>2. CASE succeeds /\ logWriting = 1
    BY <1>1, <1>2, <2>2, LogKeysAre DEF LogRing, LogFlash
  <2>3. CASE succeeds /\ logWriting = 2
    BY <1>1, <1>2, <2>3, LogKeysAre DEF LogRing, LogFlash
  <2>4. CASE succeeds /\ logWriting = 3
    BY <1>1, <1>2, <2>4, LogKeysAre DEF LogRing, LogFlash
  <2>5. CASE succeeds /\ logWriting = 4
    BY <1>1, <1>2, <2>5, LogKeysAre DEF LogRing, LogFlash
  <2> QED
    BY <1>1, <2>1, <2>2, <2>3, <2>4, <2>5
<1>4. logHurt' \in BOOLEAN
  BY <1>1
<1>5. LogT'
  BY <1>1, <1>2, <1>3, <1>4 DEF LogT
<1> QED
  BY <1>1, <1>3, <1>5

\* The keys of a logger that logger_init finds.
Key(name) == IF logNvs[name] = Absent THEN NewLog[name] ELSE logNvs[name]

LEMMA KeysTyped ==
  ASSUME LogT
  PROVE  /\ Key("buffer") \in [LogSlots -> Entry] /\ Key("head") \in LogSlots
         /\ Key("tail") \in LogSlots /\ Key("count") \in 0..LogSize
BY NewLogType DEF LogT, LogRing, LogFlash, Key

\* logger_init; complete: it could read all its keys.
LogLoaded(complete) ==
  \E readable \in SUBSET AllLogKeys : complete = (readable = AllLogKeys) /\ LoggerInit(readable)

LEMMA LogLoadedIs ==
  ASSUME LogT, NEW complete \in BOOLEAN, LogLoaded(complete)
  PROVE  /\ LogT' /\ logWriting' = 0 /\ logNvs' = logNvs
         /\ logHurt' = (logHurt \/ ~complete)
         /\ complete => /\ log'.buffer = Key("buffer") /\ log'.head = Key("head")
                        /\ log'.tail = Key("tail") /\ log'.count = Key("count")
<1>1. PICK readable \in SUBSET AllLogKeys :
        complete = (readable = AllLogKeys) /\ LoggerInit(readable)
  BY DEF LogLoaded
<1> DEFINE l == LogFound(readable)
<1>2. \A key \in AllLogKeys : l[key] = IF key \in readable THEN Key(key) ELSE NewLog[key]
  BY DEF LogFound, Key
<1>3. l = [buffer |-> l.buffer, head |-> l.head, tail |-> l.tail, count |-> l.count]
  BY DEF LogFound, AllLogKeys
<1> HIDE DEF l
<1>4. /\ l.buffer \in {Key("buffer"), NewLog.buffer} /\ l.head \in {Key("head"), NewLog.head}
      /\ l.tail \in {Key("tail"), NewLog.tail} /\ l.count \in {Key("count"), NewLog.count}
  BY <1>2 DEF AllLogKeys
<1>5. /\ l.buffer \in [LogSlots -> Entry] /\ l.head \in LogSlots
      /\ l.tail \in LogSlots /\ l.count \in 0..LogSize
  BY <1>4, KeysTyped, NewLogType DEF LogRing
<1>6. l \in LogRing /\ LogValid(l)
  BY <1>3, <1>5 DEF LogRing, LogValid
<1>7. log' = l /\ logWriting' = 0 /\ logNvs' = logNvs
  BY <1>1, <1>6 DEF LoggerInit, l
<1>8. logHurt' = (logHurt \/ ~complete)
  BY <1>1 DEF LoggerInit
<1>9. LogT'
  <2>1. logHurt' \in BOOLEAN
    BY <1>8
  <2> QED
    BY <1>6, <1>7, <2>1 DEF LogT
<1>10. complete => /\ l.buffer = Key("buffer") /\ l.head = Key("head")
                   /\ l.tail = Key("tail") /\ l.count = Key("count")
  BY <1>1, <1>2 DEF AllLogKeys
<1> QED
  BY <1>7, <1>8, <1>9, <1>10

-----------------------------------------------------------------------------
(* Types.                                                                  *)

Slots == Queue!Slots

Flash == [ buf : [Slots -> Entry] \cup {Absent}, head : Slots \cup {Absent},
           tail : Slots \cup {Absent}, count : 0..Size \cup {Absent} ]

QrPlaces   == Booting \cup Storing \cup {"idle", "log", "check", "send", "clear"}
MqttPlaces == {"idle", "peek", "publish", "pop", "save"}

RingT ==
  buf \in [Slots -> Entry] /\ head \in Slots /\ tail \in Slots /\ count \in 0..Size

QrRec   == [at : QrPlaces, seen : 0..Size, key : 0..4, arg : 0..Size]
MqttRec == [at : MqttPlaces, event : Entry, key : 0..4, ok : BOOLEAN, refused : BOOLEAN]
PastRec == [cuts : Nat, faults : Nat, torn : BOOLEAN, tornLog : BOOLEAN,
            dropped : SUBSET Entry, taken : SUBSET Nat]

QrT   == qr \in QrRec
MqttT == mqtt \in MqttRec
PastT ==
  /\ past \in PastRec
  /\ sent \in [Scans -> Nat] /\ scanned \in 0..MaxScans
  /\ client \in BOOLEAN /\ raced \in BOOLEAN

\* The registers a task still has to use hold what it read into them.
PlaceInv ==
  /\ qr.at = "head" => qr.seen \in Slots
  /\ qr.at = "count" => qr.seen < Size
  /\ qr.at \in {"save", "reset"} => qr.key \in 1..4 /\ (qr.key \in {2, 3} => qr.arg \in Slots)
  /\ mqtt.at = "save" => mqtt.key \in 1..4
  /\ qr.at = "log" <=> logWriting # 0
  /\ InHand => scanned \in Scans
  /\ qr.at \in Booting => mqtt.at = "idle" /\ ~client

TypeInv == RingT /\ nvs \in Flash /\ LogT /\ QrT /\ MqttT /\ PastT /\ PlaceInv

LEMMA SlotsAre == Slots = 0..(Size - 1) /\ 0 \in Slots
BY CameraAssumption DEF Slots, Queue!Slots

LEMMA AfterIs ==
  ASSUME NEW a \in Slots
  PROVE  /\ Queue!After(a) = IF a + 1 < Size THEN a + 1 ELSE 0
         /\ Queue!After(a) \in Slots
BY SlotsAre, CameraAssumption DEF Queue!After

LEMMA KeysAre ==
  /\ Len(Queue!Keys) = 4 /\ Queue!Keys[1] = "buf" /\ Queue!Keys[2] = "head"
  /\ Queue!Keys[3] = "tail" /\ Queue!Keys[4] = "count"
BY DEF Queue!Keys

LEMMA RamIs ==
  /\ Queue!Ram.buf = buf /\ Queue!Ram.head = head
  /\ Queue!Ram.tail = tail /\ Queue!Ram.count = count
BY DEF Queue!Ram

LEMMA ResetIs ==
  /\ Queue!Reset.buf \in [Slots -> Entry] /\ Queue!Reset.head = 0
  /\ Queue!Reset.tail = 0 /\ Queue!Reset.count = 0
  /\ \A s \in Slots : Queue!Reset.buf[s] = Blank
BY DEF Queue!Reset, Queue!Emptied, Slots, Entry

LEMMA QrAtIs ==
  ASSUME NEW place
  PROVE  /\ QrAt(place).at = place /\ QrAt(place).seen = 0 /\ QrAt(place).key = 0
         /\ QrAt(place).arg = 0
         /\ Saving(place) = [at |-> place, seen |-> 0, key |-> 1, arg |-> 0]
         /\ place \in QrPlaces =>
              QrAt(place) \in QrRec
         /\ place \in QrPlaces =>
              Saving(place) \in QrRec
BY CameraAssumption DEF QrAt, Saving, QrRec

LEMMA MqttAtIs ==
  ASSUME NEW place
  PROVE  /\ MqttAt(place).at = place /\ MqttAt(place).event = Blank
         /\ MqttAt(place).key = 0 /\ MqttAt(place).ok = TRUE
         /\ MqttAt(place).refused = FALSE
         /\ place \in MqttPlaces =>
              MqttAt(place) \in MqttRec
BY DEF MqttAt, Entry, MqttRec

LEMMA AccessIs ==
  ASSUME PastT, NEW succeeds \in BOOLEAN, Access(succeeds)
  PROVE  /\ past' \in PastRec
         /\ past'.cuts = past.cuts /\ past'.torn = past.torn /\ past'.tornLog = past.tornLog
         /\ past'.dropped = past.dropped /\ past'.taken = past.taken
         /\ past'.faults = IF succeeds THEN past.faults ELSE past.faults + 1
BY DEF PastT, Access, PastRec

LEMMA InitTypeInv == Init => TypeInv
<1> SUFFICES ASSUME Init PROVE TypeInv
  OBVIOUS
<1>1. RingT
  BY ResetIs, SlotsAre, CameraAssumption DEF Init, RingT, Queue!Reset
<1>2. nvs \in Flash
  BY DEF Init, Flash, Queue!NothingStored
<1>3. LogT
  BY LogInitType DEF Init
<1>4. QrT
  BY QrAtIs DEF Init, QrT, QrPlaces, Booting
<1>5. MqttT
  BY MqttAtIs DEF Init, MqttT, MqttPlaces
<1>6. PastT
  <2>1. past \in PastRec
    BY DEF Init, PastRec
  <2>2. sent \in [Scans -> Nat] /\ scanned \in 0..MaxScans
    BY CameraAssumption DEF Init
  <2>3. client \in BOOLEAN /\ raced \in BOOLEAN
    BY DEF Init
  <2> QED
    BY <2>1, <2>2, <2>3 DEF PastT
<1>7. PlaceInv
  <2>1. qr.at = "off" /\ mqtt.at = "idle" /\ logWriting = 0
    BY QrAtIs, MqttAtIs DEF Init, LogInit
  <2>2. ~client
    BY DEF Init
  <2> QED
    BY <2>1, <2>2 DEF PlaceInv, Booting, InHand
<1> QED
  BY <1>1, <1>2, <1>3, <1>4, <1>5, <1>6, <1>7 DEF TypeInv

\* What no step but those of qr_scan, and none but those of the MQTT task, change.
LEMMA LogsStay == LogT /\ UNCHANGED logs => LogT'
BY DEF LogT, logs, LogRing, LogFlash

LEMMA RingStays == RingT /\ UNCHANGED ringVars => RingT'
BY DEF RingT, ringVars

LEMMA PastStays == PastT /\ UNCHANGED <<past, sent, scanned, client>> /\ raced' \in BOOLEAN => PastT'
BY DEF PastT

LEMMA RacedTyped ==
  ASSUME NEW r, QrGoes(r) \/ MqttGoes(r)
  PROVE  raced' \in BOOLEAN
BY DEF QrGoes, MqttGoes

LEMMA ScanTypes == TypeInv /\ Scan => TypeInv'
<1> SUFFICES ASSUME TypeInv, Scan PROVE TypeInv'
  OBVIOUS
<1>1. LoggerPush(scanned + 1) /\ scanned + 1 \in Scans /\ scanned' = scanned + 1
  BY CameraAssumption DEF Scan, TypeInv, PastT, Scans
<1>2. LogT' /\ logWriting' = 1
  BY <1>1, PushIs DEF TypeInv, Entry
<1>3. RingT' /\ nvs' \in Flash
  BY RingStays DEF Scan, TypeInv
<1>4. QrT' /\ qr'.at = "log"
  BY QrAtIs DEF Scan, QrGoes, QrT, QrPlaces
<1>5. MqttT'
  BY DEF Scan, QrGoes, TypeInv, MqttT
<1>6. PastT'
  BY <1>1, RacedTyped, CameraAssumption DEF Scan, QrGoes, TypeInv, PastT, Scans
<1>7. PlaceInv'
  BY <1>1, <1>2, <1>4 DEF Scan, QrGoes, TypeInv, PlaceInv, Booting, InHand
<1> QED
  BY <1>2, <1>3, <1>4, <1>5, <1>6, <1>7 DEF TypeInv

LEMMA SaveLogTypes ==
  ASSUME TypeInv, NEW succeeds \in BOOLEAN, SaveLog(succeeds)
  PROVE  TypeInv'
<1>1. LogT' /\ logWriting \in 1..4 /\ logWriting' = IF logWriting = 4 THEN 0 ELSE logWriting + 1
  BY LogSaveIs DEF SaveLog, TypeInv
<1>2. RingT' /\ nvs' \in Flash
  BY RingStays DEF SaveLog, TypeInv
<1>3. qr.at = "log"
  BY <1>1 DEF TypeInv, PlaceInv
<1>4. QrT' /\ qr'.at = IF logWriting = 4 THEN "check" ELSE "log"
  BY <1>3, LogKeysAre, QrAtIs DEF SaveLog, QrGoes, TypeInv, QrT, QrPlaces
<1>5. MqttT'
  BY DEF SaveLog, QrGoes, TypeInv, MqttT
<1>6. PastT'
  BY AccessIs, RacedTyped DEF SaveLog, QrGoes, TypeInv, PastT
<1>7. PlaceInv'
  BY <1>1, <1>3, <1>4 DEF SaveLog, QrGoes, TypeInv, PlaceInv, Booting, InHand
<1> QED
  BY <1>1, <1>2, <1>4, <1>5, <1>6, <1>7 DEF TypeInv

\* The steps of qr_scan that change neither the ring nor NVS nor the log.
LEMMA MoveTypes ==
  ASSUME TypeInv, CheckClient \/ Publish \/ TestCount \/ LoadHead
  PROVE  TypeInv'
<1>1. RingT' /\ nvs' \in Flash
  BY RingStays DEF CheckClient, Publish, TestCount, LoadHead, TypeInv
<1>2. LogT' /\ logWriting' = logWriting
  BY LogsStay DEF CheckClient, Publish, TestCount, LoadHead, TypeInv, logs
<1>3. MqttT' /\ mqtt' = mqtt /\ client' = client
  BY DEF CheckClient, Publish, TestCount, LoadHead, QrGoes, TypeInv, MqttT
<1>4. scanned' = scanned /\ past' = past
  BY DEF CheckClient, Publish, TestCount, LoadHead
<1>5. /\ QrT' /\ qr.at \in {"check", "send", "test", "load"}
      /\ qr'.at \in {"send", "clear", "idle", "count", "load", "head"}
      /\ qr'.at = "head" => qr'.seen \in Slots
      /\ qr'.at = "count" => qr'.seen < Size
  <2>1. CASE CheckClient
    BY <2>1, QrAtIs DEF CheckClient, QrGoes, QrT, QrPlaces, Storing
  <2>2. CASE Publish
    BY <2>2, QrAtIs DEF Publish, QrGoes, QrT, QrPlaces, Storing
  <2>3. CASE TestCount
    BY <2>3, QrAtIs, CameraAssumption DEF TestCount, QrGoes, TypeInv, RingT, QrT, QrPlaces, Storing, QrAt, QrRec
  <2>4. CASE LoadHead
    BY <2>4, QrAtIs, SlotsAre, CameraAssumption DEF LoadHead, QrGoes, TypeInv, RingT, QrT, QrPlaces, Storing, QrAt, QrRec
  <2> QED
    BY <2>1, <2>2, <2>3, <2>4
<1>6. sent' \in [Scans -> Nat]
  <2>1. CASE Publish
    BY <2>1 DEF Publish, Took, TypeInv, PastT
  <2> QED
    BY <2>1 DEF CheckClient, TestCount, LoadHead, TypeInv, PastT
<1>7. PastT'
  <2>1. raced' \in BOOLEAN
    BY DEF CheckClient, Publish, TestCount, LoadHead, QrGoes
  <2> QED
    BY <1>3, <1>4, <1>6, <2>1 DEF TypeInv, PastT
<1>8. PlaceInv'
  BY <1>2, <1>3, <1>4, <1>5 DEF TypeInv, PlaceInv, Booting, InHand
<1> QED
  BY <1>1, <1>2, <1>3, <1>5, <1>7, <1>8 DEF TypeInv

\* The steps of qr_scan that change the ring.
LEMMA PushTypes ==
  ASSUME TypeInv, ClearSlot \/ FillSlot \/ IncrementCount \/ MoveHead
  PROVE  TypeInv'
<1>1. nvs' \in Flash /\ scanned' = scanned /\ sent' = sent
  BY DEF ClearSlot, FillSlot, IncrementCount, MoveHead, TypeInv
<1>2. LogT' /\ logWriting' = logWriting
  BY LogsStay DEF ClearSlot, FillSlot, IncrementCount, MoveHead, TypeInv, logs
<1>3. MqttT' /\ mqtt' = mqtt /\ client' = client
  BY DEF ClearSlot, FillSlot, IncrementCount, MoveHead, QrGoes, TypeInv, MqttT
<1>4. RingT'
  <2>1. CASE ClearSlot
    BY <2>1 DEF ClearSlot, TypeInv, RingT, Entry
  <2>2. CASE FillSlot
    <3>1. scanned \in Entry
      BY <2>2 DEF FillSlot, TypeInv, PlaceInv, InHand, Booting, Entry
    <3> QED
      BY <2>2, <3>1, AfterIs DEF FillSlot, TypeInv, RingT
  <2>3. CASE IncrementCount
    <3>1. qr.seen \in 0..Size /\ qr.seen < Size
      BY <2>3 DEF IncrementCount, TypeInv, QrT, PlaceInv, QrRec
    <3>2. count' \in 0..Size
      BY <2>3, <3>1, CameraAssumption DEF IncrementCount
    <3> QED
      BY <2>3, <3>2 DEF IncrementCount, TypeInv, RingT
  <2>4. CASE MoveHead
    BY <2>4, AfterIs DEF MoveHead, TypeInv, RingT, PlaceInv
  <2> QED
    BY <2>1, <2>2, <2>3, <2>4
<1>5. /\ QrT' /\ qr.at \in {"clear", "fill", "count", "head"}
      /\ qr'.at \in {"fill", "test", "save"} /\ (qr'.at = "save" => qr'.key = 1)
  BY QrAtIs DEF ClearSlot, FillSlot, IncrementCount, MoveHead, QrGoes, QrT, QrPlaces, Storing
<1>6. PastT'
  <2>1. past' \in PastRec
    <3>1. CASE ClearSlot
      BY <3>1 DEF ClearSlot, TypeInv, PastT, RingT, PastRec
    <3> QED
      BY <3>1 DEF FillSlot, IncrementCount, MoveHead, TypeInv, PastT
  <2>2. raced' \in BOOLEAN
    BY DEF ClearSlot, FillSlot, IncrementCount, MoveHead, QrGoes
  <2> QED
    BY <1>1, <1>3, <2>1, <2>2 DEF TypeInv, PastT
<1>7. PlaceInv'
  BY <1>1, <1>2, <1>3, <1>5 DEF TypeInv, PlaceInv, Booting, InHand
<1> QED
  BY <1>1, <1>2, <1>3, <1>4, <1>5, <1>6, <1>7 DEF TypeInv

\* One write of pending_queue_save in qr_scan or of pending_queue_init.
LEMMA SaveRingIs ==
  ASSUME TypeInv, NEW succeeds \in BOOLEAN, SaveRing(succeeds)
  PROVE  /\ qr.at \in {"save", "reset"} /\ qr.key \in 1..4
         /\ UNCHANGED <<ringVars, logs, scanned, sent, mqtt, client>>
         /\ nvs' \in Flash
         /\ nvs'.buf = IF succeeds /\ qr.key = 1 THEN buf ELSE nvs.buf
         /\ nvs'.head \in IF succeeds /\ qr.key = 2 THEN {qr.arg, head} ELSE {nvs.head}
         /\ nvs'.tail \in IF succeeds /\ qr.key = 3 THEN {qr.arg, tail} ELSE {nvs.tail}
         /\ nvs'.count \in IF succeeds /\ qr.key = 4 THEN {qr.arg, count} ELSE {nvs.count}
         /\ qr' = IF qr.key < 4
                  THEN [qr EXCEPT !.key = qr.key + 1, !.arg = Queue!Ram[Queue!Keys[qr.key + 1]]]
                  ELSE QrAt(IF qr.at = "reset" THEN "load_log" ELSE "idle")
<1>1. qr.at \in {"save", "reset"} /\ qr.key \in 1..4 /\ (qr.key \in {2, 3} => qr.arg \in Slots)
  BY DEF SaveRing, TypeInv, PlaceInv
<1>2. UNCHANGED <<ringVars, logs, scanned, sent, mqtt, client>>
  BY DEF SaveRing, QrGoes
<1>3. qr' = IF qr.key < 4
            THEN [qr EXCEPT !.key = qr.key + 1, !.arg = Queue!Ram[Queue!Keys[qr.key + 1]]]
            ELSE QrAt(IF qr.at = "reset" THEN "load_log" ELSE "idle")
  BY KeysAre DEF SaveRing, QrGoes
<1>4. PICK value \in Argument(Queue!Keys[qr.key]) :
        nvs' = IF succeeds THEN [nvs EXCEPT ![Queue!Keys[qr.key]] = value] ELSE nvs
  BY DEF SaveRing
<1>5. /\ qr.key = 1 => value = buf
      /\ qr.key = 2 => value \in {qr.arg, head} /\ value \in Slots
      /\ qr.key = 3 => value \in {qr.arg, tail} /\ value \in Slots
      /\ qr.key = 4 => value \in {qr.arg, count} /\ value \in 0..Size
  BY <1>1, KeysAre, RamIs DEF Argument, TypeInv, RingT, QrT, QrRec
<1>6. /\ nvs' \in Flash
      /\ nvs'.buf = IF succeeds /\ qr.key = 1 THEN value ELSE nvs.buf
      /\ nvs'.head = IF succeeds /\ qr.key = 2 THEN value ELSE nvs.head
      /\ nvs'.tail = IF succeeds /\ qr.key = 3 THEN value ELSE nvs.tail
      /\ nvs'.count = IF succeeds /\ qr.key = 4 THEN value ELSE nvs.count
  <2>1. CASE ~succeeds
    BY <1>4, <2>1 DEF TypeInv
  <2>2. CASE succeeds /\ qr.key = 1
    BY <1>4, <1>5, <2>2, KeysAre DEF TypeInv, RingT, Flash
  <2>3. CASE succeeds /\ qr.key = 2
    BY <1>4, <1>5, <2>3, KeysAre DEF TypeInv, Flash
  <2>4. CASE succeeds /\ qr.key = 3
    BY <1>4, <1>5, <2>4, KeysAre DEF TypeInv, Flash
  <2>5. CASE succeeds /\ qr.key = 4
    BY <1>4, <1>5, <2>5, KeysAre DEF TypeInv, Flash
  <2> QED
    BY <1>1, <2>1, <2>2, <2>3, <2>4, <2>5
<1> QED
  BY <1>1, <1>2, <1>3, <1>5, <1>6

LEMMA SaveRingTypes ==
  ASSUME TypeInv, NEW succeeds \in BOOLEAN, SaveRing(succeeds)
  PROVE  TypeInv'
<1>1. /\ qr.at \in {"save", "reset"} /\ qr.key \in 1..4
      /\ UNCHANGED <<ringVars, logs, scanned, sent, mqtt, client>>
      /\ nvs' \in Flash
      /\ qr' = IF qr.key < 4
               THEN [qr EXCEPT !.key = qr.key + 1, !.arg = Queue!Ram[Queue!Keys[qr.key + 1]]]
               ELSE QrAt(IF qr.at = "reset" THEN "load_log" ELSE "idle")
  BY SaveRingIs
<1>2. RingT' /\ LogT' /\ MqttT' /\ logWriting' = logWriting
  BY <1>1, RingStays, LogsStay DEF TypeInv, MqttT, logs
<1>3. /\ QrT'
      /\ qr'.at \in {"save", "reset", "load_log", "idle"}
      /\ qr.at = "save" => qr'.at \in {"save", "idle"}
      /\ qr.at = "reset" => qr'.at \in {"reset", "load_log"}
      /\ qr'.at \in {"save", "reset"} => qr'.key \in 1..4 /\ (qr'.key \in {2, 3} => qr'.arg \in Slots)
  <2>1. CASE qr.key < 4
    <3>1. qr' = [qr EXCEPT !.key = qr.key + 1, !.arg = Queue!Ram[Queue!Keys[qr.key + 1]]]
      BY <1>1, <2>1
    <3>2. /\ Queue!Ram[Queue!Keys[qr.key + 1]] \in 0..Size
          /\ qr.key + 1 \in {2, 3} => Queue!Ram[Queue!Keys[qr.key + 1]] \in Slots
      <4>1. Queue!Ram.head \in 0..Size /\ Queue!Ram.tail \in 0..Size /\ Queue!Ram.count \in 0..Size
        BY RamIs, SlotsAre, CameraAssumption DEF TypeInv, RingT
      <4>2. Queue!Ram.head \in Slots /\ Queue!Ram.tail \in Slots
        BY RamIs DEF TypeInv, RingT
      <4>3. CASE qr.key = 1
        BY <4>1, <4>2, <4>3, KeysAre
      <4>4. CASE qr.key = 2
        BY <4>1, <4>2, <4>4, KeysAre
      <4>5. CASE qr.key = 3
        BY <4>1, <4>2, <4>5, KeysAre
      <4> QED
        BY <1>1, <2>1, <4>3, <4>4, <4>5
    <3>3. qr.key + 1 \in 0..4 /\ qr.key + 1 \in 1..4
      BY <1>1, <2>1
    <3>4. qr \in QrRec
      BY DEF TypeInv, QrT
    <3>5. QrT' /\ qr'.at = qr.at /\ qr'.key = qr.key + 1
          /\ qr'.arg = Queue!Ram[Queue!Keys[qr.key + 1]]
      BY <3>1, <3>2, <3>3, <3>4 DEF QrT, QrRec
    <3> QED
      BY <1>1, <3>2, <3>3, <3>5
  <2>2. CASE ~(qr.key < 4)
    BY <1>1, <2>2, QrAtIs DEF QrT, QrPlaces, Booting
  <2> QED
    BY <2>1, <2>2
<1>4. PastT'
  BY <1>1, AccessIs, RacedTyped DEF SaveRing, TypeInv, PastT
<1>5. PlaceInv'
  BY <1>1, <1>2, <1>3 DEF TypeInv, PlaceInv, Booting, InHand
<1> QED
  BY <1>1, <1>2, <1>3, <1>4, <1>5 DEF TypeInv

\* What a step of the MQTT task leaves to qr_scan.
LEMMA MqttStays ==
  ASSUME TypeInv, NEW m, MqttGoes(m)
  PROVE  mqtt' = m /\ QrT' /\ LogT' /\ qr' = qr /\ scanned' = scanned /\ logs' = logs
         /\ logWriting' = logWriting
BY LogsStay DEF MqttGoes, TypeInv, QrT, logs

LEMMA MqttTypes ==
  ASSUME TypeInv,
         MqttConnected \/ MqttDisconnected \/ PeekOldest \/ PublishOldest \/ PopOldest
  PROVE  TypeInv'
<1>1. PICK m \in MqttRec : MqttGoes(m) /\ (m.at = "save" => m.key \in 1..4)
                          /\ (m.at # "idle" => qr.at \notin Booting)
  <2>1. CASE MqttConnected
    BY <2>1, MqttAtIs DEF MqttConnected, MqttPlaces
  <2>2. CASE MqttDisconnected
    BY <2>2, MqttAtIs DEF MqttDisconnected, MqttPlaces
  <2>3. CASE PeekOldest
    <3>1. buf[head] \in Entry
      BY DEF TypeInv, RingT
    <3>2. MqttAt("publish") \in MqttRec /\ MqttAt("publish").at = "publish"
          /\ MqttAt("idle") \in MqttRec /\ MqttAt("idle").at = "idle"
      BY MqttAtIs DEF MqttPlaces
    <3>3. [MqttAt("publish") EXCEPT !.event = buf[head]] \in MqttRec
          /\ [MqttAt("publish") EXCEPT !.event = buf[head]].at = "publish"
      BY <3>1, <3>2 DEF MqttRec
    <3> QED
      BY <2>3, <3>2, <3>3 DEF PeekOldest, TypeInv, PlaceInv
  <2>4. CASE PublishOldest
    <3>1. MqttAt("pop") \in MqttRec /\ MqttAt("pop").at = "pop"
          /\ MqttAt("idle") \in MqttRec /\ MqttAt("idle").at = "idle"
      BY MqttAtIs DEF MqttPlaces
    <3>2. [MqttAt("idle") EXCEPT !.refused = TRUE] \in MqttRec
          /\ [MqttAt("idle") EXCEPT !.refused = TRUE].at = "idle"
      BY <3>1 DEF MqttRec
    <3> QED
      BY <2>4, <3>1, <3>2 DEF PublishOldest, TypeInv, PlaceInv
  <2>5. CASE PopOldest
    <3>1. MqttAt("save") \in MqttRec /\ MqttAt("idle") \in MqttRec /\ MqttAt("idle").at = "idle"
      BY MqttAtIs DEF MqttPlaces
    <3>2. [MqttAt("save") EXCEPT !.key = 1] \in MqttRec
          /\ [MqttAt("save") EXCEPT !.key = 1].key \in 1..4
      BY <3>1 DEF MqttRec
    <3>3. qr.at \notin Booting
      BY <2>5 DEF PopOldest, TypeInv, PlaceInv
    <3>4. MqttGoes(MqttAt("idle")) \/ MqttGoes([MqttAt("save") EXCEPT !.key = 1])
      BY <2>5 DEF PopOldest
    <3>5. CASE MqttGoes(MqttAt("idle"))
      BY <3>1, <3>5
    <3>6. CASE MqttGoes([MqttAt("save") EXCEPT !.key = 1])
      BY <3>2, <3>3, <3>6
    <3> QED
      BY <3>4, <3>5, <3>6
  <2> QED
    BY <2>1, <2>2, <2>3, <2>4, <2>5
<1>2. mqtt' = m /\ MqttT' /\ QrT' /\ LogT' /\ qr' = qr /\ scanned' = scanned
      /\ logWriting' = logWriting
  BY <1>1, MqttStays DEF MqttT
<1>3. nvs' = nvs /\ past' = past
  BY DEF MqttConnected, MqttDisconnected, PeekOldest, PublishOldest, PopOldest
<1>4. RingT'
  <2>1. CASE PopOldest /\ count # 0
    <3>1. /\ buf' = [buf EXCEPT ![head] = Blank] /\ head' = Queue!After(head)
          /\ tail' = tail /\ count' = count - 1
      BY <2>1 DEF PopOldest, Queue!SetRing, Queue!Popped
    <3> QED
      BY <2>1, <3>1, AfterIs, CameraAssumption DEF TypeInv, RingT, Entry
  <2>2. CASE ~(PopOldest /\ count # 0)
    BY <2>2, RingStays DEF MqttConnected, MqttDisconnected, PeekOldest, PublishOldest, PopOldest,
      TypeInv
  <2> QED
    BY <2>1, <2>2
<1>5. sent' \in [Scans -> Nat]
  <2>1. CASE PublishOldest
    BY <2>1 DEF PublishOldest, Took, TypeInv, PastT, MqttT, Entry
  <2> QED
    BY <2>1 DEF MqttConnected, MqttDisconnected, PeekOldest, PopOldest, TypeInv, PastT
<1>6. client' \in BOOLEAN /\ (client' => client \/ qr.at \notin Booting)
  <2>1. CASE MqttConnected
    BY <2>1 DEF MqttConnected
  <2>2. CASE MqttDisconnected
    BY <2>2 DEF MqttDisconnected
  <2> QED
    BY <2>1, <2>2 DEF PeekOldest, PublishOldest, PopOldest, TypeInv, PastT
<1>7. PastT'
  BY <1>1, <1>2, <1>3, <1>5, <1>6, RacedTyped DEF TypeInv, PastT
<1>8. PlaceInv'
  BY <1>1, <1>2, <1>6 DEF TypeInv, PlaceInv, Booting, InHand
<1> QED
  BY <1>2, <1>3, <1>4, <1>7, <1>8 DEF TypeInv

\* One write of the pop, which NVS takes or not.
LEMMA SavePopIs ==
  ASSUME TypeInv, NEW succeeds \in BOOLEAN, SavePop(succeeds)
  PROVE  /\ mqtt.at = "save" /\ mqtt.key \in 1..4 /\ qr.at \notin Booting
         /\ UNCHANGED <<ringVars, client, sent, qr, scanned, logs>>
         /\ nvs' \in Flash
         /\ nvs'.buf = IF succeeds /\ mqtt.key = 1 THEN buf ELSE nvs.buf
         /\ nvs'.head = IF succeeds /\ mqtt.key = 2 THEN head ELSE nvs.head
         /\ nvs'.tail = IF succeeds /\ mqtt.key = 3 THEN tail ELSE nvs.tail
         /\ nvs'.count = IF succeeds /\ mqtt.key = 4 THEN count ELSE nvs.count
         /\ mqtt' = IF mqtt.key < 4 THEN [mqtt EXCEPT !.key = mqtt.key + 1,
                                                    !.ok = mqtt.ok /\ succeeds]
                    ELSE MqttAt(IF mqtt.ok /\ succeeds THEN "peek" ELSE "idle")
<1>1. mqtt.at = "save" /\ mqtt.key \in 1..4 /\ qr.at \notin Booting
  BY DEF SavePop, TypeInv, PlaceInv
<1>2. UNCHANGED <<ringVars, client, sent, qr, scanned, logs>>
  BY DEF SavePop, MqttGoes
<1>3. mqtt' = IF mqtt.key < 4 THEN [mqtt EXCEPT !.key = mqtt.key + 1, !.ok = mqtt.ok /\ succeeds]
              ELSE MqttAt(IF mqtt.ok /\ succeeds THEN "peek" ELSE "idle")
  BY KeysAre DEF SavePop, MqttGoes
<1>4. nvs' = IF succeeds THEN [nvs EXCEPT ![Queue!Keys[mqtt.key]] = Queue!Ram[Queue!Keys[mqtt.key]]]
             ELSE nvs
  BY DEF SavePop
<1>5. /\ nvs' \in Flash
      /\ nvs'.buf = IF succeeds /\ mqtt.key = 1 THEN buf ELSE nvs.buf
      /\ nvs'.head = IF succeeds /\ mqtt.key = 2 THEN head ELSE nvs.head
      /\ nvs'.tail = IF succeeds /\ mqtt.key = 3 THEN tail ELSE nvs.tail
      /\ nvs'.count = IF succeeds /\ mqtt.key = 4 THEN count ELSE nvs.count
  <2>1. CASE ~succeeds
    BY <1>4, <2>1 DEF TypeInv
  <2>2. CASE succeeds /\ mqtt.key = 1
    BY <1>4, <2>2, KeysAre, RamIs DEF TypeInv, RingT, Flash
  <2>3. CASE succeeds /\ mqtt.key = 2
    BY <1>4, <2>3, KeysAre, RamIs DEF TypeInv, RingT, Flash
  <2>4. CASE succeeds /\ mqtt.key = 3
    BY <1>4, <2>4, KeysAre, RamIs DEF TypeInv, RingT, Flash
  <2>5. CASE succeeds /\ mqtt.key = 4
    BY <1>4, <2>5, KeysAre, RamIs DEF TypeInv, RingT, Flash
  <2> QED
    BY <1>1, <2>1, <2>2, <2>3, <2>4, <2>5
<1> QED
  BY <1>1, <1>2, <1>3, <1>5

LEMMA SavePopTypes ==
  ASSUME TypeInv, NEW succeeds \in BOOLEAN, SavePop(succeeds)
  PROVE  TypeInv'
<1>1. /\ mqtt.at = "save" /\ mqtt.key \in 1..4 /\ qr.at \notin Booting
      /\ UNCHANGED <<ringVars, client, sent, qr, scanned, logs>>
      /\ nvs' \in Flash
      /\ mqtt' = IF mqtt.key < 4 THEN [mqtt EXCEPT !.key = mqtt.key + 1,
                                                 !.ok = mqtt.ok /\ succeeds]
                 ELSE MqttAt(IF mqtt.ok /\ succeeds THEN "peek" ELSE "idle")
  BY SavePopIs
<1>2. RingT' /\ LogT' /\ QrT' /\ logWriting' = logWriting
  BY <1>1, RingStays, LogsStay DEF TypeInv, QrT, logs
<1>3. MqttT' /\ (mqtt'.at = "save" => mqtt'.key \in 1..4)
  <2>1. CASE mqtt.key < 4
    <3>1. (mqtt.ok /\ succeeds) \in BOOLEAN
      OBVIOUS
    <3>2. mqtt.key + 1 \in 0..4 /\ mqtt.key + 1 \in 1..4
      BY <1>1, <2>1
    <3> QED
      BY <1>1, <2>1, <3>1, <3>2 DEF TypeInv, MqttT, MqttRec
  <2>2. CASE ~(mqtt.key < 4)
    BY <1>1, <2>2, MqttAtIs DEF MqttT, MqttPlaces
  <2> QED
    BY <2>1, <2>2
<1>4. PastT'
  BY <1>1, AccessIs, RacedTyped DEF SavePop, TypeInv, PastT
<1>5. PlaceInv'
  BY <1>1, <1>2, <1>3 DEF TypeInv, PlaceInv, Booting, InHand
<1> QED
  BY <1>1, <1>2, <1>3, <1>4, <1>5 DEF TypeInv

\* pending_queue_init and logger_init; complete: they could read all their keys.
QueueBooted(complete) ==
  \E readable \in SUBSET Queue!AllKeys : complete = (readable = Queue!AllKeys) /\ BootQueue(readable)
LoggerBooted(complete) ==
  \E readable \in SUBSET AllLogKeys : complete = (readable = AllLogKeys) /\ BootLogger(readable)

\* The ring NVS holds, as far as it can be read, or an empty one.
LEMMA QueueBootedIs ==
  ASSUME TypeInv, NEW complete \in BOOLEAN, QueueBooted(complete)
  PROVE  /\ RingT' /\ qr.at = "off" /\ Access(complete) /\ QrGoes(qr')
         /\ UNCHANGED <<nvs, logs, scanned, sent, mqtt, client>>
         /\ \/ /\ buf' = nvs.buf /\ nvs.buf # Absent /\ qr' = QrAt("load_log")
               /\ complete => /\ head' = Queue!Loaded.head /\ tail' = Queue!Loaded.tail
                              /\ count' = Queue!Loaded.count
            \/ /\ ~complete \/ nvs.buf = Absent \/ ~Queue!Valid(Queue!Loaded)
               /\ buf' = Queue!Reset.buf /\ head' = 0 /\ tail' = 0 /\ count' = 0
               /\ qr' = Saving("reset")
<1>1. PICK readable \in SUBSET Queue!AllKeys :
        complete = (readable = Queue!AllKeys) /\ BootQueue(readable)
  BY DEF QueueBooted
<1>2. /\ qr.at = "off" /\ UNCHANGED <<nvs, logs, scanned, sent, mqtt, client>>
      /\ QrGoes(qr')
  BY <1>1 DEF BootQueue, QrGoes
<1>3. Access(complete)
  BY <1>1 DEF BootQueue, Access
<1>4. complete => Queue!Found(readable) = Queue!Loaded /\ "buf" \in readable
  BY <1>1 DEF Queue!Loaded, Queue!AllKeys
<1>5. CASE "buf" \in readable /\ nvs.buf # Absent /\ Queue!Valid(Queue!Found(readable))
  <2> DEFINE found == Queue!Found(readable)
  <2>1. found.buf = nvs.buf
    BY DEF Queue!Found
  <2> HIDE DEF found
  <2>2. /\ buf' = nvs.buf /\ qr' = QrAt("load_log")
        /\ head' = found.head /\ tail' = found.tail /\ count' = found.count
    BY <1>1, <1>5, <2>1 DEF BootQueue, QrGoes, Queue!SetRing, found
  <2>3. RingT'
    BY <1>5, <2>2 DEF Queue!Valid, TypeInv, Flash, RingT, Slots, found
  <2> QED
    BY <1>2, <1>3, <1>4, <1>5, <2>2, <2>3 DEF found
<1>6. CASE ~("buf" \in readable /\ nvs.buf # Absent /\ Queue!Valid(Queue!Found(readable)))
  <2>1. /\ buf' = Queue!Reset.buf /\ head' = 0 /\ tail' = 0 /\ count' = 0
        /\ qr' = Saving("reset")
    BY <1>1, <1>6, ResetIs DEF BootQueue, QrGoes, Queue!SetRing
  <2>2. RingT'
    BY <2>1, ResetIs, SlotsAre, CameraAssumption DEF RingT
  <2>3. ~complete \/ nvs.buf = Absent \/ ~Queue!Valid(Queue!Loaded)
    BY <1>4, <1>6
  <2> QED
    BY <1>2, <1>3, <2>1, <2>2, <2>3
<1> QED
  BY <1>5, <1>6

LEMMA LoggerBootedIs ==
  ASSUME NEW complete \in BOOLEAN, LoggerBooted(complete)
  PROVE  /\ qr.at = "load_log" /\ Access(complete) /\ LogLoaded(complete)
         /\ QrGoes(QrAt("idle")) /\ qr' = QrAt("idle") /\ UNCHANGED <<mqtt, client>>
         /\ UNCHANGED <<buf, head, tail, count, nvs, scanned, sent>>
<1>1. PICK readable \in SUBSET AllLogKeys :
        complete = (readable = AllLogKeys) /\ BootLogger(readable)
  BY DEF LoggerBooted
<1>2. LogLoaded(complete)
  BY <1>1 DEF BootLogger, LogLoaded
<1>3. Access(complete)
  BY <1>1 DEF BootLogger, Access
<1> QED
  BY <1>1, <1>2, <1>3 DEF BootLogger, QrGoes, ringVars

LEMMA BootTypes ==
  ASSUME TypeInv, NEW complete \in BOOLEAN, QueueBooted(complete) \/ LoggerBooted(complete)
  PROVE  TypeInv'
<1>1. UNCHANGED <<nvs, scanned, sent, mqtt, client>> /\ qr.at \in {"off", "load_log"}
  BY QueueBootedIs, LoggerBootedIs
<1>2. RingT'
  BY QueueBootedIs, LoggerBootedIs, RingStays DEF TypeInv, ringVars
<1>3. LogT' /\ logWriting' = 0
  <2>1. CASE QueueBooted(complete)
    BY <2>1, QueueBootedIs, LogsStay DEF TypeInv, PlaceInv, logs
  <2>2. CASE LoggerBooted(complete)
    BY <2>2, LoggerBootedIs, LogLoadedIs DEF TypeInv
  <2> QED
    BY <2>1, <2>2
<1>4. /\ QrT' /\ qr'.at \in {"load_log", "reset", "idle"}
      /\ qr'.at \in {"save", "reset"} => qr'.key = 1
  BY QueueBootedIs, LoggerBootedIs, QrAtIs DEF QrT, QrPlaces, Booting
<1>5. PastT'
  <2>1. Access(complete)
    BY QueueBootedIs, LoggerBootedIs
  <2>2. raced' \in BOOLEAN
    BY QueueBootedIs, LoggerBootedIs, RacedTyped
  <2> QED
    BY <1>1, <2>1, <2>2, AccessIs DEF TypeInv, PastT
<1>6. MqttT'
  BY <1>1 DEF TypeInv, MqttT
<1>7. PlaceInv'
  BY <1>1, <1>3, <1>4 DEF TypeInv, PlaceInv, Booting, InHand
<1> QED
  BY <1>1, <1>2, <1>3, <1>4, <1>5, <1>6, <1>7 DEF TypeInv

\* nvs_storage_init erases what was stored, before anyone has read it.
LEMMA EraseIs ==
  ASSUME EraseNvs
  PROVE  /\ qr.at = "off" /\ Access(FALSE) /\ LoggerErased /\ QrGoes(qr)
         /\ UNCHANGED <<buf, head, tail, count, scanned, sent, qr, mqtt, client>>
         /\ nvs' = [buf |-> Absent, head |-> Absent, tail |-> Absent, count |-> Absent]
BY DEF EraseNvs, QrGoes, ringVars, Queue!NothingStored

LEMMA EraseTypes ==
  ASSUME TypeInv, EraseNvs
  PROVE  TypeInv'
<1>1. RingT' /\ nvs' \in Flash
  BY EraseIs, RingStays DEF TypeInv, ringVars, Flash
<1>2. LogT' /\ logWriting' = logWriting
  <2>1. /\ logNvs' = [key \in {"buffer", "head", "tail", "count"} |-> Absent]
        /\ logHurt' = TRUE /\ UNCHANGED <<log, logWriting>>
    BY EraseIs DEF LoggerErased, AllLogKeys
  <2>2. logNvs' \in LogFlash
    BY <2>1 DEF LogFlash
  <2>3. logHurt' \in BOOLEAN
    BY <2>1
  <2> QED
    BY <2>1, <2>2, <2>3 DEF TypeInv, LogT
<1>3. QrT' /\ MqttT'
  BY EraseIs DEF TypeInv, QrT, MqttT
<1>4. PastT'
  BY EraseIs, AccessIs, RacedTyped DEF TypeInv, PastT
<1>5. PlaceInv'
  BY <1>2, EraseIs DEF TypeInv, PlaceInv, InHand
<1> QED
  BY <1>1, <1>2, <1>3, <1>4, <1>5 DEF TypeInv

\* What a power cut leaves.
LEMMA PowerLossIs ==
  ASSUME TypeInv, PowerLoss
  PROVE  /\ RingT' /\ buf' = Queue!Reset.buf /\ count' = 0 /\ tail' = 0 /\ head' = 0
         /\ qr' = QrAt("off") /\ mqtt' = MqttAt("idle") /\ client' = FALSE
         /\ log' = NewLog /\ logWriting' = 0
         /\ UNCHANGED <<nvs, logNvs, logHurt, scanned, sent, raced>>
<1>1. /\ buf' = Queue!Reset.buf /\ count' = 0 /\ tail' = 0 /\ head' = 0
      /\ qr' = QrAt("off") /\ mqtt' = MqttAt("idle") /\ client' = FALSE
      /\ log' = NewLog /\ logWriting' = 0
      /\ UNCHANGED <<nvs, logNvs, logHurt, scanned, sent, raced>>
  BY ResetIs DEF PowerLoss, Queue!SetRing, LoggerLost
<1>2. RingT'
  BY <1>1, ResetIs, SlotsAre, CameraAssumption DEF RingT
<1> QED
  BY <1>1, <1>2

LEMMA PastChanges ==
  ASSUME NEW p \in PastRec, NEW c \in Nat, NEW t \in BOOLEAN, NEW l \in BOOLEAN,
         NEW k \in SUBSET Nat
  PROVE  [p EXCEPT !.cuts = c, !.torn = t, !.tornLog = l, !.taken = k] \in PastRec
BY DEF PastRec

LEMMA PowerLossTypes ==
  ASSUME TypeInv, PowerLoss
  PROVE  TypeInv'
<1>1. /\ RingT' /\ qr' = QrAt("off") /\ mqtt' = MqttAt("idle") /\ client' = FALSE
      /\ log' = NewLog /\ logWriting' = 0
      /\ UNCHANGED <<nvs, logNvs, logHurt, scanned, sent, raced>>
  BY PowerLossIs
<1>2. LogT'
  <2>1. logWriting' \in 0..4
    BY <1>1
  <2> QED
    BY <1>1, <2>1, NewLogType DEF TypeInv, LogT
<1>3. QrT' /\ MqttT' /\ qr'.at = "off" /\ mqtt'.at = "idle"
  BY <1>1, QrAtIs, MqttAtIs DEF QrT, MqttT, QrPlaces, MqttPlaces, Booting
<1>4. past' \in PastRec
  <2> DEFINE torn == past.torn \/ CutsSave
             tornLog == past.tornLog \/ logWriting > 1
             taken == IF InHand THEN past.taken \cup {scanned} ELSE past.taken
  <2>1. past' = [past EXCEPT !.cuts = past.cuts + 1, !.torn = torn, !.tornLog = tornLog,
                             !.taken = taken]
    BY DEF PowerLoss
  <2>2. torn \in BOOLEAN /\ tornLog \in BOOLEAN
    OBVIOUS
  <2>3. taken \in SUBSET Nat
    BY CameraAssumption DEF TypeInv, PastT, PastRec
  <2>4. past \in PastRec
    BY DEF TypeInv, PastT
  <2>5. past.cuts + 1 \in Nat
    BY <2>4 DEF PastRec
  <2> HIDE DEF torn, tornLog, taken
  <2> QED
    BY <2>1, <2>2, <2>3, <2>4, <2>5, PastChanges
<1>5. PastT'
  <2>1. client' \in BOOLEAN
    BY <1>1
  <2> QED
    BY <1>1, <1>4, <2>1 DEF TypeInv, PastT
<1>6. PlaceInv'
  <2>1. ~client'
    BY <1>1
  <2> QED
    BY <1>1, <1>3, <2>1 DEF PlaceInv, Booting, InHand
<1> QED
  BY <1>1, <1>2, <1>3, <1>5, <1>6 DEF TypeInv

LEMMA StutterTypes == TypeInv /\ UNCHANGED vars => TypeInv'
<1> SUFFICES ASSUME TypeInv, UNCHANGED vars PROVE TypeInv'
  OBVIOUS
<1>1. /\ UNCHANGED <<buf, head, tail, count>> /\ UNCHANGED <<log, logNvs, logWriting, logHurt>>
      /\ UNCHANGED <<nvs, client, qr, mqtt, scanned, sent, raced, past>>
  BY DEF vars, ringVars, logs
<1>2. RingT' /\ LogT'
  BY <1>1, RingStays, LogsStay DEF TypeInv, ringVars, logs
<1>3. QrT' /\ MqttT' /\ PastT' /\ nvs' \in Flash
  BY <1>1 DEF TypeInv, QrT, MqttT, PastT
<1>4. PlaceInv'
  BY <1>1 DEF TypeInv, PlaceInv, InHand
<1> QED
  BY <1>2, <1>3, <1>4 DEF TypeInv

\* The actions of Next, one by one.
LEMMA NextIs ==
  Next =>
    \/ Scan \/ PowerLoss \/ EraseNvs
    \/ CheckClient \/ Publish \/ TestCount \/ LoadHead
    \/ ClearSlot \/ FillSlot \/ IncrementCount \/ MoveHead
    \/ MqttConnected \/ MqttDisconnected \/ PeekOldest \/ PublishOldest \/ PopOldest
    \/ \E b \in BOOLEAN : SaveLog(b) \/ SaveRing(b) \/ SavePop(b) \/ QueueBooted(b) \/ LoggerBooted(b)
<1>1. ASSUME NEW readable \in SUBSET Queue!AllKeys, BootQueue(readable)
      PROVE  \E b \in BOOLEAN : QueueBooted(b)
  <2> DEFINE b == (readable = Queue!AllKeys)
  <2>1. b \in BOOLEAN /\ QueueBooted(b)
    BY <1>1 DEF QueueBooted
  <2> QED
    BY <2>1
<1>2. ASSUME NEW readable \in SUBSET AllLogKeys, BootLogger(readable)
      PROVE  \E b \in BOOLEAN : LoggerBooted(b)
  <2> DEFINE b == (readable = AllLogKeys)
  <2>1. b \in BOOLEAN /\ LoggerBooted(b)
    BY <1>2 DEF LoggerBooted
  <2> QED
    BY <2>1
<1> QED
  BY <1>1, <1>2, Zenon DEF Next, QrScan, FlushPending

LEMMA StepTypes == TypeInv /\ [Next]_vars => TypeInv'
BY NextIs, ScanTypes, MoveTypes, PushTypes, SaveLogTypes, SaveRingTypes, MqttTypes, SavePopTypes,
   BootTypes, EraseTypes, PowerLossTypes, StutterTypes

LEMMA TypesHold == Spec => []TypeInv
BY InitTypeInv, StepTypes, PTL DEF Spec

LEMMA TypesImply == TypeInv => TypeOK
<1> SUFFICES ASSUME TypeInv PROVE TypeOK
  OBVIOUS
<1>1. Queue!Ram \in Queue!Ring
  BY DEF TypeInv, RingT, Queue!Ram, Queue!Ring, Slots, Entry
<1>2. /\ nvs.buf \in [Queue!Slots -> Scans \cup {Blank}] \cup {Absent}
      /\ nvs.head \in Queue!Slots \cup {Absent} /\ nvs.tail \in Queue!Slots \cup {Absent}
      /\ nvs.count \in 0..Size \cup {Absent}
  BY DEF TypeInv, Flash, Slots, Entry
<1>3. LogTypeOK
  BY LogKeysAre DEF TypeInv, LogT, LogRing, LogFlash, LogTypeOK, LogValid, Entry
<1>4. client \in BOOLEAN /\ raced \in BOOLEAN /\ scanned \in 0..MaxScans
  BY DEF TypeInv, PastT
<1>5. /\ qr.at \in Booting \cup Storing \cup {"idle", "log", "check", "send", "clear"}
      /\ mqtt.at \in {"idle", "peek", "publish", "pop", "save"}
      /\ mqtt.event \in Scans \cup {Blank}
  BY DEF TypeInv, QrT, MqttT, QrPlaces, MqttPlaces, Entry, QrRec, MqttRec
<1> QED
  BY <1>1, <1>2, <1>3, <1>4, <1>5 DEF TypeOK

\* Whatever the two tasks read stale and write late in each other's ring, every index
\* stays inside it and every register fits its next use.
THEOREM TypeCorrect == Spec => []TypeOK
BY TypesHold, TypesImply, PTL

-----------------------------------------------------------------------------
(* The history in RAM and in NVS.                                          *)

Running == qr.at \notin Booting

\* The key has taken its value in the running save, or no save runs.
Copied(i) == logWriting = 0 \/ i < logWriting

AllFilled(b) == \A s \in LogSlots : b[s] # Blank

\* A history shows no empty entry when every slot is filled, or when it starts at the
\* first slot and its indices have not passed the filled ones.
Packed(b, h, t, c) ==
  AllFilled(b) \/ (h = 0 /\ c <= t /\ \A s \in LogSlots : s < t => b[s] # Blank)

\* As long as NVS works: what the save has copied, and why no mixture of old and new
\* keys shows an empty entry.
FilledInv ==
  ~logHurt =>
    /\ Packed(log.buffer, log.head, log.tail, log.count)
    /\ Packed(Key("buffer"), Key("head"), Key("tail"), Key("count"))
    /\ Running =>
         /\ \A s \in LogSlots : Key("buffer")[s] # Blank => log.buffer[s] # Blank
         /\ AllFilled(log.buffer) \/ Key("tail") <= log.tail

CopyInv ==
  ~logHurt /\ Running =>
    /\ Copied(1) => Key("buffer") = log.buffer
    /\ Copied(2) => Key("head") = log.head
    /\ Copied(3) => Key("tail") = log.tail
    /\ Copied(4) => Key("count") = log.count

\* The steps of the board as the logger sees them.
LogPushed ==
  /\ LoggerPush(scanned + 1) /\ scanned + 1 \in Scans /\ scanned' = scanned + 1
  /\ Running /\ Running' /\ past' = past
LogSaved(b) ==
  /\ LoggerSave(b) /\ Running /\ Running' /\ scanned' = scanned
  /\ past'.tornLog = past.tornLog
LogBooted(b) ==
  /\ LogLoaded(b) /\ ~Running /\ Running' /\ scanned' = scanned
  /\ past'.tornLog = past.tornLog
LogCut ==
  /\ LoggerLost /\ ~Running' /\ scanned' = scanned
  /\ past'.tornLog = (past.tornLog \/ logWriting > 1)
LogErased ==
  /\ LoggerErased /\ ~Running' /\ scanned' = scanned /\ past'.tornLog = past.tornLog
LogStays ==
  /\ UNCHANGED logs /\ (Running <=> Running') /\ scanned' = scanned
  /\ past'.tornLog = past.tornLog

LEMMA LogSteps ==
  ASSUME TypeInv, [Next]_vars
  PROVE  LogPushed \/ (\E b \in BOOLEAN : LogSaved(b) \/ LogBooted(b)) \/ LogCut \/ LogErased \/ LogStays
<1>1. CASE Scan
  <2>1. LoggerPush(scanned + 1) /\ scanned + 1 \in Scans /\ scanned' = scanned + 1 /\ past' = past
    BY <1>1, CameraAssumption DEF Scan, TypeInv, PastT, Scans
  <2>2. Running /\ Running'
    BY <1>1, QrAtIs DEF Scan, QrGoes, Running, Booting
  <2> QED
    BY <2>1, <2>2 DEF LogPushed
<1>2. ASSUME NEW b \in BOOLEAN, SaveLog(b) PROVE LogSaved(b)
  <2>1. LoggerSave(b) /\ scanned' = scanned /\ past'.tornLog = past.tornLog
    BY <1>2, AccessIs DEF SaveLog, TypeInv
  <2>2. qr.at = "log" /\ (qr' = qr \/ qr' = QrAt("check"))
    BY <1>2 DEF SaveLog, LoggerSave, QrGoes, TypeInv, PlaceInv
  <2>3. Running /\ Running'
    BY <2>2, QrAtIs DEF Running, Booting
  <2> QED
    BY <2>1, <2>3 DEF LogSaved
<1>3. ASSUME NEW b \in BOOLEAN, LoggerBooted(b) PROVE LogBooted(b)
  <2>1. LogLoaded(b) /\ scanned' = scanned /\ past'.tornLog = past.tornLog
    BY <1>3, LoggerBootedIs, AccessIs DEF TypeInv
  <2>2. ~Running /\ Running'
    BY <1>3, LoggerBootedIs, QrAtIs DEF Running, Booting
  <2> QED
    BY <2>1, <2>2 DEF LogBooted
<1>4. CASE PowerLoss
  <2>1. LoggerLost /\ scanned' = scanned
    BY <1>4 DEF PowerLoss
  <2>2. ~Running'
    BY <1>4, QrAtIs DEF PowerLoss, Running, Booting
  <2>3. past'.tornLog = (past.tornLog \/ logWriting > 1)
    BY <1>4 DEF PowerLoss, TypeInv, PastT, PastRec
  <2> QED
    BY <2>1, <2>2, <2>3 DEF LogCut
<1>5. CASE CheckClient \/ Publish \/ TestCount \/ LoadHead
  <2>1. /\ UNCHANGED logs /\ scanned' = scanned /\ past' = past
        /\ qr.at \in {"check", "send", "test", "load"}
    BY <1>5 DEF CheckClient, Publish, TestCount, LoadHead
  <2>2. qr'.at \in {"send", "clear", "idle", "count", "load", "head"}
    BY <1>5, QrAtIs DEF CheckClient, Publish, TestCount, LoadHead, QrGoes, QrAt
  <2> QED
    BY <2>1, <2>2 DEF LogStays, Running, Booting
<1>6. CASE ClearSlot \/ FillSlot \/ IncrementCount \/ MoveHead
  <2>1. /\ UNCHANGED logs /\ scanned' = scanned /\ past'.tornLog = past.tornLog
        /\ qr.at \in {"clear", "fill", "count", "head"}
    BY <1>6 DEF ClearSlot, FillSlot, IncrementCount, MoveHead, TypeInv, PastT, PastRec
  <2>2. qr'.at \in {"fill", "test", "save"}
    BY <1>6, QrAtIs DEF ClearSlot, FillSlot, IncrementCount, MoveHead, QrGoes
  <2> QED
    BY <2>1, <2>2 DEF LogStays, Running, Booting
<1>7. ASSUME NEW b \in BOOLEAN, SaveRing(b) PROVE LogStays
  <2>1. UNCHANGED logs /\ scanned' = scanned /\ past'.tornLog = past.tornLog
    BY <1>7, AccessIs DEF SaveRing, TypeInv
  <2>2. /\ qr.at = "save" => qr'.at \in {"save", "idle"}
        /\ qr.at = "reset" => qr'.at \in {"reset", "load_log"}
        /\ qr.at \in {"save", "reset"}
    BY <1>7, SaveRingIs, QrAtIs DEF TypeInv, QrT, QrRec
  <2> QED
    BY <2>1, <2>2 DEF LogStays, Running, Booting
<1>8. CASE MqttConnected \/ MqttDisconnected \/ PeekOldest \/ PublishOldest \/ PopOldest
  <2>1. PICK m : MqttGoes(m)
    BY <1>8 DEF MqttConnected, MqttDisconnected, PeekOldest, PublishOldest, PopOldest
  <2>2. past' = past
    BY <1>8 DEF MqttConnected, MqttDisconnected, PeekOldest, PublishOldest, PopOldest
  <2> QED
    BY <2>1, <2>2, MqttStays DEF LogStays, Running
<1>9. ASSUME NEW b \in BOOLEAN, SavePop(b) PROVE LogStays
  BY <1>9, SavePopIs, AccessIs DEF SavePop, TypeInv, LogStays, Running
<1>10. ASSUME NEW b \in BOOLEAN, QueueBooted(b) PROVE LogStays
  <2>1. UNCHANGED logs /\ scanned' = scanned /\ past'.tornLog = past.tornLog /\ qr.at = "off"
    BY <1>10, QueueBootedIs, AccessIs DEF TypeInv
  <2>2. qr'.at \in {"load_log", "reset"}
    BY <1>10, QueueBootedIs, QrAtIs
  <2> QED
    BY <2>1, <2>2 DEF LogStays, Running, Booting
<1>11. CASE EraseNvs
  <2>1. LoggerErased /\ scanned' = scanned /\ past'.tornLog = past.tornLog
    BY <1>11, EraseIs, AccessIs DEF TypeInv
  <2>2. ~Running'
    BY <1>11, EraseIs DEF Running, Booting
  <2> QED
    BY <2>1, <2>2 DEF LogErased
<1>12. CASE UNCHANGED vars
  BY <1>12 DEF vars, LogStays, Running
<1> QED
  BY NextIs, <1>1, <1>2, <1>3, <1>4, <1>5, <1>6, <1>7, <1>8, <1>9, <1>10, <1>11, <1>12

\* The keys a restart would find, after a write and after a step that writes none.
LEMMA KeysSaved ==
  ASSUME LogT, LoggerSave(TRUE)
  PROVE  /\ Key("buffer")' = IF logWriting = 1 THEN log.buffer ELSE Key("buffer")
         /\ Key("head")'   = IF logWriting = 2 THEN log.head   ELSE Key("head")
         /\ Key("tail")'   = IF logWriting = 3 THEN log.tail   ELSE Key("tail")
         /\ Key("count")'  = IF logWriting = 4 THEN log.count  ELSE Key("count")
<1>1. /\ logNvs'.buffer = IF logWriting = 1 THEN log.buffer ELSE logNvs.buffer
      /\ logNvs'.head   = IF logWriting = 2 THEN log.head   ELSE logNvs.head
      /\ logNvs'.tail   = IF logWriting = 3 THEN log.tail   ELSE logNvs.tail
      /\ logNvs'.count  = IF logWriting = 4 THEN log.count  ELSE logNvs.count
  BY LogSaveIs
<1>2. /\ log.buffer # Absent /\ log.head # Absent /\ log.tail # Absent /\ log.count # Absent
  BY AbsentAssumption, CameraAssumption DEF LogT, LogRing, LogSlots, Entry
<1> QED
  BY <1>1, <1>2 DEF Key

LEMMA KeysStay ==
  logNvs' = logNvs =>
    /\ Key("buffer")' = Key("buffer") /\ Key("head")' = Key("head")
    /\ Key("tail")' = Key("tail") /\ Key("count")' = Key("count")
BY DEF Key

LEMMA CopyStep ==
  ASSUME TypeInv, CopyInv, [Next]_vars
  PROVE  CopyInv'
<1> LogT
  BY DEF TypeInv
<1>1. CASE LogPushed
  <2>1. logWriting' = 1 /\ logNvs' = logNvs
    BY <1>1 DEF LogPushed, LoggerPush
  <2> QED
    BY <2>1 DEF CopyInv, Copied
<1>2. ASSUME NEW b \in BOOLEAN, LogSaved(b) PROVE CopyInv'
  <2>1. CASE b = FALSE
    <3>1. logHurt'
      BY <1>2, <2>1, LogSaveIs DEF LogSaved
    <3> QED
      BY <3>1 DEF CopyInv
  <2>2. CASE b = TRUE
    <3>1. LoggerSave(TRUE) /\ Running
      BY <1>2, <2>2 DEF LogSaved
    <3>2. /\ log' = log /\ logWriting \in 1..4 /\ (logHurt' <=> logHurt)
          /\ logWriting' = IF logWriting = 4 THEN 0 ELSE logWriting + 1
      BY <3>1, LogSaveIs
    <3>3. /\ Key("buffer")' = IF logWriting = 1 THEN log.buffer ELSE Key("buffer")
          /\ Key("head")'   = IF logWriting = 2 THEN log.head   ELSE Key("head")
          /\ Key("tail")'   = IF logWriting = 3 THEN log.tail   ELSE Key("tail")
          /\ Key("count")'  = IF logWriting = 4 THEN log.count  ELSE Key("count")
      BY <3>1, KeysSaved
    <3> SUFFICES ASSUME ~logHurt PROVE CopyInv'
      BY <3>2 DEF CopyInv
    <3>4. /\ Copied(1) => Key("buffer") = log.buffer
          /\ Copied(2) => Key("head") = log.head
          /\ Copied(3) => Key("tail") = log.tail
          /\ Copied(4) => Key("count") = log.count
      BY <3>1 DEF CopyInv
    <3> QED
      BY <3>2, <3>3, <3>4 DEF CopyInv, Copied
  <2> QED
    BY <2>1, <2>2
<1>3. ASSUME NEW b \in BOOLEAN, LogBooted(b) PROVE CopyInv'
  <2>1. /\ logNvs' = logNvs /\ (~logHurt' => b)
        /\ b => /\ log'.buffer = Key("buffer") /\ log'.head = Key("head")
                /\ log'.tail = Key("tail") /\ log'.count = Key("count")
    BY <1>3, LogLoadedIs DEF LogBooted
  <2> QED
    BY <2>1, KeysStay DEF CopyInv
<1>4. CASE LogCut
  BY <1>4 DEF LogCut, CopyInv
<1>5. CASE LogStays
  BY <1>5, KeysStay DEF LogStays, CopyInv, logs, Copied
<1>6. CASE LogErased
  BY <1>6 DEF LogErased, LoggerErased, CopyInv
<1> QED
  BY LogSteps, <1>1, <1>2, <1>3, <1>4, <1>5, <1>6

\* The entry of a push fills its slot; the slots before it were filled.
LEMMA PushPacks ==
  ASSUME LogT, NEW e \in Scans, LoggerPush(e),
         Packed(log.buffer, log.head, log.tail, log.count)
  PROVE  /\ Packed(log.buffer, log.head, log.tail, log.count)'
         /\ \A s \in LogSlots : log.buffer[s] # Blank => log'.buffer[s] # Blank
         /\ AllFilled(log'.buffer) \/ log.tail <= log'.tail
<1>1. /\ log'.buffer = [log.buffer EXCEPT ![log.tail] = e]
      /\ log'.tail = LogAfter(log.tail)
      /\ log'.count = IF log.count < LogSize THEN log.count + 1 ELSE log.count
      /\ log'.head = IF log.count < LogSize THEN log.head ELSE LogAfter(log.head)
  BY PushIs DEF Entry
<1>2. /\ log.buffer \in [LogSlots -> Entry] /\ log.tail \in LogSlots /\ log.count \in 0..LogSize
      /\ e # Blank
  BY CameraAssumption DEF LogT, LogRing
<1>3. \A s \in LogSlots : log'.buffer[s] = IF s = log.tail THEN e ELSE log.buffer[s]
  BY <1>1, <1>2
<1>4. log'.tail = IF log.tail + 1 < LogSize THEN log.tail + 1 ELSE 0
  BY <1>1, <1>2, LogAfterIs
<1>5. CASE AllFilled(log.buffer)
  BY <1>2, <1>3, <1>5 DEF AllFilled, Packed
<1>6. CASE ~AllFilled(log.buffer)
  <2>1. /\ log.head = 0 /\ log.count <= log.tail
        /\ \A s \in LogSlots : s < log.tail => log.buffer[s] # Blank
    BY <1>6 DEF Packed
  <2>2. CASE log.tail + 1 < LogSize
    <3>1. log'.tail = log.tail + 1 /\ log'.count <= log'.tail /\ log'.head = 0
      BY <1>1, <1>2, <1>4, <2>1, <2>2, CameraAssumption DEF LogSlots
    <3>2. ASSUME NEW s \in LogSlots, s < log'.tail  PROVE log'.buffer[s] # Blank
      <4>1. s = log.tail \/ s < log.tail
        BY <1>2, <3>1, <3>2, CameraAssumption DEF LogSlots
      <4>2. CASE s = log.tail
        BY <1>2, <1>3, <4>2
      <4>3. CASE s # log.tail /\ s < log.tail
        BY <1>3, <2>1, <4>3
      <4> QED
        BY <4>1, <4>2, <4>3
    <3>3. log.tail <= log'.tail
      BY <1>2, <3>1, CameraAssumption DEF LogSlots
    <3> QED
      BY <1>2, <1>3, <3>1, <3>2, <3>3 DEF Packed
  <2>3. CASE ~(log.tail + 1 < LogSize)
    <3>1. \A s \in LogSlots : s = log.tail \/ s < log.tail
      BY <1>2, <2>3, CameraAssumption DEF LogSlots
    <3>2. AllFilled(log'.buffer)
      BY <1>2, <1>3, <2>1, <3>1 DEF AllFilled
    <3> QED
      BY <1>2, <1>3, <3>2 DEF Packed
  <2> QED
    BY <2>2, <2>3
<1> QED
  BY <1>5, <1>6

LEMMA FilledStep ==
  ASSUME TypeInv, CopyInv, FilledInv, [Next]_vars
  PROVE  FilledInv'
<1> LogT
  BY DEF TypeInv
<1>1. CASE LogPushed
  <2>1. LoggerPush(scanned + 1) /\ scanned + 1 \in Scans /\ Running /\ Running'
    BY <1>1 DEF LogPushed
  <2>2. logHurt' = logHurt /\ logNvs' = logNvs
    BY <2>1 DEF LoggerPush
  <2> SUFFICES ASSUME ~logHurt PROVE FilledInv'
    BY <2>2 DEF FilledInv
  <2>3. /\ Packed(log.buffer, log.head, log.tail, log.count)
        /\ Packed(Key("buffer"), Key("head"), Key("tail"), Key("count"))
        /\ \A s \in LogSlots : Key("buffer")[s] # Blank => log.buffer[s] # Blank
        /\ AllFilled(log.buffer) \/ Key("tail") <= log.tail
    BY <2>1 DEF FilledInv
  <2>4. /\ Packed(log.buffer, log.head, log.tail, log.count)'
        /\ \A s \in LogSlots : log.buffer[s] # Blank => log'.buffer[s] # Blank
        /\ AllFilled(log'.buffer) \/ log.tail <= log'.tail
    BY <2>1, <2>3, PushPacks
  <2>5. Packed(Key("buffer"), Key("head"), Key("tail"), Key("count"))'
    BY <2>2, <2>3, KeysStay DEF Packed, AllFilled
  <2>6. \A s \in LogSlots : Key("buffer")'[s] # Blank => log'.buffer[s] # Blank
    BY <2>2, <2>3, <2>4, KeysStay
  <2>7. AllFilled(log'.buffer) \/ Key("tail")' <= log'.tail
    <3>1. log.tail \in Int /\ log'.tail \in Int /\ Key("tail") \in Int
      <4>1. log.tail \in LogSlots /\ Key("tail") \in LogSlots
        BY KeysTyped DEF LogT, LogRing
      <4>2. log'.tail \in LogSlots
        BY <2>1, <4>1, PushIs, LogAfterIs DEF Entry
      <4> QED
        BY <4>1, <4>2, CameraAssumption DEF LogSlots
    <3>2. AllFilled(log.buffer) => AllFilled(log'.buffer)
      BY <2>4 DEF AllFilled
    <3> QED
      BY <2>2, <2>3, <2>4, <3>1, <3>2, KeysStay
  <2> QED
    BY <2>4, <2>5, <2>6, <2>7 DEF FilledInv
<1>2. ASSUME NEW b \in BOOLEAN, LogSaved(b) PROVE FilledInv'
  <2>1. CASE b = FALSE
    <3>1. logHurt'
      BY <1>2, <2>1, LogSaveIs DEF LogSaved
    <3> QED
      BY <3>1 DEF FilledInv
  <2>2. CASE b = TRUE
    <3>1. LoggerSave(TRUE) /\ Running /\ Running'
      BY <1>2, <2>2 DEF LogSaved
    <3>2. log' = log /\ logWriting \in 1..4 /\ (logHurt' <=> logHurt)
      BY <3>1, LogSaveIs
    <3>3. /\ Key("buffer")' = IF logWriting = 1 THEN log.buffer ELSE Key("buffer")
          /\ Key("head")'   = IF logWriting = 2 THEN log.head   ELSE Key("head")
          /\ Key("tail")'   = IF logWriting = 3 THEN log.tail   ELSE Key("tail")
          /\ Key("count")'  = IF logWriting = 4 THEN log.count  ELSE Key("count")
      BY <3>1, KeysSaved
    <3> SUFFICES ASSUME ~logHurt PROVE FilledInv'
      BY <3>2 DEF FilledInv
    <3>4. /\ Packed(log.buffer, log.head, log.tail, log.count)
          /\ Packed(Key("buffer"), Key("head"), Key("tail"), Key("count"))
          /\ \A s \in LogSlots : Key("buffer")[s] # Blank => log.buffer[s] # Blank
          /\ AllFilled(log.buffer) \/ Key("tail") <= log.tail
      BY <3>1 DEF FilledInv
    <3>5. /\ logWriting > 1 => Key("buffer") = log.buffer
          /\ logWriting > 3 => Key("tail") = log.tail
      BY <3>1, <3>2 DEF CopyInv, Copied
    <3>6. log.tail \in Int /\ Key("tail") \in Int /\ log.count \in Int /\ Key("count") \in Int
          /\ LogSlots \subseteq Int
      BY KeysTyped, CameraAssumption DEF LogT, LogRing, LogSlots
    <3>7. Packed(Key("buffer"), Key("head"), Key("tail"), Key("count"))'
      <4>1. CASE AllFilled(log.buffer)
        <5>1. logWriting = 1 => AllFilled(Key("buffer")')
          BY <3>3, <4>1
        <5>2. logWriting > 1 => AllFilled(Key("buffer")')
          BY <3>2, <3>3, <3>5, <4>1
        <5> QED
          BY <3>2, <5>1, <5>2 DEF Packed
      <4>2. CASE ~AllFilled(log.buffer)
        <5>1. ~AllFilled(Key("buffer"))
          BY <3>4, <4>2 DEF AllFilled
        <5>2. /\ log.head = 0 /\ log.count <= log.tail
              /\ \A s \in LogSlots : s < log.tail => log.buffer[s] # Blank
          BY <3>4, <4>2 DEF Packed
        <5>3. /\ Key("head") = 0 /\ Key("count") <= Key("tail")
              /\ \A s \in LogSlots : s < Key("tail") => Key("buffer")[s] # Blank
          BY <3>4, <5>1 DEF Packed
        <5>4. Key("tail") <= log.tail
          BY <3>4, <4>2
        <5>5. Key("head")' = 0 /\ Key("count")' <= Key("tail")'
          BY <3>2, <3>3, <3>5, <3>6, <5>2, <5>3, <5>4
        <5>6. \A s \in LogSlots : s < Key("tail")' => Key("buffer")'[s] # Blank
          BY <3>2, <3>3, <3>4, <3>5, <3>6, <5>2, <5>3, <5>4
        <5> QED
          BY <5>5, <5>6 DEF Packed
      <4> QED
        BY <4>1, <4>2
    <3>8. \A s \in LogSlots : Key("buffer")'[s] # Blank => log'.buffer[s] # Blank
      BY <3>2, <3>3, <3>4
    <3>9. AllFilled(log'.buffer) \/ Key("tail")' <= log'.tail
      BY <3>2, <3>3, <3>4, <3>6
    <3>10. Packed(log.buffer, log.head, log.tail, log.count)'
      BY <3>2, <3>4 DEF Packed, AllFilled
    <3> QED
      BY <3>7, <3>8, <3>9, <3>10 DEF FilledInv
  <2> QED
    BY <2>1, <2>2
<1>3. ASSUME NEW b \in BOOLEAN, LogBooted(b) PROVE FilledInv'
  <2>1. /\ logNvs' = logNvs /\ (~logHurt' => b /\ ~logHurt)
        /\ b => /\ log'.buffer = Key("buffer") /\ log'.head = Key("head")
                /\ log'.tail = Key("tail") /\ log'.count = Key("count")
    BY <1>3, LogLoadedIs DEF LogBooted
  <2> SUFFICES ASSUME ~logHurt' PROVE FilledInv'
    BY DEF FilledInv
  <2>2. Packed(Key("buffer"), Key("head"), Key("tail"), Key("count"))
    BY <2>1 DEF FilledInv
  <2>3. log'.buffer = Key("buffer") /\ Key("tail") \in Int
    BY <2>1, KeysTyped, CameraAssumption DEF LogSlots
  <2> QED
    BY <2>1, <2>2, <2>3, KeysStay DEF FilledInv, Packed, AllFilled
<1>4. CASE LogCut
  <2>1. log' = NewLog /\ logNvs' = logNvs /\ logHurt' = logHurt /\ ~Running'
    BY <1>4 DEF LogCut, LoggerLost
  <2>2. Packed(log.buffer, log.head, log.tail, log.count)'
    <3>1. \A s \in LogSlots : ~(s < 0)
      BY CameraAssumption DEF LogSlots
    <3> QED
      BY <2>1, <3>1, NewLogType DEF Packed
  <2> QED
    BY <2>1, <2>2, KeysStay DEF FilledInv, Packed, AllFilled
<1>5. CASE LogStays
  BY <1>5, KeysStay DEF LogStays, FilledInv, logs, Packed, AllFilled
<1>6. CASE LogErased
  BY <1>6 DEF LogErased, LoggerErased, FilledInv
<1> QED
  BY LogSteps, <1>1, <1>2, <1>3, <1>4, <1>5, <1>6

LEMMA InitFilled == Init => CopyInv /\ FilledInv
<1> SUFFICES ASSUME Init PROVE CopyInv /\ FilledInv
  OBVIOUS
<1>1. ~Running
  BY QrAtIs DEF Init, Running, Booting
<1>2. \A name \in {"buffer", "head", "tail", "count"} : Key(name) = NewLog[name]
  BY LogInitType DEF Init, Key
<1>3. log = NewLog
  BY DEF Init, LogInit
<1>4. \A s \in LogSlots : ~(s < 0)
  BY CameraAssumption DEF LogSlots
<1> QED
  BY <1>1, <1>2, <1>3, <1>4, NewLogType DEF CopyInv, FilledInv, Packed

\* Wherever power is lost in a save of the history, it shows no empty entry.
THEOREM NoEmptyEntryShown == Spec => []NoEmptyEntry
<1>1. TypeInv /\ FilledInv => NoEmptyEntry
  <2> SUFFICES ASSUME TypeInv, FilledInv, ~logHurt, NEW i \in 1..log.count
               PROVE  History(log)[i] # Blank
    BY DEF NoEmptyEntry
  <2>1. log.head \in LogSlots /\ log.tail \in LogSlots /\ log.count \in 0..LogSize
    BY DEF TypeInv, LogT, LogRing
  <2>2. History(log)[i] = log.buffer[(log.head + (i - 1)) % LogSize]
    <3>1. log.head + i - 1 = log.head + (i - 1)
      BY <2>1, CameraAssumption DEF LogSlots
    <3> QED
      BY <3>1 DEF History
  <2>3. i - 1 \in 0..LogSize /\ i - 1 < log.count
    BY <2>1, CameraAssumption
  <2>4. /\ (log.head + (i - 1)) % LogSize \in LogSlots
        /\ (log.head + (i - 1)) % LogSize
             = IF log.head + (i - 1) < LogSize THEN log.head + (i - 1) ELSE log.head + (i - 1) - LogSize
    BY <2>1, <2>3, LogTurn
  <2>5. CASE AllFilled(log.buffer)
    BY <2>2, <2>4, <2>5 DEF AllFilled
  <2>6. CASE log.head = 0 /\ log.count <= log.tail /\ \A s \in LogSlots : s < log.tail => log.buffer[s] # Blank
    <3>1. (log.head + (i - 1)) % LogSize < log.tail
      BY <2>1, <2>3, <2>4, <2>6, CameraAssumption DEF LogSlots
    <3> QED
      BY <2>2, <2>4, <2>6, <3>1
  <2> QED
    BY <2>5, <2>6 DEF FilledInv, Packed
<1> QED
  BY <1>1, TypesHold, InitFilled, CopyStep, FilledStep, PTL DEF Spec

-----------------------------------------------------------------------------
(* Slots of a ring of n, counted from its head.                            *)

Slot(n, h, i) == (h + i) % n

LEMMA SlotIs ==
  ASSUME NEW n \in Nat \ {0}, NEW h \in 0..(n - 1), NEW i \in 0..n
  PROVE  /\ Slot(n, h, i) = IF h + i < n THEN h + i ELSE h + i - n
         /\ Slot(n, h, i) \in 0..(n - 1)
BY DEF Slot

LEMMA SlotEnds ==
  ASSUME NEW n \in Nat \ {0}, NEW h \in 0..(n - 1)
  PROVE  Slot(n, h, 0) = h /\ Slot(n, h, n) = h
BY SlotIs

LEMMA SlotsDiffer ==
  ASSUME NEW n \in Nat \ {0}, NEW h \in 0..(n - 1), NEW i \in 0..(n - 1), NEW j \in 0..(n - 1),
         i # j
  PROVE  Slot(n, h, i) # Slot(n, h, j)
<1>1. /\ Slot(n, h, i) = IF h + i < n THEN h + i ELSE h + i - n
      /\ Slot(n, h, j) = IF h + j < n THEN h + j ELSE h + j - n
  BY SlotIs
<1> QED
  BY <1>1

\* The i-th slot after the next head is the i+1-st after this one, and follows the i-th.
LEMMA SlotNext ==
  ASSUME NEW n \in Nat \ {0}, NEW h \in 0..(n - 1), NEW i \in 0..(n - 1)
  PROVE  /\ Slot(n, Slot(n, h, 1), i) = Slot(n, h, i + 1)
         /\ Slot(n, Slot(n, h, i), 1) = Slot(n, h, i + 1)
<1>0. i \in 0..n /\ i + 1 \in 0..n /\ 1 \in 0..n
  OBVIOUS
<1>1. /\ Slot(n, h, i + 1) = IF h + (i + 1) < n THEN h + (i + 1) ELSE h + (i + 1) - n
      /\ Slot(n, h, i) = IF h + i < n THEN h + i ELSE h + i - n
      /\ Slot(n, h, 1) = IF h + 1 < n THEN h + 1 ELSE h + 1 - n
      /\ Slot(n, h, i) \in 0..(n - 1) /\ Slot(n, h, 1) \in 0..(n - 1)
  BY <1>0, SlotIs
<1>2. \A a \in 0..(n - 1) : Slot(n, a, i) = IF a + i < n THEN a + i ELSE a + i - n
  BY SlotIs
<1>3. \A a \in 0..(n - 1) : Slot(n, a, 1) = IF a + 1 < n THEN a + 1 ELSE a + 1 - n
  BY SlotIs
<1> QED
  BY <1>1, <1>2, <1>3

-----------------------------------------------------------------------------
(* The order of the history.                                               *)

\* A ring of c entries from h on, the next one at t, in ascending order up to top.
InOrder(b, h, t, c, top) ==
  /\ t = Slot(LogSize, h, c)
  /\ \A i \in 0..(c - 1) : b[Slot(LogSize, h, i)] \in 1..top
  /\ \A i, j \in 0..(c - 1) : i < j => b[Slot(LogSize, h, i)] < b[Slot(LogSize, h, j)]

\* What a restart would find is in order as long as the save has changed no key.
OrderInv ==
  ~logHurt /\ ~past.tornLog =>
    /\ InOrder(log.buffer, log.head, log.tail, log.count, scanned)
    /\ logWriting <= 1 =>
         InOrder(Key("buffer"), Key("head"), Key("tail"), Key("count"), scanned)

LEMMA OrderGrows ==
  ASSUME NEW b, NEW h, NEW t, NEW c \in Nat, NEW top \in Nat, InOrder(b, h, t, c, top)
  PROVE  InOrder(b, h, t, c, top + 1)
BY DEF InOrder

\* A push appends to the order, and gives up its first entry when the ring is full.
LEMMA PushOrders ==
  ASSUME NEW b \in [LogSlots -> Entry], NEW h \in LogSlots, NEW t, NEW c \in 0..LogSize,
         NEW top \in Nat, InOrder(b, h, t, c, top),
         NEW d, d = [b EXCEPT ![t] = top + 1]
  PROVE  IF c < LogSize THEN InOrder(d, h, LogAfter(t), c + 1, top + 1)
         ELSE InOrder(d, LogAfter(h), LogAfter(t), c, top + 1)
<1> DEFINE N == LogSize
<1>1. N \in Nat \ {0} /\ LogSlots = 0..(N - 1)
  BY CameraAssumption DEF LogSlots
<1>2. t = Slot(N, h, c) /\ t \in LogSlots
  BY <1>1, SlotIs DEF InOrder
<1>3. \A a \in LogSlots : LogAfter(a) = Slot(N, a, 1)
  BY DEF LogAfter, Slot
<1>4. \A s \in LogSlots : d[s] = IF s = t THEN top + 1 ELSE b[s]
  BY <1>2
<1>5. \A i \in 0..(c - 1) : b[Slot(N, h, i)] \in 1..top
  BY DEF InOrder
<1>6. \A i, j \in 0..(c - 1) : i < j => b[Slot(N, h, i)] < b[Slot(N, h, j)]
  BY DEF InOrder
<1>7. \A i \in 0..(N - 1) : Slot(N, h, i) \in LogSlots
  BY <1>1, SlotIs
<1>8. CASE c < N
  <2>1. \A i \in 0..(c - 1) : d[Slot(N, h, i)] = b[Slot(N, h, i)]
    <3> SUFFICES ASSUME NEW i \in 0..(c - 1) PROVE d[Slot(N, h, i)] = b[Slot(N, h, i)]
      OBVIOUS
    <3>1. i \in 0..(N - 1) /\ c \in 0..(N - 1) /\ i # c
      BY <1>1, <1>8
    <3>2. Slot(N, h, i) # t
      BY <1>1, <1>2, <3>1, SlotsDiffer
    <3> QED
      BY <1>4, <1>7, <3>1, <3>2
  <2>2. d[Slot(N, h, c)] = top + 1
    BY <1>2, <1>4
  <2>3. LogAfter(t) = Slot(N, h, c + 1)
    <3>1. c \in 0..(N - 1)
      BY <1>1, <1>8
    <3> QED
      BY <1>1, <1>2, <1>3, <3>1, SlotNext
  <2>4. \A i \in 0..c : i = c \/ i \in 0..(c - 1)
    BY <1>1
  <2>5. \A i \in 0..c : d[Slot(N, h, i)] \in 1..(top + 1)
    BY <1>5, <2>1, <2>2, <2>4
  <2>6. \A i, j \in 0..c : i < j => d[Slot(N, h, i)] < d[Slot(N, h, j)]
    <3> SUFFICES ASSUME NEW i \in 0..c, NEW j \in 0..c, i < j
                 PROVE  d[Slot(N, h, i)] < d[Slot(N, h, j)]
      OBVIOUS
    <3>1. i \in 0..(c - 1)
      BY <1>1
    <3>2. CASE j = c
      BY <1>5, <2>1, <2>2, <3>1, <3>2
    <3>3. CASE j \in 0..(c - 1)
      BY <1>6, <2>1, <3>1, <3>3
    <3> QED
      BY <2>4, <3>2, <3>3
  <2> QED
    BY <1>1, <1>8, <2>3, <2>5, <2>6 DEF InOrder
<1>9. CASE ~(c < N)
  <2>1. c = N /\ t = h
    BY <1>1, <1>2, <1>9, SlotEnds
  <2>2. LogAfter(h) = Slot(N, h, 1) /\ LogAfter(h) \in LogSlots
    BY <1>3, LogAfterIs
  <2>3. \A i \in 0..(N - 1) : Slot(N, LogAfter(h), i) = Slot(N, h, i + 1)
    BY <1>1, <2>2, SlotNext
  <2>4. \A i \in 0..(N - 2) : d[Slot(N, LogAfter(h), i)] = b[Slot(N, h, i + 1)]
    <3> SUFFICES ASSUME NEW i \in 0..(N - 2)
                 PROVE  d[Slot(N, LogAfter(h), i)] = b[Slot(N, h, i + 1)]
      OBVIOUS
    <3>1. i + 1 \in 0..(N - 1) /\ i \in 0..(N - 1) /\ 0 \in 0..(N - 1) /\ i + 1 # 0
      BY <1>1
    <3>2. Slot(N, h, i + 1) # Slot(N, h, 0) /\ Slot(N, h, 0) = h
      BY <1>1, <3>1, SlotsDiffer, SlotEnds
    <3> QED
      BY <1>4, <1>7, <2>1, <2>3, <3>1, <3>2
  <2>5. d[Slot(N, LogAfter(h), N - 1)] = top + 1
    <3>1. N - 1 \in 0..(N - 1) /\ (N - 1) + 1 = N
      BY <1>1
    <3>2. Slot(N, LogAfter(h), N - 1) = Slot(N, h, N) /\ Slot(N, h, N) = h
      BY <1>1, <2>3, <3>1, SlotEnds
    <3> QED
      BY <1>4, <2>1, <3>2
  <2>6. LogAfter(t) = Slot(N, LogAfter(h), N)
    BY <1>1, <2>1, <2>2, SlotEnds
  <2>7. \A i \in 0..(N - 1) : i = N - 1 \/ i \in 0..(N - 2)
    BY <1>1
  <2>8. \A i \in 0..(N - 2) : d[Slot(N, LogAfter(h), i)] \in 1..top
    <3>1. \A i \in 0..(N - 2) : i + 1 \in 0..(c - 1)
      BY <1>1, <2>1
    <3> QED
      BY <1>5, <2>4, <3>1
  <2>9. \A i \in 0..(N - 1) : d[Slot(N, LogAfter(h), i)] \in 1..(top + 1)
    BY <2>5, <2>7, <2>8
  <2>10. \A i, j \in 0..(N - 1) : i < j => d[Slot(N, LogAfter(h), i)] < d[Slot(N, LogAfter(h), j)]
    <3> SUFFICES ASSUME NEW i \in 0..(N - 1), NEW j \in 0..(N - 1), i < j
                 PROVE  d[Slot(N, LogAfter(h), i)] < d[Slot(N, LogAfter(h), j)]
      OBVIOUS
    <3>1. i \in 0..(N - 2)
      BY <1>1
    <3>2. CASE j = N - 1
      BY <2>5, <2>8, <3>1, <3>2
    <3>3. CASE j \in 0..(N - 2)
      <4>1. i + 1 \in 0..(c - 1) /\ j + 1 \in 0..(c - 1) /\ i + 1 < j + 1
        BY <1>1, <2>1, <3>1, <3>3
      <4> QED
        BY <1>6, <2>4, <3>1, <3>3, <4>1
    <3> QED
      BY <2>7, <3>2, <3>3
  <2> QED
    BY <1>1, <1>9, <2>1, <2>6, <2>9, <2>10 DEF InOrder
<1> QED
  BY <1>1, <1>8, <1>9

LEMMA OrderStep ==
  ASSUME TypeInv, CopyInv, OrderInv, [Next]_vars
  PROVE  OrderInv'
<1> LogT /\ scanned \in Nat
  BY CameraAssumption DEF TypeInv, PastT
<1>1. CASE LogPushed
  <2>1. /\ LoggerPush(scanned + 1) /\ scanned + 1 \in Scans /\ scanned' = scanned + 1
        /\ past' = past /\ Running
    BY <1>1 DEF LogPushed
  <2>2. /\ logWriting = 0 /\ logHurt' = logHurt /\ logNvs' = logNvs
        /\ log'.buffer = [log.buffer EXCEPT ![log.tail] = scanned + 1]
        /\ log'.tail = LogAfter(log.tail)
        /\ log'.count = IF log.count < LogSize THEN log.count + 1 ELSE log.count
        /\ log'.head = IF log.count < LogSize THEN log.head ELSE LogAfter(log.head)
    BY <2>1, PushIs DEF Entry
  <2> SUFFICES ASSUME ~logHurt, ~past.tornLog PROVE OrderInv'
    BY <2>1, <2>2 DEF OrderInv
  <2>3. InOrder(log.buffer, log.head, log.tail, log.count, scanned)
    BY DEF OrderInv
  <2>4. InOrder(Key("buffer"), Key("head"), Key("tail"), Key("count"), scanned)
    BY <2>2 DEF OrderInv
  <2>5. /\ log.buffer \in [LogSlots -> Entry] /\ log.head \in LogSlots
        /\ log.count \in 0..LogSize /\ Key("count") \in 0..LogSize
    BY KeysTyped DEF LogT, LogRing
  <2>6. InOrder(log'.buffer, log'.head, log'.tail, log'.count, scanned + 1)
    BY <2>2, <2>3, <2>5, PushOrders
  <2>7. InOrder(Key("buffer"), Key("head"), Key("tail"), Key("count"), scanned + 1)
    BY <2>4, <2>5, OrderGrows, CameraAssumption
  <2> QED
    BY <2>1, <2>2, <2>6, <2>7, KeysStay DEF OrderInv
<1>2. ASSUME NEW b \in BOOLEAN, LogSaved(b) PROVE OrderInv'
  <2>1. /\ LoggerSave(b) /\ Running /\ Running' /\ scanned' = scanned
        /\ (past'.tornLog <=> past.tornLog)
    BY <1>2 DEF LogSaved
  <2>2. /\ log' = log /\ logWriting \in 1..4 /\ (logHurt' <=> logHurt \/ ~b)
        /\ logWriting' = IF logWriting = 4 THEN 0 ELSE logWriting + 1
    BY <2>1, LogSaveIs
  <2> SUFFICES ASSUME ~logHurt', ~logHurt, ~past.tornLog PROVE OrderInv'
    BY <2>1, <2>2 DEF OrderInv
  <2>3. InOrder(log.buffer, log.head, log.tail, log.count, scanned)
    BY DEF OrderInv
  <2>4. CopyInv'
    BY CopyStep
  <2>5. logWriting' <= 1 => /\ Key("buffer")' = log'.buffer /\ Key("head")' = log'.head
                            /\ Key("tail")' = log'.tail /\ Key("count")' = log'.count
    BY <2>1, <2>2, <2>4 DEF CopyInv, Copied
  <2> QED
    BY <2>1, <2>2, <2>3, <2>5 DEF OrderInv
<1>3. ASSUME NEW b \in BOOLEAN, LogBooted(b) PROVE OrderInv'
  <2>1. /\ logNvs' = logNvs /\ (~logHurt' => b /\ ~logHurt) /\ logWriting' = 0
        /\ b => /\ log'.buffer = Key("buffer") /\ log'.head = Key("head")
                /\ log'.tail = Key("tail") /\ log'.count = Key("count")
        /\ scanned' = scanned /\ (past'.tornLog <=> past.tornLog) /\ ~Running
    BY <1>3, LogLoadedIs DEF LogBooted
  <2>2. logWriting = 0
    BY <2>1 DEF TypeInv, PlaceInv, Running, Booting
  <2> SUFFICES ASSUME ~logHurt', ~past.tornLog PROVE OrderInv'
    BY <2>1 DEF OrderInv
  <2>3. InOrder(Key("buffer"), Key("head"), Key("tail"), Key("count"), scanned)
    BY <2>1, <2>2 DEF OrderInv
  <2> QED
    BY <2>1, <2>3, KeysStay DEF OrderInv
<1>4. CASE LogCut
  <2>1. /\ log' = NewLog /\ logWriting' = 0 /\ logNvs' = logNvs /\ logHurt' = logHurt
        /\ scanned' = scanned /\ (past'.tornLog <=> past.tornLog \/ logWriting > 1)
    BY <1>4 DEF LogCut, LoggerLost
  <2> SUFFICES ASSUME ~logHurt, ~past.tornLog, logWriting <= 1 PROVE OrderInv'
    BY <2>1 DEF OrderInv, LogT
  <2>2. InOrder(Key("buffer"), Key("head"), Key("tail"), Key("count"), scanned)
    BY DEF OrderInv
  <2>3. InOrder(NewLog.buffer, 0, 0, 0, scanned)
    <3>1. 0 = Slot(LogSize, 0, 0)
      BY SlotEnds, CameraAssumption
    <3> QED
      BY <3>1 DEF InOrder
  <2> QED
    BY <2>1, <2>2, <2>3, NewLogType, KeysStay DEF OrderInv
<1>5. CASE LogStays
  <2>1. UNCHANGED <<log, logNvs, logWriting, logHurt>> /\ scanned' = scanned
        /\ (past'.tornLog <=> past.tornLog)
    BY <1>5 DEF LogStays, logs
  <2> QED
    BY <2>1, KeysStay DEF OrderInv
<1>6. CASE LogErased
  BY <1>6 DEF LogErased, LoggerErased, OrderInv
<1> QED
  BY LogSteps, <1>1, <1>2, <1>3, <1>4, <1>5, <1>6

LEMMA InitOrder == Init => OrderInv
<1> SUFFICES ASSUME Init PROVE OrderInv
  OBVIOUS
<1>1. \A name \in {"buffer", "head", "tail", "count"} : Key(name) = NewLog[name]
  BY LogInitType DEF Init, Key
<1>2. log = NewLog
  BY DEF Init, LogInit
<1>3. 0 = Slot(LogSize, 0, 0)
  BY SlotEnds, CameraAssumption
<1> QED
  BY <1>1, <1>2, <1>3, NewLogType DEF OrderInv, InOrder

\* Unless its save was cut or failed, the history runs from the oldest entry to the newest,
\* wherever it wrapped around and however often it was loaded again.
THEOREM HistoryRunsInOrder == Spec => []HistoryInOrder
<1>1. TypeInv /\ OrderInv => HistoryInOrder
  <2> SUFFICES ASSUME TypeInv, OrderInv, ~logHurt, ~past.tornLog,
                      NEW i \in 1..log.count, NEW j \in 1..log.count, i < j
               PROVE  History(log)[i] < History(log)[j]
    BY DEF HistoryInOrder
  <2>1. log.head \in LogSlots /\ log.count \in 0..LogSize
    BY DEF TypeInv, LogT, LogRing
  <2>2. \A k \in 1..log.count : History(log)[k] = log.buffer[Slot(LogSize, log.head, k - 1)]
    <3> SUFFICES ASSUME NEW k \in 1..log.count
                 PROVE  History(log)[k] = log.buffer[Slot(LogSize, log.head, k - 1)]
      OBVIOUS
    <3>1. log.head + k - 1 = log.head + (k - 1)
      BY <2>1, CameraAssumption DEF LogSlots
    <3> QED
      BY <3>1 DEF History, Slot
  <2>3. i - 1 \in 0..(log.count - 1) /\ j - 1 \in 0..(log.count - 1) /\ i - 1 < j - 1
    BY <2>1, CameraAssumption
  <2> QED
    BY <2>2, <2>3 DEF OrderInv, InOrder
<1> QED
  BY <1>1, TypesHold, InitFilled, CopyStep, InitOrder, OrderStep, PTL DEF Spec

-----------------------------------------------------------------------------
(* An event is in the stored history before anyone hears of it.            *)

\* How many entries have been logged since the one in slot s, with t the next slot.
Age(s, t) == IF s < t THEN t - s - 1 ELSE t + LogSize - s - 1

\* The entry of e is where the next save writes it again, and young enough that the tail
\* of a restart does not reach it before LogSize newer scans.
Kept(e) ==
  \E s \in LogSlots :
    /\ Key("buffer")[s] = e /\ Age(s, Key("tail")) <= scanned - e
    /\ Running => log.buffer[s] = e /\ Age(s, log.tail) <= scanned - e

\* The event has left the hands of the logger: qr_scan works on it, it is in a queue,
\* stored or not, in the hands of the flush, or published.
Passed(e) ==
  \/ sent[e] > 0
  \/ nvs.buf # Absent /\ \E s \in Slots : nvs.buf[s] = e
  \/ \E s \in Slots : buf[s] = e
  \/ mqtt.event = e
  \/ e = scanned /\ qr.at \in {"check", "send", "clear"} \cup Storing

JustLogged ==
  logWriting # 0 => \E s \in LogSlots : log.buffer[s] = scanned /\ log.tail = LogAfter(s)

LoggedInv ==
  /\ JustLogged
  /\ ~logHurt =>
       \A e \in Scans : Passed(e) => e <= scanned /\ (scanned - e >= LogSize \/ Kept(e))

\* Only the last write of logger_save hands an event on.
LEMMA PassedStep ==
  ASSUME TypeInv, [Next]_vars, NEW e \in Scans, Passed(e)'
  PROVE  Passed(e) \/ (e = scanned /\ logWriting = 4 /\ \E b \in BOOLEAN : LogSaved(b))
<1>1. e # Blank
  BY CameraAssumption
<1>2. CASE Scan
  <2>1. qr'.at = "log" /\ UNCHANGED <<buf, nvs, sent, mqtt>>
    BY <1>2, QrAtIs DEF Scan, QrGoes, ringVars
  <2> QED
    BY <2>1 DEF Passed, Storing
<1>3. ASSUME NEW b \in BOOLEAN, SaveLog(b)
      PROVE  Passed(e) \/ (e = scanned /\ logWriting = 4 /\ LogSaved(b))
  <2>1. /\ UNCHANGED <<buf, nvs, sent, mqtt, scanned>> /\ qr.at = "log"
        /\ logWriting # 4 => qr' = qr
    BY <1>3, LogKeysAre DEF SaveLog, QrGoes, LoggerSave, ringVars, TypeInv, PlaceInv
  <2>2. LogSaved(b)
    <3>1. LoggerSave(b) /\ scanned' = scanned /\ past'.tornLog = past.tornLog
      BY <1>3, AccessIs DEF SaveLog, TypeInv
    <3>2. qr' = qr \/ qr' = QrAt("check")
      BY <1>3 DEF SaveLog, QrGoes
    <3>3. Running /\ Running'
      BY <2>1, <3>2, QrAtIs DEF Running, Booting
    <3> QED
      BY <3>1, <3>3 DEF LogSaved
  <2> QED
    BY <2>1, <2>2 DEF Passed
<1>4. CASE CheckClient \/ TestCount \/ LoadHead
  <2>1. UNCHANGED <<buf, nvs, sent, mqtt, scanned>> /\ qr.at \in {"check", "test", "load"}
    BY <1>4 DEF CheckClient, TestCount, LoadHead, QrGoes, ringVars
  <2> QED
    BY <2>1 DEF Passed, Storing
<1>5. CASE Publish
  <2>1. /\ UNCHANGED <<buf, nvs, mqtt, scanned>> /\ qr.at = "send"
        /\ sent' = sent \/ sent' = [sent EXCEPT ![scanned] = @ + 1]
    BY <1>5 DEF Publish, Took, QrGoes, ringVars
  <2>2. e # scanned => sent'[e] = sent[e]
    BY <2>1 DEF TypeInv, PastT
  <2> QED
    BY <2>1, <2>2 DEF Passed
<1>6. CASE ClearSlot \/ FillSlot \/ IncrementCount \/ MoveHead
  <2>1. UNCHANGED <<nvs, sent, mqtt, scanned>> /\ qr.at \in {"clear", "fill", "count", "head"}
    BY <1>6 DEF ClearSlot, FillSlot, IncrementCount, MoveHead, QrGoes
  <2>2. \A s \in Slots : buf'[s] \in {buf[s], Blank, scanned}
    BY <1>6 DEF ClearSlot, FillSlot, IncrementCount, MoveHead, TypeInv, RingT
  <2> QED
    BY <1>1, <2>1, <2>2 DEF Passed, Storing
<1>7. ASSUME NEW b \in BOOLEAN, SaveRing(b) PROVE Passed(e)
  <2>1. /\ UNCHANGED <<buf, sent, mqtt, scanned>> /\ qr.at \in {"save", "reset"}
        /\ nvs'.buf = buf \/ nvs'.buf = nvs.buf
    BY <1>7, SaveRingIs DEF ringVars
  <2>2. qr.at = "reset" => qr'.at \in {"reset", "load_log"}
    BY <1>7, SaveRingIs, QrAtIs DEF TypeInv, QrT, QrRec
  <2> QED
    BY <2>1, <2>2 DEF Passed, Storing
<1>8. CASE MqttConnected \/ MqttDisconnected \/ PopOldest
  <2>1. UNCHANGED <<nvs, sent, scanned, qr>> /\ mqtt'.event = Blank
    <3>1. UNCHANGED <<nvs, sent>>
      BY <1>8 DEF MqttConnected, MqttDisconnected, PopOldest
    <3>2. PICK m : MqttGoes(m) /\ m.event = Blank
      <4>1. /\ MqttAt("peek").event = Blank /\ MqttAt("idle").event = Blank
            /\ [MqttAt("save") EXCEPT !.key = 1].event = Blank
        BY MqttAtIs DEF MqttAt
      <4>2. \/ MqttGoes(MqttAt("peek")) \/ MqttGoes(MqttAt("idle"))
            \/ MqttGoes([MqttAt("save") EXCEPT !.key = 1])
        BY <1>8 DEF MqttConnected, MqttDisconnected, PopOldest
      <4> QED
        BY <4>1, <4>2
    <3> QED
      BY <3>1, <3>2 DEF MqttGoes
  <2>2. \A s \in Slots : buf'[s] \in {buf[s], Blank}
    BY <1>8 DEF MqttConnected, MqttDisconnected, PopOldest, Queue!SetRing, Queue!Popped, ringVars,
      TypeInv, RingT
  <2> QED
    BY <1>1, <2>1, <2>2 DEF Passed
<1>9. CASE PeekOldest
  <2>1. UNCHANGED <<buf, nvs, sent, scanned, qr>>
    BY <1>9 DEF PeekOldest, MqttGoes, ringVars
  <2>2. mqtt'.event \in {Blank, buf[head]} /\ head \in Slots
    BY <1>9, MqttAtIs DEF PeekOldest, MqttGoes, MqttAt, TypeInv, RingT
  <2> QED
    BY <1>1, <2>1, <2>2 DEF Passed
<1>10. CASE PublishOldest
  <2>1. UNCHANGED <<buf, nvs, scanned, qr>> /\ mqtt'.event = Blank
    <3>1. PICK m : MqttGoes(m) /\ m.event = Blank
      <4>1. /\ MqttAt("pop").event = Blank
            /\ [MqttAt("idle") EXCEPT !.refused = TRUE].event = Blank
        BY MqttAtIs DEF MqttAt
      <4>2. MqttGoes(MqttAt("pop")) \/ MqttGoes([MqttAt("idle") EXCEPT !.refused = TRUE])
        BY <1>10 DEF PublishOldest
      <4> QED
        BY <4>1, <4>2
    <3> QED
      BY <1>10, <3>1 DEF PublishOldest, MqttGoes, ringVars
  <2>2. sent' = sent \/ (mqtt.event # Blank /\ sent' = [sent EXCEPT ![mqtt.event] = @ + 1])
    BY <1>10 DEF PublishOldest, Took
  <2>3. e # mqtt.event => sent'[e] = sent[e]
    BY <2>2 DEF TypeInv, PastT
  <2> QED
    BY <1>1, <2>1, <2>3 DEF Passed
<1>11. ASSUME NEW b \in BOOLEAN, SavePop(b) PROVE Passed(e)
  <2>1. /\ UNCHANGED <<buf, sent, scanned, qr>> /\ (nvs'.buf = buf \/ nvs'.buf = nvs.buf)
        /\ mqtt'.event \in {mqtt.event, Blank}
    <3>1. /\ UNCHANGED <<buf, sent, scanned, qr>> /\ (nvs'.buf = buf \/ nvs'.buf = nvs.buf)
          /\ mqtt' = IF mqtt.key < 4
                     THEN [mqtt EXCEPT !.key = mqtt.key + 1, !.ok = mqtt.ok /\ b]
                     ELSE MqttAt(IF mqtt.ok /\ b THEN "peek" ELSE "idle")
      BY <1>11, SavePopIs DEF ringVars
    <3>2. CASE mqtt.key < 4
      BY <3>1, <3>2 DEF TypeInv, MqttT, MqttRec
    <3>3. CASE ~(mqtt.key < 4)
      BY <3>1, <3>3, MqttAtIs
    <3> QED
      BY <3>1, <3>2, <3>3
  <2> QED
    BY <1>1, <2>1 DEF Passed
<1>12. ASSUME NEW b \in BOOLEAN, QueueBooted(b) PROVE Passed(e)
  <2>1. /\ UNCHANGED <<nvs, sent, scanned, mqtt>> /\ qr'.at \notin {"check", "send", "clear"} \cup Storing
        /\ (nvs.buf # Absent /\ buf' = nvs.buf) \/ buf' = Queue!Reset.buf
    BY <1>12, QueueBootedIs, QrAtIs DEF Storing
  <2> QED
    BY <1>1, <2>1, ResetIs DEF Passed
<1>13. ASSUME NEW b \in BOOLEAN, LoggerBooted(b) PROVE Passed(e)
  <2>1. UNCHANGED <<buf, nvs, sent, scanned, mqtt>> /\ qr'.at = "idle"
    BY <1>13, LoggerBootedIs, QrAtIs
  <2> QED
    BY <2>1 DEF Passed, Storing
<1>14. CASE PowerLoss
  <2>1. UNCHANGED <<nvs, sent, scanned>> /\ qr'.at = "off" /\ mqtt'.event = Blank
        /\ buf' = Queue!Reset.buf
    BY <1>14, PowerLossIs, QrAtIs, MqttAtIs
  <2> QED
    BY <1>1, <2>1, ResetIs DEF Passed, Storing
<1>15. CASE EraseNvs
  BY <1>15, EraseIs DEF Passed, Storing
<1>16. CASE UNCHANGED vars
  BY <1>16 DEF vars, ringVars, Passed
<1> QED
  BY NextIs, <1>2, <1>3, <1>4, <1>5, <1>6, <1>7, <1>8, <1>9, <1>10, <1>11, <1>12, <1>13, <1>14, <1>15, <1>16

\* A push makes every older entry one older, but for the one it overwrites.
LEMMA AgeGrows ==
  ASSUME NEW s \in LogSlots, NEW t \in LogSlots
  PROVE  /\ s # t => Age(s, LogAfter(t)) = Age(s, t) + 1
         /\ Age(s, s) = LogSize - 1 /\ Age(s, LogAfter(s)) = 0 /\ Age(s, t) \in Int
<1>1. /\ LogAfter(t) = IF t + 1 < LogSize THEN t + 1 ELSE 0
      /\ LogAfter(s) = IF s + 1 < LogSize THEN s + 1 ELSE 0
  BY LogAfterIs
<1> QED
  BY <1>1, CameraAssumption DEF Age, LogSlots

LEMMA KeptStep ==
  ASSUME TypeInv, CopyInv, [Next]_vars, ~logHurt', NEW e \in Scans, e <= scanned, Kept(e)
  PROVE  scanned' - e >= LogSize \/ Kept(e)'
<1> LogT
  BY DEF TypeInv
<1>0. scanned \in Nat /\ e \in Int
  BY CameraAssumption DEF TypeInv, PastT, Scans
<1>1. PICK s \in LogSlots :
        /\ Key("buffer")[s] = e /\ Age(s, Key("tail")) <= scanned - e
        /\ Running => log.buffer[s] = e /\ Age(s, log.tail) <= scanned - e
  BY DEF Kept
<1>2. log.tail \in LogSlots /\ log.buffer \in [LogSlots -> Entry] /\ Key("tail") \in LogSlots
  BY KeysTyped DEF LogT, LogRing
<1>3. CASE LogPushed
  <2>1. /\ LoggerPush(scanned + 1) /\ scanned + 1 \in Scans /\ scanned' = scanned + 1
        /\ Running /\ Running'
    BY <1>3 DEF LogPushed
  <2>2. /\ logNvs' = logNvs
        /\ log'.buffer = [log.buffer EXCEPT ![log.tail] = scanned + 1]
        /\ log'.tail = LogAfter(log.tail)
    BY <2>1, PushIs DEF Entry
  <2>3. log.buffer[s] = e /\ Age(s, log.tail) <= scanned - e
    BY <1>1, <2>1
  <2>4. CASE s = log.tail
    <3>1. Age(s, log.tail) = LogSize - 1
      BY <2>4, AgeGrows
    <3> QED
      BY <1>0, <2>1, <2>3, <3>1, CameraAssumption
  <2>5. CASE s # log.tail
    <3>1. log'.buffer[s] = e
      BY <1>2, <2>2, <2>3, <2>5
    <3>2. Age(s, log'.tail) = Age(s, log.tail) + 1 /\ Age(s, log.tail) \in Int
          /\ Age(s, Key("tail")) \in Int
      BY <1>2, <2>2, <2>5, AgeGrows
    <3>3. Age(s, log'.tail) <= scanned' - e /\ Age(s, Key("tail")) <= scanned' - e
      BY <1>0, <1>1, <2>1, <2>3, <3>2
    <3>4. Key("buffer")' = Key("buffer") /\ Key("tail")' = Key("tail")
      BY <2>2, KeysStay
    <3> QED
      BY <1>1, <3>1, <3>3, <3>4 DEF Kept, Age
  <2> QED
    BY <2>4, <2>5
<1>4. ASSUME NEW b \in BOOLEAN, LogSaved(b) PROVE Kept(e)'
  <2>1. LoggerSave(b) /\ Running /\ scanned' = scanned
    BY <1>4 DEF LogSaved
  <2>2. log' = log /\ LoggerSave(TRUE)
    BY <2>1, LogSaveIs
  <2>3. /\ Key("buffer")' = IF logWriting = 1 THEN log.buffer ELSE Key("buffer")
        /\ Key("tail")'   = IF logWriting = 3 THEN log.tail   ELSE Key("tail")
    BY <2>2, KeysSaved
  <2>4. Key("buffer")'[s] = e /\ Age(s, Key("tail")') <= scanned' - e
        /\ log'.buffer[s] = e /\ Age(s, log'.tail) <= scanned' - e
    BY <1>1, <2>1, <2>2, <2>3
  <2> QED
    BY <2>4 DEF Kept, Age
<1>5. ASSUME NEW b \in BOOLEAN, LogBooted(b) PROVE Kept(e)'
  <2>1. /\ logNvs' = logNvs /\ b /\ scanned' = scanned
        /\ log'.buffer = Key("buffer") /\ log'.tail = Key("tail")
    BY <1>5, LogLoadedIs DEF LogBooted
  <2>2. Key("buffer")'[s] = e /\ Age(s, Key("tail")') <= scanned' - e
        /\ log'.buffer[s] = e /\ Age(s, log'.tail) <= scanned' - e
    BY <1>1, <2>1, KeysStay
  <2> QED
    BY <2>2 DEF Kept, Age
<1>6. CASE LogCut
  <2>1. logNvs' = logNvs /\ scanned' = scanned /\ ~Running'
    BY <1>6 DEF LogCut, LoggerLost
  <2>2. Key("buffer")'[s] = e /\ Age(s, Key("tail")') <= scanned' - e
    BY <1>1, <2>1, KeysStay
  <2> QED
    BY <2>1, <2>2 DEF Kept, Age
<1>7. CASE LogStays
  <2>1. UNCHANGED <<log, logNvs>> /\ scanned' = scanned /\ (Running <=> Running')
    BY <1>7 DEF LogStays, logs
  <2>2. /\ Key("buffer")'[s] = e /\ Age(s, Key("tail")') <= scanned' - e
        /\ Running' => log'.buffer[s] = e /\ Age(s, log'.tail) <= scanned' - e
    BY <1>1, <2>1, KeysStay
  <2> QED
    BY <2>2 DEF Kept, Age
<1>8. ~LogErased
  BY DEF LogErased, LoggerErased
<1> QED
  BY LogSteps, <1>3, <1>4, <1>5, <1>6, <1>7, <1>8

LEMMA JustLoggedStep ==
  ASSUME TypeInv, JustLogged, [Next]_vars
  PROVE  JustLogged'
<1> LogT
  BY DEF TypeInv
<1>1. CASE LogPushed
  <2>1. LoggerPush(scanned + 1) /\ scanned + 1 \in Scans /\ scanned' = scanned + 1
    BY <1>1 DEF LogPushed
  <2>2. /\ log'.buffer = [log.buffer EXCEPT ![log.tail] = scanned + 1]
        /\ log'.tail = LogAfter(log.tail)
    BY <2>1, PushIs DEF Entry
  <2>3. log.tail \in LogSlots /\ log.buffer \in [LogSlots -> Entry]
    BY DEF LogT, LogRing
  <2>4. log'.buffer[log.tail] = scanned'
    BY <2>1, <2>2, <2>3
  <2> QED
    BY <2>2, <2>3, <2>4 DEF JustLogged, LogAfter
<1>2. ASSUME NEW b \in BOOLEAN, LogSaved(b) PROVE JustLogged'
  BY <1>2, LogSaveIs DEF LogSaved, JustLogged, LogAfter
<1>3. ASSUME NEW b \in BOOLEAN, LogBooted(b) PROVE JustLogged'
  BY <1>3, LogLoadedIs DEF LogBooted, JustLogged
<1>4. CASE LogCut
  BY <1>4 DEF LogCut, LoggerLost, JustLogged
<1>5. CASE LogStays
  BY <1>5 DEF LogStays, logs, JustLogged, LogAfter
<1>6. CASE LogErased
  BY <1>6 DEF LogErased, LoggerErased, JustLogged, LogAfter
<1> QED
  BY LogSteps, <1>1, <1>2, <1>3, <1>4, <1>5, <1>6

LEMMA StaysOld ==
  ASSUME NEW a \in Int, NEW b \in Int, NEW e \in Int, NEW n \in Int, b = a \/ b = a + 1, a - e >= n
  PROVE  b - e >= n
OBVIOUS

LEMMA LoggedStep ==
  ASSUME TypeInv, CopyInv, LoggedInv, [Next]_vars
  PROVE  LoggedInv'
<1>1. JustLogged'
  BY JustLoggedStep DEF LoggedInv
<1>2. ASSUME ~logHurt', NEW e \in Scans, Passed(e)'
      PROVE  e <= scanned' /\ (scanned' - e >= LogSize \/ Kept(e)')
  <2>1. scanned \in Nat /\ e \in Int /\ scanned' \in {scanned, scanned + 1} /\ ~logHurt
    <3>1. ~logHurt /\ scanned' \in {scanned, scanned + 1}
      <4>1. CASE LogPushed
        BY <1>2, <4>1 DEF LogPushed, LoggerPush
      <4>2. ASSUME NEW b \in BOOLEAN, LogSaved(b) \/ LogBooted(b)
            PROVE  ~logHurt /\ scanned' = scanned
        <5>1. CASE LogSaved(b)
          BY <1>2, <5>1 DEF LogSaved, LoggerSave
        <5>2. CASE LogBooted(b)
          BY <1>2, <5>2, LogLoadedIs DEF LogBooted, TypeInv
        <5> QED
          BY <4>2, <5>1, <5>2
      <4>3. CASE LogCut
        BY <1>2, <4>3 DEF LogCut, LoggerLost
      <4>4. CASE LogStays
        BY <1>2, <4>4 DEF LogStays, logs
      <4>5. ~LogErased
        BY <1>2 DEF LogErased, LoggerErased
      <4> QED
        BY LogSteps, <4>1, <4>2, <4>3, <4>4, <4>5
    <3> QED
      BY <3>1, CameraAssumption DEF TypeInv, PastT, Scans
  <2>2. CASE Passed(e)
    <3>1. e <= scanned /\ (scanned - e >= LogSize \/ Kept(e))
      BY <2>1, <2>2 DEF LoggedInv
    <3>2. e <= scanned'
      BY <2>1, <3>1
    <3>3. CASE scanned - e >= LogSize
      <4>1. scanned' - e >= LogSize
        <5>1. LogSize \in Int /\ scanned \in Int /\ scanned' \in Int /\ e \in Int
          BY <2>1, CameraAssumption
        <5>2. scanned' = scanned \/ scanned' = scanned + 1
          BY <2>1
        <5> QED
          BY <3>3, <5>1, <5>2, StaysOld
      <4> QED
        BY <3>2, <4>1
    <3>4. CASE Kept(e)
      BY <1>2, <3>1, <3>2, <3>4, KeptStep
    <3> QED
      BY <3>1, <3>3, <3>4
  <2>3. CASE e = scanned /\ logWriting = 4 /\ \E b \in BOOLEAN : LogSaved(b)
    <3>1. PICK b \in BOOLEAN : LogSaved(b)
      BY <2>3
    <3>2. LogT /\ LoggerSave(b) /\ Running /\ Running' /\ scanned' = scanned
      BY <3>1 DEF LogSaved, TypeInv
    <3>3. log' = log /\ logWriting' = 0
      BY <2>3, <3>2, LogSaveIs
    <3>4. CopyInv'
      BY CopyStep
    <3>5. Key("buffer")' = log.buffer /\ Key("tail")' = log.tail
      BY <1>2, <3>2, <3>3, <3>4 DEF CopyInv, Copied
    <3>6. PICK s \in LogSlots : log.buffer[s] = scanned /\ log.tail = LogAfter(s)
      BY <2>3 DEF LoggedInv, JustLogged
    <3>7. Age(s, log.tail) = 0
      BY <3>6, AgeGrows
    <3>8. /\ Key("buffer")'[s] = e /\ Age(s, Key("tail")') <= scanned' - e
          /\ log'.buffer[s] = e /\ Age(s, log'.tail) <= scanned' - e
      BY <2>1, <2>3, <3>2, <3>3, <3>5, <3>6, <3>7
    <3>9. Kept(e)'
      BY <3>8 DEF Kept, Age
    <3> QED
      BY <2>1, <2>3, <3>2, <3>9
  <2> QED
    BY <1>2, <2>2, <2>3, PassedStep
<1> QED
  BY <1>1, <1>2 DEF LoggedInv

LEMMA InitLogged == Init => LoggedInv
<1> SUFFICES ASSUME Init PROVE LoggedInv
  OBVIOUS
<1>1. logWriting = 0
  BY DEF Init, LogInit
<1>2. ASSUME NEW e \in Scans PROVE ~Passed(e)
  <2>1. e # Blank /\ sent[e] = 0
    BY CameraAssumption DEF Init
  <2>2. nvs.buf = Absent /\ \A s \in Slots : buf[s] = Blank
    BY DEF Init, Queue!Emptied, Queue!NothingStored, Slots
  <2>3. mqtt.event = Blank /\ qr.at = "off"
    BY QrAtIs, MqttAtIs DEF Init
  <2> QED
    BY <2>1, <2>2, <2>3 DEF Passed, Storing
<1> QED
  BY <1>1, <1>2 DEF LoggedInv, JustLogged

\* Nobody hears of an event that a restart would not find in the history, unless LogSize
\* newer scans pushed it out: whatever is published or stored as pending was logged
\* before, over any number of power cuts, torn saves of the history included.
THEOREM LoggedBeforeHeard == Spec => []LoggedFirst
<1>1. TypeInv /\ LoggedInv => LoggedFirst
  <2> SUFFICES ASSUME TypeInv, LoggedInv, ~logHurt, NEW e \in 1..scanned,
                      sent[e] > 0 \/ (nvs.buf # Absent /\ \E s \in Slots : nvs.buf[s] = e)
               PROVE  \/ scanned - e >= LogSize
                      \/ logNvs.buffer # Absent /\ \E s \in LogSlots : logNvs.buffer[s] = e
    BY DEF LoggedFirst, Slots
  <2>1. e \in Scans /\ e # Blank
    BY CameraAssumption DEF TypeInv, PastT, Scans
  <2>2. scanned - e >= LogSize \/ Kept(e)
    BY <2>1 DEF LoggedInv, Passed
  <2>3. \A s \in LogSlots : NewLog.buffer[s] # e
    BY <2>1, NewLogType
  <2> QED
    BY <2>2, <2>3 DEF Kept, Key
<1> QED
  BY <1>1, TypesHold, InitFilled, CopyStep, InitLogged, LoggedStep, PTL DEF Spec

-----------------------------------------------------------------------------
(* Where every scan is.                                                    *)

Undisturbed == ~raced /\ ~past.torn /\ past.faults = 0

\* The event need not be in the queue: it was published, given up or taken, or qr_scan
\* has it.
Elsewhere(e) == sent[e] > 0 \/ e \in past.dropped \/ e \in past.taken \/ (e = scanned /\ InHand)

\* The event is among the c oldest of the ring that starts at slot h.
InRing(b, h, c, e) == \E i \in 0..(c - 1) : b[Slot(Size, h, i)] = e

Accounted(b, h, c) == \A e \in 1..scanned : Elsewhere(e) \/ InRing(b, h, c, e)

\* The new event is in its slot, and the indices do not count it yet.
Pushing == {"test", "count", "load", "head"}

\* Push and flush do not overlap, unless they met in the ring.
ApartInv == ~raced => ~(InStore(qr) /\ InFlush(mqtt))

\* What the tasks have read is still so, and what they are about to give up is elsewhere.
HandInv ==
  /\ qr.at = "fill" => buf[tail] = Blank
  /\ qr.at = "count" => qr.seen = count
  /\ qr.at \in {"load", "head"} => count = Size
  /\ qr.at = "head" => qr.seen = head
  /\ qr.at = "save" => InRing(buf, head, count, scanned)
  /\ qr.at \in {"save", "reset"} =>
       /\ qr.key = 2 => qr.arg = head
       /\ qr.key = 3 => qr.arg = tail
       /\ qr.key = 4 => qr.arg = count
  /\ mqtt.at = "publish" => mqtt.event = buf[head]
  /\ mqtt.at = "pop" => buf[head] \in Scans /\ sent[buf[head]] > 0

\* The ring in RAM, also between the accesses of a push.
RamInv ==
  /\ IF qr.at \in Pushing
     THEN /\ tail = Queue!After(Slot(Size, head, count))
          /\ buf[Slot(Size, head, count)] = scanned
     ELSE tail = Slot(Size, head, count)
  /\ qr.at # "off" => Accounted(buf, head, count)

\* The key holds what the ring has: it was written, or no push and no pop is unsaved.
Done(i) ==
  IF qr.at \in {"save", "reset"} THEN i < qr.key
  ELSE IF mqtt.at = "save" THEN i < mqtt.key ELSE qr.at # "off" /\ ~InStore(qr)

\* The ring in NVS: up to date where it is written, and complete unless it is half written.
FlashInv ==
  /\ Done(1) => nvs.buf = buf
  /\ Done(2) => nvs.head = head
  /\ Done(3) => nvs.tail = tail
  /\ Done(4) => nvs.count = count
  /\ ~CutsSave =>
       IF nvs.buf = Absent THEN \A e \in 1..scanned : Elsewhere(e)
       ELSE /\ nvs.head \in Slots /\ nvs.tail \in Slots /\ nvs.count \in 0..Size
            /\ nvs.tail = Slot(Size, nvs.head, nvs.count)
            /\ Accounted(nvs.buf, nvs.head, nvs.count)

QueueInv == HandInv /\ RamInv /\ FlashInv

AccountInv == Undisturbed => QueueInv

LEMMA RingRange ==
  /\ Size \in Nat \ {0} /\ Slots = 0..(Size - 1) /\ 0 \in Slots
  /\ \A h \in Slots : Queue!After(h) = Slot(Size, h, 1)
BY SlotsAre, CameraAssumption DEF Queue!After, Slot

LEMMA RingSlot ==
  ASSUME NEW h \in Slots, NEW i \in 0..Size
  PROVE  Slot(Size, h, i) \in Slots /\ Slot(Size, h, 0) = h /\ Slot(Size, h, Size) = h
BY RingRange, SlotIs, SlotEnds

LEMMA InRingKept ==
  ASSUME NEW b \in [Slots -> Entry], NEW h \in Slots, NEW c \in 0..Size, NEW e, NEW x,
         InRing(b, h, c, e), c = Size => b[Slot(Size, h, c)] # e
  PROVE  InRing([b EXCEPT ![Slot(Size, h, c)] = x], h, c, e)
<1>1. PICK i \in 0..(c - 1) : b[Slot(Size, h, i)] = e
  BY DEF InRing
<1>2. i \in 0..(Size - 1) /\ Slot(Size, h, i) \in Slots
  <2>1. i \in 0..(Size - 1) /\ i \in 0..Size
    BY RingRange
  <2> QED
    BY <2>1, RingSlot
<1>3. Slot(Size, h, i) # Slot(Size, h, c)
  <2>1. CASE c = Size
    BY <1>1, <2>1
  <2>2. CASE c # Size
    <3>1. c \in 0..(Size - 1) /\ i # c
      BY <2>2, RingRange
    <3> QED
      BY <1>2, <3>1, RingRange, SlotsDiffer
  <2> QED
    BY <2>1, <2>2
<1> QED
  BY <1>1, <1>2, <1>3 DEF InRing

LEMMA InRingCounted ==
  ASSUME NEW b, NEW h, NEW c \in 0..Size, NEW e,
         InRing(b, h, c, e) \/ b[Slot(Size, h, c)] = e
  PROVE  InRing(b, h, c + 1, e)
<1>1. c \in 0..((c + 1) - 1) /\ \A i \in 0..(c - 1) : i \in 0..((c + 1) - 1)
  BY RingRange
<1> QED
  BY <1>1 DEF InRing

\* A full ring holds the same events wherever it starts.
LEMMA InRingTurned ==
  ASSUME NEW b, NEW h \in Slots, NEW e, InRing(b, h, Size, e)
  PROVE  InRing(b, Queue!After(h), Size, e)
<1>1. PICK i \in 0..(Size - 1) : b[Slot(Size, h, i)] = e
  BY DEF InRing
<1>2. Queue!After(h) = Slot(Size, h, 1) /\ Queue!After(h) \in Slots
  BY RingRange, AfterIs
<1>3. CASE i = 0
  <2>1. Size - 1 \in 0..(Size - 1) /\ (Size - 1) + 1 = Size
    BY RingRange
  <2>2. Slot(Size, Queue!After(h), Size - 1) = Slot(Size, h, Size)
    BY <1>2, <2>1, RingRange, SlotNext
  <2>3. Slot(Size, h, Size) = Slot(Size, h, 0)
    BY RingRange, SlotEnds
  <2> QED
    BY <1>1, <1>3, <2>1, <2>2, <2>3 DEF InRing
<1>4. CASE i # 0
  <2>1. i - 1 \in 0..(Size - 1) /\ (i - 1) + 1 = i
    BY <1>4, RingRange
  <2>2. Slot(Size, Queue!After(h), i - 1) = Slot(Size, h, i)
    BY <1>2, <2>1, RingRange, SlotNext
  <2> QED
    BY <1>1, <2>1, <2>2 DEF InRing
<1> QED
  BY <1>3, <1>4

LEMMA InRingPopped ==
  ASSUME NEW b \in [Slots -> Entry], NEW h \in Slots, NEW c \in 1..Size, NEW e,
         InRing(b, h, c, e), b[h] # e
  PROVE  InRing([b EXCEPT ![h] = Blank], Queue!After(h), c - 1, e)
<1>1. PICK i \in 0..(c - 1) : b[Slot(Size, h, i)] = e
  BY DEF InRing
<1>2. i # 0 /\ Slot(Size, h, i) # h /\ Slot(Size, h, i) \in Slots
  <2>1. i \in 0..Size
    BY RingRange
  <2>2. Slot(Size, h, 0) = h /\ Slot(Size, h, i) \in Slots
    BY <2>1, RingSlot
  <2> QED
    BY <1>1, <2>2
<1>3. i - 1 \in 0..((c - 1) - 1) /\ i - 1 \in 0..(Size - 1) /\ (i - 1) + 1 = i
  BY <1>2, RingRange
<1>4. Slot(Size, Queue!After(h), i - 1) = Slot(Size, h, i)
  BY <1>3, RingRange, SlotNext
<1> QED
  BY <1>1, <1>2, <1>3, <1>4 DEF InRing

LEMMA ApartStep == ApartInv /\ [Next]_vars => ApartInv'
<1> SUFFICES ASSUME ApartInv, [Next]_vars PROVE ApartInv'
  OBVIOUS
<1>1. ASSUME NEW r, QrGoes(r) PROVE ApartInv'
  BY <1>1 DEF QrGoes, ApartInv
<1>2. ASSUME NEW m, MqttGoes(m) PROVE ApartInv'
  BY <1>2 DEF MqttGoes, ApartInv
<1>3. CASE PowerLoss
  BY <1>3, QrAtIs DEF PowerLoss, ApartInv, InStore, Storing
<1>4. CASE UNCHANGED vars
  BY <1>4 DEF vars, ApartInv, InStore, InFlush
<1>5. (\E r : QrGoes(r)) \/ (\E m : MqttGoes(m)) \/ PowerLoss \/ UNCHANGED vars
  <2>1. CASE \/ Scan \/ CheckClient \/ Publish \/ TestCount \/ LoadHead
             \/ ClearSlot \/ FillSlot \/ IncrementCount \/ MoveHead
    BY <2>1 DEF Scan, CheckClient, Publish, TestCount, LoadHead, ClearSlot, FillSlot, IncrementCount,
      MoveHead
  <2>2. CASE MqttConnected \/ MqttDisconnected \/ PeekOldest \/ PublishOldest \/ PopOldest
    BY <2>2 DEF MqttConnected, MqttDisconnected, PeekOldest, PublishOldest, PopOldest
  <2>3. ASSUME NEW b \in BOOLEAN, SaveLog(b) \/ SaveRing(b) \/ QueueBooted(b) \/ LoggerBooted(b)
        PROVE  \E r : QrGoes(r)
    BY <2>3, LoggerBootedIs DEF SaveLog, SaveRing, QueueBooted, BootQueue
  <2>4. ASSUME NEW b \in BOOLEAN, SavePop(b) PROVE \E m : MqttGoes(m)
    BY <2>4 DEF SavePop
  <2>5. CASE EraseNvs
    BY <2>5, EraseIs
  <2> QED
    BY NextIs, <2>1, <2>2, <2>3, <2>4, <2>5
<1> QED
  BY <1>1, <1>2, <1>3, <1>4, <1>5

\* The mark of a meeting stays.
LEMMA RacedStays ==
  ASSUME [Next]_vars
  PROVE  raced => raced'
<1>1. ASSUME NEW r, QrGoes(r) \/ MqttGoes(r) PROVE raced => raced'
  BY <1>1 DEF QrGoes, MqttGoes
<1>2. CASE \/ Scan \/ CheckClient \/ Publish \/ TestCount \/ LoadHead
           \/ ClearSlot \/ FillSlot \/ IncrementCount \/ MoveHead
  BY <1>1, <1>2 DEF Scan, CheckClient, Publish, TestCount, LoadHead, ClearSlot, FillSlot,
    IncrementCount, MoveHead
<1>3. CASE MqttConnected \/ MqttDisconnected \/ PeekOldest \/ PublishOldest \/ PopOldest
  BY <1>1, <1>3 DEF MqttConnected, MqttDisconnected, PeekOldest, PublishOldest, PopOldest
<1>4. ASSUME NEW b \in BOOLEAN,
             SaveLog(b) \/ SaveRing(b) \/ SavePop(b) \/ QueueBooted(b) \/ LoggerBooted(b)
      PROVE  raced => raced'
  BY <1>1, <1>4, LoggerBootedIs DEF SaveLog, SaveRing, SavePop, QueueBooted, BootQueue
<1>5. CASE PowerLoss \/ UNCHANGED vars
  BY <1>5 DEF PowerLoss, vars
<1>6. CASE EraseNvs
  BY <1>1, <1>6, EraseIs
<1> QED
  BY NextIs, <1>2, <1>3, <1>4, <1>5, <1>6

\* The marks of a disturbance stay.
LEMMA UndisturbedBefore ==
  ASSUME TypeInv, [Next]_vars, Undisturbed'
  PROVE  Undisturbed
<1>1. ~raced
  BY RacedStays DEF Undisturbed
<1>2. (past.torn => past'.torn) /\ past.faults \in Nat /\ (past'.faults = 0 => past.faults = 0)
  <2>1. past \in PastRec
    BY DEF TypeInv, PastT
  <2>2. CASE past' = past
    BY <2>1, <2>2 DEF PastRec
  <2>3. CASE ClearSlot
    BY <2>1, <2>3 DEF ClearSlot, PastRec
  <2>4. ASSUME NEW b \in BOOLEAN, Access(b)
        PROVE  (past.torn => past'.torn) /\ (past'.faults = 0 => past.faults = 0)
    BY <2>1, <2>4, AccessIs DEF TypeInv, PastRec
  <2>5. CASE PowerLoss
    <3>1. past'.torn = (past.torn \/ CutsSave) /\ past'.faults = past.faults
      BY <2>1, <2>5 DEF PowerLoss, PastRec
    <3> QED
      BY <2>1, <3>1 DEF PastRec
  <2>6. \/ past' = past \/ ClearSlot \/ PowerLoss \/ \E b \in BOOLEAN : Access(b)
    <3>1. CASE \/ Scan \/ CheckClient \/ Publish \/ TestCount \/ LoadHead
               \/ FillSlot \/ IncrementCount \/ MoveHead
      BY <3>1 DEF Scan, CheckClient, Publish, TestCount, LoadHead, FillSlot, IncrementCount, MoveHead
    <3>2. CASE MqttConnected \/ MqttDisconnected \/ PeekOldest \/ PublishOldest \/ PopOldest
      BY <3>2 DEF MqttConnected, MqttDisconnected, PeekOldest, PublishOldest, PopOldest
    <3>3. ASSUME NEW b \in BOOLEAN,
                 SaveLog(b) \/ SaveRing(b) \/ SavePop(b) \/ QueueBooted(b) \/ LoggerBooted(b)
          PROVE  Access(b)
      BY <3>3, QueueBootedIs, LoggerBootedIs DEF SaveLog, SaveRing, SavePop
    <3>4. CASE UNCHANGED vars
      BY <3>4 DEF vars
    <3>5. CASE EraseNvs
      BY <3>5, EraseIs
    <3> QED
      BY NextIs, <3>1, <3>2, <3>3, <3>4, <3>5
  <2> QED
    BY <2>1, <2>2, <2>3, <2>4, <2>5, <2>6 DEF PastRec
<1> QED
  BY <1>1, <1>2 DEF Undisturbed

Sound == TypeInv /\ ApartInv /\ Undisturbed /\ QueueInv

\* Undisturbed, every access to NVS succeeds.
LEMMA AccessSucceeds ==
  ASSUME TypeInv, NEW b \in BOOLEAN, Access(b), Undisturbed'
  PROVE  b = TRUE /\ past' = past
<1>1. CASE b = FALSE
  <2>1. past'.faults = past.faults + 1 /\ past.faults \in Nat
    BY <1>1, AccessIs DEF TypeInv, PastT, PastRec
  <2> QED
    BY <2>1 DEF Undisturbed
<1>2. CASE b = TRUE
  BY <1>2 DEF Access
<1> QED
  BY <1>1, <1>2

\* A step keeps track of the events that are not in the queue.
Tracks == \A e \in 1..scanned' : Elsewhere(e)' \/ (e \in 1..scanned /\ ~Elsewhere(e))

\* A step that changes neither the ring nor NVS.
LEMMA QuietStep ==
  ASSUME TypeInv, RamInv, FlashInv, UNCHANGED ringVars, UNCHANGED nvs, Tracks,
         qr.at # "off", qr.at \in Pushing <=> qr'.at \in Pushing,
         qr.at \in Pushing => scanned' = scanned,
         \A i \in 1..4 : Done(i)' => Done(i), CutsSave => CutsSave'
  PROVE  RamInv' /\ FlashInv'
<1>1. UNCHANGED <<buf, head, tail, count>>
  BY DEF ringVars
<1>2. ASSUME NEW b, NEW h, NEW c, Accounted(b, h, c)
      PROVE  \A e \in 1..scanned' : Elsewhere(e)' \/ InRing(b, h, c, e)
  BY <1>2 DEF Accounted, Tracks
<1>3. RamInv'
  <2>1. \A e \in 1..scanned' : Elsewhere(e)' \/ InRing(buf, head, count, e)
    BY <1>2 DEF RamInv
  <2>2. Accounted(buf, head, count)'
    BY <1>1, <2>1 DEF Accounted
  <2> QED
    BY <1>1, <2>2 DEF RamInv
<1>4. FlashInv'
  <2>1. /\ Done(1)' => nvs'.buf = buf'
        /\ Done(2)' => nvs'.head = head'
        /\ Done(3)' => nvs'.tail = tail'
        /\ Done(4)' => nvs'.count = count'
    BY <1>1 DEF FlashInv
  <2>2. ASSUME ~CutsSave', nvs.buf = Absent PROVE \A e \in 1..scanned' : Elsewhere(e)'
    BY <2>2 DEF FlashInv, Tracks
  <2>3. ASSUME ~CutsSave', nvs.buf # Absent
        PROVE /\ nvs.head \in Slots /\ nvs.tail \in Slots /\ nvs.count \in 0..Size
              /\ nvs.tail = Slot(Size, nvs.head, nvs.count)
              /\ Accounted(nvs.buf, nvs.head, nvs.count)'
    <3>1. /\ nvs.head \in Slots /\ nvs.tail \in Slots /\ nvs.count \in 0..Size
          /\ nvs.tail = Slot(Size, nvs.head, nvs.count)
          /\ Accounted(nvs.buf, nvs.head, nvs.count)
      BY <2>3 DEF FlashInv
    <3>2. \A e \in 1..scanned' : Elsewhere(e)' \/ InRing(nvs.buf, nvs.head, nvs.count, e)
      BY <1>2, <3>1
    <3> QED
      BY <3>1, <3>2 DEF Accounted
  <2> QED
    BY <2>1, <2>2, <2>3 DEF FlashInv
<1> QED
  BY <1>3, <1>4

LEMMA ScanSound ==
  ASSUME Sound, TypeInv', Undisturbed', Scan
  PROVE  QueueInv'
<1> TypeInv /\ RamInv /\ FlashInv /\ HandInv
  BY DEF Sound, QueueInv
<1>1. /\ UNCHANGED <<ringVars, nvs, sent, past, mqtt>> /\ scanned' = scanned + 1
      /\ qr.at = "idle" /\ qr'.at = "log"
  BY QrAtIs DEF Scan, QrGoes
<1>2. Tracks
  <2>1. \A e \in 1..scanned' : e = scanned' \/ e \in 1..scanned
    BY <1>1, CameraAssumption DEF TypeInv, PastT
  <2>2. InHand' /\ ~InHand
    BY <1>1 DEF InHand, Booting
  <2> QED
    BY <1>1, <2>1, <2>2 DEF Tracks, Elsewhere
<1>3. RamInv' /\ FlashInv'
  <2>1. (\A i \in 1..4 : Done(i)' => Done(i)) /\ (CutsSave => CutsSave')
    BY <1>1 DEF Done, InStore, Storing, CutsSave
  <2> QED
    BY <1>1, <1>2, <2>1, QuietStep DEF Pushing
<1>4. HandInv'
  BY <1>1 DEF HandInv, ringVars
<1> QED
  BY <1>3, <1>4 DEF QueueInv

LEMMA MoveSound ==
  ASSUME Sound, TypeInv', ApartInv', Undisturbed',
         CheckClient \/ Publish \/ TestCount \/ LoadHead \/ \E b \in BOOLEAN : SaveLog(b) \/ LoggerBooted(b)
  PROVE  QueueInv'
<1> TypeInv /\ RamInv /\ FlashInv /\ HandInv /\ ApartInv
  BY DEF Sound, QueueInv
<1>1. UNCHANGED <<ringVars, nvs, past, mqtt>> /\ scanned' = scanned
  <2>1. CASE CheckClient \/ Publish \/ TestCount \/ LoadHead
    BY <2>1 DEF CheckClient, Publish, TestCount, LoadHead, QrGoes
  <2>2. ASSUME NEW b \in BOOLEAN, SaveLog(b) \/ LoggerBooted(b)
        PROVE  UNCHANGED <<ringVars, nvs, past, mqtt>> /\ scanned' = scanned
    BY <2>2, LoggerBootedIs, AccessSucceeds DEF SaveLog, QrGoes, ringVars
  <2> QED
    BY <2>1, <2>2
<1>2. UNCHANGED <<buf, head, tail, count>>
  BY <1>1 DEF ringVars
<1>3. \/ qr.at = "check" /\ qr'.at \in {"send", "clear"} /\ sent' = sent
      \/ qr.at = "log" /\ qr'.at \in {"log", "check"} /\ sent' = sent
      \/ qr.at = "load_log" /\ qr'.at = "idle" /\ sent' = sent
      \/ qr.at = "send" /\ qr'.at = "clear" /\ sent' = sent
      \/ qr.at = "send" /\ qr'.at = "idle" /\ sent' = [sent EXCEPT ![scanned] = @ + 1]
      \/ qr.at = "test" /\ qr'.at = "count" /\ qr'.seen = count /\ sent' = sent
      \/ qr.at = "test" /\ qr'.at = "load" /\ ~(count < Size) /\ sent' = sent
      \/ qr.at = "load" /\ qr'.at = "head" /\ qr'.seen = head /\ sent' = sent
  <2>1. CASE CheckClient
    BY <2>1, QrAtIs DEF CheckClient, QrGoes
  <2>2. CASE Publish
    BY <2>2, QrAtIs DEF Publish, QrGoes, Took
  <2>3. CASE TestCount
    BY <2>3, QrAtIs DEF TestCount, QrGoes, QrAt
  <2>4. CASE LoadHead
    BY <2>4, QrAtIs DEF LoadHead, QrGoes, QrAt
  <2>5. ASSUME NEW b \in BOOLEAN, SaveLog(b)
        PROVE  qr.at = "log" /\ qr'.at \in {"log", "check"} /\ sent' = sent
    BY <2>5, QrAtIs DEF SaveLog, LoggerSave, QrGoes, TypeInv, PlaceInv
  <2>6. ASSUME NEW b \in BOOLEAN, LoggerBooted(b)
        PROVE  qr.at = "load_log" /\ qr'.at = "idle" /\ sent' = sent
    BY <2>6, LoggerBootedIs, QrAtIs
  <2> QED
    BY <2>1, <2>2, <2>3, <2>4, <2>5, <2>6
<1>4. \A e \in Scans : sent[e] > 0 => sent'[e] > 0
  BY <1>3 DEF TypeInv, PastT
<1>5. Tracks
  <2> SUFFICES ASSUME NEW e \in 1..scanned, Elsewhere(e) PROVE Elsewhere(e)'
    BY <1>1 DEF Tracks
  <2>1. e \in Scans
    BY CameraAssumption DEF TypeInv, PastT, Scans
  <2>2. CASE sent[e] > 0 \/ e \in past.dropped \/ e \in past.taken
    BY <1>1, <1>4, <2>1, <2>2 DEF Elsewhere
  <2>3. CASE e = scanned /\ InHand
    <3>1. CASE qr'.at = "idle"
      <4>1. qr.at = "send" /\ sent' = [sent EXCEPT ![scanned] = @ + 1]
        BY <1>3, <2>3, <3>1 DEF InHand, Booting
      <4>2. sent'[e] > 0
        BY <2>1, <2>3, <4>1 DEF TypeInv, PastT
      <4> QED
        BY <4>2 DEF Elsewhere
    <3>2. CASE qr'.at # "idle"
      BY <1>1, <1>3, <2>3, <3>2 DEF Elsewhere, InHand, Booting
    <3> QED
      BY <3>1, <3>2
  <2> QED
    BY <2>2, <2>3 DEF Elsewhere
<1>6. RamInv' /\ FlashInv'
  <2>1. (\A i \in 1..4 : Done(i)' => Done(i)) /\ (CutsSave => CutsSave')
    BY <1>1, <1>3 DEF Done, InStore, Storing, CutsSave
  <2>2. qr.at # "off" /\ (qr.at \in Pushing <=> qr'.at \in Pushing)
    BY <1>3 DEF Pushing
  <2> QED
    BY <1>1, <1>5, <2>1, <2>2, QuietStep
<1>7. HandInv'
  <2>1. /\ qr'.at \notin {"fill", "save", "reset"}
        /\ qr'.at = "count" => qr'.seen = count'
        /\ qr'.at \in {"load", "head"} => count' = Size
        /\ qr'.at = "head" => qr'.seen = head'
    BY <1>2, <1>3, CameraAssumption DEF HandInv, TypeInv, RingT
  <2>2. /\ mqtt'.at = "publish" => mqtt'.event = buf'[head']
        /\ mqtt'.at = "pop" => buf'[head'] \in Scans /\ sent'[buf'[head']] > 0
    BY <1>1, <1>2, <1>4 DEF HandInv
  <2> QED
    BY <2>1, <2>2 DEF HandInv
<1> QED
  BY <1>6, <1>7 DEF QueueInv

\* A step of the push: the ring in NVS stays as it was before the push.
LEMMA FlashStays ==
  ASSUME FlashInv, UNCHANGED nvs, ~CutsSave, \A i \in 1..4 : ~Done(i)', Tracks
  PROVE  FlashInv'
<1>1. ASSUME NEW b, NEW h, NEW c, Accounted(b, h, c)
      PROVE  \A e \in 1..scanned' : Elsewhere(e)' \/ InRing(b, h, c, e)
  BY <1>1 DEF Accounted, Tracks
<1>2. ASSUME nvs.buf = Absent PROVE \A e \in 1..scanned' : Elsewhere(e)'
  BY <1>2 DEF FlashInv, Tracks
<1>3. ASSUME nvs.buf # Absent
      PROVE /\ nvs.head \in Slots /\ nvs.tail \in Slots /\ nvs.count \in 0..Size
            /\ nvs.tail = Slot(Size, nvs.head, nvs.count)
            /\ Accounted(nvs.buf, nvs.head, nvs.count)'
  <2>1. /\ nvs.head \in Slots /\ nvs.tail \in Slots /\ nvs.count \in 0..Size
        /\ nvs.tail = Slot(Size, nvs.head, nvs.count)
        /\ Accounted(nvs.buf, nvs.head, nvs.count)
    BY <1>3 DEF FlashInv
  <2>2. \A e \in 1..scanned' : Elsewhere(e)' \/ InRing(nvs.buf, nvs.head, nvs.count, e)
    BY <1>1, <2>1
  <2> QED
    BY <2>1, <2>2 DEF Accounted
<1> QED
  BY <1>2, <1>3 DEF FlashInv

LEMMA PushSound ==
  ASSUME Sound, TypeInv', ApartInv', Undisturbed',
         ClearSlot \/ FillSlot \/ IncrementCount \/ MoveHead
  PROVE  QueueInv'
<1> TypeInv /\ RamInv /\ FlashInv /\ HandInv /\ ApartInv
  BY DEF Sound, QueueInv
<1>1. /\ UNCHANGED <<nvs, mqtt, sent>> /\ scanned' = scanned
      /\ qr.at \in {"clear", "fill", "count", "head"} /\ qr'.at \in {"fill", "test", "save"}
      /\ qr'.at = "save" => qr'.key = 1
      /\ past.dropped \subseteq past'.dropped /\ past'.taken = past.taken
  BY QrAtIs DEF ClearSlot, FillSlot, IncrementCount, MoveHead, QrGoes, TypeInv, PastT, PastRec
<1>2. mqtt.at \notin {"publish", "pop", "save"}
  BY <1>1 DEF ApartInv, Undisturbed, InStore, InFlush, Storing
<1>3. /\ buf \in [Slots -> Entry] /\ head \in Slots /\ tail \in Slots /\ count \in 0..Size
      /\ scanned \in Scans /\ scanned # Blank
  BY <1>1, CameraAssumption DEF TypeInv, RingT, PlaceInv, InHand, Booting
<1>4. InHand /\ InHand'
  BY <1>1 DEF InHand, Booting
<1>5. Tracks
  BY <1>1, <1>4 DEF Tracks, Elsewhere
<1>6. FlashInv'
  <2>1. ~CutsSave
    BY <1>1, <1>2 DEF CutsSave
  <2>2. \A i \in 1..4 : ~Done(i)'
    BY <1>1, <1>2 DEF Done, InStore, Storing
  <2> QED
    BY <1>1, <1>5, <2>1, <2>2, FlashStays
<1>7. \A e \in 1..scanned : Elsewhere(e) => Elsewhere(e)'
  BY <1>1, <1>5 DEF Tracks
<1>8. \A e \in 1..scanned : Elsewhere(e) \/ InRing(buf, head, count, e)
  BY <1>1 DEF RamInv, Accounted
<1>9. CASE ClearSlot
  <2>1. /\ buf' = [buf EXCEPT ![tail] = Blank] /\ head' = head /\ tail' = tail /\ count' = count
        /\ qr.at = "clear" /\ qr'.at = "fill" /\ (count = Size => buf[tail] \in past'.dropped)
    BY <1>9, QrAtIs DEF ClearSlot, QrGoes, TypeInv, PastT, PastRec
  <2>2. tail = Slot(Size, head, count)
    BY <2>1 DEF RamInv, Pushing
  <2>3. \A e \in 1..scanned : Elsewhere(e)' \/ InRing(buf', head', count', e)
    <3> SUFFICES ASSUME NEW e \in 1..scanned, InRing(buf, head, count, e), ~Elsewhere(e)'
                 PROVE  InRing(buf', head', count', e)
      BY <1>7, <1>8
    <3>1. count = Size => buf[Slot(Size, head, count)] # e
      BY <2>1, <2>2 DEF Elsewhere
    <3> QED
      BY <1>3, <2>1, <2>2, <3>1, InRingKept
  <2>4. RamInv'
    BY <1>1, <2>1, <2>2, <2>3 DEF RamInv, Pushing, Accounted
  <2>5. HandInv'
    BY <1>1, <1>2, <1>3, <2>1 DEF HandInv
  <2> QED
    BY <1>6, <2>4, <2>5 DEF QueueInv
<1>10. CASE FillSlot
  <2>1. /\ buf' = [buf EXCEPT ![tail] = scanned] /\ head' = head /\ tail' = Queue!After(tail)
        /\ count' = count /\ qr.at = "fill" /\ qr'.at = "test"
    BY <1>10, QrAtIs DEF FillSlot, QrGoes
  <2>2. tail = Slot(Size, head, count) /\ buf[tail] = Blank
    BY <2>1 DEF RamInv, Pushing, HandInv
  <2>3. \A e \in 1..scanned : Elsewhere(e)' \/ InRing(buf', head', count', e)
    <3> SUFFICES ASSUME NEW e \in 1..scanned, InRing(buf, head, count, e)
                 PROVE  InRing(buf', head', count', e)
      BY <1>7, <1>8
    <3>1. e # Blank
      <4>1. e \in Scans
        BY <1>3, CameraAssumption DEF TypeInv, PastT, Scans
      <4> QED
        BY <4>1, CameraAssumption
    <3> QED
      BY <1>3, <2>1, <2>2, <3>1, InRingKept
  <2>4. RamInv'
    BY <1>1, <1>3, <2>1, <2>2, <2>3 DEF RamInv, Pushing, Accounted
  <2>5. HandInv'
    BY <1>1, <1>2, <2>1 DEF HandInv
  <2> QED
    BY <1>6, <2>4, <2>5 DEF QueueInv
<1>11. CASE IncrementCount
  <2>1. /\ buf' = buf /\ head' = head /\ tail' = tail /\ count' = count + 1 /\ count < Size
        /\ qr.at = "count" /\ qr'.at = "save"
    BY <1>11, QrAtIs DEF IncrementCount, QrGoes, HandInv, TypeInv, PlaceInv
  <2>2. /\ tail = Queue!After(Slot(Size, head, count)) /\ buf[Slot(Size, head, count)] = scanned
    BY <2>1 DEF RamInv, Pushing
  <2>3. tail = Slot(Size, head, count + 1)
    <3>1. count \in 0..(Size - 1)
      BY <1>3, <2>1, RingRange
    <3>2. Slot(Size, head, count) \in Slots
      BY <1>3, RingSlot
    <3> QED
      BY <1>3, <2>2, <3>1, <3>2, RingRange, SlotNext
  <2>4. \A e \in 1..scanned : Elsewhere(e)' \/ InRing(buf', head', count', e)
    BY <1>3, <1>7, <1>8, <2>1, InRingCounted
  <2>5. InRing(buf', head', count', scanned)
    BY <1>3, <2>1, <2>2, InRingCounted
  <2>6. RamInv'
    BY <1>1, <2>1, <2>3, <2>4 DEF RamInv, Pushing, Accounted
  <2>7. HandInv'
    BY <1>1, <1>2, <2>1, <2>5 DEF HandInv
  <2> QED
    BY <1>6, <2>6, <2>7 DEF QueueInv
<1>12. CASE MoveHead
  <2>1. /\ buf' = buf /\ head' = Queue!After(head) /\ tail' = tail /\ count' = count /\ count = Size
        /\ qr.at = "head" /\ qr'.at = "save"
    BY <1>12, QrAtIs DEF MoveHead, QrGoes, HandInv
  <2>2. /\ tail = Queue!After(Slot(Size, head, count)) /\ buf[Slot(Size, head, count)] = scanned
    BY <2>1 DEF RamInv, Pushing
  <2>3. Slot(Size, head, Size) = head /\ Slot(Size, head', Size) = head'
    BY <1>3, <2>1, AfterIs, RingRange, SlotEnds
  <2>4. \A e : InRing(buf, head, Size, e) => InRing(buf', head', count', e)
    BY <1>3, <2>1, InRingTurned
  <2>5. InRing(buf', head', count', scanned)
    <3>1. 0 \in 0..(Size - 1) /\ Slot(Size, head, 0) = head
      BY <1>3, RingRange, SlotEnds
    <3>2. InRing(buf, head, Size, scanned)
      BY <2>1, <2>2, <2>3, <3>1 DEF InRing
    <3> QED
      BY <2>4, <3>2
  <2>6. RamInv'
    BY <1>1, <1>7, <1>8, <2>1, <2>2, <2>3, <2>4 DEF RamInv, Pushing, Accounted
  <2>7. HandInv'
    BY <1>1, <1>2, <2>1, <2>5 DEF HandInv
  <2> QED
    BY <1>6, <2>6, <2>7 DEF QueueInv
<1> QED
  BY <1>9, <1>10, <1>11, <1>12

\* A save that is complete: NVS holds the ring.
LEMMA FlashSaved ==
  ASSUME TypeInv', RamInv', nvs'.buf = buf', nvs'.head = head', nvs'.tail = tail',
         nvs'.count = count', qr'.at \notin Pushing, qr'.at # "off"
  PROVE  FlashInv'
<1>1. /\ head' \in Slots /\ tail' \in Slots /\ count' \in 0..Size
  BY DEF TypeInv, RingT
<1>2. tail' = Slot(Size, head', count') /\ Accounted(buf, head, count)'
  BY DEF RamInv
<1>3. buf' # Absent
  BY AbsentAssumption, SlotsAre DEF TypeInv, RingT, Entry
<1>4. Accounted(nvs.buf, nvs.head, nvs.count)'
  BY <1>2 DEF Accounted
<1> QED
  BY <1>1, <1>2, <1>3, <1>4 DEF FlashInv

LEMMA SaveRingSound ==
  ASSUME Sound, TypeInv', ApartInv', Undisturbed', NEW b \in BOOLEAN, SaveRing(b)
  PROVE  QueueInv'
<1> TypeInv /\ RamInv /\ FlashInv /\ HandInv /\ ApartInv
  BY DEF Sound, QueueInv
<1>1. b = TRUE /\ past' = past
  BY AccessSucceeds DEF SaveRing
<1>2. /\ qr.at \in {"save", "reset"} /\ qr.key \in 1..4
      /\ UNCHANGED <<buf, head, tail, count, sent, scanned, mqtt>>
      /\ nvs'.buf = IF qr.key = 1 THEN buf ELSE nvs.buf
      /\ nvs'.head \in IF qr.key = 2 THEN {qr.arg, head} ELSE {nvs.head}
      /\ nvs'.tail \in IF qr.key = 3 THEN {qr.arg, tail} ELSE {nvs.tail}
      /\ nvs'.count \in IF qr.key = 4 THEN {qr.arg, count} ELSE {nvs.count}
      /\ qr' = IF qr.key < 4
               THEN [qr EXCEPT !.key = qr.key + 1, !.arg = Queue!Ram[Queue!Keys[qr.key + 1]]]
               ELSE QrAt(IF qr.at = "reset" THEN "load_log" ELSE "idle")
  BY <1>1, SaveRingIs DEF ringVars
<1>3. mqtt.at \notin {"publish", "pop", "save"}
  BY <1>2 DEF ApartInv, Sound, Undisturbed, InStore, InFlush, Storing, TypeInv, PlaceInv, Booting
<1>4. /\ nvs'.head = IF qr.key = 2 THEN head ELSE nvs.head
      /\ nvs'.tail = IF qr.key = 3 THEN tail ELSE nvs.tail
      /\ nvs'.count = IF qr.key = 4 THEN count ELSE nvs.count
  BY <1>2 DEF HandInv
<1>5. /\ qr.key > 1 => nvs.buf = buf
      /\ qr.key > 2 => nvs.head = head
      /\ qr.key > 3 => nvs.tail = tail
  BY <1>2 DEF FlashInv, Done
<1>6. CASE qr.key < 4
  <2>1. qr' = [qr EXCEPT !.key = qr.key + 1, !.arg = Queue!Ram[Queue!Keys[qr.key + 1]]]
    BY <1>2, <1>6
  <2>2. /\ qr'.at = qr.at /\ qr'.key = qr.key + 1
        /\ qr'.arg = Queue!Ram[Queue!Keys[qr.key + 1]]
    BY <2>1 DEF TypeInv, QrT, QrRec
  <2>3. /\ qr'.key = 2 => qr'.arg = head
        /\ qr'.key = 3 => qr'.arg = tail
        /\ qr'.key = 4 => qr'.arg = count
    <3>1. CASE qr.key = 1
      BY <2>2, <3>1, KeysAre, RamIs
    <3>2. CASE qr.key = 2
      BY <2>2, <3>2, KeysAre, RamIs
    <3>3. CASE qr.key = 3
      BY <2>2, <3>3, KeysAre, RamIs
    <3> QED
      BY <1>2, <1>6, <3>1, <3>2, <3>3
  <2>4. HandInv'
    BY <1>2, <1>3, <2>2, <2>3 DEF HandInv
  <2>5. RamInv'
    <3>1. \A e \in 1..scanned : Elsewhere(e) <=> Elsewhere(e)'
      BY <1>1, <1>2, <2>2 DEF Elsewhere, InHand
    <3> QED
      BY <1>2, <2>2, <3>1 DEF RamInv, Accounted, Pushing
  <2>6. FlashInv'
    <3>1. CutsSave'
      BY <1>2, <2>2 DEF CutsSave
    <3>2. /\ Done(1)' => nvs'.buf = buf'
          /\ Done(2)' => nvs'.head = head'
          /\ Done(3)' => nvs'.tail = tail'
          /\ Done(4)' => nvs'.count = count'
      BY <1>2, <1>4, <1>5, <1>6, <2>2 DEF Done
    <3> QED
      BY <3>1, <3>2 DEF FlashInv
  <2> QED
    BY <2>4, <2>5, <2>6 DEF QueueInv
<1>7. CASE ~(qr.key < 4)
  <2>1. qr.key = 4
    BY <1>2, <1>7
  <2>2. qr'.at \in {"load_log", "idle"} /\ (qr.at = "save" => qr'.at = "idle")
    BY <1>2, <1>7, QrAtIs
  <2>3. HandInv'
    BY <1>2, <1>3, <2>2 DEF HandInv
  <2>4. \A e \in 1..scanned : Elsewhere(e)' \/ InRing(buf, head, count, e)
    <3> SUFFICES ASSUME NEW e \in 1..scanned, ~InRing(buf, head, count, e) PROVE Elsewhere(e)'
      OBVIOUS
    <3>1. Elsewhere(e)
      BY <1>2 DEF RamInv, Accounted
    <3>2. ~(e = scanned /\ InHand)
      BY <1>2 DEF HandInv, InHand, Booting
    <3> QED
      BY <1>1, <1>2, <3>1, <3>2 DEF Elsewhere
  <2>5. RamInv'
    BY <1>2, <2>2, <2>4 DEF RamInv, Accounted, Pushing
  <2>6. FlashInv'
    BY <1>2, <1>4, <1>5, <2>1, <2>2, <2>5, FlashSaved DEF Pushing
  <2> QED
    BY <2>3, <2>5, <2>6 DEF QueueInv
<1> QED
  BY <1>6, <1>7

\* A step that only adds to what was published.
LEMMA SentTracks ==
  ASSUME TypeInv, UNCHANGED <<scanned, past, qr>>, \A e \in Scans : sent[e] > 0 => sent'[e] > 0
  PROVE  Tracks /\ \A e \in 1..scanned : Elsewhere(e) => Elsewhere(e)'
<1> SUFFICES ASSUME NEW e \in 1..scanned, Elsewhere(e) PROVE Elsewhere(e)'
  BY DEF Tracks
<1>1. e \in Scans
  BY CameraAssumption DEF TypeInv, PastT, Scans
<1> QED
  BY <1>1 DEF Elsewhere, InHand

LEMMA MqttSound ==
  ASSUME Sound, TypeInv', ApartInv', Undisturbed',
         \/ MqttConnected \/ MqttDisconnected \/ PeekOldest \/ PublishOldest
         \/ PopOldest /\ count = 0
  PROVE  QueueInv'
<1> TypeInv /\ RamInv /\ FlashInv /\ HandInv /\ ApartInv
  BY DEF Sound, QueueInv
<1>1. UNCHANGED <<ringVars, nvs, past, qr, scanned>>
  BY DEF MqttConnected, MqttDisconnected, PeekOldest, PublishOldest, PopOldest, MqttGoes
<1>2. UNCHANGED <<buf, head, tail, count>>
  BY <1>1 DEF ringVars
<1>3. \/ mqtt'.at \in {"idle", "peek"} /\ sent' = sent
      \/ mqtt'.at = "publish" /\ mqtt'.event = buf[head] /\ sent' = sent
      \/ /\ mqtt.at = "publish" /\ mqtt'.at = "pop" /\ mqtt.event # Blank
         /\ sent' = [sent EXCEPT ![mqtt.event] = @ + 1]
  <2>1. CASE MqttConnected \/ MqttDisconnected \/ (PopOldest /\ count = 0)
    BY <2>1, MqttAtIs DEF MqttConnected, MqttDisconnected, PopOldest, MqttGoes
  <2>2. CASE PeekOldest
    BY <2>2, MqttAtIs DEF PeekOldest, MqttGoes, MqttAt
  <2>3. CASE PublishOldest
    <3>1. [MqttAt("idle") EXCEPT !.refused = TRUE].at = "idle"
      BY DEF MqttAt
    <3>2. MqttAt("pop").at = "pop"
      BY MqttAtIs
    <3>3. CASE mqtt.event # Blank /\ Took(mqtt.event) /\ MqttGoes(MqttAt("pop"))
      BY <2>3, <3>2, <3>3 DEF PublishOldest, MqttGoes, Took
    <3>4. CASE MqttGoes([MqttAt("idle") EXCEPT !.refused = TRUE]) /\ UNCHANGED sent
      BY <3>1, <3>4 DEF MqttGoes
    <3> QED
      BY <2>3, <3>3, <3>4 DEF PublishOldest
  <2> QED
    BY <2>1, <2>2, <2>3
<1>4. mqtt.at \notin {"pop", "save"} \/ mqtt'.at = "idle"
  BY MqttAtIs DEF MqttConnected, MqttDisconnected, PeekOldest, PublishOldest, PopOldest, MqttGoes
<1>5. mqtt.at # "save" /\ mqtt'.at # "save" /\ (mqtt.at # "idle" => qr.at \notin Booting)
      /\ (mqtt'.at # "idle" => qr'.at \notin Booting)
  <2>1. mqtt.at # "save"
    BY DEF MqttConnected, MqttDisconnected, PeekOldest, PublishOldest, PopOldest
  <2> QED
    BY <1>3, <2>1 DEF TypeInv, PlaceInv
<1>6. \A e \in Scans : sent[e] > 0 => sent'[e] > 0
  BY <1>3 DEF TypeInv, PastT
<1>7. Tracks
  BY <1>1, <1>6, SentTracks
<1>8. qr.at # "off"
  BY <1>5 DEF MqttConnected, MqttDisconnected, PeekOldest, PublishOldest, PopOldest, Booting,
    TypeInv, PlaceInv
<1>9. RamInv' /\ FlashInv'
  <2>1. (\A i \in 1..4 : Done(i)' => Done(i)) /\ (CutsSave => CutsSave')
    BY <1>1, <1>5 DEF Done, InStore, CutsSave
  <2> QED
    BY <1>1, <1>7, <1>8, <2>1, QuietStep
<1>10. HandInv'
  <2>1. /\ mqtt'.at = "publish" => mqtt'.event = buf'[head']
        /\ mqtt'.at = "pop" => buf'[head'] \in Scans /\ sent'[buf'[head']] > 0
    <3>1. CASE mqtt'.at # "pop"
      BY <1>2, <1>3, <3>1
    <3>2. CASE mqtt'.at = "pop"
      <4>1. /\ mqtt.at = "publish" /\ mqtt.event # Blank
            /\ sent' = [sent EXCEPT ![mqtt.event] = @ + 1]
        BY <1>3, <3>2
      <4>2. mqtt.event = buf[head] /\ buf[head] \in Scans
        BY <4>1 DEF HandInv, TypeInv, RingT, Entry
      <4>3. sent'[buf[head]] > 0
        BY <4>1, <4>2 DEF TypeInv, PastT
      <4> QED
        BY <1>2, <3>2, <4>2, <4>3
    <3> QED
      BY <3>1, <3>2
  <2> QED
    BY <1>1, <1>2, <2>1 DEF HandInv
<1> QED
  BY <1>9, <1>10 DEF QueueInv

LEMMA PopSound ==
  ASSUME Sound, TypeInv', ApartInv', Undisturbed', PopOldest, count # 0
  PROVE  QueueInv'
<1> TypeInv /\ RamInv /\ FlashInv /\ HandInv /\ ApartInv
  BY DEF Sound, QueueInv
<1>1. /\ UNCHANGED <<nvs, past, qr, scanned, sent>> /\ mqtt.at = "pop"
      /\ buf' = [buf EXCEPT ![head] = Blank] /\ head' = Queue!After(head)
      /\ tail' = tail /\ count' = count - 1
      /\ mqtt' = [MqttAt("save") EXCEPT !.key = 1]
  BY DEF PopOldest, MqttGoes, Queue!SetRing, Queue!Popped
<1>2. mqtt'.at = "save" /\ mqtt'.key = 1
  BY <1>1 DEF MqttAt
<1>3. qr.at \in {"idle", "log", "check", "send", "clear"}
  <2>1. ~InStore(qr)
    BY <1>1 DEF ApartInv, Sound, Undisturbed, InFlush
  <2>2. qr.at \notin Booting
    BY <1>1 DEF TypeInv, PlaceInv
  <2> QED
    BY <2>1, <2>2 DEF InStore, TypeInv, QrT, QrRec, QrPlaces
<1>4. /\ buf \in [Slots -> Entry] /\ head \in Slots /\ count \in 1..Size
  BY CameraAssumption DEF TypeInv, RingT
<1>5. Tracks /\ \A e \in 1..scanned : Elsewhere(e) => Elsewhere(e)'
  BY <1>1, SentTracks
<1>6. tail = Slot(Size, head, count) /\ Accounted(buf, head, count)
  BY <1>3 DEF RamInv, Pushing
<1>7. tail' = Slot(Size, head', count')
  <2>1. count - 1 \in 0..(Size - 1) /\ (count - 1) + 1 = count
    BY <1>4, CameraAssumption
  <2> QED
    BY <1>1, <1>4, <1>6, <2>1, RingRange, SlotNext
<1>8. \A e \in 1..scanned : Elsewhere(e)' \/ InRing(buf', head', count', e)
  <2> SUFFICES ASSUME NEW e \in 1..scanned, ~Elsewhere(e)' PROVE InRing(buf', head', count', e)
    OBVIOUS
  <2>1. ~Elsewhere(e) /\ InRing(buf, head, count, e)
    BY <1>5, <1>6 DEF Accounted
  <2>2. buf[head] # e
    BY <1>1, <2>1 DEF HandInv, Elsewhere
  <2> QED
    BY <1>1, <1>4, <2>1, <2>2, InRingPopped
<1>9. RamInv'
  BY <1>1, <1>3, <1>7, <1>8 DEF RamInv, Accounted, Pushing
<1>10. FlashInv'
  <2>1. ~CutsSave
    BY <1>1, <1>3 DEF CutsSave
  <2>2. \A i \in 1..4 : ~Done(i)'
    BY <1>1, <1>2, <1>3 DEF Done
  <2> QED
    BY <1>1, <1>5, <2>1, <2>2, FlashStays
<1>11. HandInv'
  BY <1>1, <1>2, <1>3 DEF HandInv
<1> QED
  BY <1>9, <1>10, <1>11 DEF QueueInv

LEMMA SavePopSound ==
  ASSUME Sound, TypeInv', ApartInv', Undisturbed', NEW b \in BOOLEAN, SavePop(b)
  PROVE  QueueInv'
<1> TypeInv /\ RamInv /\ FlashInv /\ HandInv /\ ApartInv
  BY DEF Sound, QueueInv
<1>1. b = TRUE /\ past' = past
  BY AccessSucceeds DEF SavePop
<1>2. /\ mqtt.at = "save" /\ mqtt.key \in 1..4 /\ qr.at \notin Booting
      /\ UNCHANGED <<buf, head, tail, count, sent, scanned, qr>>
      /\ nvs'.buf = IF mqtt.key = 1 THEN buf ELSE nvs.buf
      /\ nvs'.head = IF mqtt.key = 2 THEN head ELSE nvs.head
      /\ nvs'.tail = IF mqtt.key = 3 THEN tail ELSE nvs.tail
      /\ nvs'.count = IF mqtt.key = 4 THEN count ELSE nvs.count
      /\ mqtt' = IF mqtt.key < 4 THEN [mqtt EXCEPT !.key = mqtt.key + 1, !.ok = mqtt.ok /\ b]
                 ELSE MqttAt(IF mqtt.ok /\ b THEN "peek" ELSE "idle")
  BY <1>1, SavePopIs DEF ringVars
<1>3. qr.at \in {"idle", "log", "check", "send", "clear"}
  <2>1. ~InStore(qr)
    BY <1>2 DEF ApartInv, Sound, Undisturbed, InFlush
  <2> QED
    BY <1>2, <2>1 DEF InStore, TypeInv, QrT, QrRec, QrPlaces
<1>4. /\ mqtt.key > 1 => nvs.buf = buf
      /\ mqtt.key > 2 => nvs.head = head
      /\ mqtt.key > 3 => nvs.tail = tail
  BY <1>2, <1>3 DEF FlashInv, Done
<1>5. RamInv'
  <2>1. \A e \in 1..scanned : Elsewhere(e) => Elsewhere(e)'
    BY <1>1, <1>2, SentTracks
  <2> QED
    BY <1>2, <1>3, <2>1 DEF RamInv, Accounted, Pushing
<1>6. CASE mqtt.key < 4
  <2>1. mqtt'.at = "save" /\ mqtt'.key = mqtt.key + 1
    BY <1>2, <1>6 DEF TypeInv, MqttT, MqttRec
  <2>2. HandInv'
    BY <1>2, <1>3, <2>1 DEF HandInv
  <2>3. CutsSave'
    BY <1>2, <2>1 DEF CutsSave
  <2>4. /\ Done(1)' => nvs'.buf = buf'
        /\ Done(2)' => nvs'.head = head'
        /\ Done(3)' => nvs'.tail = tail'
        /\ Done(4)' => nvs'.count = count'
    BY <1>2, <1>3, <1>4, <1>6, <2>1 DEF Done
  <2>5. FlashInv'
    BY <2>3, <2>4 DEF FlashInv
  <2> QED
    BY <1>5, <2>2, <2>5 DEF QueueInv
<1>7. CASE ~(mqtt.key < 4)
  <2>1. mqtt.key = 4 /\ mqtt'.at \in {"peek", "idle"}
    <3>1. mqtt' = MqttAt("peek") \/ mqtt' = MqttAt("idle")
      BY <1>2, <1>7
    <3>2. mqtt'.at \in {"peek", "idle"}
      BY <3>1, MqttAtIs
    <3> QED
      BY <1>2, <1>7, <3>2
  <2>2. HandInv'
    BY <1>2, <1>3, <2>1 DEF HandInv
  <2>3. nvs'.buf = buf' /\ nvs'.head = head' /\ nvs'.tail = tail' /\ nvs'.count = count'
    BY <1>2, <1>4, <2>1
  <2>4. FlashInv'
    BY <1>2, <1>3, <1>5, <2>3, FlashSaved DEF Pushing
  <2> QED
    BY <1>5, <2>2, <2>4 DEF QueueInv
<1> QED
  BY <1>6, <1>7

\* pending_queue_init: the board takes over what NVS has.
LEMMA BootQueueSound ==
  ASSUME Sound, TypeInv', ApartInv', Undisturbed', NEW b \in BOOLEAN, QueueBooted(b)
  PROVE  QueueInv'
<1> TypeInv /\ RamInv /\ FlashInv /\ HandInv /\ ApartInv
  BY DEF Sound, QueueInv
<1>1. b = TRUE /\ past' = past
  BY QueueBootedIs, AccessSucceeds DEF Sound
<1>2. /\ qr.at = "off" /\ UNCHANGED <<nvs, scanned, sent, mqtt>> /\ mqtt.at = "idle"
      /\ qr'.at \in {"load_log", "reset"}
  BY QueueBootedIs, QrAtIs DEF TypeInv, PlaceInv, Booting
<1>3. \A e \in 1..scanned : Elsewhere(e) => Elsewhere(e)'
  BY <1>1, <1>2 DEF Elsewhere, InHand, Booting
<1>4. ~CutsSave
  BY <1>2 DEF CutsSave
<1>5. CASE nvs.buf # Absent
  <2>1. /\ nvs.head \in Slots /\ nvs.tail \in Slots /\ nvs.count \in 0..Size
        /\ nvs.tail = Slot(Size, nvs.head, nvs.count)
        /\ Accounted(nvs.buf, nvs.head, nvs.count)
    BY <1>4, <1>5 DEF FlashInv
  <2>2. Absent \notin Slots /\ Absent \notin 0..Size
    BY SlotsAre, AbsentAssumption, CameraAssumption
  <2>3. /\ Queue!Loaded.buf = nvs.buf /\ Queue!Loaded.head = nvs.head
        /\ Queue!Loaded.tail = nvs.tail /\ Queue!Loaded.count = nvs.count
    BY <2>1, <2>2 DEF Queue!Loaded, Queue!Found, Queue!AllKeys, Queue!Stored
  <2>4. Queue!Valid(Queue!Loaded)
    BY <2>1, <2>3 DEF Queue!Valid, Slots
  <2>5. /\ buf' = nvs.buf /\ head' = nvs.head /\ tail' = nvs.tail /\ count' = nvs.count
        /\ qr'.at = "load_log"
    BY <1>1, <1>5, <2>3, <2>4, QueueBootedIs, QrAtIs
  <2>6. RamInv'
    BY <1>2, <1>3, <2>1, <2>5 DEF RamInv, Accounted, Pushing
  <2>7. FlashInv'
    BY <1>2, <2>5, <2>6, FlashSaved DEF Pushing
  <2>8. HandInv'
    BY <1>2, <2>5 DEF HandInv
  <2> QED
    BY <2>6, <2>7, <2>8 DEF QueueInv
<1>6. CASE nvs.buf = Absent
  <2>1. /\ head' = 0 /\ tail' = 0 /\ count' = 0 /\ qr'.at = "reset" /\ qr'.key = 1
    BY <1>6, QueueBootedIs, QrAtIs
  <2>2. \A e \in 1..scanned : Elsewhere(e)'
    BY <1>3, <1>4, <1>6 DEF FlashInv
  <2>3. RamInv'
    BY <1>2, <2>1, <2>2, RingRange, SlotEnds DEF RamInv, Accounted, Pushing
  <2>4. FlashInv'
    BY <1>2, <1>6, <2>1, <2>2 DEF FlashInv, Done, CutsSave
  <2>5. HandInv'
    BY <1>2, <2>1 DEF HandInv
  <2> QED
    BY <2>3, <2>4, <2>5 DEF QueueInv
<1> QED
  BY <1>5, <1>6

LEMMA PowerLossSound ==
  ASSUME Sound, TypeInv', Undisturbed', PowerLoss
  PROVE  QueueInv'
<1> TypeInv /\ RamInv /\ FlashInv /\ HandInv
  BY DEF Sound, QueueInv
<1>1. /\ head' = 0 /\ tail' = 0 /\ count' = 0 /\ qr'.at = "off" /\ mqtt'.at = "idle"
      /\ UNCHANGED <<nvs, scanned, sent>>
  BY PowerLossIs, QrAtIs, MqttAtIs
<1>2. /\ past'.torn = (past.torn \/ CutsSave) /\ past'.dropped = past.dropped
      /\ past'.taken = IF InHand THEN past.taken \cup {scanned} ELSE past.taken
  BY DEF PowerLoss, TypeInv, PastT, PastRec
<1>3. ~CutsSave
  BY <1>2 DEF Undisturbed
<1>4. Tracks
  BY <1>1, <1>2 DEF Tracks, Elsewhere
<1>5. FlashInv'
  <2>1. \A i \in 1..4 : ~Done(i)'
    BY <1>1 DEF Done
  <2> QED
    BY <1>1, <1>3, <1>4, <2>1, FlashStays
<1>6. RamInv' /\ HandInv'
  BY <1>1, RingRange, SlotEnds DEF RamInv, HandInv, Pushing
<1> QED
  BY <1>5, <1>6 DEF QueueInv

LEMMA RestSound ==
  ASSUME Sound, TypeInv', Undisturbed', UNCHANGED vars
  PROVE  QueueInv'
<1> TypeInv /\ RamInv /\ FlashInv /\ HandInv
  BY DEF Sound, QueueInv
<1>1. UNCHANGED <<buf, head, tail, count, nvs, qr, mqtt, scanned, sent, past>>
  BY DEF vars, ringVars
<1>2. \A e : Elsewhere(e) <=> Elsewhere(e)'
  BY <1>1 DEF Elsewhere, InHand
<1>3. \A b, h, c : Accounted(b, h, c) => \A e \in 1..scanned' : Elsewhere(e)' \/ InRing(b, h, c, e)
  BY <1>1, <1>2 DEF Accounted
<1>4. HandInv'
  BY <1>1 DEF HandInv
<1>5. RamInv'
  BY <1>1, <1>3 DEF RamInv, Accounted
<1>6. FlashInv'
  BY <1>1, <1>2, <1>3 DEF FlashInv, Accounted, Done, CutsSave, InStore
<1> QED
  BY <1>4, <1>5, <1>6 DEF QueueInv

LEMMA InitAccount == Init => ApartInv /\ AccountInv
<1> SUFFICES ASSUME Init PROVE ApartInv /\ AccountInv
  OBVIOUS
<1>1. /\ qr.at = "off" /\ mqtt.at = "idle" /\ scanned = 0 /\ nvs.buf = Absent
      /\ head = 0 /\ tail = 0 /\ count = 0
  BY QrAtIs, MqttAtIs DEF Init, Queue!NothingStored
<1>2. RamInv
  BY <1>1, RingRange, SlotEnds DEF RamInv, Pushing
<1>3. FlashInv
  BY <1>1 DEF FlashInv, Done, CutsSave
<1>4. HandInv
  BY <1>1 DEF HandInv
<1>5. ApartInv
  BY <1>1 DEF ApartInv, InFlush
<1> QED
  BY <1>2, <1>3, <1>4, <1>5 DEF AccountInv, QueueInv

LEMMA AccountStep ==
  TypeInv /\ ApartInv /\ AccountInv /\ [Next]_vars => ApartInv' /\ AccountInv'
<1> SUFFICES ASSUME TypeInv, ApartInv, AccountInv, [Next]_vars PROVE ApartInv' /\ AccountInv'
  OBVIOUS
<1>1. TypeInv' /\ ApartInv'
  BY StepTypes, ApartStep
<1>2. ASSUME Undisturbed' PROVE QueueInv'
  <2>1. Undisturbed
    BY <1>2, UndisturbedBefore
  <2>2. Sound
    BY <2>1 DEF Sound, AccountInv
  <2>3. CASE CheckClient \/ Publish \/ TestCount \/ LoadHead
    BY <1>1, <1>2, <2>2, <2>3, MoveSound
  <2>4. CASE ClearSlot \/ FillSlot \/ IncrementCount \/ MoveHead
    BY <1>1, <1>2, <2>2, <2>4, PushSound
  <2>5. CASE MqttConnected \/ MqttDisconnected \/ PeekOldest \/ PublishOldest \/ PopOldest
    BY <1>1, <1>2, <2>2, <2>5, MqttSound, PopSound
  <2>6. ASSUME NEW b \in BOOLEAN,
               SaveLog(b) \/ SaveRing(b) \/ SavePop(b) \/ QueueBooted(b) \/ LoggerBooted(b)
        PROVE  QueueInv'
    BY <1>1, <1>2, <2>2, <2>6, MoveSound, SaveRingSound, SavePopSound, BootQueueSound
  <2>7. CASE Scan \/ PowerLoss \/ UNCHANGED vars
    BY <1>1, <1>2, <2>2, <2>7, ScanSound, PowerLossSound, RestSound
  <2>8. ~EraseNvs
    BY <1>2, EraseIs, AccessSucceeds
  <2> QED
    BY NextIs, <2>3, <2>4, <2>5, <2>6, <2>7, <2>8
<1> QED
  BY <1>1, <1>2 DEF AccountInv

\* Invariant of the runs: a scan is never lost.  Whatever the sizes of the queue and of
\* the history and wherever the power is cut, every scan is in qr_scan's hands,
\* published, waiting, given up by a full queue, or was taken from qr_scan's hands by a
\* power cut, unless the two tasks met in the ring or a save was cut or failed
\* (main.c:359-362).
THEOREM ScansAccounted == Spec => []ScanAccounted
<1>1. TypeInv /\ AccountInv => ScanAccounted
  <2> SUFFICES ASSUME TypeInv, AccountInv, ~Disturbed, NEW e \in 1..scanned
               PROVE  \/ e = scanned /\ InHand
                      \/ sent[e] > 0 \/ e \in Waiting \/ e \in past.dropped \/ e \in past.taken
    BY DEF ScanAccounted
  <2>1. Undisturbed
    BY DEF Disturbed, Undisturbed, TypeInv, PastT, PastRec
  <2>2. RamInv /\ FlashInv
    BY <2>1 DEF AccountInv, QueueInv
  <2> DEFINE r == IF qr.at # "off" THEN Queue!Ram
                  ELSE IF nvs.buf = Absent THEN Queue!Reset ELSE Queue!Loaded
  <2>3. Waiting = {Queue!Content(r)[i] : i \in 1..r.count}
    BY DEF Waiting
  <2>4. ASSUME InRing(r.buf, r.head, r.count, e), r.count \in 0..Size PROVE e \in Waiting
    <3> HIDE DEF r
    <3>1. PICK i \in 0..(r.count - 1) : r.buf[Slot(Size, r.head, i)] = e
      BY <2>4 DEF InRing
    <3>2. i + 1 \in 1..r.count /\ (i + 1) - 1 = i
      BY <2>4, <3>1, CameraAssumption
    <3>3. Queue!Content(r)[i + 1] = r.buf[(r.head + ((i + 1) - 1)) % Size]
      BY <3>2 DEF Queue!Content
    <3>4. Queue!Content(r)[i + 1] = e
      BY <3>1, <3>2, <3>3 DEF Slot
    <3> QED
      BY <2>3, <3>2, <3>4
  <2>5. CASE qr.at # "off"
    <3>1. r.buf = buf /\ r.head = head /\ r.count = count
      BY <2>5, RamIs
    <3>2. Elsewhere(e) \/ InRing(buf, head, count, e)
      BY <2>2, <2>5 DEF RamInv, Accounted
    <3> QED
      BY <2>4, <3>1, <3>2 DEF Elsewhere, TypeInv, RingT
  <2>6. CASE qr.at = "off"
    <3>1. ~CutsSave
      BY <2>6 DEF CutsSave, TypeInv, PlaceInv, Booting
    <3>2. CASE nvs.buf = Absent
      BY <2>2, <3>1, <3>2 DEF FlashInv, Elsewhere
    <3>3. CASE nvs.buf # Absent
      <4>1. /\ nvs.head \in Slots /\ nvs.count \in 0..Size
            /\ Accounted(nvs.buf, nvs.head, nvs.count)
        BY <2>2, <3>1, <3>3 DEF FlashInv
      <4>2. Absent \notin Slots /\ Absent \notin 0..Size
        BY SlotsAre, AbsentAssumption, CameraAssumption
      <4>3. r.buf = nvs.buf /\ r.head = nvs.head /\ r.count = nvs.count
        BY <2>6, <3>3, <4>1, <4>2 DEF Queue!Loaded, Queue!Found, Queue!AllKeys, Queue!Stored
      <4> QED
        BY <2>4, <4>1, <4>3 DEF Accounted, Elsewhere
    <3> QED
      BY <3>2, <3>3
  <2> QED
    BY <2>5, <2>6
<1> QED
  BY <1>1, TypesHold, InitAccount, AccountStep, PTL DEF Spec

-----------------------------------------------------------------------------
(* What is published twice.                                                *)

\* The event in slot head is leaving between its publication and its pop.
InQueue(e) == \E s \in Slots : buf[s] = e /\ ~(mqtt.at = "pop" /\ s = head)
InFlash(e) == nvs.buf # Absent /\ \E s \in Slots : nvs.buf[s] = e

\* The events that were published twice, or may be.
Again == {e \in Scans : sent[e] > 1 \/ (sent[e] > 0 /\ (InQueue(e) \/ InFlash(e)))}

\* A published event that NVS still has.
Unsaved == mqtt.at = "pop" \/ (mqtt.at = "save" /\ mqtt.key = 1)

Cost == past.cuts + past.faults

\* The events nobody but qr_scan has seen.
Fresh(e) == e > scanned \/ (e = scanned /\ qr.at \in {"log", "check", "send", "clear", "fill"})

Untouched(e) == sent[e] = 0 /\ ~InFlash(e) /\ \A s \in Slots : buf[s] # e

Single(b) == \A s \in Slots, t \in Slots : b[s] = b[t] /\ b[s] # Blank => s = t

OnceInv ==
  ~raced =>
    /\ Single(buf) /\ (nvs.buf # Absent => Single(nvs.buf))
    /\ mqtt.at \in {"publish", "pop"} => count # 0
    /\ mqtt.at = "publish" => mqtt.event = buf[head]
    /\ \A e \in Scans : Fresh(e) => Untouched(e)

\* Each cut and each fault pays for one event; the one being popped need not be paid
\* for, unless it is published a second time.
RepeatInv ==
  ~raced =>
    /\ \E c \in Entry : /\ Cardinality(Again \ {c}) <= Cost
                        /\ c # Blank => Unsaved /\ sent[c] = 1 /\ ~InQueue(c)
    /\ \A e \in Scans : /\ sent[e] <= Cost + 1
                        /\ InQueue(e) => sent[e] <= Cost
                        /\ InFlash(e) /\ ~Unsaved => sent[e] <= Cost

LEMMA CostIs == TypeInv => Cost \in Nat
BY DEF TypeInv, PastT, PastRec, Cost

LEMMA ScansFinite ==
  ASSUME NEW A \in SUBSET Scans
  PROVE  IsFiniteSet(A) /\ Cardinality(A) \in Nat
<1>1. IsFiniteSet(Scans)
  BY FS_Interval, CameraAssumption DEF Scans
<1> QED
  BY <1>1, FS_Subset, FS_CardinalityType

\* A step that publishes nothing.
LEMMA NothingSent ==
  ASSUME TypeInv, TypeInv', ~raced, RepeatInv, sent' = sent, Cost <= Cost',
         \A e \in Scans : sent[e] > 0 /\ InQueue(e)' => InQueue(e) \/ (InFlash(e) /\ ~Unsaved),
         \A e \in Scans : InFlash(e)' => InFlash(e) \/ InQueue(e),
         Unsaved /\ ~Unsaved' => Cost < Cost' \/ \A e \in Scans : InFlash(e)' => InQueue(e)
  PROVE  RepeatInv'
<1>1. PICK c \in Entry : /\ Cardinality(Again \ {c}) <= Cost
                         /\ c # Blank => Unsaved /\ sent[c] = 1 /\ ~InQueue(c)
  BY DEF RepeatInv
<1>2. Cost \in Nat /\ Cost' \in Nat /\ \A e \in Scans : sent[e] \in Nat
  BY DEF TypeInv, PastT, PastRec, Cost
<1>3. Again' \subseteq Again
  BY DEF Again
<1>4. \A A : A \subseteq Scans => IsFiniteSet(A) /\ Cardinality(A) \in Nat
  BY ScansFinite
<1>5. \A e \in Scans : /\ sent'[e] <= Cost' + 1
                       /\ InQueue(e)' => sent'[e] <= Cost'
                       /\ InFlash(e)' /\ ~Unsaved' => sent'[e] <= Cost'
  <2> SUFFICES ASSUME NEW e \in Scans
               PROVE  /\ sent[e] <= Cost' + 1
                      /\ InQueue(e)' => sent[e] <= Cost'
                      /\ InFlash(e)' /\ ~Unsaved' => sent[e] <= Cost'
    OBVIOUS
  <2>1. /\ sent[e] <= Cost + 1 /\ (InQueue(e) => sent[e] <= Cost)
        /\ (InFlash(e) /\ ~Unsaved => sent[e] <= Cost)
    BY DEF RepeatInv
  <2>2. sent[e] <= Cost' + 1
    BY <1>2, <2>1
  <2>3. InQueue(e)' => sent[e] <= Cost'
    <3>1. CASE sent[e] > 0
      BY <1>2, <2>1, <3>1
    <3>2. CASE ~(sent[e] > 0)
      BY <1>2, <3>2
    <3> QED
      BY <3>1, <3>2
  <2>4. InFlash(e)' /\ ~Unsaved' => sent[e] <= Cost'
    <3>1. CASE ~Unsaved \/ Cost < Cost'
      BY <1>2, <2>1, <3>1
    <3>2. CASE Unsaved /\ \A x \in Scans : InFlash(x)' => InQueue(x)
      BY <1>2, <2>1, <3>2
    <3> QED
      BY <3>1, <3>2
  <2> QED
    BY <2>2, <2>3, <2>4
<1>6. \E d \in Entry : /\ Cardinality(Again' \ {d}) <= Cost'
                       /\ d # Blank => Unsaved' /\ sent'[d] = 1 /\ ~InQueue(d)'
  <2>1. CASE Unsaved' \/ c = Blank
    <3>1. (Again' \ {c}) \subseteq (Again \ {c}) /\ (Again \ {c}) \subseteq Scans
      BY <1>3 DEF Again
    <3>2. Cardinality(Again' \ {c}) <= Cardinality(Again \ {c})
      BY <1>4, <3>1, FS_Subset
    <3>3. Cardinality(Again' \ {c}) \in Nat /\ Cardinality(Again \ {c}) \in Nat
      BY <1>4, <3>1
    <3>4. Cardinality(Again' \ {c}) <= Cost'
      BY <1>1, <1>2, <3>2, <3>3
    <3>5. c # Blank => Unsaved' /\ sent'[c] = 1 /\ ~InQueue(c)'
      BY <1>1, <2>1 DEF Entry
    <3> QED
      BY <3>4, <3>5
  <2>2. CASE ~Unsaved' /\ c # Blank
    <3>1. c \in Scans /\ Unsaved /\ sent[c] = 1 /\ ~InQueue(c) /\ ~InQueue(c)'
      BY <1>1, <2>2 DEF Entry
    <3>2. Blank \in Entry /\ Again' \ {Blank} = Again'
      BY CameraAssumption DEF Entry, Again
    <3>3. (Again \ {c}) \subseteq Scans /\ Again \subseteq Scans /\ Again' \subseteq Scans
      BY DEF Again
    <3>4. Cardinality(Again') <= Cost'
      <4>1. CASE \A e \in Scans : InFlash(e)' => InQueue(e)
        <5>1. c \notin Again'
          BY <1>2, <3>1, <4>1 DEF Again
        <5>2. Again' \subseteq Again \ {c}
          BY <1>3, <5>1
        <5>3. Cardinality(Again') <= Cardinality(Again \ {c})
          BY <1>4, <3>3, <5>2, FS_Subset
        <5>4. Cardinality(Again') \in Nat /\ Cardinality(Again \ {c}) \in Nat
          BY <1>4, <3>3
        <5> QED
          BY <1>1, <1>2, <5>3, <5>4
      <4>2. CASE Cost < Cost'
        <5>1. Cardinality(Again) <= Cardinality(Again \ {c}) + 1
          <6>1. Cardinality(Again \ {c}) = IF c \in Again THEN Cardinality(Again) - 1 ELSE Cardinality(Again)
            BY <1>4, <3>3, FS_RemoveElement
          <6> QED
            BY <1>4, <3>3, <6>1
        <5>2. Cardinality(Again') <= Cardinality(Again)
          BY <1>3, <1>4, <3>3, FS_Subset
        <5>3. /\ Cardinality(Again') \in Nat /\ Cardinality(Again \ {c}) \in Nat
              /\ Cardinality(Again) \in Nat
          BY <1>4, <3>3
        <5> QED
          BY <1>1, <1>2, <4>2, <5>1, <5>2, <5>3
      <4> QED
        BY <2>2, <3>1, <4>1, <4>2
    <3> QED
      BY <3>2, <3>4
  <2> QED
    BY <2>1, <2>2
<1> QED
  BY <1>5, <1>6 DEF RepeatInv

\* The MQTT client takes an event of the queue: it was there once, so that it is not left.
LEMMA OldestSent ==
  ASSUME TypeInv, TypeInv', ~raced, OnceInv, RepeatInv, mqtt.at = "publish", mqtt'.at = "pop",
         UNCHANGED <<buf, head, nvs, past>>, mqtt.event # Blank,
         sent' = [sent EXCEPT ![mqtt.event] = @ + 1]
  PROVE  RepeatInv'
<1>0. PICK e \in Scans : e = buf[head]
  BY DEF OnceInv, TypeInv, RingT, Entry
<1>1. /\ e \in Scans /\ head \in Slots /\ sent' = [sent EXCEPT ![e] = sent[e] + 1]
      /\ \A s \in Slots : buf[s] = e => s = head
  <2>1. mqtt.event = e /\ e \in Entry /\ head \in Slots
    BY <1>0 DEF OnceInv, TypeInv, RingT
  <2>2. \A s \in Slots : buf[s] = e => s = head
    BY <1>0, <2>1, CameraAssumption DEF OnceInv, Single
  <2> QED
    BY <2>1, <2>2 DEF Entry
<1>2. InQueue(e) /\ ~Unsaved /\ Unsaved'
  BY <1>0, <1>1 DEF InQueue, Unsaved
<1>3. ~InQueue(e)' /\ \A x : InQueue(x)' => InQueue(x)
  BY <1>1 DEF InQueue
<1>4. \A x : InFlash(x)' <=> InFlash(x)
  BY DEF InFlash
<1>5. /\ Cost \in Nat /\ Cost' = Cost /\ (\A x \in Scans : sent[x] \in Nat)
      /\ sent'[e] = sent[e] + 1 /\ \A x \in Scans : x # e => sent'[x] = sent[x]
  BY <1>1, CostIs DEF TypeInv, PastT, Cost
<1>6. PICK c \in Entry : /\ Cardinality(Again \ {c}) <= Cost
                         /\ c # Blank => Unsaved /\ sent[c] = 1 /\ ~InQueue(c)
  BY DEF RepeatInv
<1>7. c = Blank /\ Again \ {c} = Again /\ Again \subseteq Scans /\ Again' \subseteq Scans
  BY <1>2, <1>6, CameraAssumption DEF Again
<1>8. Cardinality(Again) <= Cost /\ Cardinality(Again) \in Nat /\ IsFiniteSet(Again)
  BY <1>6, <1>7, ScansFinite
<1>9. \A x \in Again' : x # e => x \in Again
  BY <1>3, <1>4, <1>5 DEF Again
<1>10. \A x \in Scans : /\ sent'[x] <= Cost' + 1
                        /\ InQueue(x)' => sent'[x] <= Cost'
                        /\ InFlash(x)' /\ ~Unsaved' => sent'[x] <= Cost'
  <2> SUFFICES ASSUME NEW x \in Scans
               PROVE  sent'[x] <= Cost' + 1 /\ (InQueue(x)' => sent'[x] <= Cost')
    BY <1>2
  <2>1. sent[x] <= Cost + 1 /\ (InQueue(x) => sent[x] <= Cost)
    BY DEF RepeatInv
  <2>2. CASE x = e
    BY <1>2, <1>3, <1>5, <2>1, <2>2
  <2>3. CASE x # e
    BY <1>3, <1>5, <2>1, <2>3
  <2> QED
    BY <2>2, <2>3
<1>11. \E d \in Entry : /\ Cardinality(Again' \ {d}) <= Cost'
                        /\ d # Blank => Unsaved' /\ sent'[d] = 1 /\ ~InQueue(d)'
  <2>1. CASE sent[e] = 0
    <3>1. Again' \ {e} \subseteq Again
      BY <1>9
    <3>2. Cardinality(Again' \ {e}) <= Cardinality(Again) /\ Cardinality(Again' \ {e}) \in Nat
      BY <1>7, <1>8, <3>1, FS_Subset, ScansFinite
    <3>3. Cardinality(Again' \ {e}) <= Cost' /\ sent'[e] = 1
      BY <1>5, <1>8, <2>1, <3>2
    <3>4. e \in Entry
      BY <1>1 DEF Entry
    <3> QED
      BY <1>2, <1>3, <3>3, <3>4
  <2>2. CASE sent[e] # 0
    <3>1. e \in Again
      BY <1>1, <1>2, <1>5, <2>2 DEF Again
    <3>2. Again' \ {Blank} \subseteq Again
      BY <1>9, <3>1
    <3>3. Cardinality(Again' \ {Blank}) <= Cardinality(Again) /\ Cardinality(Again' \ {Blank}) \in Nat
      BY <1>7, <1>8, <3>2, FS_Subset, ScansFinite
    <3>4. Cardinality(Again' \ {Blank}) <= Cost' /\ Blank \in Entry
      BY <1>5, <1>8, <3>3 DEF Entry
    <3> QED
      BY <3>4
  <2> QED
    BY <2>1, <2>2
<1> QED
  BY <1>10, <1>11 DEF RepeatInv

\* The client takes an event that qr_scan has just read: nobody else has it.
LEMMA NewestSent ==
  ASSUME TypeInv, TypeInv', ~raced, OnceInv, RepeatInv, Fresh(scanned), scanned \in Scans,
         UNCHANGED <<buf, head, nvs, past, mqtt>>, sent' = [sent EXCEPT ![scanned] = @ + 1]
  PROVE  RepeatInv'
<1>1. Untouched(scanned)
  BY DEF OnceInv
<1>2. ~InQueue(scanned) /\ ~InFlash(scanned) /\ sent[scanned] = 0
  BY <1>1 DEF Untouched, InQueue
<1>3. \A x : (InQueue(x)' <=> InQueue(x)) /\ (InFlash(x)' <=> InFlash(x))
  BY DEF InQueue, InFlash
<1>4. /\ Cost \in Nat /\ Cost' = Cost /\ (\A x \in Scans : sent[x] \in Nat) /\ (Unsaved <=> Unsaved')
      /\ sent'[scanned] = 1 /\ \A x \in Scans : x # scanned => sent'[x] = sent[x]
  BY <1>2, CostIs DEF TypeInv, PastT, Cost, Unsaved
<1>5. Again' = Again
  BY <1>2, <1>3, <1>4 DEF Again
<1>6. PICK c \in Entry : /\ Cardinality(Again \ {c}) <= Cost
                         /\ c # Blank => Unsaved /\ sent[c] = 1 /\ ~InQueue(c)
  BY DEF RepeatInv
<1>7. c # Blank => Unsaved' /\ sent'[c] = 1 /\ ~InQueue(c)'
  BY <1>2, <1>3, <1>4, <1>6 DEF Entry
<1>8. \A x \in Scans : /\ sent'[x] <= Cost' + 1
                       /\ InQueue(x)' => sent'[x] <= Cost'
                       /\ InFlash(x)' /\ ~Unsaved' => sent'[x] <= Cost'
  <2> SUFFICES ASSUME NEW x \in Scans
               PROVE  /\ sent'[x] <= Cost' + 1
                      /\ InQueue(x)' => sent'[x] <= Cost'
                      /\ InFlash(x)' /\ ~Unsaved' => sent'[x] <= Cost'
    OBVIOUS
  <2>1. /\ sent[x] <= Cost + 1 /\ (InQueue(x) => sent[x] <= Cost)
        /\ (InFlash(x) /\ ~Unsaved => sent[x] <= Cost)
    BY DEF RepeatInv
  <2>2. CASE x = scanned
    BY <1>2, <1>3, <1>4, <2>2
  <2>3. CASE x # scanned
    BY <1>3, <1>4, <2>1, <2>3
  <2> QED
    BY <2>2, <2>3
<1> QED
  BY <1>4, <1>5, <1>6, <1>7, <1>8 DEF RepeatInv

\* A step that takes the events of the queue from the queue and those of NVS from either.
LEMMA OnceStays ==
  ASSUME ~raced, OnceInv, Single(buf)', nvs'.buf = nvs.buf \/ nvs'.buf = buf,
         mqtt'.at \in {"publish", "pop"} => count' # 0,
         mqtt'.at = "publish" => mqtt'.event = buf'[head'],
         \A e \in Scans : Fresh(e)' =>
           /\ Fresh(e) /\ sent'[e] = sent[e]
           /\ \A s \in Slots : buf'[s] = e =>
                buf[s] = e \/ (nvs.buf # Absent /\ nvs.buf[s] = e)
  PROVE  OnceInv'
<1>1. /\ Single(buf) /\ (nvs.buf # Absent => Single(nvs.buf))
      /\ \A e \in Scans : Fresh(e) => Untouched(e)
  BY DEF OnceInv
<1>2. nvs'.buf # Absent => Single(nvs.buf)'
  <2>1. CASE nvs'.buf = nvs.buf
    BY <1>1, <2>1 DEF Single
  <2>2. CASE nvs'.buf = buf
    BY <1>1, <2>2 DEF Single
  <2> QED
    BY <2>1, <2>2
<1>3. \A e \in Scans : Fresh(e)' => Untouched(e)'
  <2> SUFFICES ASSUME NEW e \in Scans, Fresh(e)' PROVE Untouched(e)'
    OBVIOUS
  <2>1. sent[e] = 0 /\ ~InFlash(e) /\ \A s \in Slots : buf[s] # e
    BY <1>1 DEF Untouched
  <2>2. sent'[e] = 0 /\ \A s \in Slots : buf'[s] # e
    BY <2>1 DEF InFlash
  <2>3. ~InFlash(e)'
    <3>1. CASE nvs'.buf = nvs.buf
      BY <2>1, <3>1 DEF InFlash
    <3>2. CASE nvs'.buf = buf
      BY <2>1, <3>2 DEF InFlash
    <3> QED
      BY <3>1, <3>2
  <2> QED
    BY <2>2, <2>3 DEF Untouched
<1> QED
  BY <1>2, <1>3 DEF OnceInv

\* A step that changes nothing in the buffer, in its copy and in what was published.
LEMMA RingRests ==
  ASSUME TypeInv, TypeInv', ~raced, OnceInv, RepeatInv, UNCHANGED <<buf, sent>>,
         nvs'.buf = nvs.buf, Cost <= Cost',
         mqtt.at = "pop" => mqtt'.at = "pop" /\ head' = head,
         Unsaved => Unsaved' \/ Cost < Cost',
         \A e \in Scans : Fresh(e)' => Fresh(e),
         mqtt'.at \in {"publish", "pop"} => count' # 0,
         mqtt'.at = "publish" => mqtt'.event = buf'[head']
  PROVE  OnceInv' /\ RepeatInv'
<1>1. OnceInv'
  <2>1. Single(buf)'
    BY DEF OnceInv, Single
  <2> QED
    BY <2>1, OnceStays
<1>2. \A e : (InQueue(e)' => InQueue(e)) /\ (InFlash(e)' => InFlash(e))
  BY DEF InQueue, InFlash
<1> QED
  BY <1>1, <1>2, NothingSent

\* What a step does to the count of cuts and faults.
LEMMA CostGrows ==
  ASSUME TypeInv, TypeInv', NEW b \in BOOLEAN, Access(b)
  PROVE  Cost <= Cost' /\ (~b => Cost < Cost')
<1>1. /\ past'.cuts = past.cuts /\ past'.faults = IF b THEN past.faults ELSE past.faults + 1
      /\ past.cuts \in Nat /\ past.faults \in Nat
  BY AccessIs DEF TypeInv, PastT, PastRec
<1> QED
  BY <1>1 DEF Cost

LEMMA CostStays == TypeInv /\ past' = past => Cost <= Cost'
BY DEF TypeInv, PastT, PastRec, Cost

RepeatStart ==
  TypeInv /\ TypeInv' /\ ApartInv /\ ApartInv' /\ ~raced /\ ~raced' /\ OnceInv /\ RepeatInv

LEMMA QrRepeats ==
  ASSUME RepeatStart,
         \/ Scan \/ CheckClient \/ Publish \/ TestCount \/ LoadHead \/ IncrementCount \/ MoveHead
         \/ \E b \in BOOLEAN : SaveLog(b) \/ LoggerBooted(b)
  PROVE  OnceInv' /\ RepeatInv'
<1> TypeInv /\ TypeInv' /\ ~raced /\ OnceInv /\ RepeatInv /\ ApartInv'
  BY DEF RepeatStart
<1>1. UNCHANGED <<buf, nvs, mqtt>> /\ Cost <= Cost'
  <2>1. CASE \/ Scan \/ CheckClient \/ Publish \/ TestCount \/ LoadHead \/ IncrementCount \/ MoveHead
    BY <2>1, CostStays DEF Scan, CheckClient, Publish, TestCount, LoadHead, IncrementCount, MoveHead,
      QrGoes, ringVars
  <2>2. ASSUME NEW b \in BOOLEAN, SaveLog(b) \/ LoggerBooted(b)
        PROVE  UNCHANGED <<buf, nvs, mqtt>> /\ Cost <= Cost'
    BY <2>2, LoggerBootedIs, CostGrows DEF SaveLog, QrGoes, ringVars
  <2> QED
    BY <2>1, <2>2
<1>2. mqtt.at \in {"publish", "pop"} => UNCHANGED <<head, count>>
  <2>1. CASE IncrementCount \/ MoveHead
    <3>1. InStore(qr') /\ mqtt' = mqtt
      BY <2>1, QrAtIs DEF IncrementCount, MoveHead, QrGoes, InStore, Storing
    <3> QED
      BY <3>1 DEF RepeatStart, ApartInv, InStore, InFlush
  <2>2. CASE ~(IncrementCount \/ MoveHead)
    BY <2>2, LoggerBootedIs DEF Scan, CheckClient, Publish, TestCount, LoadHead, SaveLog, ringVars
  <2> QED
    BY <2>1, <2>2
<1>3. Unsaved <=> Unsaved'
  BY <1>1 DEF Unsaved
<1>4. \A e \in Scans : Fresh(e)' => Fresh(e)
  <2>1. CASE Scan
    <3>1. scanned' = scanned + 1 /\ scanned \in Nat
      BY <2>1, CameraAssumption DEF Scan, TypeInv, PastT
    <3> QED
      BY <3>1, CameraAssumption DEF Fresh, Scans
  <2>2. CASE \/ CheckClient \/ Publish \/ TestCount \/ LoadHead \/ IncrementCount \/ MoveHead
    <3>1. /\ scanned' = scanned
          /\ \/ qr'.at \notin {"log", "check", "send", "clear", "fill"}
             \/ qr.at \in {"check", "send"}
      <4>1. CASE CheckClient \/ Publish
        BY <4>1 DEF CheckClient, Publish
      <4>2. CASE TestCount
        BY <4>2 DEF TestCount, QrGoes, QrAt
      <4>3. CASE LoadHead
        BY <4>3 DEF LoadHead, QrGoes, QrAt
      <4>4. CASE IncrementCount \/ MoveHead
        BY <4>4, QrAtIs DEF IncrementCount, MoveHead, QrGoes
      <4> QED
        BY <2>2, <4>1, <4>2, <4>3, <4>4
    <3> QED
      BY <3>1 DEF Fresh
  <2>3. ASSUME NEW b \in BOOLEAN, SaveLog(b) \/ LoggerBooted(b)
        PROVE  \A e \in Scans : Fresh(e)' => Fresh(e)
    <3>1. CASE SaveLog(b)
      BY <3>1, QrAtIs DEF SaveLog, LoggerSave, QrGoes, TypeInv, PlaceInv, Fresh
    <3>2. CASE LoggerBooted(b)
      BY <3>2, LoggerBootedIs, QrAtIs DEF Fresh
    <3> QED
      BY <2>3, <3>1, <3>2
  <2> QED
    BY <2>1, <2>2, <2>3
<1>5. CASE sent' = sent
  <2>1. /\ mqtt'.at \in {"publish", "pop"} => count' # 0
        /\ mqtt'.at = "publish" => mqtt'.event = buf'[head']
    BY <1>1, <1>2 DEF OnceInv
  <2> QED
    BY <1>1, <1>2, <1>3, <1>4, <1>5, <2>1, RingRests
<1>6. CASE sent' # sent
  <2>1. Publish
    BY <1>6, LoggerBootedIs DEF Scan, CheckClient, TestCount, LoadHead, IncrementCount, MoveHead, SaveLog
  <2>2. /\ sent' = [sent EXCEPT ![scanned] = @ + 1] /\ qr.at = "send" /\ qr'.at = "idle"
        /\ UNCHANGED <<past, scanned, head, count>>
    BY <1>6, <2>1, QrAtIs DEF Publish, Took, QrGoes, ringVars
  <2>3. Fresh(scanned) /\ scanned \in Scans
    BY <2>2 DEF Fresh, TypeInv, PlaceInv, InHand, Booting
  <2>4. RepeatInv'
    BY <1>1, <2>2, <2>3, NewestSent
  <2>5. OnceInv'
    <3>1. Single(buf)'
      BY <1>1 DEF OnceInv, Single
    <3>2. \A e \in Scans : Fresh(e)' => Fresh(e) /\ sent'[e] = sent[e]
      BY <1>4, <2>2 DEF Fresh, TypeInv, PastT
    <3>3. /\ mqtt'.at \in {"publish", "pop"} => count' # 0
          /\ mqtt'.at = "publish" => mqtt'.event = buf'[head']
      BY <1>1, <2>2 DEF OnceInv
    <3> QED
      BY <1>1, <3>1, <3>2, <3>3, OnceStays
  <2> QED
    BY <2>4, <2>5
<1> QED
  BY <1>5, <1>6

\* A push clears its slot and fills it with an event that is nowhere yet.
LEMMA SlotRepeats ==
  ASSUME RepeatStart, ClearSlot \/ FillSlot
  PROVE  OnceInv' /\ RepeatInv'
<1> TypeInv /\ TypeInv' /\ ~raced /\ OnceInv /\ RepeatInv /\ ApartInv'
  BY DEF RepeatStart
<1>1. /\ UNCHANGED <<nvs, mqtt, sent, head, count, scanned>>
      /\ \/ buf' = [buf EXCEPT ![tail] = Blank] /\ qr.at = "clear" /\ qr'.at = "fill"
         \/ buf' = [buf EXCEPT ![tail] = scanned] /\ qr.at = "fill" /\ qr'.at = "test"
  BY QrAtIs DEF ClearSlot, FillSlot, QrGoes
<1>2. mqtt.at \notin {"publish", "pop", "save"}
  BY <1>1 DEF RepeatStart, ApartInv, InStore, InFlush, Storing
<1>3. Cost <= Cost'
  <2>1. past'.cuts = past.cuts /\ past'.faults = past.faults
    BY DEF ClearSlot, FillSlot, TypeInv, PastT, PastRec
  <2> QED
    BY <2>1 DEF Cost, TypeInv, PastT, PastRec
<1>4. buf \in [Slots -> Entry] /\ tail \in Slots /\ scanned \in Scans /\ Fresh(scanned)
  BY <1>1 DEF TypeInv, RingT, PlaceInv, InHand, Booting, Fresh
<1>5. \A s \in Slots : buf[s] # scanned /\ ~(sent[scanned] > 0)
  BY <1>4 DEF OnceInv, Untouched
<1>6. Single(buf)'
  <2>1. CASE buf' = [buf EXCEPT ![tail] = Blank]
    BY <1>4, <2>1 DEF OnceInv, Single
  <2>2. CASE buf' = [buf EXCEPT ![tail] = scanned]
    BY <1>4, <1>5, <2>2 DEF OnceInv, Single
  <2> QED
    BY <1>1, <2>1, <2>2
<1>7. OnceInv'
  <2>1. \A e \in Scans : Fresh(e)' => Fresh(e) /\ \A s \in Slots : buf'[s] = e => buf[s] = e
    <3> SUFFICES ASSUME NEW e \in Scans, Fresh(e)', NEW s \in Slots
                 PROVE  Fresh(e) /\ (buf'[s] = e => buf[s] = e)
      BY <1>1 DEF Fresh
    <3>1. CASE qr.at = "clear"
      BY <1>1, <1>4, <3>1, CameraAssumption DEF Fresh
    <3>2. CASE qr.at = "fill"
      <4>1. e > scanned /\ e # scanned
        BY <1>1, <1>4, <3>2 DEF Fresh, Scans
      <4> QED
        BY <1>1, <1>4, <3>2, <4>1 DEF Fresh
    <3> QED
      BY <1>1, <3>1, <3>2
  <2> QED
    BY <1>1, <1>2, <1>6, <2>1, OnceStays
<1>8. RepeatInv'
  <2>1. /\ ~Unsaved /\ ~Unsaved' /\ \A e : InFlash(e)' => InFlash(e)
    BY <1>1, <1>2 DEF Unsaved, InFlash
  <2>3. CASE buf' = [buf EXCEPT ![tail] = Blank]
    <3>1. \A e \in Scans : InQueue(e)' => InQueue(e)
      BY <1>1, <1>2, <1>4, <2>3, CameraAssumption DEF InQueue
    <3> QED
      BY <1>1, <1>3, <2>1, <3>1, NothingSent
  <2>4. CASE buf' = [buf EXCEPT ![tail] = scanned]
    <3>1. \A e \in Scans : InQueue(e)' => InQueue(e) \/ e = scanned
      BY <1>1, <1>2, <1>4, <2>4 DEF InQueue
    <3>2. \A e \in Scans : sent[e] > 0 /\ InQueue(e)' => InQueue(e)
      BY <1>4, <1>5, <3>1
    <3> QED
      BY <1>1, <1>3, <2>1, <3>2, NothingSent
  <2> QED
    BY <1>1, <2>3, <2>4
<1> QED
  BY <1>7, <1>8

LEMMA SaveRingRepeats ==
  ASSUME RepeatStart, NEW b \in BOOLEAN, SaveRing(b)
  PROVE  OnceInv' /\ RepeatInv'
<1> TypeInv /\ TypeInv' /\ ~raced /\ OnceInv /\ RepeatInv /\ ApartInv
  BY DEF RepeatStart
<1>1. /\ qr.at \in {"save", "reset"} /\ qr'.at \in {"save", "reset", "idle", "load_log"}
      /\ UNCHANGED <<buf, head, tail, count, sent, scanned, mqtt>>
      /\ nvs'.buf = nvs.buf \/ nvs'.buf = buf
  <2>1. qr'.at \in {"save", "reset", "idle", "load_log"}
    BY SaveRingIs, QrAtIs DEF TypeInv, QrT, QrRec
  <2> QED
    BY <2>1, SaveRingIs DEF ringVars
<1>2. mqtt.at \notin {"publish", "pop", "save"}
  BY <1>1 DEF ApartInv, InStore, InFlush, Storing, TypeInv, PlaceInv, Booting
<1>3. Cost <= Cost'
  BY CostGrows DEF SaveRing
<1>4. OnceInv'
  <2>1. Single(buf)'
    BY <1>1 DEF OnceInv, Single
  <2>2. \A e \in Scans : Fresh(e)' => Fresh(e)
    BY <1>1 DEF Fresh
  <2> QED
    BY <1>1, <1>2, <2>1, <2>2, OnceStays
<1>5. RepeatInv'
  <2>1. ~Unsaved /\ ~Unsaved' /\ \A e : InQueue(e)' => InQueue(e)
    BY <1>1, <1>2 DEF Unsaved, InQueue
  <2>2. \A e : InFlash(e)' => InFlash(e) \/ InQueue(e)
    BY <1>1, <1>2, AbsentAssumption, SlotsAre DEF InFlash, InQueue
  <2> QED
    BY <1>1, <1>3, <2>1, <2>2, NothingSent
<1> QED
  BY <1>4, <1>5

LEMMA MqttRepeats ==
  ASSUME RepeatStart, MqttConnected \/ MqttDisconnected \/ PeekOldest \/ PublishOldest
  PROVE  OnceInv' /\ RepeatInv'
<1> TypeInv /\ TypeInv' /\ ~raced /\ OnceInv /\ RepeatInv
  BY DEF RepeatStart
<1>1. /\ UNCHANGED <<buf, head, tail, count, nvs, past, qr, scanned>>
      /\ mqtt.at \in {"idle", "peek", "publish"}
  BY DEF MqttConnected, MqttDisconnected, PeekOldest, PublishOldest, MqttGoes, ringVars
<1>2. Cost <= Cost' /\ \A e \in Scans : Fresh(e)' <=> Fresh(e)
  BY <1>1, CostStays DEF Fresh
<1>3. \/ mqtt'.at \in {"idle", "peek"} /\ sent' = sent
      \/ mqtt'.at = "publish" /\ mqtt'.event = buf[head] /\ count # 0 /\ sent' = sent
      \/ /\ mqtt.at = "publish" /\ mqtt'.at = "pop" /\ mqtt.event # Blank
         /\ sent' = [sent EXCEPT ![mqtt.event] = @ + 1]
  <2>1. CASE MqttConnected \/ MqttDisconnected
    BY <2>1, MqttAtIs DEF MqttConnected, MqttDisconnected, MqttGoes
  <2>2. CASE PeekOldest
    BY <2>2, MqttAtIs DEF PeekOldest, MqttGoes, MqttAt
  <2>3. CASE PublishOldest
    <3>1. [MqttAt("idle") EXCEPT !.refused = TRUE].at = "idle"
      BY DEF MqttAt
    <3>2. MqttAt("pop").at = "pop"
      BY MqttAtIs
    <3>3. CASE mqtt.event # Blank /\ Took(mqtt.event) /\ MqttGoes(MqttAt("pop"))
      BY <2>3, <3>2, <3>3 DEF PublishOldest, MqttGoes, Took
    <3>4. CASE MqttGoes([MqttAt("idle") EXCEPT !.refused = TRUE]) /\ UNCHANGED sent
      BY <3>1, <3>4 DEF MqttGoes
    <3> QED
      BY <2>3, <3>3, <3>4 DEF PublishOldest
  <2> QED
    BY <2>1, <2>2, <2>3
<1>4. ~Unsaved /\ mqtt.at # "pop"
  BY <1>1 DEF Unsaved
<1>5. CASE mqtt'.at # "pop" /\ sent' = sent
  BY <1>1, <1>2, <1>3, <1>4, <1>5, RingRests
<1>6. CASE mqtt.at = "publish" /\ mqtt'.at = "pop" /\ mqtt.event # Blank
           /\ sent' = [sent EXCEPT ![mqtt.event] = @ + 1]
  <2>1. RepeatInv'
    BY <1>1, <1>6, OldestSent
  <2>2. count # 0 /\ mqtt.event = buf[head] /\ head \in Slots
    BY <1>6 DEF OnceInv, TypeInv, RingT
  <2>3. \A e \in Scans : Fresh(e)' => Fresh(e) /\ sent'[e] = sent[e]
    BY <1>2, <1>6, <2>2 DEF OnceInv, Untouched, TypeInv, PastT
  <2>4. Single(buf)'
    BY <1>1 DEF OnceInv, Single
  <2>5. OnceInv'
    BY <1>1, <1>6, <2>2, <2>3, <2>4, OnceStays
  <2> QED
    BY <2>1, <2>5
<1> QED
  BY <1>3, <1>5, <1>6

LEMMA PopRepeats ==
  ASSUME RepeatStart, PopOldest
  PROVE  OnceInv' /\ RepeatInv'
<1> TypeInv /\ TypeInv' /\ ~raced /\ OnceInv /\ RepeatInv
  BY DEF RepeatStart
<1>1. mqtt.at = "pop" /\ count # 0
  BY DEF PopOldest, OnceInv
<1>2. /\ UNCHANGED <<nvs, past, qr, scanned, sent>>
      /\ buf' = [buf EXCEPT ![head] = Blank] /\ mqtt' = [MqttAt("save") EXCEPT !.key = 1]
  BY <1>1 DEF PopOldest, MqttGoes, Queue!SetRing, Queue!Popped
<1>3. mqtt'.at = "save" /\ mqtt'.key = 1
  BY <1>2 DEF MqttAt
<1>4. buf \in [Slots -> Entry] /\ head \in Slots
  BY DEF TypeInv, RingT
<1>5. \A e \in Scans, s \in Slots : buf'[s] = e => buf[s] = e /\ s # head
  BY <1>2, <1>4, CameraAssumption
<1>6. OnceInv'
  <2>1. Single(buf)'
    BY <1>2, <1>4 DEF OnceInv, Single
  <2>2. \A e \in Scans : Fresh(e)' => Fresh(e)
    BY <1>2 DEF Fresh
  <2> QED
    BY <1>2, <1>3, <1>5, <2>1, <2>2, OnceStays
<1>7. RepeatInv'
  <2>1. Cost <= Cost' /\ Unsaved'
    BY <1>2, <1>3, CostStays DEF Unsaved
  <2>2. \A e \in Scans : (InQueue(e)' => InQueue(e)) /\ (InFlash(e)' => InFlash(e))
    BY <1>2, <1>5 DEF InQueue, InFlash
  <2> QED
    BY <1>2, <2>1, <2>2, NothingSent
<1> QED
  BY <1>6, <1>7

LEMMA SavePopRepeats ==
  ASSUME RepeatStart, NEW b \in BOOLEAN, SavePop(b)
  PROVE  OnceInv' /\ RepeatInv'
<1> TypeInv /\ TypeInv' /\ ~raced /\ OnceInv /\ RepeatInv
  BY DEF RepeatStart
<1>1. /\ mqtt.at = "save" /\ mqtt.key \in 1..4
      /\ UNCHANGED <<buf, head, tail, count, sent, qr, scanned>>
      /\ nvs'.buf = IF b /\ mqtt.key = 1 THEN buf ELSE nvs.buf
      /\ mqtt' = IF mqtt.key < 4 THEN [mqtt EXCEPT !.key = mqtt.key + 1, !.ok = mqtt.ok /\ b]
                 ELSE MqttAt(IF mqtt.ok /\ b THEN "peek" ELSE "idle")
  BY SavePopIs DEF ringVars
<1>2. mqtt'.at \in {"save", "peek", "idle"} /\ ~Unsaved'
  <2>1. CASE mqtt.key < 4
    <3>1. mqtt'.at = "save" /\ mqtt'.key = mqtt.key + 1
      BY <1>1, <2>1 DEF TypeInv, MqttT, MqttRec
    <3> QED
      BY <1>1, <3>1 DEF Unsaved
  <2>2. CASE ~(mqtt.key < 4)
    <3>1. mqtt' = MqttAt("peek") \/ mqtt' = MqttAt("idle")
      BY <1>1, <2>2
    <3>2. mqtt'.at \in {"peek", "idle"}
      BY <3>1, MqttAtIs
    <3> QED
      BY <3>2 DEF Unsaved
  <2> QED
    BY <2>1, <2>2
<1>3. Cost <= Cost' /\ (~b => Cost < Cost')
  BY CostGrows DEF SavePop
<1>4. OnceInv'
  <2>1. Single(buf)'
    BY <1>1 DEF OnceInv, Single
  <2>2. \A e \in Scans : Fresh(e)' => Fresh(e)
    BY <1>1 DEF Fresh
  <2> QED
    BY <1>1, <1>2, <2>1, <2>2, OnceStays
<1>5. RepeatInv'
  <2>1. \A e \in Scans : InQueue(e)' => InQueue(e)
    BY <1>1, <1>2 DEF InQueue
  <2>2. \A e \in Scans : InFlash(e)' => InFlash(e) \/ InQueue(e)
    BY <1>1 DEF InFlash, InQueue
  <2>3. Unsaved => Cost < Cost' \/ \A e \in Scans : InFlash(e)' => InQueue(e)
    BY <1>1, <1>3 DEF Unsaved, InFlash, InQueue
  <2> QED
    BY <1>1, <1>2, <1>3, <2>1, <2>2, <2>3, NothingSent
<1> QED
  BY <1>4, <1>5

LEMMA PowerRepeats ==
  ASSUME RepeatStart, PowerLoss \/ \E b \in BOOLEAN : QueueBooted(b)
  PROVE  OnceInv' /\ RepeatInv'
<1> TypeInv /\ TypeInv' /\ ~raced /\ OnceInv /\ RepeatInv
  BY DEF RepeatStart
<1>1. /\ UNCHANGED <<nvs, sent, scanned>> /\ qr'.at \in {"off", "load_log", "reset"}
      /\ mqtt'.at = "idle" /\ (Unsaved => Cost < Cost') /\ Cost <= Cost'
      /\ \/ nvs.buf # Absent /\ buf' = nvs.buf /\ ~Unsaved
         \/ buf' = Queue!Reset.buf
  <2>1. CASE PowerLoss
    <3>1. past'.cuts = past.cuts + 1 /\ past'.faults = past.faults
      BY <2>1 DEF PowerLoss, TypeInv, PastT, PastRec
    <3>2. Cost < Cost' /\ Cost <= Cost'
      BY <3>1 DEF Cost, TypeInv, PastT, PastRec
    <3> QED
      BY <2>1, <3>2, PowerLossIs, QrAtIs, MqttAtIs
  <2>2. ASSUME NEW b \in BOOLEAN, QueueBooted(b)
        PROVE  /\ UNCHANGED <<nvs, sent, scanned>> /\ qr'.at \in {"off", "load_log", "reset"}
               /\ mqtt'.at = "idle" /\ ~Unsaved /\ Cost <= Cost'
               /\ (nvs.buf # Absent /\ buf' = nvs.buf) \/ buf' = Queue!Reset.buf
    <3>1. mqtt.at = "idle" /\ mqtt' = mqtt /\ UNCHANGED <<nvs, sent, scanned>>
      BY <2>2, QueueBootedIs DEF TypeInv, PlaceInv, Booting
    <3>2. Cost <= Cost'
      BY <2>2, QueueBootedIs, CostGrows
    <3>3. /\ qr'.at \in {"load_log", "reset"}
          /\ (nvs.buf # Absent /\ buf' = nvs.buf) \/ buf' = Queue!Reset.buf
      BY <2>2, QueueBootedIs, QrAtIs
    <3> QED
      BY <3>1, <3>2, <3>3 DEF Unsaved
  <2> QED
    BY <2>1, <2>2
<1>2. \A e \in Scans, s \in Slots : buf'[s] = e => nvs.buf # Absent /\ nvs.buf[s] = e /\ ~Unsaved
  BY <1>1, ResetIs, CameraAssumption
<1>3. OnceInv'
  <2>1. Single(buf)'
    BY <1>1, ResetIs DEF OnceInv, Single
  <2>2. \A e \in Scans : Fresh(e)' => Fresh(e)
    BY <1>1 DEF Fresh
  <2> QED
    BY <1>1, <1>2, <2>1, <2>2, OnceStays
<1>4. RepeatInv'
  <2>1. \A e \in Scans : InQueue(e)' => InFlash(e) /\ ~Unsaved
    BY <1>2 DEF InQueue, InFlash
  <2>2. \A e : InFlash(e)' => InFlash(e)
    BY <1>1 DEF InFlash
  <2> QED
    BY <1>1, <2>1, <2>2, NothingSent
<1> QED
  BY <1>3, <1>4

LEMMA EraseRepeats ==
  ASSUME RepeatStart, EraseNvs
  PROVE  OnceInv' /\ RepeatInv'
<1> TypeInv /\ TypeInv' /\ ~raced /\ OnceInv /\ RepeatInv
  BY DEF RepeatStart
<1>1. /\ UNCHANGED <<buf, head, count, sent, scanned, qr, mqtt>> /\ nvs'.buf = Absent
      /\ Cost <= Cost'
  <2>1. Access(FALSE)
    BY EraseIs
  <2>2. Cost <= Cost'
    BY <2>1, CostGrows
  <2>3. UNCHANGED <<buf, head, count, sent, scanned, qr, mqtt>> /\ nvs'.buf = Absent
    BY EraseIs
  <2> QED
    BY <2>2, <2>3
<1>2. OnceInv'
  <2>1. Single(buf)'
    BY <1>1 DEF OnceInv, Single
  <2>2. \A e \in Scans : Fresh(e)' => Untouched(e)'
    BY <1>1 DEF OnceInv, Fresh, Untouched, InFlash
  <2> QED
    BY <1>1, <2>1, <2>2 DEF OnceInv
<1>3. RepeatInv'
  <2>1. Unsaved <=> Unsaved'
    BY <1>1 DEF Unsaved
  <2>2. \A e \in Scans : (InQueue(e)' => InQueue(e)) /\ ~InFlash(e)'
    BY <1>1 DEF InQueue, InFlash
  <2> QED
    BY <1>1, <2>1, <2>2, NothingSent
<1> QED
  BY <1>2, <1>3

LEMMA InitRepeats == Init => OnceInv /\ RepeatInv
<1> SUFFICES ASSUME Init PROVE OnceInv /\ RepeatInv
  OBVIOUS
<1>1. /\ TypeInv /\ nvs.buf = Absent /\ buf = Queue!Reset.buf /\ mqtt.at = "idle"
      /\ \A e \in Scans : sent[e] = 0
  BY InitTypeInv, MqttAtIs DEF Init, Queue!Reset, Queue!NothingStored
<1>2. Cost \in Nat
  BY <1>1, CostIs
<1>3. \A e \in Scans : ~InFlash(e) /\ \A s \in Slots : buf[s] # e
  BY <1>1, ResetIs, CameraAssumption DEF InFlash
<1>4. OnceInv
  BY <1>1, <1>3, ResetIs DEF OnceInv, Single, Untouched
<1>5. RepeatInv
  <2>1. Again = {} /\ Again \ {Blank} = {} /\ Blank \in Entry
    BY <1>1 DEF Again, Entry
  <2>2. Cardinality({}) = 0
    BY FS_EmptySet
  <2>3. \A e \in Scans : sent[e] <= Cost + 1 /\ sent[e] <= Cost
    BY <1>1, <1>2
  <2>4. Cardinality(Again \ {Blank}) <= Cost
    BY <1>2, <2>1, <2>2
  <2> QED
    BY <2>1, <2>3, <2>4 DEF RepeatInv
<1> QED
  BY <1>4, <1>5

LEMMA RepeatStep ==
  TypeInv /\ ApartInv /\ OnceInv /\ RepeatInv /\ [Next]_vars => OnceInv' /\ RepeatInv'
<1> SUFFICES ASSUME TypeInv, ApartInv, OnceInv, RepeatInv, [Next]_vars PROVE OnceInv' /\ RepeatInv'
  OBVIOUS
<1>1. CASE raced'
  BY <1>1 DEF OnceInv, RepeatInv
<1>2. CASE ~raced'
  <2>1. RepeatStart
    BY <1>2, StepTypes, ApartStep, RacedStays DEF RepeatStart
  <2>2. CASE \/ Scan \/ CheckClient \/ Publish \/ TestCount \/ LoadHead \/ IncrementCount \/ MoveHead
    BY <2>1, <2>2, QrRepeats
  <2>3. CASE ClearSlot \/ FillSlot
    BY <2>1, <2>3, SlotRepeats
  <2>4. CASE MqttConnected \/ MqttDisconnected \/ PeekOldest \/ PublishOldest \/ PopOldest
    BY <2>1, <2>4, MqttRepeats, PopRepeats
  <2>5. ASSUME NEW b \in BOOLEAN,
               SaveLog(b) \/ SaveRing(b) \/ SavePop(b) \/ QueueBooted(b) \/ LoggerBooted(b)
        PROVE  OnceInv' /\ RepeatInv'
    BY <2>1, <2>5, QrRepeats, SaveRingRepeats, SavePopRepeats, PowerRepeats
  <2>6. CASE PowerLoss
    BY <2>1, <2>6, PowerRepeats
  <2>8. CASE EraseNvs
    BY <2>1, <2>8, EraseRepeats
  <2>7. CASE UNCHANGED vars
    <3>1. UNCHANGED <<buf, head, count, nvs, qr, mqtt, scanned, sent, past>>
      BY <2>7 DEF vars, ringVars
    <3>2. TypeInv' /\ Cost <= Cost' /\ ~raced
      BY <2>1, <3>1, CostStays DEF RepeatStart
    <3>3. (Unsaved <=> Unsaved') /\ \A e \in Scans : Fresh(e)' => Fresh(e)
      BY <3>1 DEF Unsaved, Fresh
    <3>4. /\ mqtt'.at \in {"publish", "pop"} => count' # 0
          /\ mqtt'.at = "publish" => mqtt'.event = buf'[head']
      BY <3>1, <3>2 DEF OnceInv
    <3> QED
      BY <3>1, <3>2, <3>3, <3>4, RingRests
  <2> QED
    BY NextIs, <2>2, <2>3, <2>4, <2>5, <2>6, <2>7, <2>8
<1> QED
  BY <1>1, <1>2

\* Invariant of the runs: unless the two tasks met in the ring, each power cut and each
\* fault of NVS makes at most one event be published again, also where it leaves a torn
\* queue behind, and no event more often than there were cuts and faults.
THEOREM RepeatsArePaid == Spec => []OneRepeatPerCut
<1>1. TypeInv /\ RepeatInv => OneRepeatPerCut
  <2> SUFFICES ASSUME TypeInv, RepeatInv, ~raced
               PROVE  /\ Cardinality(Repeated) <= past.cuts + past.faults
                      /\ \A e \in Scans : sent[e] <= 1 + past.cuts + past.faults
    BY DEF OneRepeatPerCut
  <2>1. PICK c \in Entry : /\ Cardinality(Again \ {c}) <= Cost /\ (c # Blank => sent[c] = 1)
    BY DEF RepeatInv
  <2>2. Cost \in Nat /\ Cost = past.cuts + past.faults /\ past.cuts \in Nat /\ past.faults \in Nat
    BY DEF Cost, TypeInv, PastT, PastRec
  <2>3. Repeated \subseteq Again \ {c} /\ (Again \ {c}) \subseteq Scans
    BY <2>1, CameraAssumption DEF Repeated, Again
  <2>4. /\ Cardinality(Repeated) <= Cardinality(Again \ {c})
        /\ Cardinality(Repeated) \in Nat /\ Cardinality(Again \ {c}) \in Nat
    <3>1. IsFiniteSet(Again \ {c}) /\ Cardinality(Again \ {c}) \in Nat
      BY <2>3, ScansFinite
    <3> QED
      BY <2>3, <3>1, FS_Subset, FS_CardinalityType
  <2>5. Cardinality(Repeated) <= past.cuts + past.faults
    BY <2>1, <2>2, <2>4
  <2>6. \A e \in Scans : sent[e] <= 1 + past.cuts + past.faults
    <3> SUFFICES ASSUME NEW e \in Scans PROVE sent[e] <= 1 + past.cuts + past.faults
      OBVIOUS
    <3>1. sent[e] <= Cost + 1 /\ sent[e] \in Nat
      BY DEF RepeatInv, TypeInv, PastT
    <3> QED
      BY <2>2, <3>1
  <2> QED
    BY <2>5, <2>6
<1>2. Init => ApartInv
  BY InitAccount
<1> QED
  BY <1>1, <1>2, TypesHold, ApartStep, InitRepeats, RepeatStep, PTL DEF Spec
=============================================================================
