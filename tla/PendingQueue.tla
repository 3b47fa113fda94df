---------------------------- MODULE PendingQueue ----------------------------
(***************************************************************************)
(* components/pending_queue/pending_queue.c: a ring of events in RAM that  *)
(* is saved after every change with four writes to NVS - the whole buffer, *)
(* head, tail, count - each committed on its own.  Any write may fail, and *)
(* the board may lose power between two of them; pending_queue_init then   *)
(* builds the ring from whatever the four keys hold.                       *)
(*                                                                         *)
(* One task uses the queue at a time, as on the LCD board, where only      *)
(* FSM_TASK pushes, peeks and pops.  An event is its identity, and Blank   *)
(* is a slot after memset: timestamp 0 and no topic.                       *)
(***************************************************************************)
EXTENDS Integers, Sequences

CONSTANTS Events, Blank, Absent, Size

ASSUME SizeAssumption == Size \in Nat \ {0}
ASSUME BlankAssumption == Blank \notin Events
ASSUME AbsentAssumption ==
  Absent \notin 0..Size /\ Absent \notin [0..(Size - 1) -> Events \cup {Blank}]

Slots == 0..(Size - 1)

\* Mutant: pending_queue_save writes the counter first.
Keys_CountFirst == <<"count", "buf", "head", "tail">>

Keys == <<"buf", "head", "tail", "count">>  \* in the order of the writes

VARIABLES
  up,      \* s_initialized, and the board has power
  buf, head, tail, count,  \* s_buffer, s_head, s_tail, s_count
  nvs,     \* the four keys, each Absent until it is written
  writing, \* index in Keys of the next write of pending_queue_save, 0: none
  ok,      \* what pending_queue_save returns if its last writes succeed
  attempt, \* history: the operation that changed the ring last, the events it
           \* found, and whether it found the ring sound and saved
  damaged  \* history: a save was cut or failed, or a key was not readable

ring == <<buf, head, tail, count>>
vars == <<up, buf, head, tail, count, nvs, writing, ok, attempt, damaged>>

Emptied == [s \in Slots |-> Blank]
Ram     == [buf |-> buf, head |-> head, tail |-> tail, count |-> count]
Reset   == [buf |-> Emptied, head |-> 0, tail |-> 0, count |-> 0]
\* The events of a ring, oldest first, as peek and pop would return them.
Content(r) == [i \in 1..r.count |-> r.buf[(r.head + i - 1) % Size]]

Sound(r) ==
  /\ r.tail = (r.head + r.count) % Size
  /\ \A i \in 1..r.count : Content(r)[i] # Blank

SetRing(r) == buf' = r.buf /\ head' = r.head /\ tail' = r.tail /\ count' = r.count

\* The ring changes in RAM first; pending_queue_save starts.
StartSave(op) ==
  /\ writing' = 1 /\ ok' = TRUE
  /\ attempt' = [op |-> op, found |-> Content(Ram),
                 sound |-> Sound(Ram) /\ nvs = Ram]

NoAttempt == [op |-> "none", found |-> <<>>, sound |-> TRUE]

Idle == up /\ writing = 0

-----------------------------------------------------------------------------
\* Mutant: the ring starts again at the slot before the one it filled.
After_Stuck(i) == IF i = Size - 1 THEN i ELSE i + 1

After(i) == (i + 1) % Size

\* Mutant: an overwritten oldest event does not move head.
Pushed_KeepsHead(e) ==
  [ buf   |-> [buf EXCEPT ![tail] = e],
    tail  |-> After(tail),
    count |-> IF count < Size THEN count + 1 ELSE count,
    head  |-> head ]

\* Mutant: the counter also grows when an event is overwritten.
Pushed_Overcounts(e) ==
  [ buf   |-> [buf EXCEPT ![tail] = e],
    tail  |-> After(tail),
    count |-> count + 1,
    head  |-> IF count < Size THEN head ELSE After(head) ]

\* The ring after a push: when it is full the oldest event is overwritten.
Pushed(e) ==
  [ buf   |-> [buf EXCEPT ![tail] = e],
    tail  |-> After(tail),
    count |-> IF count < Size THEN count + 1 ELSE count,
    head  |-> IF count < Size THEN head ELSE After(head) ]

Popped ==
  [ buf |-> [buf EXCEPT ![head] = Blank], head |-> After(head),
    tail |-> tail, count |-> count - 1 ]

\* An event is pushed once: it is not in the ring nor in an older copy of it.
Fresh(e) == /\ \A s \in Slots : buf[s] # e
            /\ nvs.buf # Absent => \A s \in Slots : nvs.buf[s] # e

Push(e) ==
  /\ Idle /\ Fresh(e)
  /\ SetRing(Pushed(e)) /\ StartSave("push")
  /\ UNCHANGED <<up, nvs, damaged>>

Pop ==
  /\ Idle /\ count > 0
  /\ SetRing(Popped) /\ StartSave("pop")
  /\ UNCHANGED <<up, nvs, damaged>>

\* Mutant: pending_queue_save stops reporting the failures of the buffer.
Write_Forgets(succeeds) ==
  /\ up /\ writing # 0
  /\ nvs' = IF succeeds THEN [nvs EXCEPT ![Keys[writing]] = Ram[Keys[writing]]]
            ELSE nvs
  /\ ok' = succeeds
  /\ writing' = IF writing = Len(Keys) THEN 0 ELSE writing + 1
  /\ damaged' = (damaged \/ ~succeeds)
  /\ UNCHANGED <<up, ring, attempt>>

\* One write of pending_queue_save.  A write that fails leaves its key as it was
\* and the next ones are still tried; the last one returns ok.
Write(succeeds) ==
  /\ up /\ writing # 0
  /\ nvs' = IF succeeds THEN [nvs EXCEPT ![Keys[writing]] = Ram[Keys[writing]]]
            ELSE nvs
  /\ ok' = (ok /\ succeeds)
  /\ writing' = IF writing = Len(Keys) THEN 0 ELSE writing + 1
  /\ damaged' = (damaged \/ ~succeeds)
  /\ UNCHANGED <<up, ring, attempt>>

-----------------------------------------------------------------------------
(* Restarting.                                                             *)

\* pending_queue_init takes an index that it does not read as it stands after reset.
Stored(key, default) == IF nvs[key] = Absent THEN default ELSE nvs[key]
Found(readable) ==
  LET Index(key) == IF key \in readable THEN Stored(key, 0) ELSE 0
  IN  [buf |-> nvs.buf, head |-> Index("head"), tail |-> Index("tail"), count |-> Index("count")]

AllKeys == {"buf", "head", "tail", "count"}
Loaded  == Found(AllKeys)

\* queue_is_valid looks at each index alone.
Valid(r) == r.head \in Slots /\ r.tail \in Slots /\ r.count \in 0..Size

\* readable: the keys that can be read, the buffer with its full size.
InitQueue(readable) ==
  /\ ~up /\ up' = TRUE
  /\ IF "buf" \in readable /\ nvs.buf # Absent /\ Valid(Found(readable))
     THEN SetRing(Found(readable)) /\ UNCHANGED <<writing, ok>>
     ELSE SetRing(Reset) /\ writing' = 1 /\ ok' = TRUE
  /\ attempt' = NoAttempt
  /\ damaged' = (damaged \/ readable # AllKeys)
  /\ UNCHANGED nvs

\* Power is lost: RAM is gone, NVS stays.
PowerLoss ==
  /\ up /\ up' = FALSE
  /\ SetRing(Reset) /\ writing' = 0
  /\ damaged' = (damaged \/ writing # 0)
  /\ UNCHANGED <<nvs, ok, attempt>>

NothingStored == [buf |-> Absent, head |-> Absent, tail |-> Absent, count |-> Absent]

\* nvs_storage_init, before the queue is up, erases a partition that is full or of
\* another version.
EraseNvs ==
  /\ ~up
  /\ nvs' = NothingStored /\ attempt' = NoAttempt
  /\ UNCHANGED <<up, ring, writing, ok, damaged>>

Init ==
  /\ up = FALSE /\ writing = 0 /\ ok = TRUE
  /\ buf = Emptied /\ head = 0 /\ tail = 0 /\ count = 0
  /\ nvs = NothingStored
  /\ attempt = NoAttempt /\ damaged = FALSE

Next ==
  \/ \E e \in Events : Push(e)
  \/ Pop
  \/ \E succeeds \in BOOLEAN : Write(succeeds)
  \/ \E readable \in SUBSET AllKeys : InitQueue(readable)
  \/ PowerLoss \/ EraseNvs

Spec == Init /\ [][Next]_vars

\* NVS works and keeps what it has, and power may be lost at any time.
PowerNext ==
  \/ \E e \in Events : Push(e)
  \/ Pop \/ Write(TRUE) \/ InitQueue(AllKeys) \/ PowerLoss

PowerSpec == Init /\ [][PowerNext]_vars

-----------------------------------------------------------------------------
Ring == [buf : [Slots -> Events \cup {Blank}], head : Slots, tail : Slots,
         count : 0..Size]

TypeOK ==
  /\ up \in BOOLEAN /\ ok \in BOOLEAN /\ writing \in 0..Len(Keys)
  /\ Ram \in Ring
  /\ nvs.buf \in [Slots -> Events \cup {Blank}] \cup {Absent}
  /\ nvs.head \in Slots \cup {Absent} /\ nvs.tail \in Slots \cup {Absent}
  /\ nvs.count \in 0..Size \cup {Absent}
  /\ attempt.op \in {"none", "push", "pop"}
  /\ attempt.sound \in BOOLEAN /\ Len(attempt.found) <= Size
  /\ damaged \in BOOLEAN

\* Whatever was torn before, an operation that returned true is durable: NVS
\* holds exactly the ring in RAM, and a restart finds it again.
TrueMeansDurable == Idle /\ ok /\ attempt.op # "none" => nvs = Ram

\* Power lost in the middle of a push to a ring that was sound, saved and not
\* full loses none of the older events nor their order, and invents none, as
\* long as no write of that push failed before.
TornPushKeepsOlder ==
  ~up /\ ok /\ attempt.op = "push" /\ attempt.sound /\ Len(attempt.found) < Size =>
    \/ Content(Loaded) = attempt.found
    \/ \E e \in Events : Content(Loaded) = Append(attempt.found, e)

\* Until a save is damaged the indices stay those of a ring over every restart:
\* the next free slot follows the newest event, and no visible slot was cleared.
RingShape == up /\ ~damaged => Sound(Ram)

\* mqtt_handler.c:794-796: the persistent queue is resent in FIFO order when MQTT
\* is back: its oldest event is an event, not a cleared slot that no publication
\* accepts and that stops every later flush at the same place.
HeadCanBeSent == up /\ count > 0 => buf[head] # Blank

Fifo == INSTANCE PendingFifo WITH
          fifo <- IF up THEN Content(Ram)
                  ELSE IF nvs.buf = Absent THEN <<>> ELSE Content(Loaded)

\* Power may come and go between operations: until a save is damaged the users
\* of the queue see the FIFO of PendingFifo, and a restart loses nothing, repeats
\* nothing, reorders nothing, or loses all to the erase of nvs_storage_init.
ImplementsFifo == Fifo!Spec
=============================================================================
