------------------------- MODULE PendingQueue_proofs -------------------------
(***************************************************************************)
(* PendingQueue for every set of events and every size of the ring: what a *)
(* successful operation promises is durable, a torn push costs no older    *)
(* event, and until a save is damaged the queue is the FIFO of PendingFifo.*)
(***************************************************************************)
EXTENDS PendingQueue, SequenceTheorems, TLAPS

Entry == Events \cup {Blank}

\* nvs and attempt are records of these fields: what TypeOK says of each field.
Flash   == [ buf : [Slots -> Entry] \cup {Absent}, head : Slots \cup {Absent},
             tail : Slots \cup {Absent}, count : 0..Size \cup {Absent} ]
Attempt == [op : {"none", "push", "pop"}, found : Seq(Entry), sound : BOOLEAN]

TypeInv ==
  /\ TypeOK
  /\ nvs \in Flash /\ attempt \in Attempt
  /\ ~up => writing = 0

\* The key is written: no write of it is ahead in the running save.
Written(i) == writing = 0 \/ i < writing

\* As long as its writes succeed, the save has copied the keys it is done with.
SaveInv ==
  up /\ ok /\ (writing # 0 \/ attempt.op # "none") =>
    /\ Written(1) => nvs.buf = buf
    /\ Written(2) => nvs.head = head
    /\ Written(3) => nvs.tail = tail
    /\ Written(4) => nvs.count = count

NeverStored == nvs = NothingStored

\* What an undamaged queue is, running and switched off.
ShapeInv ==
  ~damaged =>
    /\ ok
    /\ up => Sound(Ram)
    /\ up /\ writing = 0 => nvs = Ram
    /\ ~up => NeverStored \/ (nvs \in Ring /\ Sound(nvs))

\* The ring of buffer b and head h starts with the events a push found.
Keeps(b, h) == \A i \in 1..Len(attempt.found) : b[(h + (i - 1)) % Size] = attempt.found[i]
Newest(b, h) == b[(h + Len(attempt.found)) % Size]

\* The push to be saved found a sound and saved ring with room.
CleanPush ==
  /\ ok /\ attempt.op = "push" /\ attempt.sound /\ Len(attempt.found) < Size

\* Between its writes such a push leaves head alone in NVS, and its new event is
\* in the stored buffer before the counter reaches it.
TornInv ==
  CleanPush =>
    /\ nvs \in Ring /\ Keeps(nvs.buf, nvs.head)
    /\ nvs.count \in {Len(attempt.found), Len(attempt.found) + 1}
    /\ nvs.count = Len(attempt.found) + 1 => Newest(nvs.buf, nvs.head) \in Events
    /\ up => /\ head = nvs.head /\ count = Len(attempt.found) + 1
             /\ Keeps(buf, head) /\ Newest(buf, head) \in Events

IInv == TypeInv /\ SaveInv /\ ShapeInv /\ TornInv

-----------------------------------------------------------------------------
(* Slots of the ring.                                                      *)

\* A step of at most a whole turn from a slot, without the remainder.
LEMMA Turn ==
  ASSUME NEW a \in Slots, NEW b \in 0..Size
  PROVE  /\ (a + b) % Size = IF a + b < Size THEN a + b ELSE a + b - Size
         /\ (a + b) % Size \in Slots
BY SizeAssumption DEF Slots

LEMMA NoTurn ==
  ASSUME NEW a \in Slots
  PROVE  (a + 0) % Size = a
BY SizeAssumption DEF Slots

LEMMA AfterSlot ==
  ASSUME NEW a \in Slots
  PROVE  After(a) = (a + 1) % Size /\ After(a) \in Slots
BY Turn, SizeAssumption DEF After

\* The slots of a ring are distinct, and a step of i from the slot after h is a
\* step of i + 1 from h.
LEMMA Distinct ==
  ASSUME NEW h \in Slots, NEW i \in 0..(Size - 1), NEW j \in 0..(Size - 1), i # j
  PROVE  (h + i) % Size # (h + j) % Size
<1>1. (h + i) % Size = IF h + i < Size THEN h + i ELSE h + i - Size
  BY Turn, SizeAssumption
<1>2. (h + j) % Size = IF h + j < Size THEN h + j ELSE h + j - Size
  BY Turn, SizeAssumption
<1> QED
  BY <1>1, <1>2, SizeAssumption DEF Slots

LEMMA Shifted ==
  ASSUME NEW h \in Slots, NEW i \in 0..(Size - 1)
  PROVE  (After(h) + i) % Size = (h + (i + 1)) % Size
<1>1. After(h) = IF h + 1 < Size THEN h + 1 ELSE 0
  BY SizeAssumption DEF After, Slots
<1>2. (After(h) + i) % Size = IF After(h) + i < Size THEN After(h) + i ELSE After(h) + i - Size
  BY Turn, AfterSlot, SizeAssumption
<1>3. (h + (i + 1)) % Size = IF h + (i + 1) < Size THEN h + (i + 1) ELSE h + (i + 1) - Size
  BY Turn, SizeAssumption
<1> QED
  BY <1>1, <1>2, <1>3, SizeAssumption DEF Slots

\* The slot after the i-th one is the i+1-st; a whole turn ends where it began.
LEMMA NextSlot ==
  ASSUME NEW h \in Slots, NEW i \in 0..(Size - 1)
  PROVE  After((h + i) % Size) = (h + (i + 1)) % Size
<1>1. (h + i) % Size = IF h + i < Size THEN h + i ELSE h + i - Size
  BY Turn, SizeAssumption
<1>2. \A s \in Slots : After(s) = IF s + 1 < Size THEN s + 1 ELSE 0
  BY SizeAssumption DEF After, Slots
<1>3. (h + (i + 1)) % Size = IF h + (i + 1) < Size THEN h + (i + 1) ELSE h + (i + 1) - Size
  BY Turn, SizeAssumption
<1> QED
  BY <1>1, <1>2, <1>3, SizeAssumption DEF Slots

LEMMA WholeTurn ==
  ASSUME NEW h \in Slots
  PROVE  (h + Size) % Size = h
<1>1. Size \in 0..Size /\ ~(h + Size < Size) /\ h + Size - Size = h
  BY SizeAssumption DEF Slots
<1> QED
  BY <1>1, Turn

-----------------------------------------------------------------------------
(* The content of a ring.                                                  *)

\* The content is a sequence of count entries, the i-th from head on.
LEMMA ContentIs ==
  ASSUME NEW r, r.buf \in [Slots -> Entry], r.head \in Slots, r.count \in 0..Size
  PROVE  /\ Content(r) \in Seq(Entry) /\ Len(Content(r)) = r.count
         /\ \A i \in 1..r.count : Content(r)[i] = r.buf[(r.head + (i - 1)) % Size]
<1>1. \A i \in 1..r.count : r.head + i - 1 = r.head + (i - 1)
  BY SizeAssumption DEF Slots
<1>2. \A i \in 1..r.count : r.buf[(r.head + i - 1) % Size] \in Entry
  BY <1>1, Turn, SizeAssumption
<1>3. Content(r) = [i \in 1..r.count |-> r.buf[(r.head + i - 1) % Size]]
  BY DEF Content
<1>4. r.count \in Nat
  BY SizeAssumption
<1>5. Content(r) \in [1..r.count -> Entry]
  BY <1>2, <1>3
<1>6. Content(r) \in Seq(Entry) /\ Len(Content(r)) = r.count
  BY <1>4, <1>5
<1> QED
  BY <1>1, <1>3, <1>6

\* The new event of a ring with room comes last.
LEMMA ContentAppended ==
  ASSUME NEW r, r.buf \in [Slots -> Entry], r.head \in Slots, r.count \in 0..Size,
         NEW q, q.buf \in [Slots -> Entry], NEW e \in Entry,
         r.count < Size, q.head = r.head, q.count = r.count + 1,
         q.buf = [r.buf EXCEPT ![(r.head + r.count) % Size] = e]
  PROVE  Content(q) = Append(Content(r), e)
<1>1. /\ Content(q) \in Seq(Entry) /\ Len(Content(q)) = q.count
      /\ \A i \in 1..q.count : Content(q)[i] = q.buf[(q.head + (i - 1)) % Size]
  <2>1. q.head \in Slots /\ q.count \in 0..Size
    BY SizeAssumption
  <2> QED
    BY <2>1, ContentIs
<1>2. /\ Content(r) \in Seq(Entry) /\ Len(Content(r)) = r.count
      /\ \A i \in 1..r.count : Content(r)[i] = r.buf[(r.head + (i - 1)) % Size]
  BY ContentIs
<1>3. /\ Append(Content(r), e) \in Seq(Entry)
      /\ Len(Append(Content(r), e)) = r.count + 1
      /\ \A i \in 1..r.count : Append(Content(r), e)[i] = Content(r)[i]
      /\ Append(Content(r), e)[r.count + 1] = e
  BY <1>2, SizeAssumption
<1>4. ASSUME NEW i \in 1..(r.count + 1) PROVE Content(q)[i] = Append(Content(r), e)[i]
  <2>1. Content(q)[i] = q.buf[(r.head + (i - 1)) % Size]
    BY <1>1, SizeAssumption
  <2>2. CASE i = r.count + 1
    <3>1. (r.head + (i - 1)) % Size = (r.head + r.count) % Size
      BY <2>2, SizeAssumption
    <3>2. (r.head + r.count) % Size \in Slots
      BY Turn
    <3> QED
      BY <2>1, <2>2, <3>1, <3>2, <1>3
  <2>3. CASE i # r.count + 1
    <3>1. i \in 1..r.count /\ i - 1 \in 0..(Size - 1) /\ r.count \in 0..(Size - 1) /\ i - 1 # r.count
      BY <2>3, SizeAssumption
    <3>2. (r.head + (i - 1)) % Size # (r.head + r.count) % Size
      BY <3>1, Distinct
    <3>3. (r.head + (i - 1)) % Size \in Slots
      BY <3>1, Turn, SizeAssumption
    <3> QED
      BY <2>1, <1>2, <1>3, <3>1, <3>2, <3>3
  <2> QED
    BY <2>2, <2>3
<1> QED
  BY <1>1, <1>3, <1>4, SeqEqual

\* The ring without its oldest event, whatever its slot holds now.
LEMMA ContentTail ==
  ASSUME NEW r, r.buf \in [Slots -> Entry], r.head \in Slots, r.count \in 1..Size,
         NEW q, q.buf \in [Slots -> Entry], q.head = After(r.head), q.count = r.count - 1,
         \A s \in Slots \ {r.head} : q.buf[s] = r.buf[s]
  PROVE  Content(q) = Tail(Content(r))
<1>1. /\ Content(q) \in Seq(Entry) /\ Len(Content(q)) = q.count
      /\ \A i \in 1..q.count : Content(q)[i] = q.buf[(q.head + (i - 1)) % Size]
  BY ContentIs, AfterSlot, SizeAssumption
<1>2. /\ Content(r) \in Seq(Entry) /\ Len(Content(r)) = r.count
      /\ \A i \in 1..r.count : Content(r)[i] = r.buf[(r.head + (i - 1)) % Size]
  BY ContentIs, SizeAssumption
<1>3. Content(r) # <<>>
  BY <1>2, SizeAssumption
<1>4. /\ Tail(Content(r)) \in Seq(Entry) /\ Len(Tail(Content(r))) = r.count - 1
      /\ \A i \in 1..(r.count - 1) : Tail(Content(r))[i] = Content(r)[i + 1]
  BY <1>2, <1>3, HeadTailProperties
<1>5. ASSUME NEW i \in 1..(r.count - 1) PROVE Content(q)[i] = Tail(Content(r))[i]
  <2>1. i - 1 \in 0..(Size - 1) /\ i \in 0..(Size - 1) /\ i # 0 /\ i + 1 \in 1..r.count
    BY SizeAssumption
  <2>2. (q.head + (i - 1)) % Size = (r.head + i) % Size
    <3>1. (After(r.head) + (i - 1)) % Size = (r.head + ((i - 1) + 1)) % Size
      BY <2>1, Shifted
    <3> QED
      BY <3>1, SizeAssumption
  <2>3. (r.head + i) % Size \in Slots /\ (r.head + i) % Size # r.head
    <3>1. (r.head + 0) % Size = r.head
      BY NoTurn
    <3>2. 0 \in 0..(Size - 1) /\ i \in 0..Size
      BY <2>1, SizeAssumption
    <3>3. (r.head + i) % Size # (r.head + 0) % Size
      BY <2>1, <3>2, Distinct
    <3> QED
      BY <3>1, <3>2, <3>3, Turn
  <2>4. Tail(Content(r))[i] = r.buf[(r.head + i) % Size]
    <3>1. i + 1 - 1 = i
      BY SizeAssumption
    <3> QED
      BY <1>2, <1>4, <2>1, <3>1
  <2> QED
    BY <1>1, <2>2, <2>3, <2>4
<1> QED
  BY <1>1, <1>4, <1>5, SeqEqual

-----------------------------------------------------------------------------
(* Types.                                                                  *)

LEMMA KeysAre ==
  Len(Keys) = 4 /\ Keys[1] = "buf" /\ Keys[2] = "head" /\ Keys[3] = "tail" /\ Keys[4] = "count"
BY DEF Keys

LEMMA RamIs ==
  Ram.buf = buf /\ Ram.head = head /\ Ram.tail = tail /\ Ram.count = count
BY DEF Ram

\* The ring of TypeOK, field by field.
LEMMA RingIs ==
  ASSUME TypeOK
  PROVE  buf \in [Slots -> Entry] /\ head \in Slots /\ tail \in Slots /\ count \in 0..Size
BY DEF TypeOK, Ram, Ring, Entry

LEMMA RingTyped ==
  ASSUME buf \in [Slots -> Entry], head \in Slots, tail \in Slots, count \in 0..Size
  PROVE  Ram \in Ring
BY DEF Ram, Ring, Entry

\* TypeInv, variable by variable.
Flags == up \in BOOLEAN /\ ok \in BOOLEAN /\ damaged \in BOOLEAN

Typed ==
  /\ Flags /\ writing \in 0..4
  /\ buf \in [Slots -> Entry] /\ head \in Slots /\ tail \in Slots /\ count \in 0..Size
  /\ nvs \in Flash /\ attempt \in Attempt /\ Len(attempt.found) <= Size
  /\ ~up => writing = 0

LEMMA TypesSuffice == TypeInv <=> Typed
<1>1. ASSUME TypeInv PROVE Typed
  BY <1>1, RingIs, KeysAre DEF TypeInv, TypeOK, Typed, Flags
<1>2. ASSUME Typed PROVE TypeInv
  <2>1. Ram \in Ring
    BY <1>2, RingTyped DEF Typed
  <2>2. /\ nvs.buf \in [Slots -> Events \cup {Blank}] \cup {Absent}
        /\ nvs.head \in Slots \cup {Absent} /\ nvs.tail \in Slots \cup {Absent}
        /\ nvs.count \in 0..Size \cup {Absent}
    BY <1>2 DEF Flash, Entry, Typed
  <2>3. attempt.op \in {"none", "push", "pop"} /\ attempt.sound \in BOOLEAN
    BY <1>2 DEF Attempt, Typed
  <2> QED
    BY <1>2, <2>1, <2>2, <2>3, KeysAre DEF TypeInv, TypeOK, Typed, Flags
<1> QED
  BY <1>1, <1>2

LEMMA TypesNext == TypeInv' <=> Typed'
BY TypesSuffice, PTL

LEMMA SlotZero == 0 \in Slots /\ Emptied \in [Slots -> Entry]
BY SizeAssumption DEF Slots, Emptied, Entry

LEMMA NoAttemptType == NoAttempt \in Attempt /\ Len(NoAttempt.found) <= Size
<1>1. <<>> \in Seq(Entry) /\ Len(<<>>) = 0
  BY EmptySeq
<1> QED
  BY <1>1, SizeAssumption DEF NoAttempt, Attempt

\* What StartSave records fits its type.
LEMMA StartSaveType ==
  ASSUME TypeInv, NEW op \in {"push", "pop"}, StartSave(op)
  PROVE  /\ attempt' \in Attempt /\ Len(attempt'.found) = count
         /\ attempt'.op = op /\ attempt'.found = Content(Ram)
         /\ attempt'.sound <=> Sound(Ram) /\ nvs = Ram
         /\ writing' = 1 /\ ok' = TRUE
<1>1. Content(Ram) \in Seq(Entry) /\ Len(Content(Ram)) = count
  BY RingIs, RamIs, ContentIs DEF TypeInv
<1>2. (Sound(Ram) /\ nvs = Ram) \in BOOLEAN
  BY DEF Sound
<1> QED
  BY <1>1, <1>2 DEF StartSave, Attempt

\* One write of the save: the key it is at takes its value, the others stay.
LEMMA WriteOne ==
  ASSUME TypeInv, NEW succeeds \in BOOLEAN, Write(succeeds)
  PROVE  /\ nvs' \in Flash
         /\ nvs'.buf   = IF succeeds /\ writing = 1 THEN buf   ELSE nvs.buf
         /\ nvs'.head  = IF succeeds /\ writing = 2 THEN head  ELSE nvs.head
         /\ nvs'.tail  = IF succeeds /\ writing = 3 THEN tail  ELSE nvs.tail
         /\ nvs'.count = IF succeeds /\ writing = 4 THEN count ELSE nvs.count
         /\ writing' = IF writing = 4 THEN 0 ELSE writing + 1
<1>1. writing \in 1..4
  BY KeysAre DEF TypeInv, TypeOK, Write
<1>2. buf \in [Slots -> Entry] /\ head \in Slots /\ tail \in Slots /\ count \in 0..Size
  BY RingIs DEF TypeInv
<1>3. nvs \in Flash
  BY DEF TypeInv
<1>4. CASE ~succeeds
  BY <1>3, <1>4, KeysAre DEF Write
<1>5. CASE succeeds /\ writing = 1
  <2>1. nvs' = [nvs EXCEPT !.buf = buf]
    BY <1>5, KeysAre, RamIs DEF Write
  <2> QED
    BY <1>2, <1>3, <1>5, <2>1, KeysAre DEF Flash, Write
<1>6. CASE succeeds /\ writing = 2
  <2>1. nvs' = [nvs EXCEPT !.head = head]
    BY <1>6, KeysAre, RamIs DEF Write
  <2> QED
    BY <1>2, <1>3, <1>6, <2>1, KeysAre DEF Flash, Write
<1>7. CASE succeeds /\ writing = 3
  <2>1. nvs' = [nvs EXCEPT !.tail = tail]
    BY <1>7, KeysAre, RamIs DEF Write
  <2> QED
    BY <1>2, <1>3, <1>7, <2>1, KeysAre DEF Flash, Write
<1>8. CASE succeeds /\ writing = 4
  <2>1. nvs' = [nvs EXCEPT !.count = count]
    BY <1>8, KeysAre, RamIs DEF Write
  <2> QED
    BY <1>2, <1>3, <1>8, <2>1, KeysAre DEF Flash, Write
<1> QED
  BY <1>1, <1>4, <1>5, <1>6, <1>7, <1>8

\* A push and a pop, variable by variable.
LEMMA PushIs ==
  ASSUME NEW e \in Events, Push(e)
  PROVE  /\ up /\ writing = 0 /\ StartSave("push")
         /\ up' = up /\ nvs' = nvs /\ damaged' = damaged
         /\ buf' = [buf EXCEPT ![tail] = e] /\ tail' = After(tail)
         /\ count' = IF count < Size THEN count + 1 ELSE count
         /\ head' = IF count < Size THEN head ELSE After(head)
BY DEF Push, Idle, SetRing, Pushed

LEMMA PopIs ==
  ASSUME Pop
  PROVE  /\ up /\ writing = 0 /\ StartSave("pop")
         /\ up' = up /\ nvs' = nvs /\ damaged' = damaged
         /\ count > 0
         /\ buf' = [buf EXCEPT ![head] = Blank] /\ head' = After(head)
         /\ tail' = tail /\ count' = count - 1
BY DEF Pop, Idle, SetRing, Popped

LEMMA LossIs ==
  ASSUME PowerLoss
  PROVE  /\ up /\ up' = FALSE /\ writing' = 0 /\ UNCHANGED <<nvs, ok, attempt>>
         /\ buf' = Emptied /\ head' = 0 /\ tail' = 0 /\ count' = 0
         /\ damaged' = (damaged \/ writing # 0)
BY DEF PowerLoss, SetRing, Reset

\* The queue starts with the ring it could read, or empty and saving.
InitLoads(r) == /\ buf' = nvs.buf /\ head' = r.head /\ tail' = r.tail /\ count' = r.count
                /\ UNCHANGED <<writing, ok>>
InitResets == /\ buf' = Emptied /\ head' = 0 /\ tail' = 0 /\ count' = 0
              /\ writing' = 1 /\ ok' = TRUE

LEMMA InitIs ==
  ASSUME NEW readable \in SUBSET AllKeys, InitQueue(readable)
  PROVE  LET r == Found(readable)
             found == "buf" \in readable /\ nvs.buf # Absent /\ Valid(r)
         IN  /\ ~up /\ up' = TRUE /\ attempt' = NoAttempt /\ nvs' = nvs
             /\ damaged' = (damaged \/ readable # AllKeys)
             /\ \/ found /\ InitLoads(r)
                \/ ~found /\ InitResets
<1> DEFINE r == Found(readable)
<1>1. r.buf = nvs.buf
  BY DEF Found
<1> HIDE DEF r
<1>2. CASE "buf" \in readable /\ nvs.buf # Absent /\ Valid(r)
  <2>1. SetRing(r) /\ UNCHANGED <<writing, ok>>
    BY <1>2 DEF InitQueue, r
  <2> QED
    BY <1>1, <1>2, <2>1 DEF InitQueue, SetRing, InitLoads, r
<1>3. CASE ~("buf" \in readable /\ nvs.buf # Absent /\ Valid(r))
  <2>1. SetRing(Reset) /\ writing' = 1 /\ ok' = TRUE
    BY <1>3 DEF InitQueue, r
  <2> QED
    BY <1>3, <2>1 DEF InitQueue, SetRing, Reset, InitResets, r
<1> QED
  BY <1>2, <1>3

\* An undamaged queue was read as a whole.
LEMMA InitUndamaged ==
  ASSUME NEW readable \in SUBSET AllKeys, InitQueue(readable), ~damaged'
  PROVE  /\ ~up /\ up' /\ ~damaged /\ nvs' = nvs
         /\ nvs.buf # Absent /\ Valid(Loaded) => InitLoads(Loaded)
         /\ nvs.buf = Absent => InitResets
<1>1. damaged' = (damaged \/ readable # AllKeys)
  BY InitIs
<1>2. ~damaged /\ readable = AllKeys
  BY <1>1
<1>3. Found(readable) = Loaded /\ "buf" \in readable
  BY <1>2 DEF Loaded, AllKeys
<1> QED
  BY <1>2, <1>3, InitIs

LEMMA EraseIs ==
  ASSUME EraseNvs
  PROVE  /\ ~up /\ nvs' = NothingStored /\ attempt' = NoAttempt
         /\ UNCHANGED <<up, buf, head, tail, count, writing, ok, damaged>>
BY DEF EraseNvs, ring

LEMMA TypeInit == Init => TypeInv
<1> SUFFICES ASSUME Init PROVE Typed
  BY TypesSuffice
<1>1. nvs \in Flash
  BY DEF Init, NothingStored, Flash
<1>2. buf \in [Slots -> Entry] /\ head \in Slots /\ tail \in Slots /\ count \in 0..Size
  BY SlotZero, SizeAssumption DEF Init
<1>3. attempt \in Attempt /\ Len(attempt.found) <= Size
  BY NoAttemptType DEF Init
<1>4. Flags /\ writing = 0
  BY DEF Init, Flags
<1> QED
  BY <1>1, <1>2, <1>3, <1>4 DEF Typed

\* The Boolean variables stay Boolean.
LEMMA FlagsStep == Flags /\ [Next]_vars => Flags'
<1> SUFFICES ASSUME Flags, [Next]_vars PROVE Flags'
  OBVIOUS
<1>1. ASSUME NEW e \in Events, Push(e) PROVE Flags'
  BY <1>1, Zenon DEF Push, StartSave, Flags
<1>2. CASE Pop
  BY <1>2, Zenon DEF Pop, StartSave, Flags
<1>3. ASSUME NEW succeeds \in BOOLEAN, Write(succeeds) PROVE Flags'
  BY <1>3, Zenon DEF Write, Flags
<1>4. ASSUME NEW readable \in SUBSET AllKeys, InitQueue(readable) PROVE Flags'
  BY <1>4, Zenon DEF InitQueue, Flags
<1>5. CASE PowerLoss
  BY <1>5, Zenon DEF PowerLoss, Flags
<1>6. CASE EraseNvs
  BY <1>6 DEF EraseNvs, Flags
<1>7. CASE UNCHANGED vars
  BY <1>7 DEF vars, Flags
<1> QED
  BY <1>1, <1>2, <1>3, <1>4, <1>5, <1>6, <1>7 DEF Next

LEMMA TypeStep == TypeInv /\ [Next]_vars => TypeInv'
<1> SUFFICES ASSUME Typed, [Next]_vars PROVE Typed'
  BY TypesSuffice, TypesNext
<1>2. Flags'
  BY FlagsStep DEF Typed
<1> DEFINE RingNext == /\ buf' \in [Slots -> Entry] /\ head' \in Slots
                       /\ tail' \in Slots /\ count' \in 0..Size
<1>1. TypeInv
  BY TypesSuffice
<1>3. ASSUME NEW e \in Events, Push(e) PROVE Typed'
  <2>1. RingNext
    BY <1>3, PushIs, AfterSlot, SizeAssumption DEF Entry, Typed
  <2>2. attempt' \in Attempt /\ Len(attempt'.found) <= Size /\ writing' = 1
    <3>1. StartSave("push")
      BY <1>3, PushIs
    <3>2. attempt' \in Attempt /\ Len(attempt'.found) = count /\ writing' = 1
      BY <1>1, <3>1, StartSaveType
    <3> QED
      BY <3>2, SizeAssumption DEF Typed
  <2> QED
    BY <1>2, <1>3, <2>1, <2>2, PushIs DEF Typed
<1>4. CASE Pop
  <2>1. RingNext
    BY <1>4, PopIs, AfterSlot, SizeAssumption DEF Entry, Typed
  <2>2. attempt' \in Attempt /\ Len(attempt'.found) <= Size /\ writing' = 1
    BY <1>1, <1>4, PopIs, StartSaveType, SizeAssumption DEF Typed
  <2> QED
    BY <1>2, <1>4, <2>1, <2>2, PopIs DEF Typed
<1>5. ASSUME NEW succeeds \in BOOLEAN, Write(succeeds) PROVE Typed'
  <2>1. nvs' \in Flash /\ writing' \in 0..4
    BY <1>1, <1>5, WriteOne DEF Typed
  <2> QED
    BY <1>2, <1>5, <2>1 DEF Write, ring, Typed
<1>6. ASSUME NEW readable \in SUBSET AllKeys, InitQueue(readable) PROVE Typed'
  <2>1. /\ attempt' \in Attempt /\ Len(attempt'.found) <= Size
        /\ up' = TRUE /\ nvs' = nvs
    BY <1>6, InitIs, NoAttemptType
  <2>2. CASE nvs.buf # Absent /\ Valid(Found(readable)) /\ InitLoads(Found(readable))
    <3>1. RingNext
      BY <2>2 DEF InitLoads, Valid, Flash, Typed
    <3> QED
      BY <1>2, <1>6, <2>1, <2>2, <3>1, InitIs DEF InitLoads, Typed
  <2>3. CASE InitResets
    <3>1. RingNext
      BY <2>3, SlotZero, SizeAssumption DEF InitResets
    <3> QED
      BY <1>2, <2>1, <2>3, <3>1 DEF InitResets, Typed
  <2> QED
    BY <1>6, <2>2, <2>3, InitIs
<1>7. CASE PowerLoss
  <2>1. RingNext
    BY <1>7, LossIs, SlotZero, SizeAssumption
  <2> QED
    BY <1>2, <1>7, <2>1, LossIs DEF Typed
<1>8. CASE EraseNvs
  <2>1. nvs' \in Flash /\ attempt' \in Attempt /\ Len(attempt'.found) <= Size
    BY <1>8, EraseIs, NoAttemptType DEF NothingStored, Flash
  <2> QED
    BY <1>2, <1>8, <2>1, EraseIs DEF Typed
<1>9. CASE UNCHANGED vars
  BY <1>2, <1>9 DEF vars, ring, Typed
<1> QED
  BY <1>3, <1>4, <1>5, <1>6, <1>7, <1>8, <1>9 DEF Next

-----------------------------------------------------------------------------
(* Sound rings.                                                            *)

\* Soundness, slot by slot.
LEMMA SoundIs ==
  ASSUME NEW r, r.buf \in [Slots -> Entry], r.head \in Slots, r.count \in 0..Size
  PROVE  Sound(r) <=> /\ r.tail = (r.head + r.count) % Size
                      /\ \A i \in 0..(r.count - 1) : r.buf[(r.head + i) % Size] # Blank
<1>1. \A i \in 1..r.count : Content(r)[i] = r.buf[(r.head + (i - 1)) % Size]
  BY ContentIs
<1>2. ASSUME NEW i \in 0..(r.count - 1) PROVE i + 1 \in 1..r.count /\ (i + 1) - 1 = i
  BY SizeAssumption
<1>3. ASSUME NEW i \in 1..r.count PROVE i - 1 \in 0..(r.count - 1)
  BY SizeAssumption
<1>4. ASSUME \A i \in 1..r.count : Content(r)[i] # Blank, NEW i \in 0..(r.count - 1)
      PROVE  r.buf[(r.head + i) % Size] # Blank
  <2>1. Content(r)[i + 1] = r.buf[(r.head + ((i + 1) - 1)) % Size]
    BY <1>1, <1>2
  <2> QED
    BY <1>2, <1>4, <2>1
<1>5. ASSUME \A i \in 0..(r.count - 1) : r.buf[(r.head + i) % Size] # Blank, NEW i \in 1..r.count
      PROVE  Content(r)[i] # Blank
  BY <1>1, <1>3, <1>5
<1> QED
  BY <1>4, <1>5 DEF Sound

LEMMA SoundPush ==
  ASSUME NEW r \in Ring, Sound(r), NEW e \in Events, NEW q \in Ring,
         q.buf = [r.buf EXCEPT ![r.tail] = e], q.tail = After(r.tail),
         q.count = (IF r.count < Size THEN r.count + 1 ELSE r.count),
         q.head = (IF r.count < Size THEN r.head ELSE After(r.head))
  PROVE  Sound(q)
<1>1. /\ r.buf \in [Slots -> Entry] /\ r.head \in Slots /\ r.count \in 0..Size
      /\ q.buf \in [Slots -> Entry] /\ q.head \in Slots /\ q.count \in 0..Size
  BY DEF Ring, Entry
<1>2. /\ r.tail = (r.head + r.count) % Size /\ r.tail \in Slots
      /\ \A i \in 0..(r.count - 1) : r.buf[(r.head + i) % Size] # Blank
  BY <1>1, SoundIs, Turn
<1>3. e # Blank
  BY BlankAssumption
<1>4. SUFFICES /\ q.tail = (q.head + q.count) % Size
               /\ \A i \in 0..(q.count - 1) : q.buf[(q.head + i) % Size] # Blank
  BY <1>1, SoundIs
<1>5. CASE r.count < Size
  <2>1. q.count = r.count + 1 /\ q.head = r.head /\ r.count \in 0..(Size - 1)
    BY <1>1, <1>5, SizeAssumption
  <2>2. q.tail = (q.head + q.count) % Size
    BY <1>1, <1>2, <2>1, NextSlot
  <2>3. ASSUME NEW i \in 0..(q.count - 1) PROVE q.buf[(q.head + i) % Size] # Blank
    <3>1. i \in 0..Size /\ (i = r.count \/ i \in 0..(r.count - 1))
      BY <1>1, <2>1, SizeAssumption
    <3>2. (r.head + i) % Size \in Slots
      BY <1>1, <3>1, Turn
    <3> QED
      BY <1>1, <1>2, <1>3, <2>1, <3>1, <3>2
  <2> QED
    BY <2>2, <2>3
<1>6. CASE r.count = Size
  <2>1. q.count = Size /\ q.head = After(r.head)
    BY <1>6, SizeAssumption
  <2>2. r.tail = r.head
    BY <1>1, <1>2, <1>6, WholeTurn
  <2>3. q.tail = (q.head + q.count) % Size
    BY <1>1, <2>1, <2>2, WholeTurn
  <2>4. ASSUME NEW i \in 0..(q.count - 1) PROVE q.buf[(q.head + i) % Size] # Blank
    <3>1. i \in 0..(Size - 1) /\ i + 1 \in 0..Size
      BY <2>1, SizeAssumption
    <3>2. (q.head + i) % Size = (r.head + (i + 1)) % Size
      BY <1>1, <2>1, <3>1, Shifted
    <3>3. (r.head + (i + 1)) % Size \in Slots
      BY <1>1, <3>1, Turn
    <3>4. CASE i + 1 = Size
      <4>1. (r.head + (i + 1)) % Size = r.tail
        BY <1>2, <1>6, <3>4
      <4> QED
        BY <1>1, <1>3, <3>2, <3>3, <4>1
    <3>5. CASE i + 1 # Size
      <4>1. i + 1 \in 0..(r.count - 1)
        BY <1>6, <3>1, <3>5, SizeAssumption
      <4> QED
        BY <1>1, <1>2, <1>3, <3>2, <3>3, <4>1
    <3> QED
      BY <3>4, <3>5
  <2> QED
    BY <2>3, <2>4
<1> QED
  BY <1>1, <1>5, <1>6, SizeAssumption

LEMMA SoundPop ==
  ASSUME NEW r \in Ring, Sound(r), r.count > 0, NEW q \in Ring,
         q.buf = [r.buf EXCEPT ![r.head] = Blank], q.head = After(r.head),
         q.tail = r.tail, q.count = r.count - 1
  PROVE  Sound(q)
<1>1. /\ r.buf \in [Slots -> Entry] /\ r.head \in Slots /\ r.count \in 1..Size
      /\ q.buf \in [Slots -> Entry] /\ q.head \in Slots /\ q.count \in 0..Size
  BY SizeAssumption DEF Ring, Entry
<1>2. /\ r.tail = (r.head + r.count) % Size
      /\ \A i \in 0..(r.count - 1) : r.buf[(r.head + i) % Size] # Blank
  BY <1>1, SoundIs, SizeAssumption DEF Ring
<1>3. q.tail = (q.head + q.count) % Size
  <2>1. r.count - 1 \in 0..(Size - 1) /\ (r.count - 1) + 1 = r.count
    BY <1>1, SizeAssumption
  <2> QED
    BY <1>1, <1>2, <2>1, Shifted
<1>4. ASSUME NEW i \in 0..(q.count - 1) PROVE q.buf[(q.head + i) % Size] # Blank
  <2>1. /\ i \in 0..(Size - 1) /\ i + 1 \in 0..(Size - 1) /\ i + 1 # 0
        /\ i + 1 \in 0..(r.count - 1) /\ i + 1 \in 0..Size /\ 0 \in 0..(Size - 1)
    BY <1>1, SizeAssumption
  <2>2. (q.head + i) % Size = (r.head + (i + 1)) % Size
    BY <1>1, <2>1, Shifted
  <2>3. (r.head + (i + 1)) % Size \in Slots /\ (r.head + (i + 1)) % Size # r.head
    <3>1. (r.head + (i + 1)) % Size # (r.head + 0) % Size
      BY <1>1, <2>1, Distinct
    <3> QED
      BY <1>1, <2>1, <3>1, Turn, NoTurn
  <2> QED
    BY <1>1, <1>2, <2>1, <2>2, <2>3
<1> QED
  BY <1>1, <1>3, <1>4, SoundIs

-----------------------------------------------------------------------------
(* Saves.                                                                  *)

LEMMA SaveStep == TypeInv /\ SaveInv /\ [Next]_vars => SaveInv'
<1> SUFFICES ASSUME TypeInv, SaveInv, [Next]_vars PROVE SaveInv'
  OBVIOUS
<1>0. writing \in 0..4
  BY TypesSuffice DEF Typed
<1>1. ASSUME NEW op \in {"push", "pop"}, StartSave(op) PROVE SaveInv'
  BY <1>1 DEF StartSave, SaveInv, Written
<1>2. ASSUME NEW succeeds \in BOOLEAN, Write(succeeds) PROVE SaveInv'
  <2>1. CASE ~ok \/ ~succeeds
    BY <1>2, <2>1 DEF Write, SaveInv
  <2>2. CASE ok /\ succeeds
    <3>1. writing \in 1..4 /\ up /\ UNCHANGED <<buf, head, tail, count>>
      BY <1>0, <1>2 DEF Write, ring
    <3>2. SaveInv!1 => SaveInv!2
      BY DEF SaveInv
    <3>3. /\ writing > 1 => nvs.buf = buf
          /\ writing > 2 => nvs.head = head
          /\ writing > 3 => nvs.tail = tail
      BY <2>2, <3>1, <3>2 DEF Written
    <3>4. /\ nvs'.buf   = IF writing = 1 THEN buf   ELSE nvs.buf
          /\ nvs'.head  = IF writing = 2 THEN head  ELSE nvs.head
          /\ nvs'.tail  = IF writing = 3 THEN tail  ELSE nvs.tail
          /\ nvs'.count = IF writing = 4 THEN count ELSE nvs.count
          /\ writing' = IF writing = 4 THEN 0 ELSE writing + 1
      BY <1>2, <2>2, WriteOne
    <3> QED
      BY <3>1, <3>3, <3>4 DEF SaveInv, Written
  <2> QED
    BY <2>1, <2>2
<1>3. ASSUME NEW readable \in SUBSET AllKeys, InitQueue(readable) PROVE SaveInv'
  <2>1. writing = 0 /\ attempt' = NoAttempt
    BY <1>3, TypesSuffice DEF InitQueue, Typed
  <2>2. attempt'.op = "none"
    BY <2>1 DEF NoAttempt
  <2>3. writing' \in {0, 1}
    BY <1>3, <2>1, InitIs DEF InitLoads, InitResets
  <2> QED
    BY <2>2, <2>3 DEF SaveInv, Written
<1>4. CASE PowerLoss
  BY <1>4, LossIs DEF SaveInv
<1>5. CASE EraseNvs
  BY <1>5, EraseIs DEF SaveInv
<1>6. CASE UNCHANGED vars
  BY <1>6 DEF SaveInv, Written, vars, ring
<1> QED
  BY <1>1, <1>2, <1>3, <1>4, <1>5, <1>6, PushIs, PopIs DEF Next

\* A save that has copied all four keys has copied the ring.
LEMMA Copied ==
  ASSUME TypeInv, nvs.buf = buf, nvs.head = head, nvs.tail = tail, nvs.count = count
  PROVE  nvs = Ram
<1>1. nvs = [buf |-> nvs.buf, head |-> nvs.head, tail |-> nvs.tail, count |-> nvs.count]
  BY TypesSuffice DEF Typed, Flash
<1> QED
  BY <1>1 DEF Ram

LEMMA SavedIsRam ==
  TypeInv /\ SaveInv => (up /\ ok /\ writing = 0 /\ attempt.op # "none" => nvs = Ram)
BY Copied DEF SaveInv, Written

-----------------------------------------------------------------------------
(* The shape of an undamaged ring.                                         *)

LEMMA RamRing == TypeInv => Ram \in Ring
BY DEF TypeInv, TypeOK

LEMMA RamRingNext == TypeInv' => (Ram \in Ring)'
BY RamRing, PTL

\* A stored ring is loaded as it stands.
LEMMA LoadedIs ==
  ASSUME nvs \in Ring
  PROVE  nvs.buf # Absent /\ Loaded = nvs /\ Valid(Loaded)
<1>1. Slots \subseteq 0..Size
  BY SizeAssumption DEF Slots
<1>2. nvs.buf # Absent /\ nvs.head # Absent /\ nvs.tail # Absent /\ nvs.count # Absent
  BY <1>1, AbsentAssumption DEF Ring, Slots
<1>3. Loaded = nvs
  BY <1>2 DEF Loaded, Found, AllKeys, Stored, Ring
<1> QED
  BY <1>2, <1>3 DEF Ring, Valid

LEMMA ResetSound == Reset \in Ring /\ Sound(Reset) /\ Content(Reset) = <<>>
<1>1. Reset \in Ring
  BY SlotZero, SizeAssumption DEF Reset, Ring, Entry
<1>2. Reset.head = 0 /\ Reset.tail = 0 /\ Reset.count = 0
  BY DEF Reset
<1>3. (0 + 0) % Size = 0
  BY NoTurn, SlotZero
<1>4. Content(Reset) = <<>>
  BY <1>2 DEF Content
<1> QED
  BY <1>1, <1>2, <1>3, <1>4 DEF Sound

LEMMA ShapeStep == TypeInv /\ TypeInv' /\ SaveInv /\ ShapeInv /\ [Next]_vars => ShapeInv'
<1> SUFFICES ASSUME TypeInv, TypeInv', SaveInv, ShapeInv, [Next]_vars, ~damaged' PROVE ShapeInv'
  BY DEF ShapeInv
<1>1. Ram \in Ring /\ Ram' \in Ring
  BY RamRing, RamRingNext
<1>2. /\ Ram.buf = buf /\ Ram.head = head /\ Ram.tail = tail /\ Ram.count = count
      /\ Ram'.buf = buf' /\ Ram'.head = head' /\ Ram'.tail = tail' /\ Ram'.count = count'
  BY DEF Ram
<1>3. ASSUME NEW e \in Events, Push(e) PROVE ShapeInv'
  <2>1. up /\ up' /\ writing' = 1 /\ ok' /\ ~damaged
    <3>1. StartSave("push")
      BY <1>3, PushIs
    <3> QED
      BY <1>3, <3>1, PushIs DEF StartSave
  <2>2. Sound(Ram)'
    BY <1>1, <1>2, <1>3, <2>1, PushIs, SoundPush DEF ShapeInv
  <2> QED
    BY <2>1, <2>2 DEF ShapeInv
<1>4. CASE Pop
  <2>1. up /\ up' /\ writing' = 1 /\ ok' /\ ~damaged
    <3>1. StartSave("pop")
      BY <1>4, PopIs
    <3> QED
      BY <1>4, <3>1, PopIs DEF StartSave
  <2>2. Sound(Ram)'
    BY <1>1, <1>2, <1>4, <2>1, PopIs, SoundPop DEF ShapeInv
  <2> QED
    BY <2>1, <2>2 DEF ShapeInv
<1>5. ASSUME NEW succeeds \in BOOLEAN, Write(succeeds) PROVE ShapeInv'
  <2>1. succeeds /\ up /\ up' /\ ~damaged /\ ok' /\ Ram' = Ram
    BY <1>5 DEF Write, ring, Ram, ShapeInv
  <2>2. ASSUME writing' = 0 PROVE nvs' = Ram'
    <3>1. writing = 4 /\ writing \in 1..4
      BY <1>5, <2>2, WriteOne, TypesSuffice DEF Typed, Write
    <3>2. ok /\ UNCHANGED <<buf, head, tail, count>>
      BY <1>5, <2>1 DEF ShapeInv, Write, ring
    <3>3. nvs.buf = buf /\ nvs.head = head /\ nvs.tail = tail
      BY <2>1, <3>1, <3>2 DEF SaveInv, Written
    <3>4. nvs'.buf = buf' /\ nvs'.head = head' /\ nvs'.tail = tail' /\ nvs'.count = count'
      BY <1>5, <2>1, <3>1, <3>2, <3>3, WriteOne
    <3>5. nvs' = [buf |-> nvs'.buf, head |-> nvs'.head, tail |-> nvs'.tail, count |-> nvs'.count]
      BY TypesNext DEF Typed, Flash
    <3> QED
      BY <3>4, <3>5 DEF Ram
  <2> QED
    BY <2>1, <2>2 DEF ShapeInv
<1>6. ASSUME NEW readable \in SUBSET AllKeys, InitQueue(readable) PROVE ShapeInv'
  <2>1. ~up /\ up' /\ ~damaged /\ ok /\ nvs' = nvs /\ writing = 0
    BY <1>6, InitUndamaged, TypesSuffice DEF ShapeInv, Typed
  <2>2. CASE nvs \in Ring /\ Sound(nvs)
    <3>1. InitLoads(Loaded)
      BY <1>6, <2>2, LoadedIs, InitUndamaged
    <3>2. Ram' = nvs
      BY <2>2, <3>1, LoadedIs DEF InitLoads, Ram, Ring
    <3> QED
      BY <2>1, <2>2, <3>1, <3>2 DEF ShapeInv, InitLoads
  <2>3. CASE NeverStored
    <3>1. InitResets
      BY <1>6, <2>3, InitUndamaged DEF NeverStored, NothingStored
    <3>2. Ram' = Reset
      BY <3>1 DEF InitResets, Ram, Reset
    <3> QED
      BY <2>1, <3>1, <3>2, ResetSound DEF ShapeInv, InitResets
  <2> QED
    BY <2>1, <2>2, <2>3 DEF ShapeInv
<1>7. CASE PowerLoss
  <2>1. up /\ ~up' /\ ~damaged /\ writing = 0 /\ nvs' = nvs /\ ok' = ok
    BY <1>7, LossIs
  <2>2. nvs = Ram /\ Sound(Ram) /\ ok
    BY <2>1 DEF ShapeInv
  <2> QED
    BY <1>1, <2>1, <2>2 DEF ShapeInv
<1>8. CASE EraseNvs
  BY <1>8, EraseIs DEF ShapeInv, NeverStored, NothingStored
<1>9. CASE UNCHANGED vars
  BY <1>9 DEF ShapeInv, NeverStored, NothingStored, Ram, vars, ring
<1> QED
  BY <1>3, <1>4, <1>5, <1>6, <1>7, <1>8, <1>9 DEF Next

-----------------------------------------------------------------------------
(* A push cut by a power loss.                                             *)

LEMMA TornPush ==
  ASSUME TypeInv, NEW e \in Events, Push(e)
  PROVE  TornInv'
<1> SUFFICES ASSUME CleanPush' PROVE TornInv!2'
  BY DEF TornInv
<1> DEFINE n == Len(attempt'.found)
<1>1. StartSave("push")
  BY PushIs
<1>2. /\ attempt'.found = Content(Ram) /\ n = count
      /\ attempt'.sound <=> Sound(Ram) /\ nvs = Ram
  BY <1>1, StartSaveType
<1>3. /\ buf \in [Slots -> Entry] /\ head \in Slots /\ tail \in Slots /\ count \in 0..Size
      /\ count < Size /\ Ram \in Ring
  BY <1>2, RamRing, TypesSuffice DEF Typed, CleanPush
<1>4. Sound(Ram) /\ nvs = Ram /\ nvs' = nvs
  BY <1>2, PushIs DEF CleanPush
<1>5. tail = (head + n) % Size
  BY <1>2, <1>3, <1>4, RamIs, SoundIs
<1>6. \A i \in 1..n : Content(Ram)[i] = buf[(head + (i - 1)) % Size]
  BY <1>2, <1>3, RamIs, ContentIs
<1>7. nvs' \in Ring /\ nvs'.buf = buf /\ nvs'.head = head /\ nvs'.count = n
  BY <1>2, <1>3, <1>4, RamIs
<1>8. head' = head /\ count' = n + 1 /\ buf' = [buf EXCEPT ![tail] = e]
  BY <1>2, <1>3, PushIs
<1>9. ASSUME NEW i \in 1..n PROVE buf'[(head + (i - 1)) % Size] = buf[(head + (i - 1)) % Size]
  <2>1. /\ i - 1 \in 0..(Size - 1) /\ n \in 0..(Size - 1) /\ i - 1 # n
        /\ i - 1 \in 0..Size
    BY <1>2, <1>3, SizeAssumption
  <2>2. (head + (i - 1)) % Size # tail
    BY <1>3, <1>5, <2>1, Distinct
  <2>3. (head + (i - 1)) % Size \in Slots
    BY <1>3, <2>1, Turn
  <2> QED
    BY <1>3, <1>8, <2>2, <2>3
<1>10. buf'[(head + n) % Size] = e
  BY <1>3, <1>5, <1>8
<1>11. Keeps(nvs.buf, nvs.head)' /\ Keeps(buf, head)'
  BY <1>2, <1>6, <1>7, <1>8, <1>9 DEF Keeps
<1>12. (Newest(buf, head) \in Events)'
  BY <1>8, <1>10 DEF Newest
<1>13. n # n + 1
  BY <1>2, <1>3
<1> QED
  BY <1>7, <1>8, <1>11, <1>12, <1>13

LEMMA TornWrite ==
  ASSUME TypeInv, SaveInv, TornInv, NEW succeeds \in BOOLEAN, Write(succeeds)
  PROVE  TornInv'
<1> SUFFICES ASSUME CleanPush' PROVE TornInv!2'
  BY DEF TornInv
<1>1. ok /\ succeeds /\ up /\ attempt' = attempt
      /\ UNCHANGED <<buf, head, tail, count>>
  BY DEF CleanPush, Write, ring
<1>2. CleanPush
  BY <1>1 DEF CleanPush
<1>3. /\ nvs \in Ring /\ Keeps(nvs.buf, nvs.head)
      /\ nvs.count \in {Len(attempt.found), Len(attempt.found) + 1}
      /\ nvs.count = Len(attempt.found) + 1 => Newest(nvs.buf, nvs.head) \in Events
      /\ head = nvs.head /\ count = Len(attempt.found) + 1
      /\ Keeps(buf, head) /\ Newest(buf, head) \in Events
  BY <1>1, <1>2 DEF TornInv
<1>4. buf \in [Slots -> Entry] /\ head \in Slots /\ tail \in Slots /\ count \in 0..Size
      /\ writing \in 1..4
  BY TypesSuffice DEF Typed, Write
<1>5. /\ nvs' \in Flash
      /\ nvs'.buf   = IF writing = 1 THEN buf   ELSE nvs.buf
      /\ nvs'.head  = head
      /\ nvs'.tail  = IF writing = 3 THEN tail  ELSE nvs.tail
      /\ nvs'.count = IF writing = 4 THEN count ELSE nvs.count
  BY <1>1, <1>3, WriteOne
<1>6. nvs' \in Ring
  <2>1. nvs' = [buf |-> nvs'.buf, head |-> nvs'.head, tail |-> nvs'.tail, count |-> nvs'.count]
    BY <1>5 DEF Flash
  <2>2. /\ nvs'.buf \in [Slots -> Events \cup {Blank}] /\ nvs'.head \in Slots
        /\ nvs'.tail \in Slots /\ nvs'.count \in 0..Size
    BY <1>3, <1>4, <1>5 DEF Ring, Entry
  <2> QED
    BY <2>1, <2>2 DEF Ring
<1>7. Keeps(nvs'.buf, head)
  BY <1>3, <1>5
<1>8. nvs'.count = Len(attempt.found) + 1 => Newest(nvs'.buf, head) \in Events
  <2>1. CASE writing = 4
    <3>1. nvs.buf = buf
      BY <1>1, <2>1 DEF SaveInv, Written
    <3> QED
      BY <1>3, <1>5, <2>1, <3>1
  <2>2. CASE writing # 4
    BY <1>3, <1>5, <2>2
  <2> QED
    BY <2>1, <2>2
<1>9. /\ Keeps(nvs.buf, nvs.head)' /\ Keeps(buf, head)'
      /\ (nvs.count = Len(attempt.found) + 1 => Newest(nvs.buf, nvs.head) \in Events)'
      /\ (Newest(buf, head) \in Events)'
  BY <1>1, <1>3, <1>5, <1>7, <1>8 DEF Keeps, Newest
<1> QED
  BY <1>1, <1>3, <1>5, <1>6, <1>9

LEMMA TornStep == TypeInv /\ SaveInv /\ TornInv /\ [Next]_vars => TornInv'
<1> SUFFICES ASSUME TypeInv, SaveInv, TornInv, [Next]_vars PROVE TornInv'
  OBVIOUS
<1>1. ASSUME NEW e \in Events, Push(e) PROVE TornInv'
  BY <1>1, TornPush
<1>2. CASE Pop
  <2>1. StartSave("pop")
    BY <1>2, PopIs
  <2>2. attempt'.op = "pop"
    BY <2>1, StartSaveType
  <2> QED
    BY <2>2 DEF TornInv, CleanPush
<1>3. ASSUME NEW succeeds \in BOOLEAN, Write(succeeds) PROVE TornInv'
  BY <1>3, TornWrite
<1>4. ASSUME NEW readable \in SUBSET AllKeys, InitQueue(readable) PROVE TornInv'
  <2>1. attempt' = NoAttempt
    BY <1>4, InitIs
  <2>2. attempt'.op = "none"
    BY <2>1 DEF NoAttempt
  <2> QED
    BY <2>2 DEF TornInv, CleanPush
<1>5. CASE PowerLoss
  <2>1. up' = FALSE /\ nvs' = nvs /\ ok' = ok /\ attempt' = attempt
    BY <1>5, LossIs
  <2> QED
    BY <2>1 DEF TornInv, CleanPush, Keeps, Newest
<1>6. CASE EraseNvs
  BY <1>6, EraseIs DEF TornInv, CleanPush, NoAttempt
<1>7. CASE UNCHANGED vars
  BY <1>7 DEF TornInv, CleanPush, Keeps, Newest, vars, ring
<1> QED
  BY <1>1, <1>2, <1>3, <1>4, <1>5, <1>6, <1>7 DEF Next

LEMMA TornMeans == TypeInv /\ TornInv => TornPushKeepsOlder
<1> SUFFICES ASSUME TypeInv, TornInv, CleanPush
             PROVE  \/ Content(Loaded) = attempt.found
                    \/ \E e \in Events : Content(Loaded) = Append(attempt.found, e)
  BY DEF TornPushKeepsOlder, CleanPush
<1> DEFINE n == Len(attempt.found)
<1>1. attempt.found \in Seq(Entry) /\ n \in 0..(Size - 1)
  BY TypesSuffice, SizeAssumption DEF Typed, Attempt, CleanPush
<1>2. /\ nvs \in Ring /\ Keeps(nvs.buf, nvs.head) /\ nvs.count \in {n, n + 1}
      /\ nvs.count = n + 1 => Newest(nvs.buf, nvs.head) \in Events
  BY DEF TornInv
<1>3. /\ Loaded = nvs /\ Content(nvs) \in Seq(Entry) /\ Len(Content(nvs)) = nvs.count
      /\ \A i \in 1..nvs.count : Content(nvs)[i] = nvs.buf[(nvs.head + (i - 1)) % Size]
  BY <1>2, LoadedIs, ContentIs DEF Ring, Entry
<1>4. CASE nvs.count = n
  <2>1. \A i \in 1..n : Content(nvs)[i] = attempt.found[i]
    BY <1>2, <1>3, <1>4 DEF Keeps
  <2> QED
    BY <1>1, <1>3, <1>4, <2>1, SeqEqual
<1>5. CASE nvs.count = n + 1
  <2> DEFINE e == Newest(nvs.buf, nvs.head)
  <2>1. e \in Events /\ e \in Entry
    BY <1>2, <1>5 DEF Entry
  <2>2. /\ Append(attempt.found, e) \in Seq(Entry) /\ Len(Append(attempt.found, e)) = n + 1
        /\ \A i \in 1..n : Append(attempt.found, e)[i] = attempt.found[i]
        /\ Append(attempt.found, e)[n + 1] = e
    <3> HIDE DEF e
    <3> QED
      BY <1>1, <2>1
  <2>3. ASSUME NEW i \in 1..(n + 1) PROVE Content(nvs)[i] = Append(attempt.found, e)[i]
    <3>1. CASE i \in 1..n
      BY <1>2, <1>3, <1>5, <2>2, <3>1 DEF Keeps
    <3>2. CASE i = n + 1
      <4>1. nvs.head + (i - 1) = nvs.head + n
        BY <1>1, <1>2, <3>2 DEF Ring, Slots
      <4> QED
        BY <1>3, <1>5, <2>2, <3>2, <4>1 DEF Newest
    <3> QED
      BY <1>1, <3>1, <3>2
  <2>4. Content(nvs) = Append(attempt.found, e)
    <3> HIDE DEF e
    <3> QED
      BY <1>3, <1>5, <2>2, <2>3, SeqEqual
  <2> QED
    BY <1>3, <2>1, <2>4
<1> QED
  BY <1>2, <1>4, <1>5

-----------------------------------------------------------------------------
(* The invariant.                                                          *)

LEMMA IInvInit == Init => IInv
<1> SUFFICES ASSUME Init PROVE IInv
  OBVIOUS
<1>1. TypeInv
  BY TypeInit
<1>2. attempt.op = "none" /\ up = FALSE /\ writing = 0 /\ ok = TRUE /\ NeverStored
  BY DEF Init, NoAttempt, NeverStored, NothingStored
<1> QED
  BY <1>1, <1>2 DEF IInv, SaveInv, ShapeInv, TornInv, CleanPush

LEMMA IInvStep == IInv /\ [Next]_vars => IInv'
BY TypeStep, SaveStep, ShapeStep, TornStep DEF IInv

LEMMA IInvHolds == Spec => []IInv
BY IInvInit, IInvStep, PTL DEF Spec

\* The indices of the ring stay inside it and the stored ones too, whatever writes
\* of pending_queue_save fail and wherever power is lost.
THEOREM TypeCorrect == Spec => []TypeOK
<1>1. IInv => TypeOK
  BY DEF IInv, TypeInv
<1> QED
  BY <1>1, IInvHolds, PTL

\* pending_queue_push and pending_queue_pop return true only when NVS holds the
\* ring they left, whatever was torn or failed before.
THEOREM TrueIsDurable == Spec => []TrueMeansDurable
<1>1. IInv => TrueMeansDurable
  BY SavedIsRam DEF IInv, TrueMeansDurable, Idle
<1> QED
  BY <1>1, IInvHolds, PTL

\* Power lost between any two of the four writes of a push costs none of the
\* older events.
THEOREM TornPushIsSafe == Spec => []TornPushKeepsOlder
<1>1. IInv => TornPushKeepsOlder
  BY TornMeans DEF IInv
<1> QED
  BY <1>1, IInvHolds, PTL

\* Without a damaged save head, tail and count agree over any number of restarts.
THEOREM RingKeepsShape == Spec => []RingShape
<1>1. IInv => RingShape
  BY DEF IInv, ShapeInv, RingShape
<1> QED
  BY <1>1, IInvHolds, PTL

-----------------------------------------------------------------------------
(* The refinement.                                                         *)

\* What the users of the queue see: the fifo of PendingFifo.
Seen == IF up THEN Content(Ram) ELSE IF nvs.buf = Absent THEN <<>> ELSE Content(Loaded)

LEMMA SeenPush ==
  ASSUME IInv, TypeInv', ~damaged, NEW e \in Events, Push(e)
  PROVE  Seen' = Append(IF Len(Seen) < Size THEN Seen ELSE Tail(Seen), e)
<1>1. /\ buf \in [Slots -> Entry] /\ head \in Slots /\ tail \in Slots /\ count \in 0..Size
      /\ buf' \in [Slots -> Entry] /\ head' \in Slots /\ count' \in 0..Size
  BY TypesSuffice, TypesNext DEF IInv, Typed
<1>2. up /\ up' /\ Sound(Ram)
  BY PushIs DEF IInv, ShapeInv
<1>3. Seen = Content(Ram) /\ Seen' = Content(Ram')
  BY <1>2 DEF Seen, Content
<1>4. tail = (head + count) % Size /\ Len(Content(Ram)) = count
  BY <1>1, <1>2, RamIs, SoundIs, ContentIs
<1>5. /\ Ram.buf = buf /\ Ram.head = head /\ Ram.count = count
      /\ Ram'.buf = buf' /\ Ram'.head = head' /\ Ram'.count = count'
  BY DEF Ram
<1>6. e \in Entry
  BY DEF Entry
<1>7. CASE count < Size
  <2>1. buf' = [buf EXCEPT ![(head + count) % Size] = e] /\ head' = head /\ count' = count + 1
    BY <1>4, <1>7, PushIs
  <2>2. Content(Ram') = Append(Content(Ram), e)
    <3>1. /\ Ram.buf \in [Slots -> Entry] /\ Ram.head \in Slots /\ Ram.count \in 0..Size
          /\ Ram'.buf \in [Slots -> Entry] /\ Ram.count < Size
      BY <1>1, <1>5, <1>7
    <3>2. /\ Ram'.head = Ram.head /\ Ram'.count = Ram.count + 1
          /\ Ram'.buf = [Ram.buf EXCEPT ![(Ram.head + Ram.count) % Size] = e]
      BY <1>5, <2>1
    <3> QED
      BY <1>6, <3>1, <3>2, ContentAppended
  <2> QED
    BY <1>3, <1>4, <1>7, <2>2
<1>8. CASE count = Size
  \* The oldest event leaves, then the new one takes its slot.
  <2> DEFINE mid == [buf |-> buf, head |-> After(head), tail |-> tail, count |-> count - 1]
  <2>1. tail = head /\ count \in 1..Size /\ count - 1 \in 0..(Size - 1)
    BY <1>1, <1>4, <1>8, WholeTurn, SizeAssumption
  <2>2. /\ mid.buf = buf /\ mid.head = After(head) /\ mid.count = count - 1
        /\ After(head) \in Slots /\ mid.count \in 0..Size /\ mid.count < Size
    BY <1>1, <2>1, AfterSlot, SizeAssumption
  <2>3. Content(mid) = Tail(Content(Ram))
    <3> HIDE DEF mid
    <3> QED
      BY <1>1, <1>5, <2>1, <2>2, ContentTail
  <2>4. (After(head) + (count - 1)) % Size = tail
    <3>1. (After(head) + (count - 1)) % Size = (head + ((count - 1) + 1)) % Size
      BY <1>1, <2>1, Shifted
    <3>2. (count - 1) + 1 = count
      BY <2>1
    <3> QED
      BY <1>4, <3>1, <3>2
  <2>5. /\ buf' = [mid.buf EXCEPT ![(mid.head + mid.count) % Size] = e]
        /\ head' = mid.head /\ count' = mid.count + 1
    BY <1>1, <1>8, <2>1, <2>2, <2>4, PushIs, SizeAssumption
  <2>6. Content(Ram') = Append(Content(mid), e)
    <3> HIDE DEF mid
    <3>1. /\ mid.buf \in [Slots -> Entry] /\ mid.head \in Slots /\ mid.count \in 0..Size
          /\ Ram'.buf \in [Slots -> Entry] /\ mid.count < Size
      BY <1>1, <1>5, <2>1, <2>2
    <3>2. /\ Ram'.head = mid.head /\ Ram'.count = mid.count + 1
          /\ Ram'.buf = [mid.buf EXCEPT ![(mid.head + mid.count) % Size] = e]
      BY <1>5, <2>5
    <3> QED
      BY <1>6, <3>1, <3>2, ContentAppended
  <2> QED
    BY <1>3, <1>4, <1>8, <2>3, <2>6, SizeAssumption
<1> QED
  BY <1>1, <1>7, <1>8, SizeAssumption

LEMMA SeenPop ==
  ASSUME IInv, TypeInv', Pop
  PROVE  Seen # <<>> /\ Seen' = Tail(Seen)
<1>1. /\ buf \in [Slots -> Entry] /\ head \in Slots /\ count \in 1..Size
      /\ buf' \in [Slots -> Entry] /\ up /\ up'
  BY TypesSuffice, TypesNext, PopIs, SizeAssumption DEF IInv, Typed
<1>2. Seen = Content(Ram) /\ Seen' = Content(Ram')
  BY <1>1 DEF Seen, Content
<1>3. /\ Ram.buf = buf /\ Ram.head = head /\ Ram.count = count
      /\ Ram'.buf = buf' /\ Ram'.head = head' /\ Ram'.count = count'
  BY DEF Ram
<1>4. /\ head' = After(head) /\ count' = count - 1
      /\ \A s \in Slots \ {head} : buf'[s] = buf[s]
  BY <1>1, PopIs
<1>5. Content(Ram') = Tail(Content(Ram))
  BY <1>1, <1>3, <1>4, ContentTail
<1>6. Content(Ram) \in Seq(Entry) /\ Len(Content(Ram)) = count /\ count # 0
  BY <1>1, <1>3, ContentIs, SizeAssumption
<1> QED
  BY <1>2, <1>5, <1>6

\* Saving, losing power and starting again change nothing the users see.
LEMMA SeenStays ==
  ASSUME IInv, [Next]_vars, ~damaged',
         \/ \E succeeds \in BOOLEAN : Write(succeeds)
         \/ \E readable \in SUBSET AllKeys : InitQueue(readable)
         \/ PowerLoss \/ UNCHANGED vars
  PROVE  Seen' = Seen
<1>1. ASSUME NEW succeeds \in BOOLEAN, Write(succeeds) PROVE Seen' = Seen
  <2>1. up /\ up' /\ Ram' = Ram
    BY <1>1 DEF Write, ring, Ram
  <2> QED
    BY <2>1 DEF Seen, Content
<1>2. ASSUME NEW readable \in SUBSET AllKeys, InitQueue(readable) PROVE Seen' = Seen
  <2>1. ~up /\ up' /\ ~damaged
    BY <1>2, InitUndamaged
  <2>2. Seen' = Content(Ram')
    BY <2>1 DEF Seen, Content
  <2>3. CASE nvs \in Ring
    <3>1. nvs.buf # Absent /\ Loaded = nvs /\ InitLoads(Loaded)
      BY <1>2, <2>3, LoadedIs, InitUndamaged
    <3>2. Ram' = nvs
      BY <2>3, <3>1 DEF InitLoads, Ram, Ring
    <3> QED
      BY <2>1, <2>2, <3>1, <3>2 DEF Seen
  <2>4. CASE NeverStored
    <3>1. nvs.buf = Absent
      BY <2>4 DEF NeverStored, NothingStored
    <3>2. InitResets
      BY <1>2, <3>1, InitUndamaged
    <3>3. Ram' = Reset
      BY <3>2 DEF InitResets, Ram, Reset
    <3> QED
      BY <2>1, <2>2, <3>1, <3>3, ResetSound DEF Seen
  <2> QED
    BY <2>1, <2>3, <2>4 DEF IInv, ShapeInv
<1>3. CASE PowerLoss
  <2>1. up /\ ~up' /\ ~damaged /\ writing = 0 /\ nvs' = nvs
    BY <1>3, LossIs
  <2>2. nvs = Ram /\ Ram \in Ring
    BY <2>1, RamRing DEF IInv, ShapeInv
  <2>3. nvs.buf # Absent /\ Loaded = nvs
    BY <2>2, LoadedIs
  <2>4. Loaded' = Loaded
    BY <2>1 DEF Loaded, Found, AllKeys, Stored
  <2>5. Seen' = Content(Loaded')
    BY <2>1, <2>3 DEF Seen, Content
  <2>6. Seen = Content(Ram)
    BY <2>1 DEF Seen
  <2> QED
    BY <2>2, <2>3, <2>4, <2>5, <2>6
<1>4. CASE UNCHANGED vars
  BY <1>4 DEF Seen, Content, Loaded, Found, AllKeys, Stored, Ram, vars, ring
<1> QED
  BY <1>1, <1>2, <1>3, <1>4

LEMMA FifoInit == Init => Fifo!Init
BY DEF Init, NothingStored, Fifo!Init

LEMMA FifoStep == IInv /\ TypeInv' /\ [Next]_vars => [Fifo!Next]_Fifo!vars
<1> SUFFICES ASSUME IInv, TypeInv', [Next]_vars PROVE [Fifo!Next]_Fifo!vars
  OBVIOUS
<1> USE DEF Fifo!Next
<1>1. CASE damaged'
  <2>1. damaged' = TRUE
    BY <1>1, TypesNext DEF Typed, Flags
  <2> QED
    BY <2>1 DEF Fifo!Damage
<1>2. CASE ~damaged'
  <2>1. damaged = FALSE /\ damaged' = FALSE /\ up \in BOOLEAN /\ up' \in BOOLEAN
    <3>1. damaged \in BOOLEAN /\ damaged' \in BOOLEAN /\ up \in BOOLEAN /\ up' \in BOOLEAN
      BY TypesSuffice, TypesNext DEF IInv, Typed, Flags
    <3>2. damaged => damaged'
      BY DEF Next, Push, Pop, Write, InitQueue, PowerLoss, EraseNvs, vars
    <3> QED
      BY <1>2, <3>1, <3>2
  <2>2. ASSUME NEW e \in Events, Push(e) PROVE Fifo!Push
    <3>1. up /\ up' = up
      BY <2>2 DEF Push, Idle
    <3> QED
      BY <2>1, <2>2, <3>1, SeenPush DEF Seen, Fifo!Push
  <2>3. CASE Pop
    <3>1. up /\ up' = up
      BY <2>3 DEF Pop, Idle
    <3> QED
      BY <2>1, <2>3, <3>1, SeenPop DEF Seen, Fifo!Pop
  <2>4. CASE (\E succeeds \in BOOLEAN : Write(succeeds)) \/ UNCHANGED vars
    <3>1. up' = up
      BY <2>4 DEF Write, vars
    <3> QED
      BY <1>2, <2>1, <2>4, <3>1, SeenStays DEF Seen, Fifo!vars
  <2>5. CASE (\E readable \in SUBSET AllKeys : InitQueue(readable)) \/ PowerLoss
    <3>1. up' = ~up
      BY <2>5, LossIs, InitIs
    <3> QED
      BY <1>2, <2>1, <2>5, <3>1, SeenStays DEF Seen, Fifo!Switch
  <2>6. CASE EraseNvs
    <3>1. ~up /\ up' = up /\ nvs'.buf = Absent
      BY <2>6, EraseIs DEF NothingStored
    <3> QED
      BY <2>1, <3>1 DEF Seen, Fifo!Erase
  <2> QED
    BY <2>2, <2>3, <2>4, <2>5, <2>6 DEF Next
<1> QED
  BY <1>1, <1>2

\* Until a save is damaged the ring in RAM with its four keys in NVS is a
\* persistent FIFO: restarts lose, repeat and reorder nothing, unless NVS erases
\* itself before the queue is up.
THEOREM QueueIsFifo == Spec => ImplementsFifo
<1>1. IInv /\ IInv' /\ [Next]_vars => [Fifo!Next]_Fifo!vars
  BY FifoStep DEF IInv
<1> QED
  BY <1>1, FifoInit, IInvHolds, PTL DEF Spec, ImplementsFifo, Fifo!Spec
=============================================================================
