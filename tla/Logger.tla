-------------------------------- MODULE Logger --------------------------------
(***************************************************************************)
(* components/logger/logger.c: the history of the last LogSize events of a *)
(* board, a ring in RAM that logger_save copies to NVS after every push    *)
(* with four writes whose failures are only logged.  logger_init takes     *)
(* each of the four keys as it finds it, and looks at each index alone.    *)
(*                                                                         *)
(* A logger is used by one task: on the camera board qr_scan pushes to     *)
(* logger_local and nobody reads it.  NoEntry is an entry after a memset.  *)
(***************************************************************************)
EXTENDS Integers, Sequences

CONSTANTS Entries, NoEntry, NotStored, LogSize

LogSlots == 0..(LogSize - 1)

\* Mutant: logger_save writes the counter before the buffer.
LogKeys_CountFirst == <<"count", "buffer", "head", "tail">>

LogKeys == <<"buffer", "head", "tail", "count">>  \* in the order of the writes
AllLogKeys == {"buffer", "head", "tail", "count"}

VARIABLES
  log,        \* the Logger: buffer, head, tail, count
  logNvs,     \* its four keys, each NotStored until it is written
  logWriting, \* index in LogKeys of the next write of logger_save, 0: none
  logHurt     \* history: a write failed, a key was not readable, or NVS was erased

logVars == <<log, logNvs, logWriting, logHurt>>

NewLog == [buffer |-> [s \in LogSlots |-> NoEntry], head |-> 0, tail |-> 0, count |-> 0]

\* What logger_print shows, oldest entry first.
History(l) == [i \in 1..l.count |-> l.buffer[(l.head + i - 1) % LogSize]]

LogAfter(i) == (i + 1) % LogSize

\* Mutant: a full logger overwrites an entry without moving head.
Logged_KeepsHead(entry) ==
  [ buffer |-> [log.buffer EXCEPT ![log.tail] = entry],
    tail   |-> LogAfter(log.tail),
    count  |-> IF log.count < LogSize THEN log.count + 1 ELSE log.count,
    head   |-> log.head ]

Logged(entry) ==
  [ buffer |-> [log.buffer EXCEPT ![log.tail] = entry],
    tail   |-> LogAfter(log.tail),
    count  |-> IF log.count < LogSize THEN log.count + 1 ELSE log.count,
    head   |-> IF log.count < LogSize THEN log.head ELSE LogAfter(log.head) ]

\* logger_push up to its call of logger_save.
LoggerPush(entry) ==
  /\ logWriting = 0
  /\ log' = Logged(entry) /\ logWriting' = 1
  /\ UNCHANGED <<logNvs, logHurt>>

\* One write of logger_save.
LoggerSave(succeeds) ==
  /\ logWriting # 0
  /\ LET key == LogKeys[logWriting]
     IN  logNvs' = IF succeeds THEN [logNvs EXCEPT ![key] = log[key]] ELSE logNvs
  /\ logWriting' = IF logWriting = Len(LogKeys) THEN 0 ELSE logWriting + 1
  /\ logHurt' = (logHurt \/ ~succeeds)
  /\ UNCHANGED log

\* The logger that logger_init finds; a key it cannot read is as after memset.
LogFound(readable) ==
  [ key \in AllLogKeys |->
      IF logNvs[key] = NotStored \/ key \notin readable THEN NewLog[key] ELSE logNvs[key] ]

LogValid(l) == l.head \in LogSlots /\ l.tail \in LogSlots /\ l.count \in 0..LogSize

\* logger_init.  A missing buffer leaves the indices as they are stored; only
\* indices out of range start the logger again.
LoggerInit(readable) ==
  /\ IF LogValid(LogFound(readable))
     THEN log' = LogFound(readable) /\ logWriting' = 0
     ELSE log' = NewLog /\ logWriting' = 1
  /\ logHurt' = (logHurt \/ readable # AllLogKeys)
  /\ UNCHANGED logNvs

\* Power is lost.
LoggerLost == log' = NewLog /\ logWriting' = 0 /\ UNCHANGED <<logNvs, logHurt>>

\* nvs_storage_init erases the partition, before logger_init.
LoggerErased ==
  /\ logNvs' = [key \in AllLogKeys |-> NotStored] /\ logHurt' = TRUE
  /\ UNCHANGED <<log, logWriting>>

LogInit ==
  /\ log = NewLog /\ logWriting = 0 /\ logHurt = FALSE
  /\ logNvs = [key \in AllLogKeys |-> NotStored]

LogTypeOK ==
  /\ log.buffer \in [LogSlots -> Entries \cup {NoEntry}] /\ LogValid(log)
  /\ logNvs.buffer \in [LogSlots -> Entries \cup {NoEntry}] \cup {NotStored}
  /\ logNvs.head \in LogSlots \cup {NotStored}
  /\ logNvs.tail \in LogSlots \cup {NotStored}
  /\ logNvs.count \in 0..LogSize \cup {NotStored}
  /\ logWriting \in 0..Len(LogKeys) /\ logHurt \in BOOLEAN

\* Wherever power is lost during a save, the history shows no empty entry: only
\* writes that fail unnoticed or an unreadable key can make it do so (70-80).
NoEmptyEntry ==
  ~logHurt => \A i \in 1..log.count : History(log)[i] # NoEntry
=============================================================================
