---------------------------- MODULE PendingFifo ----------------------------
(***************************************************************************)
(* What pending_queue promises its users: a persistent FIFO of at most     *)
(* Size events that gives up its oldest event for a new one when it is     *)
(* full.  A restart changes nothing, unless the flash is erased before the *)
(* queue is up again.  The promise ends when a save is damaged.            *)
(***************************************************************************)
EXTENDS Integers, Sequences

CONSTANTS Events, Size

VARIABLES up, fifo, damaged

vars == <<up, fifo, damaged>>

Init == up = FALSE /\ fifo = <<>> /\ damaged = FALSE

Push ==
  /\ up
  /\ \E e \in Events :
       fifo' = Append(IF Len(fifo) < Size THEN fifo ELSE Tail(fifo), e)
  /\ UNCHANGED <<up, damaged>>

Pop == up /\ fifo # <<>> /\ fifo' = Tail(fifo) /\ UNCHANGED <<up, damaged>>

\* The power goes or comes.
Switch == up' = ~up /\ UNCHANGED <<fifo, damaged>>

Erase == ~up /\ fifo' = <<>> /\ UNCHANGED <<up, damaged>>

\* A save is damaged, or was: any queue may be found.
Damage == damaged' = TRUE

Next == Push \/ Pop \/ Switch \/ Erase \/ Damage

Spec == Init /\ [][Next]_vars
=============================================================================
