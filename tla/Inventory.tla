----------------------------- MODULE Inventory -----------------------------
(***************************************************************************)
(* What the LCD board promises its operator, without tasks, queues, timers *)
(* or messages (fsm.h: it "consults product_db, shows the UI, receives     *)
(* touch, updates the local stock and asks for MQTT publication"): one     *)
(* registered product at a time is offered, the operator adjusts an amount *)
(* and cancels or commits it, and a committed amount is reported - taken   *)
(* by the MQTT client or stored as pending - before the next offer.        *)
(***************************************************************************)
EXTENDS Integers

CONSTANTS Catalog, NoId, MaxQuantity, MaxStock

VARIABLES
  phase,   \* "idle", "offered" or "owing"
  item,    \* the product offered or owed, NoId when idle
  amount,  \* the amount on the screen, 1 unless offered
  stock    \* stock per product

vars == <<phase, item, amount, stock>>

Init ==
  /\ phase = "idle" /\ item = NoId /\ amount = 1
  /\ stock \in [Catalog -> 0..MaxStock]

Offer ==
  /\ phase = "idle" /\ phase' = "offered"
  /\ item' \in Catalog
  /\ UNCHANGED <<amount, stock>>

Adjust ==
  /\ phase = "offered"
  /\ amount' \in {amount - 1, amount + 1} \cap 1..MaxQuantity
  /\ UNCHANGED <<phase, item, stock>>

\* Cancelled by the operator, or refused by the product table.
Cancel ==
  /\ phase = "offered" /\ phase' = "idle"
  /\ item' = NoId /\ amount' = 1
  /\ UNCHANGED stock

Commit ==
  /\ phase = "offered" /\ phase' = "owing"
  /\ stock[item] + amount <= MaxStock
  /\ stock' = [stock EXCEPT ![item] = @ + amount]
  /\ amount' = 1
  /\ UNCHANGED item

Report ==
  /\ phase = "owing" /\ phase' = "idle"
  /\ item' = NoId
  /\ UNCHANGED <<amount, stock>>

Next == Offer \/ Adjust \/ Cancel \/ Commit \/ Report

Spec == Init /\ [][Next]_vars
=============================================================================
